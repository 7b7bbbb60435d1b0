--------------------------- MODULE MCChampSimCache ---------------------------
EXTENDS ChampSimCache

ByKind(l1d, l2c) == [k \in Kinds |-> IF k = "L1D" THEN l1d ELSE l2c]

MCUppersOf == ByKind(1, 2)
MCMshrSize == ByKind(2, 1)
MCMaxRequests == ByKind(3, 3)

\* Two blocks of one page; two addresses of block 0 where writes are
\* distinguished by them.
MCAddresses == ByKind({0, 1, 2}, {0, 2})
=============================================================================
