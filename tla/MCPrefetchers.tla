---------------------------- MODULE MCPrefetchers ----------------------------
(***************************************************************************)
(* Small instances of the prefetchers.  The trace of a prefetcher is a     *)
(* cycle of choices: the plain GHB may be given any access, the others a   *)
(* stride that breaks at the end of the cycle.                             *)
(***************************************************************************)
EXTENDS Prefetchers

MCOffsets == <<1, 2, 3>>
MCRrSlot == [line \in 0 .. 15 |-> ((line % 2) + ((line \div 2) % 2)) % 2]

Pc(index, tag) == [index |-> index, tag |-> tag]
At(pc, line) == {[pc |-> pc, line |-> line]}

MCTrace ==
    [ghb_pccs     |-> <<At(Pc(0, 0), 0) \cup At(Pc(0, 0), 1) \cup At(Pc(1, 0), 0) \cup At(Pc(0, 1), 1)>>,
     ghb_adaptive |-> <<At(Pc(0, 0), 0), At(Pc(0, 0), 1), At(Pc(0, 0), 2), At(Pc(0, 0), 3)>>,
     abop         |-> <<UNION {At(Pc(0, 0), line) : line \in {5, 6}}>>,
     hybrid       |-> <<At(Pc(0, 0), 8), At(Pc(0, 0), 9), At(Pc(0, 0), 10), At(Pc(1, 0), 4)>>]

MCFills == [ghb_pccs |-> {}, ghb_adaptive |-> {}, abop |-> {3, 4, 6}, hybrid |-> {}]
=============================================================================
