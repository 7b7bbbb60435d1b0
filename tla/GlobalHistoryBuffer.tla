------------------------- MODULE GlobalHistoryBuffer -------------------------
(***************************************************************************)
(* lab4: the GHB PC/CS prefetcher (ghb_pccs.cc, and hybrid/ghb.cc, which   *)
(* differs in who issues).  g = [it, slot, head] is the index table, the   *)
(* circular buffer and the head counter, whose values are the pointers; e  *)
(* is the state of the epochs that adapt the degree.  A program counter is *)
(* an index into the table and a tag; Null is INVALID_PTR.                 *)
(***************************************************************************)
EXTENDS Integers, Sequences, FiniteSets

CONSTANTS
    Indexes,         \* the entries of the index table
    Tags,            \* the tags of program counters
    GhbSize,         \* GHB_SZ
    PtrRange,        \* 2^GHB_PTR_BITS
    HistoryLength,   \* HISTORY_LENGTH
    Distance,        \* PREFETCH_DISTANCE
    MinDegree,       \* MIN_DEGREE
    MaxDegree,       \* MAX_DEGREE
    EpochLength,     \* EPOCH_LENGTH
    StatRange        \* the range of the counters of the cache, 2^64 in the code

ASSUME GhbAssumption ==
    /\ Tags # {} /\ GhbSize \in Nat \ {0} /\ PtrRange \in Nat /\ PtrRange > GhbSize
    /\ PtrRange % GhbSize = 0
    /\ HistoryLength = 2 /\ Distance \in Nat
    /\ MinDegree \in Nat \ {0} /\ MaxDegree \in Nat /\ MinDegree <= MaxDegree
    /\ EpochLength \in Nat \ {0} /\ StatRange \in Nat \ {0}

Null == PtrRange
Pointers == 0 .. PtrRange

GhbStart ==
    [it   |-> [i \in Indexes |-> [ptr |-> Null, tag |-> CHOOSE t \in Tags : TRUE, valid |-> FALSE]],
     slot |-> [k \in 0 .. GhbSize - 1 |->
                  [block |-> 0, ptr |-> Null, prev |-> Null, tag |-> CHOOSE t \in Tags : TRUE]],
     head |-> 0]

\* Mutation of PointerValid: a pointer to the oldest entry is refused.
PointerValidOneLess(g, ptr, tag) ==
    LET entry == g.slot[ptr % GhbSize]
    IN  /\ ptr # Null
        /\ (g.head - ptr) % PtrRange < GhbSize
        /\ entry.ptr = ptr
        /\ entry.tag = tag

\* A pointer is good if its entry is still in the buffer and belongs to the tag.
PointerValid(g, ptr, tag) ==
    LET entry == g.slot[ptr % GhbSize]
    IN  /\ ptr # Null
        /\ (g.head - ptr) % PtrRange <= GhbSize
        /\ entry.ptr = ptr
        /\ entry.tag = tag

Sanitized(g, ptr, tag) == IF PointerValid(g, ptr, tag) THEN ptr ELSE Null

\* The newest entry of a program counter, as the index table has it.
Newest(g, pc) ==
    IF g.it[pc.index].valid /\ g.it[pc.index].tag = pc.tag
    THEN Sanitized(g, g.it[pc.index].ptr, pc.tag)
    ELSE Null

\* The blocks found along the links of a program counter, the newest first.
Walk(g, pc) ==
    LET walk[n \in 0 .. HistoryLength] ==
            IF n = 0 THEN [history |-> <<>>, walker |-> Newest(g, pc)]
            ELSE LET w == walk[n - 1]
                     entry == g.slot[w.walker % GhbSize]
                 IN  IF PointerValid(g, w.walker, pc.tag)
                     THEN [history |-> Append(w.history, entry.block),
                           walker  |-> Sanitized(g, entry.prev, pc.tag)]
                     ELSE w
    IN  walk[HistoryLength].history

\* The blocks to fetch: from Distance strides ahead on, if the last two strides
\* are the same and not 0, up to the first one below address 0.
GhbBlocks(g, pc, block, degree) ==
    LET history == Walk(g, pc)
        stride == block - history[1]
        Ahead(i) == block + stride * (Distance + i - 1)
        n == Cardinality({i \in 1 .. degree : \A j \in 1 .. i : Ahead(j) >= 0})
    IN  IF Len(history) = 2 /\ stride = history[1] - history[2] /\ stride # 0
        THEN [i \in 1 .. n |-> Ahead(i)]
        ELSE <<>>

\* The access takes the slot of the head and is linked to the one before it.
Recorded(g, pc, block) ==
    [it   |-> [g.it EXCEPT ![pc.index] = [ptr |-> g.head, tag |-> pc.tag, valid |-> TRUE]],
     slot |-> [g.slot EXCEPT ![g.head % GhbSize] =
                  [block |-> block, ptr |-> g.head, prev |-> Newest(g, pc), tag |-> pc.tag]],
     head |-> (g.head + 1) % PtrRange]

-----------------------------------------------------------------------------

EpochStart == [cycles |-> 0, degree |-> MaxDegree, lastIssued |-> 0, lastUseful |-> 0]

\* By how much the degree changes: the bandwidth in use and the accuracy have three
\* classes each.
Adjustment(bandwidth, issued, useful) ==
    (CASE bandwidth = "high" -> 0 [] bandwidth = "mid" -> 1 [] bandwidth = "low" -> 2)
      - (CASE 10 * useful >= 9 * issued -> 0
           [] 10 * useful < 9 * issued /\ 2 * useful >= issued -> 1
           [] 2 * useful < issued -> 2)

Clamped(degree) ==
    CASE degree > MaxDegree -> MaxDegree
      [] degree < MinDegree -> MinDegree
      [] OTHER -> degree

\* Mutation of EpochSampled: an epoch without a prefetch returns before it has stored
\* the counters.
EpochSampledLate(e, stats, bandwidth) ==
    LET issued == (stats.issued - e.lastIssued) % StatRange
        useful == (stats.useful - e.lastUseful) % StatRange
    IN  IF issued = 0 THEN [e EXCEPT !.cycles = EpochLength]
        ELSE [e EXCEPT !.cycles = 0, !.lastIssued = stats.issued, !.lastUseful = stats.useful,
                       !.degree = Clamped(@ + Adjustment(bandwidth, issued, useful))]

\* prefetcher_cycle_operate.  The counters of the cache are 64 bits wide, and so is
\* their difference.  An epoch without a prefetch is not ended: the next cycle
\* samples again.
EpochSampled(e, stats, bandwidth) ==
    LET issued == (stats.issued - e.lastIssued) % StatRange
        useful == (stats.useful - e.lastUseful) % StatRange
        sampled == [e EXCEPT !.lastIssued = stats.issued, !.lastUseful = stats.useful]
    IN  IF issued = 0 THEN [sampled EXCEPT !.cycles = EpochLength]
        ELSE [sampled EXCEPT !.cycles = 0,
                             !.degree = Clamped(@ + Adjustment(bandwidth, issued, useful))]

EpochEnds(e) == e.cycles + 1 >= EpochLength

EpochCycle(e, stats, bandwidth) ==
    IF EpochEnds(e) THEN EpochSampled(e, stats, bandwidth)
    ELSE [e EXCEPT !.cycles = @ + 1]
=============================================================================
