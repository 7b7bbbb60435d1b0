-------------------------- MODULE PrefetchersProofs --------------------------
(***************************************************************************)
(* Proofs about Prefetchers for every trace, table size, pointer width,    *)
(* list of offsets and length of an epoch.                                 *)
(*                                                                         *)
(* The properties are not inductive as they stand.  That a walk finds its  *)
(* own history rests on what a pointer is worth: the pointer of the q-th   *)
(* newest access is good if and only if that access is still in the        *)
(* buffer, for every q up to PtrRange (PointersNameAccesses).  GhbInv says *)
(* that the index table and the links of the accesses that were not late   *)
(* hold only such pointers.  For the degree, CountInv ties the counters    *)
(* that the epoch sampled to those of the cache; for the shadow table,     *)
(* ShadowInv bounds its times, so that what an access has put in is later  *)
(* than what the clean-up removes.                                         *)
(***************************************************************************)
EXTENDS Prefetchers, FiniteSetTheorems, WellFoundedInduction, TLAPS

-----------------------------------------------------------------------------
(***************************************************************************)
(* Numbers and loops. Induction is over sets: to show P of every number up *)
(* to n, take the set of the numbers up to n that satisfy P.               *)
(***************************************************************************)
\* A set of numbers that is not empty has a least member.
LEMMA LeastNatural ==
  ASSUME NEW S \in SUBSET Nat, S # {}
  PROVE  \E n \in S : \A m \in S : n <= m
  <1> DEFINE R == {ss \in Nat \X Nat : ss[1] < ss[2]}
  <1>1. IsWellFoundedOn(R, Nat)
    BY NatLessThanWellFounded DEF OpToRel
  <1>2. PICK n \in S : \A m \in S : ~ (<<m, n>> \in R)
    <2> HIDE DEF R
    <2> QED
      BY <1>1, WFMin
  <1>3. \A m \in S : ~ (m < n)
    BY <1>2
  <1> QED
    BY <1>3

\* A loop from 0 to n: what holds before it and is kept by each turn holds
\* after every turn.
LEMMA LoopInduction ==
  ASSUME NEW n \in Nat, NEW S,
         0 \in S,
         \A i \in 0 .. n - 1 : i \in S => i + 1 \in S
  PROVE  0 .. n \subseteq S
  <1> DEFINE T == {i \in 0 .. n : i \notin S}
  <1> SUFFICES ASSUME T # {} PROVE FALSE
    OBVIOUS
  <1>1. T \in SUBSET Nat
    OBVIOUS
  <1>2. PICK k \in T : \A m \in T : k <= m
    <2> HIDE DEF T
    <2> QED
      BY <1>1, LeastNatural
  <1>3. k \in 1 .. n /\ k - 1 \in 0 .. n - 1 /\ k - 1 \in S
    BY <1>2
  <1> QED
    BY <1>2, <1>3

\* The values of a loop of n turns.
LoopRun(run, n, start, turn) ==
  /\ run[0] = start
  /\ \A i \in 1 .. n : run[i] = turn[i][run[i - 1]]

\* A loop of n turns on values in C has a run, of values in C.
LEMMA LoopRuns ==
  ASSUME NEW n \in Nat, NEW C, NEW start \in C, NEW turn \in [1 .. n -> [C -> C]]
  PROVE  \E run \in [0 .. n -> C] : LoopRun(run, n, start, turn)
  <1> USE DEF LoopRun
  <1> DEFINE Run(k, run) == run \in [0 .. k -> C] /\ LoopRun(run, k, start, turn)
             S == {k \in 0 .. n : \E run : Run(k, run)}
  <1>1. 0 \in S
    <2> DEFINE first == [i \in 0 .. 0 |-> start]
    <2>1. Run(0, first)
      OBVIOUS
    <2> HIDE DEF first
    <2> QED
      BY <2>1
  <1>2. ASSUME NEW k \in 0 .. n - 1, k \in S
        PROVE  k + 1 \in S
    <2>1. PICK old : Run(k, old)
      BY <1>2
    <2> DEFINE new == [i \in 0 .. k + 1 |->
                         IF i = k + 1 THEN turn[k + 1][old[k]] ELSE old[i]]
    <2>2. k + 1 \in 1 .. n /\ k \in 0 .. k /\ 0 \in 0 .. k
      OBVIOUS
    <2>3. turn[k + 1] \in [C -> C] /\ old[k] \in C
      BY <2>1, <2>2
    <2>4. turn[k + 1][old[k]] \in C
      BY <2>3
    <2>5. new \in [0 .. k + 1 -> C] /\ new[0] = start
      BY <2>1, <2>2, <2>4
    <2>6. \A i \in 1 .. k + 1 : new[i] = turn[i][new[i - 1]]
      <3> SUFFICES ASSUME NEW i \in 1 .. k + 1 PROVE new[i] = turn[i][new[i - 1]]
        OBVIOUS
      <3>1. i - 1 \in 0 .. k /\ new[i - 1] = old[i - 1]
        OBVIOUS
      <3>2. CASE i = k + 1
        BY <3>1, <3>2
      <3>3. CASE i # k + 1
        <4>1. i \in 1 .. k /\ i \in 0 .. k + 1 /\ new[i] = old[i]
          BY <3>3
        <4> QED
          BY <2>1, <3>1, <4>1
      <3> QED
        BY <3>2, <3>3
    <2> HIDE DEF new
    <2>7. Run(k + 1, new)
      BY <2>5, <2>6
    <2> QED
      BY <2>2, <2>7
  <1>3. n \in S
    <2> HIDE DEF S
    <2>1. 0 .. n \subseteq S
      BY <1>1, <1>2, LoopInduction
    <2> QED
      BY <2>1
  <1> QED
    BY <1>3

\* The same for turns that keep an invariant, which may differ from turn to turn,
\* and may leave C elsewhere.
LEMMA LoopKeeps ==
  ASSUME NEW n \in Nat, NEW C, NEW I \in [0 .. n -> SUBSET C], NEW start \in I[0], NEW turn,
         \A k \in 1 .. n : \A x \in I[k - 1] : turn[k][x] \in I[k]
  PROVE  \E run \in [0 .. n -> C] :
            /\ LoopRun(run, n, start, turn)
            /\ \A k \in 0 .. n : run[k] \in I[k]
  <1> DEFINE tame == [k \in 1 .. n |-> [x \in C |-> IF turn[k][x] \in C THEN turn[k][x] ELSE x]]
  <1>1. 0 \in 0 .. n /\ \A k \in 0 .. n : I[k] \subseteq C
    OBVIOUS
  <1>2. \A k \in 1 .. n : k - 1 \in 0 .. n /\ k \in 0 .. n
    OBVIOUS
  <1>3. tame \in [1 .. n -> [C -> C]]
    OBVIOUS
  <1>4. \A k \in 1 .. n : \A x \in I[k - 1] : tame[k][x] = turn[k][x]
    BY <1>1, <1>2
  <1> HIDE DEF tame
  <1>5. start \in C
    BY <1>1
  <1>6. PICK run \in [0 .. n -> C] : LoopRun(run, n, start, tame)
    BY <1>3, <1>5, LoopRuns
  <1> DEFINE S == {k \in 0 .. n : run[k] \in I[k]}
  <1>7. 0 \in S
    BY <1>1, <1>6 DEF LoopRun
  <1>8. ASSUME NEW k \in 0 .. n - 1, k \in S
        PROVE  k + 1 \in S
    <2>1. k + 1 \in 1 .. n /\ (k + 1) - 1 = k
      OBVIOUS
    <2>2. run[k + 1] = tame[k + 1][run[k]]
      BY <1>6, <2>1 DEF LoopRun
    <2>3. run[k] \in I[k]
      BY <1>8
    <2> QED
      BY <1>2, <1>4, <2>1, <2>2, <2>3
  <1>9. 0 .. n \subseteq S
    <2> HIDE DEF S
    <2> QED
      BY <1>7, <1>8, LoopInduction
  <1>10. LoopRun(run, n, start, turn)
    BY <1>2, <1>4, <1>6, <1>9 DEF LoopRun
  <1> QED
    BY <1>9, <1>10

\* Division with remainder.
LEMMA Quotient ==
  ASSUME NEW d \in Nat \ {0}, NEW a \in Nat
  PROVE  /\ a \div d \in Nat /\ a % d \in 0 .. d - 1
         /\ a = d * (a \div d) + (a % d)
  OBVIOUS

\* The remainder is determined by the division it belongs to.
LEMMA Remainder ==
  ASSUME NEW d \in Nat \ {0}, NEW k \in Int, NEW r \in 0 .. d - 1, NEW a \in Int,
         a = d * k + r
  PROVE  a % d = r
  <1> DEFINE q == a \div d  s == a % d
  <1>1. a = d * q + s /\ q \in Int /\ s \in 0 .. d - 1
    OBVIOUS
  <1> HIDE DEF q, s
  <1>2. d * (k - q) = s - r
    BY <1>1
  <1>3. k - q < 1
    <2> SUFFICES ASSUME k - q >= 1 PROVE FALSE
      BY <1>1
    <2>1. d * (k - q) >= d
      BY <1>1
    <2> QED
      BY <2>1, <1>1, <1>2
  <1>4. k - q > -1
    <2> SUFFICES ASSUME k - q <= -1 PROVE FALSE
      BY <1>1
    <2>1. d * (k - q) <= -d
      BY <1>1
    <2> QED
      BY <2>1, <1>1, <1>2
  <1>5. k - q = 0
    BY <1>1, <1>3, <1>4
  <1>6. s = r
    BY <1>1, <1>2, <1>5
  <1> QED
    BY <1>6 DEF s

-----------------------------------------------------------------------------
(***************************************************************************)
(* The invariant.                                                          *)
(***************************************************************************)
Pcs == [index : Indexes, tag : Tags]

GhbStates ==
    [it   : [Indexes -> [ptr : Pointers, tag : Tags, valid : BOOLEAN]],
     slot : [0 .. GhbSize - 1 -> [block : Nat, ptr : Pointers, prev : Pointers, tag : Tags]],
     head : 0 .. PtrRange - 1]

EpochStates ==
    [cycles : Nat, degree : MinDegree .. MaxDegree, lastIssued : 0 .. CountMax,
     lastUseful : 0 .. CountMax]

BopStates ==
    [rr : [0 .. RrSize - 1 -> Nat], scores : [DOMAIN Offsets -> Nat], best : [1 .. 3 -> Nat],
     enabled : BOOLEAN, rounds : Nat, accesses : 0 .. Len(Offsets) - 1]

Logged == [pc : Pcs, block : Nat, late : BOOLEAN]

Entries == [line : Nat, time : 0 .. ShadowMax, creator : {GHB, BOP, BOTH}]

TypeInv ==
    /\ kind \in Kinds
    /\ g \in GhbStates
    /\ epoch \in EpochStates
    /\ b \in BopStates
    /\ tournament \in 0 .. TournamentMax
    /\ stats \in [issued : 0 .. CountMax, useful : 0 .. CountMax]
    /\ since \in [issued : Nat, useful : Nat, phase : BOOLEAN]
    /\ pos \in 1 .. Len(Trace[kind])
    /\ log \in Seq(Logged) /\ Len(log) <= GhbSize
    /\ age \in [Indexes -> 0 .. PtrRange]

\* The pointer that the p-th newest access was given, and its entry in the buffer.
PointerOf(gg, p) == (gg.head - p) % PtrRange
EntryOf(gg, p) == gg.slot[(gg.head - p) % GhbSize]

\* The buffer holds the accesses of the log, and nothing else.
Buffered(gg, l) ==
    /\ \A p \in DOMAIN l : /\ EntryOf(gg, p).block = l[p].block
                           /\ EntryOf(gg, p).ptr = PointerOf(gg, p)
                           /\ EntryOf(gg, p).tag = l[p].pc.tag
    /\ \A p \in Len(l) + 1 .. GhbSize : EntryOf(gg, p).ptr = Null

\* The index table names the last access through each of its entries.
Indexed(gg, l, a) ==
    \A i \in Indexes :
        /\ \A p \in DOMAIN l : l[p].pc.index = i => a[i] < p
        /\ a[i] < PtrRange => gg.it[i].valid /\ gg.it[i].ptr = PointerOf(gg, a[i] + 1)
        /\ a[i] < Len(l) => l[a[i] + 1].pc = [index |-> i, tag |-> gg.it[i].tag]

\* From p to q, q itself left out, there is no other access through the index entry of p.
NoneBetween(l, p, q) ==
    \A r \in DOMAIN l : p < r /\ r < q => l[r].pc.index # l[p].pc.index

LinkedTo(gg, l, p, q) ==
    /\ EntryOf(gg, p).prev = PointerOf(gg, q)
    /\ NoneBetween(l, p, q)
    /\ q <= Len(l) => l[q].pc = l[p].pc

Unlinked(gg, l, p) ==
    /\ EntryOf(gg, p).prev = Null
    /\ \A q \in DOMAIN l : p < q /\ NoneBetween(l, p, q) => l[q].pc # l[p].pc

\* An access that was not late is linked to the one before it through the same index
\* entry, if that was in the buffer and is of the same program counter.
Linked(gg, l) ==
    \A p \in DOMAIN l : ~ l[p].late =>
        Unlinked(gg, l, p) \/ \E q \in p + 1 .. p + GhbSize : LinkedTo(gg, l, p, q)

GhbInv == Buffered(g, log) /\ Indexed(g, log, age) /\ Linked(g, log)

\* What was counted since the last sample is the difference of the counters.
CountInv ==
    ~ since.phase => /\ stats.issued = epoch.lastIssued + since.issued
                     /\ stats.useful = epoch.lastUseful + since.useful

ShadowInv ==
    /\ shadow \in SUBSET Entries /\ IsFiniteSet(shadow)
    /\ predicted \in [{GHB, BOP} -> SUBSET Nat]
    /\ PredictionsSurvive

IInv == TypeInv /\ GhbInv /\ CountInv /\ ScoresAreTests /\ ShadowInv

-----------------------------------------------------------------------------
(***************************************************************************)
(* Numbers.                                                                *)
(***************************************************************************)
\* A multiple of d more does not change the remainder.
LEMMA SameRemainder ==
  ASSUME NEW d \in Nat \ {0}, NEW a \in Int, NEW c \in Int, NEW k \in Int, a = c + d * k
  PROVE  a % d = c % d
  <1> DEFINE q == c \div d  r == c % d
  <1>1. c = d * q + r /\ q \in Int /\ r \in 0 .. d - 1
    OBVIOUS
  <1> HIDE DEF q, r
  <1>2. a = d * (q + k) + r /\ q + k \in Int
    BY <1>1
  <1>3. a % d = r
    BY <1>1, <1>2, Remainder
  <1> QED
    BY <1>3 DEF r

\* Two numbers with the same remainder that are less than d apart are the same.
LEMMA RemaindersDiffer ==
  ASSUME NEW d \in Nat \ {0}, NEW a \in Int, NEW c \in Int, a % d = c % d, a - c < d, c - a < d
  PROVE  a = c
  <1> DEFINE p == a \div d  q == c \div d  r == c % d
  <1>1. a = d * p + r /\ c = d * q + r /\ p \in Int /\ q \in Int /\ r \in Int
    OBVIOUS
  <1> HIDE DEF p, q, r
  <1>2. d * (p - q) < d /\ d * (q - p) < d
    BY <1>1
  <1>3. p - q < 1
    <2> SUFFICES ASSUME p - q >= 1 PROVE FALSE
      BY <1>1
    <2>1. d * (p - q) >= d
      BY <1>1
    <2> QED
      BY <2>1, <1>1, <1>2
  <1>4. q - p < 1
    <2> SUFFICES ASSUME q - p >= 1 PROVE FALSE
      BY <1>1
    <2>1. d * (q - p) >= d
      BY <1>1
    <2> QED
      BY <2>1, <1>1, <1>2
  <1> QED
    BY <1>1, <1>3, <1>4

\* A number below d is its own remainder.
LEMMA SmallRemainder ==
  ASSUME NEW d \in Nat \ {0}, NEW a \in 0 .. d - 1
  PROVE  a % d = a
  <1> DEFINE q == a \div d  r == a % d
  <1>1. a = d * q + r /\ q \in Int /\ r \in 0 .. d - 1
    OBVIOUS
  <1> HIDE DEF q, r
  <1>2. q < 1
    <2> SUFFICES ASSUME q >= 1 PROVE FALSE
      BY <1>1
    <2>1. d * q >= d
      BY <1>1
    <2> QED
      BY <1>1, <2>1
  <1>3. q > -1
    <2> SUFFICES ASSUME q <= -1 PROVE FALSE
      BY <1>1
    <2>1. d * q <= -d
      BY <1>1
    <2> QED
      BY <1>1, <2>1
  <1>4. q = 0
    BY <1>1, <1>2, <1>3
  <1>5. d * q = 0
    BY <1>4
  <1>6. r = a
    BY <1>1, <1>5
  <1> QED
    BY <1>6 DEF r

\* The remainder of a remainder is the one that was meant.
LEMMA RemainderShift ==
  ASSUME NEW d \in Nat \ {0}, NEW a \in Int, NEW c \in Int
  PROVE  ((a % d) - c) % d = (a - c) % d /\ ((a % d) + c) % d = (a + c) % d
  <1> DEFINE q == a \div d  r == a % d
  <1>1. a = d * q + r /\ q \in Int /\ r \in Int
    OBVIOUS
  <1> HIDE DEF q, r
  <1>2. a - c = (r - c) + d * q /\ a + c = (r + c) + d * q
    BY <1>1
  <1>3. \A x, y \in Int : x = y + d * q => x % d = y % d
    BY <1>1, SameRemainder
  <1>4. a - c \in Int /\ a + c \in Int /\ r - c \in Int /\ r + c \in Int
    BY <1>1
  <1>5. (a - c) % d = (r - c) % d
    BY <1>2, <1>3, <1>4
  <1>6. (a + c) % d = (r + c) % d
    BY <1>2, <1>3, <1>4
  <1> QED
    BY <1>5, <1>6 DEF r

-----------------------------------------------------------------------------
(***************************************************************************)
(* Pointers of the GHB: a slot is found from a pointer because the number  *)
(* of slots divides the number of pointers.                                *)
(***************************************************************************)
LEMMA TwoBuffers == GhbSize \in Nat \ {0} /\ PtrRange \in Nat \ {0} /\ 2 * GhbSize <= PtrRange
  <1> DEFINE k == PtrRange \div GhbSize
  <1>1. PtrRange = GhbSize * k /\ k \in Int
    BY GhbAssumption
  <1> HIDE DEF k
  <1>2. k >= 2
    <2> SUFFICES ASSUME k <= 1 PROVE FALSE
      BY <1>1
    <2>1. GhbSize * k <= GhbSize
      BY <1>1, GhbAssumption
    <2> QED
      BY <2>1, <1>1, GhbAssumption
  <1>3. GhbSize * k >= GhbSize * 2
    BY <1>1, <1>2, GhbAssumption
  <1> QED
    BY <1>1, <1>3, GhbAssumption

\* The slot of a pointer is the one its access took.
LEMMA SlotOfPointer ==
  ASSUME NEW head \in Int, NEW p \in Int
  PROVE  ((head - p) % PtrRange) % GhbSize = (head - p) % GhbSize
  <1> DEFINE a == head - p  k == PtrRange \div GhbSize  m == a \div PtrRange
             r == a % PtrRange
  <1>1. PtrRange = GhbSize * k /\ k \in Int
    BY GhbAssumption
  <1>2. a = PtrRange * m + r /\ m \in Int /\ r \in Int /\ a \in Int
    BY TwoBuffers
  <1> HIDE DEF a, k, m, r
  <1>3. a = r + GhbSize * (k * m) /\ k * m \in Int
    BY <1>1, <1>2, TwoBuffers
  <1>4. a % GhbSize = r % GhbSize
    BY <1>2, <1>3, TwoBuffers, SameRemainder
  <1> QED
    BY <1>4 DEF a, r

\* Different accesses of the buffer have different slots.
LEMMA SlotsDiffer ==
  ASSUME NEW head \in Int, NEW p \in 1 .. GhbSize, NEW q \in 1 .. GhbSize,
         (head - p) % GhbSize = (head - q) % GhbSize
  PROVE  p = q
  <1> DEFINE a == head - p  c == head - q
  <1>1. a \in Int /\ c \in Int /\ a - c < GhbSize /\ c - a < GhbSize
    BY TwoBuffers
  <1>2. a % GhbSize = c % GhbSize
    OBVIOUS
  <1> HIDE DEF a, c
  <1>3. a = c
    BY <1>1, <1>2, TwoBuffers, RemaindersDiffer
  <1> QED
    BY <1>3, TwoBuffers DEF a, c

\* Different accesses less than PtrRange ago have different pointers.
LEMMA PointersDiffer ==
  ASSUME NEW head \in Int, NEW p \in 1 .. PtrRange, NEW q \in 1 .. PtrRange,
         (head - p) % PtrRange = (head - q) % PtrRange
  PROVE  p = q
  <1> DEFINE a == head - p  c == head - q
  <1>1. a \in Int /\ c \in Int /\ a - c < PtrRange /\ c - a < PtrRange
    BY TwoBuffers
  <1>2. a % PtrRange = c % PtrRange
    OBVIOUS
  <1> HIDE DEF a, c
  <1>3. a = c
    BY <1>1, <1>2, TwoBuffers, RemaindersDiffer
  <1> QED
    BY <1>3, TwoBuffers DEF a, c

\* Every slot is the one of an access up to GhbSize ago.
LEMMA SlotIsOfAccess ==
  ASSUME NEW head \in Int, NEW q \in 1 .. PtrRange
  PROVE  \E p \in 1 .. GhbSize : (head - q) % GhbSize = (head - p) % GhbSize
  <1> DEFINE p == 1 + ((q - 1) % GhbSize)  k == (q - 1) \div GhbSize
  <1>1. q - 1 = GhbSize * k + (p - 1) /\ k \in Int /\ p \in 1 .. GhbSize
    BY TwoBuffers
  <1> HIDE DEF p, k
  <1> DEFINE a == head - p  c == head - q
  <1>2. a = c + GhbSize * k /\ a \in Int /\ c \in Int
    BY <1>1, TwoBuffers
  <1> HIDE DEF a, c
  <1>3. a % GhbSize = c % GhbSize
    BY <1>1, <1>2, TwoBuffers, SameRemainder
  <1> QED
    BY <1>1, <1>3 DEF a, c

\* pointer_valid: the pointer of an access less than PtrRange ago is good if and
\* only if the access is still in the buffer and of the tag (ghb_pccs.cc:178).
LEMMA PointersNameAccesses ==
  ASSUME NEW gg \in GhbStates, NEW l \in Seq(Logged), Len(l) <= GhbSize, Buffered(gg, l),
         NEW q \in 1 .. PtrRange, NEW tag
  PROVE  /\ PointerOf(gg, q) # Null /\ PointerOf(gg, q) \in Pointers
         /\ gg.slot[PointerOf(gg, q) % GhbSize] = EntryOf(gg, q)
         /\ PointerValid(gg, PointerOf(gg, q), tag) <=> q <= Len(l) /\ l[q].pc.tag = tag
  <1> DEFINE ptr == PointerOf(gg, q)
  <1>1. gg.head \in 0 .. PtrRange - 1 /\ gg.head \in Int
    BY TwoBuffers DEF GhbStates
  <1>2. ptr \in 0 .. PtrRange - 1 /\ ptr # Null /\ ptr \in Pointers
    BY <1>1, TwoBuffers DEF PointerOf, Null, Pointers
  <1>3. gg.slot[ptr % GhbSize] = EntryOf(gg, q)
    BY <1>1, SlotOfPointer DEF PointerOf, EntryOf
  <1>4. ASSUME q <= Len(l), l[q].pc.tag = tag
        PROVE  PointerValid(gg, ptr, tag)
    <2>1. q \in DOMAIN l /\ q <= GhbSize
      BY <1>4, TwoBuffers
    <2>2. EntryOf(gg, q).ptr = ptr /\ EntryOf(gg, q).tag = tag
      BY <1>4, <2>1 DEF Buffered
    <2>3. (gg.head - ptr) % PtrRange <= GhbSize
      <3> DEFINE a == gg.head - q  k == a \div PtrRange  c == gg.head - ptr
      <3>1. a \in Int /\ c \in Int
        BY <1>1, <1>2, TwoBuffers
      <3>2. a = PtrRange * k + (a % PtrRange) /\ k \in Int
        <4> HIDE DEF a
        <4> QED
          BY <3>1, TwoBuffers
      <3>3. ptr = a % PtrRange /\ a = gg.head - q /\ c = gg.head - ptr
        BY DEF PointerOf
      <3> HIDE DEF k, a, ptr, c
      <3>4. c = PtrRange * k + q /\ q \in 0 .. PtrRange - 1
        <4> DEFINE m == PtrRange * k
        <4>1. m \in Int /\ a = m + ptr
          BY <3>2, <3>3, TwoBuffers
        <4> HIDE DEF m
        <4>2. c = m + q
          BY <1>1, <1>2, <3>3, <4>1
        <4>3. q \in 0 .. PtrRange - 1
          BY <2>1, TwoBuffers
        <4> QED
          BY <4>2, <4>3 DEF m
      <3>5. c % PtrRange = q
        BY <3>1, <3>2, <3>4, TwoBuffers, Remainder
      <3> QED
        BY <2>1, <3>5 DEF c
    <2> QED
      BY <1>2, <1>3, <2>2, <2>3 DEF PointerValid
  <1>5. ASSUME PointerValid(gg, ptr, tag)
        PROVE  q <= Len(l) /\ l[q].pc.tag = tag
    <2>1. PICK p \in 1 .. GhbSize : (gg.head - q) % GhbSize = (gg.head - p) % GhbSize
      BY <1>1, SlotIsOfAccess
    <2>2. EntryOf(gg, p) = EntryOf(gg, q)
      BY <2>1 DEF EntryOf
    <2>3. EntryOf(gg, p).ptr = ptr /\ EntryOf(gg, p).tag = tag
      BY <1>3, <1>5, <2>2 DEF PointerValid
    <2>4. p \in DOMAIN l
      <3> SUFFICES ASSUME p \notin DOMAIN l PROVE FALSE
        OBVIOUS
      <3>1. p \in Len(l) + 1 .. GhbSize
        BY <2>1
      <3>2. EntryOf(gg, p).ptr = Null
        BY <3>1 DEF Buffered
      <3> QED
        BY <1>2, <2>3, <3>2
    <2>5. PointerOf(gg, p) = ptr /\ l[p].pc.tag = tag
      BY <2>3, <2>4 DEF Buffered
    <2>6. p = q
      <3>1. p \in 1 .. PtrRange
        BY <2>1, TwoBuffers
      <3>2. (gg.head - p) % PtrRange = (gg.head - q) % PtrRange
        BY <2>5 DEF PointerOf
      <3> QED
        BY <1>1, <3>1, <3>2, PointersDiffer
    <2> QED
      BY <2>4, <2>5, <2>6
  <1> QED
    BY <1>2, <1>3, <1>4, <1>5

-----------------------------------------------------------------------------
(***************************************************************************)
(* A walk.                                                                 *)
(***************************************************************************)
\* The loop takes an entry as long as the pointer to it is good.
WalkStep(gg, tag, w) ==
    IF PointerValid(gg, w.walker, tag)
    THEN [history |-> Append(w.history, gg.slot[w.walker % GhbSize].block),
          walker  |-> Sanitized(gg, gg.slot[w.walker % GhbSize].prev, tag)]
    ELSE w

WalkStart(gg, pc) == [history |-> <<>>, walker |-> Newest(gg, pc)]

\* Two turns, since HISTORY_LENGTH is 2.
LEMMA WalkIsTwoSteps ==
  ASSUME NEW gg, NEW pc
  PROVE  Walk(gg, pc) = WalkStep(gg, pc.tag, WalkStep(gg, pc.tag, WalkStart(gg, pc))).history
  <1> DEFINE one == WalkStep(gg, pc.tag, WalkStart(gg, pc))
             two == WalkStep(gg, pc.tag, one)
             Body(w) == [n \in 0 .. HistoryLength |->
                           IF n = 0 THEN WalkStart(gg, pc) ELSE WalkStep(gg, pc.tag, w[n - 1])]
             run == [n \in 0 .. HistoryLength |->
                       IF n = 0 THEN WalkStart(gg, pc) ELSE IF n = 1 THEN one ELSE two]
             walk == CHOOSE w : w = Body(w)
  <1>1. HistoryLength = 2
    BY GhbAssumption
  <1>2. run = Body(run)
    <2> SUFFICES ASSUME NEW n \in 0 .. 2
                 PROVE  run[n] = IF n = 0 THEN WalkStart(gg, pc) ELSE WalkStep(gg, pc.tag, run[n - 1])
      BY <1>1
    <2>1. CASE n = 0
      BY <1>1, <2>1
    <2>2. CASE n = 1
      BY <1>1, <2>2
    <2>3. CASE n = 2
      BY <1>1, <2>3
    <2> QED
      BY <2>1, <2>2, <2>3
  <1>3. Walk(gg, pc) = walk[HistoryLength].history
    BY DEF Walk, WalkStep, WalkStart
  <1>4. walk = Body(walk)
    <2> HIDE DEF Body, run
    <2> QED
      BY <1>2
  <1> HIDE DEF walk
  <1>5. walk[0] = WalkStart(gg, pc)
    BY <1>1, <1>4
  <1>6. walk[1] = one
    BY <1>1, <1>4, <1>5
  <1>7. walk[2] = two
    BY <1>1, <1>4, <1>6
  <1> QED
    BY <1>1, <1>3, <1>7

\* What the index table has for a program counter: the pointer of its last access if
\* that is in the buffer.
LEMMA NewestIsLastAccess ==
  ASSUME NEW gg \in GhbStates, NEW l \in Seq(Logged), Len(l) <= GhbSize,
         NEW a \in [Indexes -> 0 .. PtrRange],
         Buffered(gg, l), Indexed(gg, l, a),
         NEW pc \in Pcs, a[pc.index] < PtrRange
  PROVE  LET p == a[pc.index] + 1
         IN  Newest(gg, pc) = IF p <= Len(l) /\ l[p].pc = pc THEN PointerOf(gg, p) ELSE Null
  <1> DEFINE i == pc.index  p == a[i] + 1
  <1>1. i \in Indexes /\ a[i] \in 0 .. PtrRange /\ p \in 1 .. PtrRange
    BY TwoBuffers DEF Pcs
  <1>2. gg.it[i].valid /\ gg.it[i].ptr = PointerOf(gg, p)
    BY <1>1 DEF Indexed
  <1>3. p <= Len(l) => l[p].pc = [index |-> i, tag |-> gg.it[i].tag]
    <2>1. a[i] < Len(l) => l[a[i] + 1].pc = [index |-> i, tag |-> gg.it[i].tag]
      BY <1>1 DEF Indexed
    <2> QED
      BY <1>1, <2>1, Len(l) \in Nat
  <1>4. pc = [index |-> i, tag |-> pc.tag]
    BY DEF Pcs
  <1>5. Newest(gg, pc) = IF gg.it[i].tag = pc.tag /\ PointerValid(gg, PointerOf(gg, p), pc.tag)
                         THEN PointerOf(gg, p) ELSE Null
    BY <1>2 DEF Newest, Sanitized
  <1> SUFFICES Newest(gg, pc) = IF p <= Len(l) /\ l[p].pc = pc THEN PointerOf(gg, p) ELSE Null
    OBVIOUS
  <1> HIDE DEF p
  <1>6. PointerValid(gg, PointerOf(gg, p), pc.tag) <=> p <= Len(l) /\ l[p].pc.tag = pc.tag
    BY <1>1, PointersNameAccesses
  <1>7. p <= Len(l) => (l[p].pc = pc <=> gg.it[i].tag = pc.tag)
    BY <1>3, <1>4
  <1>8. p <= Len(l) => l[p].pc.tag = gg.it[i].tag
    BY <1>3
  <1> QED
    BY <1>5, <1>6, <1>7, <1>8

\* Sets of two and of three members.
LEMMA TwoMembers ==
  ASSUME NEW x, NEW y, x # y
  PROVE  IsFiniteSet({x, y}) /\ Cardinality({x, y}) = 2
  <1>1. IsFiniteSet({x}) /\ Cardinality({x}) = 1
    BY FS_Singleton
  <1>2. IsFiniteSet({x} \cup {y}) /\ Cardinality({x} \cup {y}) = 2
    BY <1>1, FS_AddElement
  <1>3. {x, y} = {x} \cup {y}
    OBVIOUS
  <1> QED
    BY <1>2, <1>3

LEMMA ThreeMembers ==
  ASSUME NEW x, NEW y, NEW z, x # y, x # z, y # z
  PROVE  IsFiniteSet({x, y, z}) /\ Cardinality({x, y, z}) = 3
  <1> DEFINE S == {x, y}
  <1>1. IsFiniteSet(S) /\ Cardinality(S) = 2
    BY TwoMembers
  <1>2. z \notin S /\ {x, y, z} = S \cup {z}
    OBVIOUS
  <1> HIDE DEF S
  <1>3. IsFiniteSet(S \cup {z}) /\ Cardinality(S \cup {z}) = 3
    BY <1>1, <1>2, FS_AddElement
  <1> QED
    BY <1>2, <1>3

\* The invariant says of a walk what the property asks: the links of an entry that was
\* not late lead to the accesses through the same index entry, one by one.
LEMMA WalksOwnHistory ==
  ASSUME TypeInv, GhbInv
  PROVE  WalkIsOwnHistory
  <1> SUFFICES ASSUME NEW i \in Indexes, NEW tag \in Tags, age[i] < PtrRange,
                      \A p \in OwnHistory(i, tag) : ~ log[p].late
               PROVE  LET own == OwnHistory(i, tag)
                          walk == Walk(g, [index |-> i, tag |-> tag])
                      IN  /\ Len(walk) = Cardinality(own)
                          /\ \A p \in own : walk[Cardinality(Uses(i, p))] = log[p].block
    BY DEF WalkIsOwnHistory
  <1> DEFINE pc == [index |-> i, tag |-> tag]
             own == OwnHistory(i, tag)
             p1 == age[i] + 1
             first == WalkStart(g, pc)
             second == WalkStep(g, tag, first)
             third == WalkStep(g, tag, second)
  <1>1. /\ pc \in Pcs /\ pc.index = i /\ pc.tag = tag
        /\ g \in GhbStates /\ log \in Seq(Logged) /\ Len(log) <= GhbSize /\ Len(log) \in Nat
        /\ DOMAIN log = 1 .. Len(log)
        /\ age \in [Indexes -> 0 .. PtrRange] /\ HistoryLength = 2
        /\ Buffered(g, log) /\ Indexed(g, log, age) /\ Linked(g, log)
    BY GhbAssumption DEF TypeInv, GhbInv, Pcs
  <1>2. /\ p1 \in 1 .. PtrRange
        /\ \A p \in DOMAIN log : log[p].pc.index = i => p1 <= p
        /\ p1 <= Len(log) => log[p1].pc = [index |-> i, tag |-> g.it[i].tag]
    <2>1. age[i] \in 0 .. PtrRange
      BY <1>1
    <2>2. \A p \in DOMAIN log : log[p].pc.index = i => age[i] < p
      BY <1>1 DEF Indexed
    <2>3. age[i] < Len(log) => log[age[i] + 1].pc = [index |-> i, tag |-> g.it[i].tag]
      BY <1>1 DEF Indexed
    <2> QED
      BY <1>1, <2>1, <2>2, <2>3, TwoBuffers
  <1>3. Newest(g, pc) = IF p1 <= Len(log) /\ log[p1].pc = pc THEN PointerOf(g, p1) ELSE Null
    BY <1>1, NewestIsLastAccess
  <1>4. Walk(g, pc) = third.history
    BY <1>1, WalkIsTwoSteps
  <1>5. ~ PointerValid(g, Null, tag) /\ Sanitized(g, Null, tag) = Null
    BY DEF PointerValid, Sanitized
  <1>6. /\ \A p \in 1 .. Len(log) : IsFiniteSet(Uses(i, p)) /\ Uses(i, p) \subseteq 1 .. p
        /\ own \subseteq 1 .. Len(log)
    <2> SUFFICES ASSUME NEW p \in 1 .. Len(log)
                 PROVE  IsFiniteSet(Uses(i, p)) /\ Uses(i, p) \subseteq 1 .. p
      BY DEF OwnHistory, Uses
    <2>1. IsFiniteSet(1 .. p) /\ Uses(i, p) \subseteq 1 .. p
      BY FS_Interval DEF Uses
    <2> QED
      BY <2>1, FS_Subset
  <1>7. \A p \in own : /\ p \in 1 .. Len(log) /\ log[p].pc.index = i /\ p1 <= p
                       /\ Cardinality(Uses(i, p)) <= 2
                       /\ \A q \in Uses(i, p) : log[q].pc.tag = tag
    BY <1>1, <1>2, <1>6 DEF OwnHistory, Uses
  <1>10. \A p \in 1 .. Len(log) : \A q : q \in Uses(i, p) <=> q \in 1 .. p /\ log[q].pc.index = i
    BY DEF Uses
  <1>11. \A p \in 1 .. Len(log) :
          /\ log[p].pc.index = i /\ Cardinality(Uses(i, p)) <= 2
          /\ \A q \in Uses(i, p) : log[q].pc.tag = tag
          => p \in own
    BY <1>1 DEF OwnHistory, Uses
  <1>12. p1 \in Nat /\ Len(log) \in Nat
    BY <1>1, <1>2, TwoBuffers
  <1>13. \A p \in own : ~ log[p].late
    OBVIOUS
  <1> SUFFICES /\ Len(Walk(g, pc)) = Cardinality(own)
               /\ \A p \in own : Walk(g, pc)[Cardinality(Uses(i, p))] = log[p].block
    OBVIOUS
  <1> HIDE DEF p1, own
  <1>8. CASE ~ (p1 <= Len(log) /\ log[p1].pc = pc)
    <2>1. first = [history |-> <<>>, walker |-> Null]
      BY <1>3, <1>8 DEF WalkStart
    <2>2. third = first
      <3>1. second = first
        BY <1>5, <2>1 DEF WalkStep
      <3> HIDE DEF first, second
      <3> QED
        BY <1>5, <2>1, <3>1 DEF WalkStep
    <2>3. Walk(g, pc) = <<>>
      <3> HIDE DEF first, third
      <3>1. third.history = <<>>
        BY <2>1, <2>2
      <3> QED
        BY <1>4, <3>1
    <2>4. own = {}
      <3> SUFFICES ASSUME NEW p \in own PROVE FALSE
        OBVIOUS
      <3>1. p1 \in 1 .. Len(log) /\ p1 \in Uses(i, p)
        BY <1>2, <1>7, <1>10, <1>12
      <3>2. log[p1].pc = pc
        BY <1>2, <1>7, <3>1
      <3> QED
        BY <1>8, <3>1, <3>2
    <2> QED
      BY <2>3, <2>4, FS_EmptySet
  <1>9. CASE p1 <= Len(log) /\ log[p1].pc = pc
    <2>1. p1 \in 1 .. Len(log) /\ log[p1].pc.index = i /\ log[p1].pc.tag = tag
      BY <1>2, <1>9
    <2>2. Uses(i, p1) = {p1}
      BY <1>1, <1>2, <1>12, <1>10, <2>1
    <2>3. Cardinality(Uses(i, p1)) = 1
      BY <2>2, FS_Singleton
    <2>4. p1 \in own
      <3>1. \A q \in Uses(i, p1) : log[q].pc.tag = tag
        BY <2>1, <2>2
      <3>2. Cardinality(Uses(i, p1)) <= 2
        BY <2>3
      <3> QED
        BY <1>11, <2>1, <3>1, <3>2
    <2>5. ~ log[p1].late
      BY <1>13, <2>4
    <2> DEFINE prev == EntryOf(g, p1).prev
    <2>6. second = [history |-> <<log[p1].block>>, walker |-> Sanitized(g, prev, tag)]
      <3>1. first = [history |-> <<>>, walker |-> PointerOf(g, p1)]
        BY <1>3, <1>9 DEF WalkStart
      <3>2. /\ PointerValid(g, PointerOf(g, p1), tag)
            /\ g.slot[PointerOf(g, p1) % GhbSize] = EntryOf(g, p1)
        <4>1. p1 \in 1 .. PtrRange /\ p1 <= Len(log)
          BY <1>2, <2>1
        <4> QED
          BY <1>1, <2>1, <4>1, PointersNameAccesses
      <3>3. EntryOf(g, p1).block = log[p1].block
        BY <1>1, <2>1 DEF Buffered
      <3> HIDE DEF first
      <3>4. second = [history |-> Append(<<>>, log[p1].block), walker |-> Sanitized(g, prev, tag)]
        BY <3>1, <3>2, <3>3 DEF WalkStep
      <3> QED
        BY <3>4
    <2> HIDE DEF second
    \* When the walk ends here there is one access of its own.
    <2>7. ASSUME Sanitized(g, prev, tag) = Null, \A p \in own : p = p1
          PROVE  /\ Len(Walk(g, pc)) = Cardinality(own)
                 /\ \A p \in own : Walk(g, pc)[Cardinality(Uses(i, p))] = log[p].block
      <3>1. third = second
        BY <1>5, <2>6, <2>7 DEF WalkStep
      <3>2. Walk(g, pc) = <<log[p1].block>>
        BY <1>4, <2>6, <3>1
      <3>3. own = {p1}
        BY <2>4, <2>7
      <3>4. Cardinality(own) = 1
        BY <3>3, FS_Singleton
      <3> QED
        BY <2>3, <2>7, <3>2, <3>4
    <2>8. CASE Unlinked(g, log, p1)
      <3>1. Sanitized(g, prev, tag) = Null
        BY <1>5, <2>8 DEF Unlinked
      <3>2. \A p \in own : p = p1
        <4> SUFFICES ASSUME NEW p \in own, p # p1 PROVE FALSE
          OBVIOUS
        <4> DEFINE S == {q \in Uses(i, p) : p1 < q}
        <4>1. p \in S /\ S \in SUBSET Nat
          <5>1. p \in Uses(i, p) /\ p1 < p /\ Uses(i, p) \subseteq 1 .. p
            BY <1>6, <1>7, <1>12, <1>10
          <5> QED
            BY <5>1
        <4>2. PICK q \in S : \A r \in S : q <= r
          <5> HIDE DEF S
          <5> QED
            BY <4>1, LeastNatural
        <4>3. q \in DOMAIN log /\ p1 < q /\ q <= p /\ log[q].pc.index = i /\ log[q].pc.tag = tag
          BY <1>1, <1>7, <1>10
        <4>4. NoneBetween(log, p1, q)
          <5>1. \A x \in DOMAIN log : p1 < x /\ x < q => x \notin Uses(i, p)
            BY <1>1, <1>7, <1>12, <4>2, <4>3
          <5>2. \A x \in DOMAIN log : x < q => x \in 1 .. p
            BY <1>1, <1>7, <4>3
          <5> QED
            BY <1>7, <1>10, <2>1, <5>1, <5>2 DEF NoneBetween
        <4>5. log[q].pc = pc
          <5>1. log[q].pc \in Pcs
            <6>1. log[q] \in Logged
              BY <1>1, <4>3
            <6> QED
              BY <6>1 DEF Logged
          <5> QED
            BY <4>3, <5>1 DEF Pcs
        <4> QED
          BY <1>9, <2>8, <4>3, <4>4, <4>5 DEF Unlinked
      <3> QED
        BY <2>7, <3>1, <3>2
    <2>9. ASSUME NEW q \in p1 + 1 .. p1 + GhbSize, LinkedTo(g, log, p1, q)
          PROVE  /\ Len(Walk(g, pc)) = Cardinality(own)
                 /\ \A p \in own : Walk(g, pc)[Cardinality(Uses(i, p))] = log[p].block
      <3>1. q \in 1 .. PtrRange /\ p1 < q
        BY <1>1, <1>2, <2>1, TwoBuffers
      <3>2. /\ prev = PointerOf(g, q) /\ NoneBetween(log, p1, q)
            /\ q <= Len(log) => log[q].pc = pc
        BY <1>9, <2>9 DEF LinkedTo
      <3>3. /\ PointerValid(g, prev, tag) <=> q <= Len(log) /\ log[q].pc.tag = tag
            /\ g.slot[prev % GhbSize] = EntryOf(g, q)
        <4>1. /\ PointerValid(g, PointerOf(g, q), tag) <=> q <= Len(log) /\ log[q].pc.tag = tag
              /\ g.slot[PointerOf(g, q) % GhbSize] = EntryOf(g, q)
          BY <1>1, <3>1, PointersNameAccesses
        <4> QED
          BY <3>2, <4>1
      <3>4. \A p \in own : p # p1 => q <= p
        BY <1>1, <1>7, <2>1, <3>2 DEF NoneBetween
      <3>5. CASE q > Len(log)
        <4>1. Sanitized(g, prev, tag) = Null
          BY <1>1, <3>1, <3>3, <3>5 DEF Sanitized
        <4>2. \A p \in own : p = p1
          BY <1>1, <1>7, <3>1, <3>4, <3>5
        <4> QED
          BY <2>7, <4>1, <4>2
      <3>6. CASE q <= Len(log)
        <4>1. log[q].pc = pc /\ q \in DOMAIN log /\ q \in 1 .. Len(log)
          BY <1>1, <3>1, <3>2, <3>6
        <4>2. Sanitized(g, prev, tag) = prev /\ PointerValid(g, prev, tag)
          BY <3>3, <3>6, <4>1 DEF Sanitized
        <4>3. /\ Len(third.history) = 2
              /\ third.history[1] = log[p1].block /\ third.history[2] = log[q].block
          <5>1. EntryOf(g, q).block = log[q].block
            BY <1>1, <4>1 DEF Buffered
          <5>2. PointerValid(g, second.walker, tag) /\ second.walker = prev
            BY <2>6, <4>2
          <5>3. g.slot[second.walker % GhbSize].block = log[q].block
            BY <3>3, <5>1, <5>2
          <5>4. second.history = <<log[p1].block>>
            BY <2>6
          <5>5. third.history = Append(second.history, log[q].block)
            BY <5>2, <5>3 DEF WalkStep
          <5>6. LET two == Append(<<log[p1].block>>, log[q].block)
                IN  Len(two) = 2 /\ two[1] = log[p1].block /\ two[2] = log[q].block
            <6>1. log[p1] \in Logged /\ log[q] \in Logged
              BY <1>1, <2>1, <4>1
            <6>2. log[p1].block \in Nat /\ log[q].block \in Nat
              BY <6>1 DEF Logged
            <6>3. \A x, y \in Nat : /\ Len(Append(<<x>>, y)) = 2
                                    /\ Append(<<x>>, y)[1] = x /\ Append(<<x>>, y)[2] = y
              OBVIOUS
            <6> QED
              BY <6>2, <6>3
          <5> HIDE DEF third
          <5> QED
            BY <5>4, <5>5, <5>6
        <4>4. Uses(i, q) = {p1, q}
          <5>1. \A r \in Uses(i, q) : r = p1 \/ r = q
            <6> SUFFICES ASSUME NEW r \in Uses(i, q) PROVE r = p1 \/ r = q
              OBVIOUS
            <6>1. r \in 1 .. q /\ log[r].pc.index = i /\ r \in DOMAIN log
              BY <1>1, <1>10, <4>1
            <6>2. p1 <= r
              BY <1>2, <6>1
            <6>3. ~ (p1 < r /\ r < q)
              BY <2>1, <3>2, <6>1 DEF NoneBetween
            <6> QED
              BY <1>12, <4>1, <6>1, <6>2, <6>3
          <5>2. p1 \in Uses(i, q) /\ q \in Uses(i, q)
            BY <1>12, <1>10, <2>1, <3>1, <4>1
          <5> QED
            BY <5>1, <5>2
        <4>5. Cardinality({p1, q}) = 2
          <5>1. q + 1 # p1 /\ q + 1 # q /\ p1 # q
            BY <1>2, <3>1
          <5> QED
            BY <5>1, TwoMembers, Zenon
        <4>6. q \in own
          <5>1. \A r \in Uses(i, q) : log[r].pc.tag = tag
            BY <2>1, <4>1, <4>4
          <5> QED
            <6>1. Cardinality(Uses(i, q)) <= 2
              BY <4>4, <4>5
            <6> QED
              BY <1>11, <4>1, <5>1, <6>1
        <4>7. \A p \in own : p = p1 \/ p = q
          <5> SUFFICES ASSUME NEW p \in own, p # p1, p # q PROVE FALSE
            OBVIOUS
          <5>1. {p1, q, p} \subseteq Uses(i, p)
            <6>1. p \in 1 .. Len(log) /\ log[p].pc.index = i /\ q <= p /\ p1 <= p
              BY <1>7, <3>4
            <6>2. p1 \in Uses(i, p) /\ q \in Uses(i, p) /\ p \in Uses(i, p)
              BY <1>1, <1>12, <1>10, <2>1, <4>1, <6>1
            <6> QED
              BY <6>2
          <5>2. Cardinality({p1, q, p}) = 3 /\ IsFiniteSet({p1, q, p})
            <6>1. p1 # q
              BY <1>12, <3>1
            <6>2. p1 # p /\ q # p
              OBVIOUS
            <6> QED
              BY <6>1, <6>2, ThreeMembers, Zenon
          <5>3. IsFiniteSet(Uses(i, p)) /\ Cardinality(Uses(i, p)) <= 2
            BY <1>6, <1>7
          <5>4. Cardinality({p1, q, p}) <= Cardinality(Uses(i, p))
            <6>1. {p1, q, p} \in SUBSET Uses(i, p)
              BY <5>1
            <6> QED
              BY <5>3, <6>1, FS_Subset, Zenon
          <5>5. Cardinality(Uses(i, p)) \in Nat
            BY <5>3, FS_CardinalityType
          <5> QED
            BY <5>2, <5>3, <5>4, <5>5
        <4>8. own = {p1, q}
          BY <2>4, <4>6, <4>7
        <4> QED
          <5>1. /\ Len(Walk(g, pc)) = 2
                /\ Walk(g, pc)[1] = log[p1].block /\ Walk(g, pc)[2] = log[q].block
            BY <1>4, <4>3
          <5>2. Cardinality(Uses(i, q)) = 2 /\ Cardinality(own) = 2
            BY <4>4, <4>5, <4>8
          <5> QED
            BY <2>3, <4>8, <5>1, <5>2
      <3> QED
        BY <1>1, <3>1, <3>5, <3>6
    <2> QED
      BY <1>1, <2>1, <2>5, <2>8, <2>9 DEF Linked
  <1> QED
    BY <1>8, <1>9

-----------------------------------------------------------------------------
(***************************************************************************)
(* Recording an access.                                                    *)
(***************************************************************************)
LoggedAccess(gg, a, pc, block) ==
    [pc |-> pc, block |-> block, late |-> gg.it[pc.index].valid /\ a[pc.index] = PtrRange]

NewLog(l, access) ==
    LET all == <<access>> \o l
    IN  IF Len(all) > GhbSize THEN Front(all) ELSE all

NewAges(a, pc) ==
    [i \in Indexes |-> IF i = pc.index THEN 0 ELSE IF a[i] < PtrRange THEN a[i] + 1 ELSE PtrRange]

\* The new log starts with the access, and the others move back by one place; if the
\* buffer was full the oldest is gone.
LEMMA NewLogShifts ==
  ASSUME NEW l \in Seq(Logged), Len(l) <= GhbSize, NEW access \in Logged
  PROVE  /\ NewLog(l, access) \in Seq(Logged)
         /\ Len(NewLog(l, access)) = IF Len(l) < GhbSize THEN Len(l) + 1 ELSE GhbSize
         /\ NewLog(l, access)[1] = access
         /\ \A p \in 2 .. Len(NewLog(l, access)) :
              p - 1 \in DOMAIN l /\ NewLog(l, access)[p] = l[p - 1]
  <1> DEFINE all == <<access>> \o l  n == Len(l)
  <1>1. n \in Nat /\ n <= GhbSize /\ GhbSize \in Nat \ {0}
    BY TwoBuffers
  <1>2. /\ all \in Seq(Logged) /\ Len(all) = n + 1 /\ all[1] = access
        /\ \A p \in 2 .. n + 1 : p - 1 \in DOMAIN l /\ all[p] = l[p - 1]
    OBVIOUS
  <1> HIDE DEF all
  <1>3. Front(all) = SubSeq(all, 1, n)
    BY <1>1, <1>2 DEF Front
  <1>4. /\ SubSeq(all, 1, n) \in Seq(Logged) /\ Len(SubSeq(all, 1, n)) = n
        /\ \A p \in 1 .. n : SubSeq(all, 1, n)[p] = all[p]
    BY <1>1, <1>2
  <1>5. NewLog(l, access) = IF n + 1 > GhbSize THEN SubSeq(all, 1, n) ELSE all
    BY <1>2, <1>3 DEF NewLog, all
  <1>6. CASE n < GhbSize
    BY <1>1, <1>2, <1>5, <1>6
  <1>7. CASE n = GhbSize
    <2>1. NewLog(l, access) = SubSeq(all, 1, n)
      BY <1>1, <1>5, <1>7
    <2>2. \A p \in 2 .. n : p \in 2 .. n + 1 /\ p \in 1 .. n
      BY <1>1
    <2> QED
      BY <1>1, <1>2, <1>4, <1>7, <2>1, <2>2
  <1> QED
    BY <1>1, <1>6, <1>7

\* The pointers and slots of the accesses do not change when a new one is counted.
LEMMA PointersStay ==
  ASSUME NEW gg \in GhbStates, NEW pc \in Pcs, NEW block \in Nat
  PROVE  LET new == Recorded(gg, pc, block)
         IN  /\ PointerOf(new, 1) = gg.head
             /\ \A p \in Int : PointerOf(new, p + 1) = PointerOf(gg, p)
             /\ EntryOf(new, 1) = [block |-> block, ptr |-> gg.head, prev |-> Newest(gg, pc),
                                   tag |-> pc.tag]
             /\ \A p \in 1 .. GhbSize - 1 : EntryOf(new, p + 1) = EntryOf(gg, p)
  <1> DEFINE new == Recorded(gg, pc, block)  h == gg.head
             entry == [block |-> block, ptr |-> h, prev |-> Newest(gg, pc), tag |-> pc.tag]
  <1>1. /\ new.head = (h + 1) % PtrRange /\ h \in 0 .. PtrRange - 1 /\ h \in Int
        /\ new.slot = [gg.slot EXCEPT ![h % GhbSize] = entry]
        /\ gg.slot \in [0 .. GhbSize - 1 ->
                          [block : Nat, ptr : Pointers, prev : Pointers, tag : Tags]]
    BY TwoBuffers DEF Recorded, GhbStates
  <1>2. h % GhbSize \in 0 .. GhbSize - 1
    BY <1>1, TwoBuffers
  <1> HIDE DEF new, h, entry
  <1>3. \A p \in Int : (new.head - (p + 1)) % PtrRange = (h - p) % PtrRange
    <2> SUFFICES ASSUME NEW p \in Int
                 PROVE  (new.head - (p + 1)) % PtrRange = (h - p) % PtrRange
      OBVIOUS
    <2> DEFINE a == h + 1  c == p + 1
    <2>1. a \in Int /\ c \in Int /\ a - c = h - p
      BY <1>1
    <2> HIDE DEF a, c
    <2>2. ((a % PtrRange) - c) % PtrRange = (a - c) % PtrRange
      BY <2>1, TwoBuffers, RemainderShift
    <2> QED
      BY <1>1, <2>1, <2>2 DEF a, c
  <1>4. \A p \in Int : PointerOf(new, p + 1) = PointerOf(gg, p)
    BY <1>3 DEF PointerOf, h
  <1>5. h % PtrRange = h
    BY <1>1, TwoBuffers, SmallRemainder
  <1>6. PointerOf(new, 1) = h
    <2>1. 0 \in Int /\ 0 + 1 = 1 /\ h - 0 = h
      BY <1>1
    <2>2. (new.head - (0 + 1)) % PtrRange = (h - 0) % PtrRange
      BY <1>3
    <2> QED
      BY <1>5, <2>1, <2>2 DEF PointerOf
  <1>7. new.head \in Int
    BY <1>1, TwoBuffers
  <1>8. \A p \in Int : (new.head - (p + 1)) % GhbSize = (h - p) % GhbSize
    <2> SUFFICES ASSUME NEW p \in Int
                 PROVE  (new.head - (p + 1)) % GhbSize = (h - p) % GhbSize
      OBVIOUS
    <2> DEFINE c == p + 1
    <2>1. c \in Int /\ (new.head - c) % PtrRange = (h - p) % PtrRange
      BY <1>3
    <2> HIDE DEF c
    <2>2. ((new.head - c) % PtrRange) % GhbSize = (new.head - c) % GhbSize
      BY <1>7, <2>1, SlotOfPointer
    <2>3. ((h - p) % PtrRange) % GhbSize = (h - p) % GhbSize
      BY <1>1, SlotOfPointer
    <2> QED
      BY <2>1, <2>2, <2>3 DEF c
  <1>9. EntryOf(new, 1) = entry
    <2>1. 0 \in Int /\ 0 + 1 = 1 /\ h - 0 = h
      BY <1>1
    <2>2. (new.head - (0 + 1)) % GhbSize = (h - 0) % GhbSize
      BY <1>8
    <2>3. (new.head - 1) % GhbSize = h % GhbSize
      BY <2>1, <2>2
    <2>4. new.slot[h % GhbSize] = entry
      BY <1>1, <1>2
    <2> QED
      BY <2>3, <2>4 DEF EntryOf
  <1>10. ASSUME NEW p \in 1 .. GhbSize - 1
         PROVE  EntryOf(new, p + 1) = EntryOf(gg, p)
    <2>1. p \in Int
      OBVIOUS
    <2>2. (new.head - (p + 1)) % GhbSize = (h - p) % GhbSize
      BY <1>8, <2>1
    <2>3. (h - p) % GhbSize # h % GhbSize
      <3> SUFFICES ASSUME (h - p) % GhbSize = h % GhbSize PROVE FALSE
        OBVIOUS
      <3> DEFINE a == h - p
      <3>1. a \in Int /\ a - h < GhbSize /\ h - a < GhbSize /\ a # h /\ a % GhbSize = h % GhbSize
        BY <1>1, TwoBuffers
      <3> HIDE DEF a
      <3> QED
        BY <1>1, <3>1, TwoBuffers, RemaindersDiffer
    <2>4. (h - p) % GhbSize \in 0 .. GhbSize - 1
      BY <1>1, TwoBuffers
    <2>5. new.slot[(h - p) % GhbSize] = gg.slot[(h - p) % GhbSize]
      BY <1>1, <2>3, <2>4
    <2> QED
      BY <2>2, <2>5 DEF EntryOf, h
  <1> QED
    BY <1>4, <1>6, <1>9, <1>10 DEF new, entry, h

LEMMA NewestIsPointer ==
  ASSUME NEW gg \in GhbStates, NEW pc \in Pcs
  PROVE  Newest(gg, pc) \in Pointers
  <1>1. gg.it[pc.index].ptr \in Pointers /\ Null \in Pointers
    BY TwoBuffers DEF GhbStates, Pcs, Null, Pointers
  <1> QED
    BY <1>1 DEF Newest, Sanitized

\* Recording an access keeps what the buffer, the index table and the links say of
\* the log (ghb_pccs.cc:92-104).
LEMMA RecordedKeeps ==
  ASSUME NEW gg \in GhbStates, NEW l \in Seq(Logged), Len(l) <= GhbSize,
         NEW a \in [Indexes -> 0 .. PtrRange],
         Buffered(gg, l), Indexed(gg, l, a), Linked(gg, l),
         NEW pc \in Pcs, NEW block \in Nat
  PROVE  LET new == Recorded(gg, pc, block)
             nl == NewLog(l, LoggedAccess(gg, a, pc, block))
             na == NewAges(a, pc)
         IN  /\ new \in GhbStates
             /\ nl \in Seq(Logged) /\ Len(nl) <= GhbSize
             /\ na \in [Indexes -> 0 .. PtrRange]
             /\ Buffered(new, nl) /\ Indexed(new, nl, na) /\ Linked(new, nl)
  <1> DEFINE new == Recorded(gg, pc, block)
             access == LoggedAccess(gg, a, pc, block)
             nl == NewLog(l, access)
             na == NewAges(a, pc)
             entry == [block |-> block, ptr |-> gg.head, prev |-> Newest(gg, pc), tag |-> pc.tag]
  <1>1. /\ access \in Logged /\ access.pc = pc /\ access.block = block
        /\ access.late <=> gg.it[pc.index].valid /\ a[pc.index] = PtrRange
        /\ pc = [index |-> pc.index, tag |-> pc.tag] /\ pc.index \in Indexes /\ pc.tag \in Tags
    BY DEF LoggedAccess, Logged, Pcs
  <1>2. /\ nl \in Seq(Logged) /\ Len(nl) = IF Len(l) < GhbSize THEN Len(l) + 1 ELSE GhbSize
        /\ nl[1] = access
        /\ \A p \in 2 .. Len(nl) : p - 1 \in DOMAIN l /\ nl[p] = l[p - 1]
    BY <1>1, NewLogShifts
  <1>3. /\ GhbSize \in Nat \ {0} /\ PtrRange \in Nat /\ PtrRange > GhbSize /\ Len(l) \in Nat
        /\ Len(nl) \in Nat /\ Len(nl) >= 1 /\ Len(nl) <= Len(l) + 1 /\ Len(nl) <= GhbSize
        /\ DOMAIN nl = 1 .. Len(nl) /\ DOMAIN l = 1 .. Len(l)
    BY <1>2, TwoBuffers
  <1>4. /\ PointerOf(new, 1) = gg.head
        /\ \A p \in Int : PointerOf(new, p + 1) = PointerOf(gg, p)
        /\ EntryOf(new, 1) = entry
        /\ \A p \in 1 .. GhbSize - 1 : EntryOf(new, p + 1) = EntryOf(gg, p)
    BY PointersStay
  \* The accesses that were there before.
  <1>5. \A p \in 2 .. Len(nl) : /\ p - 1 \in 1 .. GhbSize - 1 /\ p - 1 \in DOMAIN l
                                /\ nl[p] = l[p - 1]
                                /\ EntryOf(new, p) = EntryOf(gg, p - 1)
    <2> SUFFICES ASSUME NEW p \in 2 .. Len(nl)
                 PROVE  /\ p - 1 \in 1 .. GhbSize - 1
                        /\ EntryOf(new, p) = EntryOf(gg, p - 1)
      BY <1>2
    <2> DEFINE m == p - 1
    <2>1. m \in 1 .. GhbSize - 1 /\ m + 1 = p
      BY <1>3
    <2> HIDE DEF m
    <2>2. EntryOf(new, m + 1) = EntryOf(gg, m)
      BY <1>4, <2>1
    <2> QED
      BY <2>1, <2>2 DEF m
  <1>6. \A p \in Int : PointerOf(new, p) = PointerOf(gg, p - 1)
    <2> SUFFICES ASSUME NEW p \in Int PROVE PointerOf(new, p) = PointerOf(gg, p - 1)
      OBVIOUS
    <2> DEFINE m == p - 1
    <2>1. m \in Int /\ m + 1 = p
      OBVIOUS
    <2> HIDE DEF m
    <2>2. PointerOf(new, m + 1) = PointerOf(gg, m)
      BY <1>4, <2>1
    <2> QED
      BY <2>1, <2>2 DEF m
  <1>7. /\ new.it = [gg.it EXCEPT ![pc.index] = [ptr |-> gg.head, tag |-> pc.tag, valid |-> TRUE]]
        /\ gg.it \in [Indexes -> [ptr : Pointers, tag : Tags, valid : BOOLEAN]]
        /\ gg.head \in 0 .. PtrRange - 1
    BY DEF Recorded, GhbStates
  <1>8. Newest(gg, pc) \in Pointers
    BY NewestIsPointer
  <1>9. new \in GhbStates
    <2>1. new.head \in 0 .. PtrRange - 1 /\ gg.head \in Pointers
      BY <1>7, TwoBuffers DEF Recorded, Pointers
    <2>2. entry \in [block : Nat, ptr : Pointers, prev : Pointers, tag : Tags]
      BY <1>1, <1>8, <2>1
    <2>3. new.slot = [gg.slot EXCEPT ![gg.head % GhbSize] = entry]
      BY DEF Recorded
    <2>4. new.slot \in [0 .. GhbSize - 1 ->
                          [block : Nat, ptr : Pointers, prev : Pointers, tag : Tags]]
      BY <2>2, <2>3 DEF GhbStates
    <2>5. new.it \in [Indexes -> [ptr : Pointers, tag : Tags, valid : BOOLEAN]]
      BY <1>1, <1>7, <2>1
    <2>6. new = [it |-> new.it, slot |-> new.slot, head |-> new.head]
      BY DEF Recorded
    <2> QED
      BY <2>1, <2>4, <2>5, <2>6 DEF GhbStates
  <1>10. /\ na \in [Indexes -> 0 .. PtrRange] /\ na[pc.index] = 0
         /\ \A i \in Indexes : i # pc.index =>
              na[i] = IF a[i] < PtrRange THEN a[i] + 1 ELSE PtrRange
    BY <1>1, <1>3 DEF NewAges
  <1> HIDE DEF new, nl, na, access, entry
  <1>11. Buffered(new, nl)
    <2>1. ASSUME NEW p \in DOMAIN nl
          PROVE  /\ EntryOf(new, p).block = nl[p].block
                 /\ EntryOf(new, p).ptr = PointerOf(new, p)
                 /\ EntryOf(new, p).tag = nl[p].pc.tag
      <3>1. CASE p = 1
        BY <1>1, <1>2, <1>4, <3>1 DEF entry
      <3>2. CASE p # 1
        <4>1. p \in 2 .. Len(nl) /\ p \in Int
          BY <1>3, <2>1, <3>2
        <4>2. EntryOf(new, p) = EntryOf(gg, p - 1) /\ nl[p] = l[p - 1] /\ p - 1 \in DOMAIN l
          BY <1>5, <4>1
        <4>3. PointerOf(new, p) = PointerOf(gg, p - 1)
          BY <1>6, <4>1
        <4> QED
          BY <4>2, <4>3 DEF Buffered
      <3> QED
        BY <3>1, <3>2
    <2>2. ASSUME NEW p \in Len(nl) + 1 .. GhbSize
          PROVE  EntryOf(new, p).ptr = Null
      <3> DEFINE m == p - 1
      <3>1. m \in 1 .. GhbSize - 1 /\ m + 1 = p /\ m \in Len(l) + 1 .. GhbSize
        BY <1>2, <1>3
      <3> HIDE DEF m
      <3>2. EntryOf(new, m + 1) = EntryOf(gg, m)
        BY <1>4, <3>1
      <3> QED
        BY <3>1, <3>2 DEF Buffered
    <2> QED
      BY <2>1, <2>2 DEF Buffered
  \* What the table said before of an index entry that is not the one used.
  <1>12. \A i \in Indexes : /\ a[i] \in 0 .. PtrRange
                            /\ \A p \in DOMAIN l : l[p].pc.index = i => a[i] < p
                            /\ a[i] < PtrRange => gg.it[i].valid /\ gg.it[i].ptr = PointerOf(gg, a[i] + 1)
                            /\ a[i] < Len(l) => l[a[i] + 1].pc = [index |-> i, tag |-> gg.it[i].tag]
    BY DEF Indexed
  <1>13. Indexed(new, nl, na)
    <2> SUFFICES ASSUME NEW i \in Indexes
                 PROVE  /\ \A p \in DOMAIN nl : nl[p].pc.index = i => na[i] < p
                        /\ na[i] < PtrRange => new.it[i].valid /\ new.it[i].ptr = PointerOf(new, na[i] + 1)
                        /\ na[i] < Len(nl) => nl[na[i] + 1].pc = [index |-> i, tag |-> new.it[i].tag]
      BY DEF Indexed
    <2>1. CASE i = pc.index
      <3>1. new.it[i] = [ptr |-> gg.head, tag |-> pc.tag, valid |-> TRUE] /\ na[i] = 0
        BY <1>7, <1>10, <2>1
      <3>2. nl[1].pc = pc /\ PointerOf(new, 1) = gg.head
        BY <1>1, <1>2, <1>4
      <3> QED
        BY <1>1, <1>3, <2>1, <3>1, <3>2
    <2>2. CASE i # pc.index
      <3>1. /\ new.it[i] = gg.it[i]
            /\ na[i] = IF a[i] < PtrRange THEN a[i] + 1 ELSE PtrRange
        BY <1>7, <1>10, <2>2
      <3>2. a[i] \in 0 .. PtrRange
        BY <1>12
      <3>3. ASSUME NEW p \in DOMAIN nl, nl[p].pc.index = i
            PROVE  na[i] < p
        <4>1. p # 1
          BY <1>1, <1>2, <2>2, <3>3
        <4>2. p \in 2 .. Len(nl)
          BY <1>3, <3>3, <4>1
        <4>3. p - 1 \in DOMAIN l /\ l[p - 1].pc.index = i
          BY <1>5, <3>3, <4>2
        <4>4. a[i] < p - 1
          BY <1>12, <4>3
        <4> QED
          BY <1>3, <3>1, <3>2, <4>2, <4>4
      <3>4. ASSUME na[i] < PtrRange
            PROVE  new.it[i].valid /\ new.it[i].ptr = PointerOf(new, na[i] + 1)
        <4>1. a[i] < PtrRange /\ na[i] = a[i] + 1 /\ a[i] \in Int
          BY <1>3, <3>1, <3>2, <3>4
        <4>2. gg.it[i].valid /\ gg.it[i].ptr = PointerOf(gg, a[i] + 1)
          BY <1>12, <4>1
        <4>3. PointerOf(new, (a[i] + 1) + 1) = PointerOf(gg, a[i] + 1)
          BY <1>4, <4>1
        <4> QED
          BY <3>1, <4>1, <4>2, <4>3
      <3>5. ASSUME na[i] < Len(nl)
            PROVE  nl[na[i] + 1].pc = [index |-> i, tag |-> new.it[i].tag]
        <4> DEFINE p == na[i] + 1
        <4>1. na[i] = a[i] + 1 /\ p \in 2 .. Len(nl) /\ p - 1 = a[i] + 1
          BY <1>3, <3>1, <3>2, <3>5
        <4> HIDE DEF p
        <4>2. p - 1 \in DOMAIN l /\ nl[p] = l[p - 1]
          BY <1>5, <4>1
        <4>3. a[i] < Len(l)
          BY <1>3, <3>2, <4>1, <4>2
        <4>4. l[a[i] + 1].pc = [index |-> i, tag |-> gg.it[i].tag]
          BY <1>12, <4>3
        <4> QED
          BY <3>1, <4>1, <4>2, <4>4 DEF p
      <3> QED
        BY <3>3, <3>4, <3>5
    <2> QED
      BY <2>1, <2>2
  <1>14. Linked(new, nl)
    <2> SUFFICES ASSUME NEW p \in DOMAIN nl, ~ nl[p].late
                 PROVE  \/ Unlinked(new, nl, p)
                        \/ \E q \in p + 1 .. p + GhbSize : LinkedTo(new, nl, p, q)
      BY DEF Linked
    <2>1. CASE p = 1
      <3> DEFINE i == pc.index
      <3>1. EntryOf(new, p).prev = Newest(gg, pc) /\ nl[p].pc = pc /\ i \in Indexes
            /\ ~ (gg.it[i].valid /\ a[i] = PtrRange)
        BY <1>1, <1>2, <1>4, <2>1 DEF entry
      \* Where another access through the entry is found.
      <3>2. ASSUME NEW q \in DOMAIN nl, p < q, nl[q].pc.index = i
            PROVE  q \in 2 .. Len(nl) /\ q - 1 \in DOMAIN l /\ nl[q] = l[q - 1] /\ a[i] < q - 1
        <4>1. q \in 2 .. Len(nl)
          BY <1>3, <2>1, <3>2
        <4>2. q - 1 \in DOMAIN l /\ nl[q] = l[q - 1]
          BY <1>5, <4>1
        <4> QED
          BY <1>12, <3>1, <3>2, <4>1, <4>2
      <3>3. CASE a[i] = PtrRange
        <4>1. EntryOf(new, p).prev = Null
          BY <3>1, <3>3 DEF Newest
        <4>2. ASSUME NEW q \in DOMAIN nl, p < q, nl[q].pc = pc PROVE FALSE
          <5>1. q - 1 \in DOMAIN l /\ a[i] < q - 1
            BY <3>2, <4>2
          <5> QED
            BY <1>3, <3>3, <5>1
        <4> QED
          BY <3>1, <4>1, <4>2 DEF Unlinked
      <3>4. CASE a[i] # PtrRange
        <4> DEFINE m == a[i] + 1
        <4>1. /\ a[i] \in 0 .. PtrRange - 1 /\ m \in 1 .. PtrRange /\ m \in Int
              /\ \A x \in Int : a[i] < x <=> m <= x
          BY <1>3, <1>12, <3>1, <3>4
        <4>2. Newest(gg, pc) = IF m <= Len(l) /\ l[m].pc = pc THEN PointerOf(gg, m) ELSE Null
          <5>1. a[pc.index] < PtrRange
            BY <1>3, <4>1
          <5>2. LET x == a[pc.index] + 1
                IN  Newest(gg, pc) = IF x <= Len(l) /\ l[x].pc = pc THEN PointerOf(gg, x) ELSE Null
            BY <5>1, NewestIsLastAccess
          <5> QED
            BY <5>2
        <4>3. m <= Len(l) => m \in DOMAIN l /\ l[m].pc = [index |-> i, tag |-> gg.it[i].tag]
          BY <1>3, <1>12, <3>1, <4>1
        <4> HIDE DEF m
        <4>4. CASE m <= Len(l) /\ l[m].pc = pc
          <5>1. m + 1 \in p + 1 .. p + GhbSize
            BY <1>3, <2>1, <4>1, <4>4
          <5>2. EntryOf(new, p).prev = PointerOf(new, m + 1)
            BY <1>4, <3>1, <4>1, <4>2, <4>4
          <5>3. NoneBetween(nl, p, m + 1)
            <6> SUFFICES ASSUME NEW r \in DOMAIN nl, p < r, r < m + 1, nl[r].pc.index = nl[p].pc.index
                         PROVE  FALSE
              BY DEF NoneBetween
            <6>1. a[i] < r - 1 /\ r \in 2 .. Len(nl)
              BY <3>1, <3>2
            <6> QED
              BY <1>3, <4>1, <6>1
          <5>4. m + 1 <= Len(nl) => nl[m + 1].pc = nl[p].pc
            <6> DEFINE q == m + 1
            <6> SUFFICES ASSUME q <= Len(nl) PROVE nl[q].pc = nl[p].pc
              OBVIOUS
            <6>1. q \in 2 .. Len(nl) /\ q - 1 = m
              BY <1>3, <4>1
            <6> HIDE DEF q
            <6>2. nl[q] = l[q - 1]
              BY <1>5, <6>1
            <6> QED
              BY <3>1, <4>4, <6>1, <6>2
          <5>5. LinkedTo(new, nl, p, m + 1)
            BY <5>2, <5>3, <5>4 DEF LinkedTo
          <5> QED
            BY <5>1, <5>5
        <4>5. CASE ~ (m <= Len(l) /\ l[m].pc = pc)
          <5>1. EntryOf(new, p).prev = Null
            BY <3>1, <4>2, <4>5
          <5>2. ASSUME NEW q \in DOMAIN nl, p < q, NoneBetween(nl, p, q), nl[q].pc = pc PROVE FALSE
            <6>1. q \in 2 .. Len(nl) /\ q - 1 \in DOMAIN l /\ nl[q] = l[q - 1] /\ a[i] < q - 1
              BY <3>2, <5>2
            <6>2. m <= q - 1 /\ m <= Len(l)
              BY <1>3, <4>1, <6>1
            <6>3. m # q - 1
              BY <4>5, <5>2, <6>1, <6>2
            <6> DEFINE r == m + 1
            <6>4. r \in 2 .. Len(nl) /\ r \in DOMAIN nl /\ p < r /\ r < q /\ r - 1 = m
              BY <1>3, <2>1, <4>1, <6>1, <6>2, <6>3
            <6> HIDE DEF r
            <6>5. nl[r].pc.index = i
              BY <1>5, <4>3, <6>2, <6>4
            <6> QED
              BY <3>1, <5>2, <6>4, <6>5 DEF NoneBetween
          <5> QED
            BY <3>1, <5>1, <5>2 DEF Unlinked
        <4> QED
          BY <4>4, <4>5
      <3> QED
        BY <3>3, <3>4
    <2>2. CASE p # 1
      <3> DEFINE o == p - 1
      <3>1. p \in 2 .. Len(nl) /\ o \in DOMAIN l /\ nl[p] = l[o] /\ EntryOf(new, p) = EntryOf(gg, o)
        BY <1>3, <1>5, <2>2
      <3>2. o \in Int /\ p = o + 1
        BY <1>3
      <3> HIDE DEF o
      <3>3. Unlinked(gg, l, o) \/ \E q \in o + 1 .. o + GhbSize : LinkedTo(gg, l, o, q)
        BY <3>1 DEF Linked
      <3>4. ASSUME NEW r \in DOMAIN nl, p < r
            PROVE  r - 1 \in DOMAIN l /\ o < r - 1 /\ nl[r] = l[r - 1] /\ r \in Int
        <4>1. r \in 2 .. Len(nl)
          BY <1>3, <3>1, <3>4
        <4> QED
          BY <1>5, <3>2, <3>4, <4>1
      \* None in between then, none in between now, and the other way round up to the end.
      <3>5. ASSUME NEW q \in Int, NoneBetween(l, o, q)
            PROVE  NoneBetween(nl, p, q + 1)
        <4> SUFFICES ASSUME NEW r \in DOMAIN nl, p < r, r < q + 1
                     PROVE  nl[r].pc.index # nl[p].pc.index
          BY DEF NoneBetween
        <4>1. r - 1 \in DOMAIN l /\ o < r - 1 /\ r - 1 < q /\ nl[r] = l[r - 1]
          BY <3>4
        <4> QED
          BY <3>1, <3>5, <4>1 DEF NoneBetween
      <3>6. ASSUME NEW q \in DOMAIN nl, p < q, NoneBetween(nl, p, q)
            PROVE  NoneBetween(l, o, q - 1)
        <4> SUFFICES ASSUME NEW r \in DOMAIN l, o < r, r < q - 1
                     PROVE  l[r].pc.index # l[o].pc.index
          BY DEF NoneBetween
        <4> DEFINE s == r + 1
        <4>1. s \in 2 .. Len(nl) /\ s \in DOMAIN nl /\ p < s /\ s < q /\ s - 1 = r
          BY <1>3, <3>1, <3>2
        <4> HIDE DEF s
        <4>2. nl[s] = l[r]
          BY <1>5, <4>1
        <4> QED
          BY <3>1, <3>6, <4>1, <4>2 DEF NoneBetween
      <3>7. CASE Unlinked(gg, l, o)
        <4>1. EntryOf(new, p).prev = Null
          BY <3>1, <3>7 DEF Unlinked
        <4>2. ASSUME NEW q \in DOMAIN nl, p < q, NoneBetween(nl, p, q)
              PROVE  nl[q].pc # nl[p].pc
          <5>1. q - 1 \in DOMAIN l /\ o < q - 1 /\ nl[q] = l[q - 1]
            BY <3>4, <4>2
          <5>2. NoneBetween(l, o, q - 1)
            BY <3>6, <4>2
          <5> QED
            BY <3>1, <3>7, <5>1, <5>2 DEF Unlinked
        <4> QED
          BY <4>1, <4>2 DEF Unlinked
      <3>8. ASSUME NEW q \in o + 1 .. o + GhbSize, LinkedTo(gg, l, o, q)
            PROVE  \E q2 \in p + 1 .. p + GhbSize : LinkedTo(new, nl, p, q2)
        <4> DEFINE q2 == q + 1
        <4>1. q \in Int /\ q2 \in p + 1 .. p + GhbSize /\ q2 - 1 = q /\ q2 \in Int
          BY <1>3, <3>2
        <4>2. NoneBetween(nl, p, q2)
          BY <3>5, <3>8, <4>1 DEF LinkedTo
        <4>3. PointerOf(new, q2) = PointerOf(gg, q)
          BY <1>4, <4>1
        <4> HIDE DEF q2
        <4>4. q2 <= Len(nl) => nl[q2].pc = nl[p].pc
          <5> SUFFICES ASSUME q2 <= Len(nl) PROVE nl[q2].pc = nl[p].pc
            OBVIOUS
          <5>1. q2 \in DOMAIN nl /\ p < q2
            BY <1>3, <3>1, <4>1
          <5>2. q \in DOMAIN l /\ nl[q2] = l[q]
            BY <3>4, <4>1, <5>1
          <5>3. q <= Len(l)
            BY <1>3, <5>2
          <5> QED
            BY <3>1, <3>8, <5>2, <5>3 DEF LinkedTo
        <4>5. EntryOf(new, p).prev = PointerOf(new, q2)
          BY <3>1, <3>8, <4>3 DEF LinkedTo
        <4> QED
          BY <4>1, <4>2, <4>4, <4>5 DEF LinkedTo
      <3> QED
        BY <3>3, <3>7, <3>8
    <2> QED
      BY <2>1, <2>2
  <1> QED
    BY <1>2, <1>3, <1>9, <1>10, <1>11, <1>13, <1>14 DEF new, nl, na, access

-----------------------------------------------------------------------------
(***************************************************************************)
(* The best-offset prefetcher.                                             *)
(***************************************************************************)
LEMMA OffsetCount ==
  /\ Len(Offsets) \in Nat /\ Len(Offsets) >= 3 /\ DOMAIN Offsets = 1 .. Len(Offsets)
  /\ \A i \in DOMAIN Offsets : Offsets[i] \in Nat
  BY BestOffsetAssumption

\* The order of the offsets after a round.
Beats(scores, i, j) == scores[i] > scores[j] \/ (scores[i] = scores[j] /\ i > j)

\* The one of U that beats all others.
HasTop(scores, U) == \E m \in U : \A j \in U \ {m} : Beats(scores, m, j)

Upto(T, k) == {i \in T : i <= k}

\* Among some of the offsets there is one that beats all others.
LEMMA TopExists ==
  ASSUME NEW n \in Nat, NEW scores \in [1 .. n -> Nat], NEW T \in SUBSET (1 .. n), T # {}
  PROVE  HasTop(scores, T)
  <1> DEFINE S == {k \in 0 .. n : Upto(T, k) = {} \/ HasTop(scores, Upto(T, k))}
  <1>1. 0 \in S
    <2>1. \A i \in T : i \in 1 .. n /\ ~ (i <= 0)
      OBVIOUS
    <2>2. Upto(T, 0) = {}
      BY <2>1 DEF Upto
    <2> QED
      BY <2>2
  <1>2. ASSUME NEW k \in 0 .. n - 1, k \in S
        PROVE  k + 1 \in S
    <2> DEFINE x == k + 1
    <2>1. x \in 1 .. n /\ x \in 0 .. n /\ \A i \in T : i <= x <=> i <= k \/ i = x
      OBVIOUS
    <2>2. Upto(T, k) = {} \/ HasTop(scores, Upto(T, k))
      BY <1>2
    <2> SUFFICES Upto(T, x) = {} \/ HasTop(scores, Upto(T, x))
      BY <2>1
    <2> HIDE DEF S
    <2>3. CASE x \notin T
      <3>1. Upto(T, x) = Upto(T, k)
        BY <2>1, <2>3 DEF Upto
      <3> QED
        BY <2>2, <3>1
    <2>4. CASE x \in T
      <3>1. Upto(T, x) = Upto(T, k) \cup {x} /\ \A i \in Upto(T, k) : i \in 1 .. n /\ i <= k
        BY <2>1, <2>4 DEF Upto
      <3>2. CASE Upto(T, k) = {}
        <4>1. \A j \in Upto(T, x) \ {x} : Beats(scores, x, j)
          BY <3>1, <3>2
        <4> QED
          BY <3>1, <4>1 DEF HasTop
      <3>3. CASE Upto(T, k) # {}
        <4>1. PICK m \in Upto(T, k) : \A j \in Upto(T, k) \ {m} : Beats(scores, m, j)
          BY <2>2, <3>3 DEF HasTop
        <4>2. m \in 1 .. n /\ m < x /\ scores[m] \in Nat /\ scores[x] \in Nat
          BY <2>1, <3>1, <4>1
        <4>3. CASE scores[m] > scores[x]
          <5>1. Beats(scores, m, x)
            BY <4>3 DEF Beats
          <5>2. \A j \in Upto(T, x) \ {m} : Beats(scores, m, j)
            BY <3>1, <4>1, <5>1
          <5> QED
            BY <3>1, <4>1, <5>2 DEF HasTop
        <4>4. CASE scores[m] <= scores[x]
          <5>1. Beats(scores, x, m)
            BY <4>2, <4>4 DEF Beats
          <5>2. ASSUME NEW j \in Upto(T, k), j # m
                PROVE  Beats(scores, x, j)
            <6>1. j \in 1 .. n /\ j < x /\ scores[j] \in Nat /\ Beats(scores, m, j)
              BY <2>1, <3>1, <4>1, <5>2
            <6> QED
              BY <4>2, <4>4, <6>1 DEF Beats
          <5>3. \A j \in Upto(T, x) \ {x} : Beats(scores, x, j)
            BY <3>1, <5>1, <5>2
          <5> QED
            BY <3>1, <5>3 DEF HasTop
        <4>5. scores[m] > scores[x] \/ scores[m] <= scores[x]
          BY <4>2
        <4> QED
          BY <4>3, <4>4, <4>5
      <3> QED
        BY <3>2, <3>3
    <2> QED
      BY <2>3, <2>4
  <1>3. 0 .. n \subseteq S
    <2> HIDE DEF S
    <2> QED
      BY <1>1, <1>2, LoopInduction
  <1>4. n \in S /\ Upto(T, n) = T
    <2>1. \A i \in T : i \in 1 .. n /\ i <= n
      OBVIOUS
    <2>2. n \in 0 .. n
      OBVIOUS
    <2> HIDE DEF S
    <2> QED
      BY <1>3, <2>1, <2>2 DEF Upto
  <1> QED
    BY <1>4

\* The end of a round finds three offsets: for the first three ranks there is an offset
\* that just as many others beat (bop.cc:91-99).
LEMMA RankedAreOffsets ==
  ASSUME NEW scores \in [DOMAIN Offsets -> Nat]
  PROVE  Ranked(scores) \in [1 .. 3 -> DOMAIN Offsets]
  <1> DEFINE n == Len(Offsets)
             D == 1 .. n
             Better(i) == {j \in D : Beats(scores, j, i)}
  <1>1. n \in Nat /\ n >= 3 /\ DOMAIN Offsets = D /\ DOMAIN scores = D /\ scores \in [1 .. n -> Nat]
    BY OffsetCount
  <1>2. \A i, j \in D : ~ (Beats(scores, i, j) /\ Beats(scores, j, i)) /\ ~ Beats(scores, i, i)
    BY <1>1 DEF Beats
  <1> HIDE DEF n
  <1> USE DEF HasTop
  <1>3. 1 \in D /\ 2 \in D /\ 3 \in D
    BY <1>1
  <1>4. PICK m1 \in D : \A j \in D \ {m1} : Beats(scores, m1, j)
    <2>1. D # {} /\ D \in SUBSET (1 .. n)
      BY <1>3
    <2> QED
      BY <1>1, <2>1, TopExists
  <1>5. PICK m2 \in D \ {m1} : \A j \in (D \ {m1}) \ {m2} : Beats(scores, m2, j)
    <2>1. D \ {m1} # {} /\ D \ {m1} \in SUBSET (1 .. n)
      <3>1. m1 # 1 \/ m1 # 2
        OBVIOUS
      <3> QED
        BY <1>3, <3>1
    <2> QED
      BY <1>1, <2>1, TopExists
  <1>6. PICK m3 \in D \ {m1, m2} : \A j \in (D \ {m1, m2}) \ {m3} : Beats(scores, m3, j)
    <2>1. D \ {m1, m2} # {} /\ D \ {m1, m2} \in SUBSET (1 .. n)
      <3>1. 1 \notin {m1, m2} \/ 2 \notin {m1, m2} \/ 3 \notin {m1, m2}
        OBVIOUS
      <3> QED
        BY <1>3, <3>1
    <2> QED
      BY <1>1, <2>1, TopExists
  <1>7. Better(m1) = {} /\ Better(m2) = {m1} /\ Better(m3) = {m1, m2}
    BY <1>2, <1>4, <1>5, <1>6
  <1>8. Cardinality(Better(m1)) = 0 /\ Cardinality(Better(m2)) = 1 /\ Cardinality(Better(m3)) = 2
    <2>1. m1 # m2 /\ m1 # m3 /\ m2 # m3
      BY <1>5, <1>6
    <2>2. Cardinality({m1, m2}) = 2
      BY <2>1, TwoMembers, Zenon
    <2>3. Cardinality({m1}) = 1 /\ Cardinality({}) = 0
      BY FS_Singleton, FS_EmptySet
    <2> HIDE DEF Better
    <2> QED
      BY <1>7, <2>2, <2>3
  <1>9. \A k \in 1 .. 3 : \E i \in D : Cardinality(Better(i)) = k - 1
    <2> HIDE DEF Better
    <2> SUFFICES ASSUME NEW k \in 1 .. 3
                 PROVE  \E i \in D : Cardinality(Better(i)) = k - 1
      OBVIOUS
    <2>1. k = 1 \/ k = 2 \/ k = 3
      OBVIOUS
    <2>2. CASE k = 1
      BY <1>4, <1>8, <2>2
    <2>3. CASE k = 2
      BY <1>5, <1>8, <2>3
    <2>4. CASE k = 3
      BY <1>6, <1>8, <2>4
    <2> QED
      BY <2>1, <2>2, <2>3, <2>4
  <1>10. Ranked(scores) = [k \in 1 .. 3 |-> CHOOSE i \in D : Cardinality(Better(i)) = k - 1]
    BY <1>1 DEF Ranked, Beats
  <1> HIDE DEF Better
  <1> QED
    BY <1>1, <1>9, <1>10

\* The turns that the offset i has had since the round began.
Turns(accesses, rounds, i) == {k \in 1 .. rounds : (accesses - k) % Len(Offsets) = i - 1}

LEMMA TurnsAreFinite ==
  ASSUME NEW accesses, NEW rounds \in Nat, NEW i
  PROVE  IsFiniteSet(Turns(accesses, rounds, i)) /\ Cardinality(Turns(accesses, rounds, i)) \in Nat
  <1>1. IsFiniteSet(1 .. rounds) /\ Turns(accesses, rounds, i) \in SUBSET (1 .. rounds)
    BY FS_Interval DEF Turns
  <1>2. IsFiniteSet(Turns(accesses, rounds, i))
    BY <1>1, FS_Subset
  <1> QED
    BY <1>2, FS_CardinalityType

\* An access is a turn of the offset that it tests, and takes no turn from another.
LEMMA TurnsGrow ==
  ASSUME NEW accesses \in 0 .. Len(Offsets) - 1, NEW rounds \in Nat, NEW i \in DOMAIN Offsets
  PROVE  LET old == Turns(accesses, rounds, i)
             new == Turns((accesses + 1) % Len(Offsets), rounds + 1, i)
         IN  Cardinality(new) >= Cardinality(old) + (IF i = accesses + 1 THEN 1 ELSE 0)
  <1> DEFINE n == Len(Offsets)
             next == (accesses + 1) % n
             old == Turns(accesses, rounds, i)
             new == Turns(next, rounds + 1, i)
             f == [k \in old |-> k + 1]
  <1>1. n \in Nat \ {0} /\ i \in 1 .. n /\ accesses \in Int
    BY OffsetCount
  <1>2. \A k \in Int : (next - (k + 1)) % n = (accesses - k) % n
    <2> SUFFICES ASSUME NEW k \in Int PROVE (next - (k + 1)) % n = (accesses - k) % n
      OBVIOUS
    <2> DEFINE a == accesses + 1  c == k + 1
    <2>1. a \in Int /\ c \in Int /\ a - c = accesses - k
      BY <1>1
    <2> HIDE DEF a, c, n
    <2>2. ((a % n) - c) % n = (a - c) % n
      BY <1>1, <2>1, RemainderShift
    <2> QED
      BY <2>1, <2>2 DEF a, c
  <1>3. /\ IsFiniteSet(old) /\ Cardinality(old) \in Nat
        /\ IsFiniteSet(new) /\ Cardinality(new) \in Nat
    BY TurnsAreFinite
  <1>4. \A k \in old : k \in 1 .. rounds /\ k + 1 \in new /\ k + 1 # 1
    <2> SUFFICES ASSUME NEW k \in old PROVE k \in 1 .. rounds /\ k + 1 \in new /\ k + 1 # 1
      OBVIOUS
    <2>1. k \in 1 .. rounds /\ k \in Int /\ (accesses - k) % n = i - 1
      BY DEF Turns
    <2>2. (next - (k + 1)) % n = i - 1
      BY <1>2, <2>1
    <2> QED
      BY <2>1, <2>2 DEF Turns
  <1>5. f \in Injection(old, new \ {1})
    <2> HIDE DEF old, new
    <2> QED
      BY <1>4 DEF Injection, IsInjective
  <1>6. i = accesses + 1 => 1 \in new
    <2> SUFFICES ASSUME i = accesses + 1 PROVE 1 \in new
      OBVIOUS
    <2>1. (next - (0 + 1)) % n = (accesses - 0) % n
      <3> HIDE DEF next, n
      <3>1. 0 \in Int
        OBVIOUS
      <3> QED
        BY <1>2, <3>1
    <2>2. (next - 1) % n = accesses % n
      BY <1>1, <2>1
    <2>3. accesses % n = accesses
      BY <1>1, SmallRemainder
    <2> QED
      BY <1>1, <2>2, <2>3 DEF Turns
  <1> HIDE DEF old, new, f
  <1>7. IsFiniteSet(new \ {1}) /\ Cardinality(new \ {1}) = IF 1 \in new THEN Cardinality(new) - 1 ELSE Cardinality(new)
    BY <1>3, FS_RemoveElement
  <1>8. Cardinality(old) <= Cardinality(new \ {1})
    BY <1>5, <1>7, FS_Injection
  <1>9. Cardinality(new) >= Cardinality(old) + (IF i = accesses + 1 THEN 1 ELSE 0)
    BY <1>3, <1>6, <1>7, <1>8
  <1> QED
    BY <1>9 DEF old, new, next, n

\* Every score is at most the number of turns of its offset.
ScoresWithinTurns(bb) ==
    \A i \in DOMAIN Offsets : bb.scores[i] <= Cardinality(Turns(bb.accesses, bb.rounds, i))

\* The end of a round starts the next one without scores.
LEMMA NewRoundStep ==
  ASSUME NEW bb \in BopStates, NEW scores \in [DOMAIN Offsets -> Nat]
  PROVE  NewRound(bb, scores) \in BopStates /\ ScoresWithinTurns(NewRound(bb, scores))
  <1> DEFINE new == NewRound(bb, scores)  order == Ranked(scores)
             best == [k \in 1 .. 3 |-> Offsets[order[k]]]
             enabled == scores[order[1]] > BadScore
             zero == [i \in DOMAIN Offsets |-> 0]
  <1>1. order \in [1 .. 3 -> DOMAIN Offsets]
    BY RankedAreOffsets
  <1>2. best \in [1 .. 3 -> Nat] /\ zero \in [DOMAIN Offsets -> Nat] /\ enabled \in BOOLEAN
    <2> HIDE DEF order
    <2> QED
      BY <1>1, OffsetCount
  <1>3. new = [bb EXCEPT !.best = best, !.enabled = enabled, !.scores = zero, !.rounds = 0]
    BY DEF NewRound
  <1> HIDE DEF best, enabled, new, order
  <1>4. new \in BopStates /\ new.scores = zero /\ new.rounds = 0
    BY <1>2, <1>3 DEF BopStates
  <1>5. \A i \in DOMAIN Offsets :
           new.scores[i] = 0 /\ Cardinality(Turns(new.accesses, new.rounds, i)) \in Nat
    <2>1. new.rounds \in Nat
      BY <1>4
    <2> QED
      BY <1>4, <2>1, TurnsAreFinite
  <1>6. ScoresWithinTurns(new)
    BY <1>5 DEF ScoresWithinTurns
  <1> QED
    BY <1>4, <1>6 DEF new

\* The learning step keeps the scores within the turns (bop.cc:68-111).
LEMMA LearnedStep ==
  ASSUME NEW bb \in BopStates, ScoresWithinTurns(bb), NEW line
  PROVE  BopLearned(bb, line) \in BopStates /\ ScoresWithinTurns(BopLearned(bb, line))
  <1> DEFINE n == Len(Offsets)
             i == bb.accesses + 1
             test == (line - Offsets[i]) % LineRange
             recent == bb.rr[RrSlot[test]] = RrTag(test)
             scores == IF recent THEN [bb.scores EXCEPT ![i] = @ + 1] ELSE bb.scores
             full == recent /\ scores[i] = MaxScore
             next == [bb EXCEPT !.scores = scores, !.accesses = i % n, !.rounds = @ + 1]
  <1>1. /\ n \in Nat \ {0} /\ i \in DOMAIN Offsets /\ DOMAIN Offsets = 1 .. n
        /\ bb.accesses \in 0 .. n - 1 /\ bb.rounds \in Nat /\ bb.scores \in [DOMAIN Offsets -> Nat]
    BY OffsetCount DEF BopStates
  <1>2. BopLearned(bb, line) = IF full \/ next.rounds >= RoundMax THEN NewRound(next, scores) ELSE next
    BY DEF BopLearned
  <1> HIDE DEF recent, n
  <1>3. /\ scores \in [DOMAIN Offsets -> Nat]
        /\ \A j \in DOMAIN Offsets : scores[j] <= bb.scores[j] + (IF j = i THEN 1 ELSE 0)
    <2>1. CASE recent
      <3>1. scores = [bb.scores EXCEPT ![i] = bb.scores[i] + 1]
        BY <2>1
      <3> HIDE DEF scores, i
      <3>2. bb.scores[i] + 1 \in Nat
        <4>1. bb.scores[i] \in Nat
          BY <1>1
        <4> QED
          BY <4>1
      <3> QED
        BY <1>1, <3>1, <3>2
    <2>2. CASE ~ recent
      <3>1. scores = bb.scores
        BY <2>2
      <3> HIDE DEF scores, i
      <3> QED
        BY <1>1, <3>1
    <2> QED
      BY <2>1, <2>2
  <1>4. i % n \in 0 .. n - 1 /\ bb.rounds + 1 \in Nat
    BY <1>1
  <1> HIDE DEF scores, full
  <1>5. /\ next \in BopStates
        /\ next.scores = scores /\ next.accesses = (bb.accesses + 1) % n /\ next.rounds = bb.rounds + 1
    BY <1>3, <1>4 DEF BopStates, n
  <1> HIDE DEF next
  <1>6. ScoresWithinTurns(next)
    <2> SUFFICES ASSUME NEW j \in DOMAIN Offsets
                 PROVE  next.scores[j] <= Cardinality(Turns(next.accesses, next.rounds, j))
      BY DEF ScoresWithinTurns
    <2> DEFINE old == Cardinality(Turns(bb.accesses, bb.rounds, j))
               new == Cardinality(Turns((bb.accesses + 1) % n, bb.rounds + 1, j))
    <2>1. new >= old + (IF j = i THEN 1 ELSE 0)
      BY <1>1, TurnsGrow DEF n
    <2>2. old \in Nat /\ new \in Nat
      BY <1>1, TurnsAreFinite
    <2>3. bb.scores[j] <= old
      BY DEF ScoresWithinTurns
    <2>4. scores[j] <= bb.scores[j] + (IF j = i THEN 1 ELSE 0) /\ scores[j] \in Nat /\ bb.scores[j] \in Nat
      BY <1>1, <1>3
    <2>5. next.scores[j] = scores[j] /\ new = Cardinality(Turns(next.accesses, next.rounds, j))
      BY <1>5
    <2> HIDE DEF old, new
    <2> QED
      BY <2>1, <2>2, <2>3, <2>4, <2>5
  <1>7. NewRound(next, scores) \in BopStates /\ ScoresWithinTurns(NewRound(next, scores))
    BY <1>3, <1>5, NewRoundStep
  <1> QED
    BY <1>2, <1>5, <1>6, <1>7

\* A fill touches the table of recent requests only.
LEMMA FilledStep ==
  ASSUME NEW bb \in BopStates, NEW line \in Nat, NEW prefetched \in BOOLEAN
  PROVE  /\ BopFilled(bb, line, prefetched) \in BopStates
         /\ ScoresWithinTurns(bb) => ScoresWithinTurns(BopFilled(bb, line, prefetched))
  <1> DEFINE trigger == IF prefetched THEN (line - bb.best[1]) % LineRange ELSE line
             new == BopFilled(bb, line, prefetched)
  <1>1. trigger \in Nat
    <2>1. bb.best[1] \in Nat /\ LineRange \in Nat \ {0}
      BY BestOffsetAssumption DEF BopStates
    <2>2. \A d \in Nat : (line - d) % LineRange \in Nat
      BY <2>1
    <2> QED
      BY <2>1, <2>2
  <1>2. new = IF SamePage(trigger, line) THEN [bb EXCEPT !.rr[RrSlot[trigger]] = RrTag(trigger)] ELSE bb
    BY DEF BopFilled
  <1> HIDE DEF trigger, new
  <1>3. RrTag(trigger) \in Nat
    <2>1. trigger \div RrSize \in Nat /\ RrTags \in Nat \ {0}
      BY <1>1, BestOffsetAssumption, Quotient
    <2>2. (trigger \div RrSize) % RrTags \in Nat
      BY <2>1, Quotient
    <2> QED
      BY <2>2 DEF RrTag
  <1>4. new \in BopStates /\ new.scores = bb.scores /\ new.accesses = bb.accesses /\ new.rounds = bb.rounds
    BY <1>2, <1>3 DEF BopStates
  <1> QED
    BY <1>4 DEF new, ScoresWithinTurns

-----------------------------------------------------------------------------
(***************************************************************************)
(* The epochs of the adaptive prefetcher.                                  *)
(***************************************************************************)
LEMMA DegreeBounds ==
  /\ MinDegree \in Nat \ {0} /\ MaxDegree \in Nat /\ MinDegree <= MaxDegree
  /\ EpochLength \in Nat \ {0} /\ StatRange \in Nat \ {0} /\ CountMax \in 0 .. StatRange - 1
  /\ Bandwidths \subseteq {"low", "mid", "high"}
  BY GhbAssumption, PrefetchersAssumption

\* The adjustment never lowers the degree at an accuracy of 9 in 10 and more, and never
\* raises it below one half.
LEMMA AdjustmentFollows ==
  ASSUME NEW bandwidth \in Bandwidths, NEW issued \in Nat, NEW useful \in Nat
  PROVE  /\ Adjustment(bandwidth, issued, useful) \in Int
         /\ Adjustment(bandwidth, issued, useful) < 0 => 10 * useful < 9 * issued
         /\ Adjustment(bandwidth, issued, useful) > 0 => 2 * useful >= issued
  <1>1. bandwidth \in {"low", "mid", "high"}
    BY DegreeBounds
  <1> DEFINE room == CASE bandwidth = "high" -> 0 [] bandwidth = "mid" -> 1 [] bandwidth = "low" -> 2
             misses == CASE 10 * useful >= 9 * issued -> 0
                         [] 10 * useful < 9 * issued /\ 2 * useful >= issued -> 1
                         [] 2 * useful < issued -> 2
  <1>2. room \in 0 .. 2
    BY <1>1
  <1>3. /\ misses \in 0 .. 2 /\ (misses > 0 => 10 * useful < 9 * issued)
        /\ (misses < 2 => 2 * useful >= issued)
    <2>1. CASE 10 * useful >= 9 * issued
      BY <2>1
    <2>2. CASE 10 * useful < 9 * issued /\ 2 * useful >= issued
      <3>1. misses = 1
        BY <2>2
      <3> HIDE DEF misses
      <3> QED
        BY <2>2, <3>1
    <2>3. CASE 10 * useful < 9 * issued /\ 2 * useful < issued
      <3>1. misses = 2
        BY <2>3
      <3> HIDE DEF misses
      <3> QED
        BY <2>3, <3>1
    <2> QED
      BY <2>1, <2>2, <2>3
  <1>4. Adjustment(bandwidth, issued, useful) = room - misses
    BY DEF Adjustment
  <1> HIDE DEF room, misses
  <1> QED
    BY <1>2, <1>3, <1>4

LEMMA ClampedFollows ==
  ASSUME NEW d \in MinDegree .. MaxDegree, NEW a \in Int
  PROVE  /\ Clamped(d + a) \in MinDegree .. MaxDegree
         /\ Clamped(d + a) < d => a < 0
         /\ Clamped(d + a) > d => a > 0
  <1>1. CASE d + a > MaxDegree
    BY <1>1, DegreeBounds DEF Clamped
  <1>2. CASE d + a < MinDegree
    BY <1>2, DegreeBounds DEF Clamped
  <1>3. CASE d + a >= MinDegree /\ d + a <= MaxDegree
    BY <1>3, DegreeBounds DEF Clamped
  <1> QED
    BY <1>1, <1>2, <1>3, DegreeBounds

Counts == [issued : 0 .. CountMax, useful : 0 .. CountMax]

\* A cycle of the epoch: it stores the counters when it samples, and then the degree
\* follows what was counted since they were stored last.
LEMMA EpochStep ==
  ASSUME NEW e \in EpochStates, NEW st \in Counts, NEW bandwidth \in Bandwidths
  PROVE  LET new == EpochCycle(e, st, bandwidth)
         IN  /\ new \in EpochStates
             /\ EpochEnds(e) => new.lastIssued = st.issued /\ new.lastUseful = st.useful
             /\ ~ EpochEnds(e) => /\ new.lastIssued = e.lastIssued /\ new.lastUseful = e.lastUseful
                                  /\ new.degree = e.degree
             /\ \A issued, useful \in Nat :
                  st.issued = e.lastIssued + issued /\ st.useful = e.lastUseful + useful =>
                    /\ new.degree < e.degree => 10 * useful < 9 * issued
                    /\ new.degree > e.degree => 2 * useful >= issued
  <1> DEFINE new == EpochCycle(e, st, bandwidth)
             di == (st.issued - e.lastIssued) % StatRange
             du == (st.useful - e.lastUseful) % StatRange
             d == Clamped(e.degree + Adjustment(bandwidth, di, du))
             stored == [e EXCEPT !.lastIssued = st.issued, !.lastUseful = st.useful]
  <1>1. /\ st.issued \in 0 .. CountMax /\ st.useful \in 0 .. CountMax
        /\ e.lastIssued \in 0 .. CountMax /\ e.lastUseful \in 0 .. CountMax
        /\ e.degree \in MinDegree .. MaxDegree /\ e.cycles \in Nat
        /\ e.degree \in Int
    BY DegreeBounds DEF Counts, EpochStates
  <1>2. di \in Nat /\ du \in Nat
    <2> DEFINE x == st.issued - e.lastIssued  y == st.useful - e.lastUseful
    <2>1. x \in Int /\ y \in Int
      BY <1>1, DegreeBounds
    <2> HIDE DEF x, y
    <2>2. x % StatRange \in Nat /\ y % StatRange \in Nat
      BY <2>1, DegreeBounds
    <2> QED
      BY <2>2 DEF x, y
  <1>3. \A issued, useful \in Nat :
           st.issued = e.lastIssued + issued /\ st.useful = e.lastUseful + useful =>
             di = issued /\ du = useful
    <2> SUFFICES ASSUME NEW issued \in Nat, NEW useful \in Nat,
                        st.issued = e.lastIssued + issued, st.useful = e.lastUseful + useful
                 PROVE  di = issued /\ du = useful
      OBVIOUS
    <2>1. /\ st.issued - e.lastIssued = issued /\ st.useful - e.lastUseful = useful
          /\ issued \in 0 .. StatRange - 1 /\ useful \in 0 .. StatRange - 1
      BY <1>1, DegreeBounds
    <2>2. issued % StatRange = issued /\ useful % StatRange = useful
      BY <2>1, DegreeBounds, SmallRemainder
    <2> QED
      BY <2>1, <2>2
  <1>4. /\ EpochEnds(e) => new = IF di = 0 THEN [stored EXCEPT !.cycles = EpochLength]
                                 ELSE [stored EXCEPT !.cycles = 0, !.degree = d]
        /\ ~ EpochEnds(e) => new = [e EXCEPT !.cycles = @ + 1]
    BY <1>1 DEF EpochCycle, EpochSampled, EpochStates
  <1> HIDE DEF di, du
  <1>5. /\ d \in MinDegree .. MaxDegree
        /\ d < e.degree => 10 * du < 9 * di
        /\ d > e.degree => 2 * du >= di
    <2> DEFINE a == Adjustment(bandwidth, di, du)
    <2>1. a \in Int /\ (a < 0 => 10 * du < 9 * di) /\ (a > 0 => 2 * du >= di)
      BY <1>2, AdjustmentFollows
    <2> HIDE DEF a
    <2>2. /\ Clamped(e.degree + a) \in MinDegree .. MaxDegree
          /\ Clamped(e.degree + a) < e.degree => a < 0
          /\ Clamped(e.degree + a) > e.degree => a > 0
      BY <1>1, <2>1, ClampedFollows
    <2> QED
      BY <2>1, <2>2 DEF a
  <1> HIDE DEF d, new
  <1>6. CASE ~ EpochEnds(e)
    <2>1. new = [e EXCEPT !.cycles = @ + 1]
      BY <1>4, <1>6
    <2>2. new \in EpochStates /\ new.degree = e.degree
          /\ new.lastIssued = e.lastIssued /\ new.lastUseful = e.lastUseful
      BY <1>1, <2>1 DEF EpochStates
    <2> QED
      BY <1>1, <1>6, <2>2 DEF new
  <1>7. CASE EpochEnds(e)
    <2>1. new = IF di = 0 THEN [stored EXCEPT !.cycles = EpochLength]
                ELSE [stored EXCEPT !.cycles = 0, !.degree = d]
      BY <1>4, <1>7
    <2>2. stored \in EpochStates /\ stored.degree = e.degree
          /\ stored.lastIssued = st.issued /\ stored.lastUseful = st.useful
      BY <1>1 DEF EpochStates
    <2> HIDE DEF stored
    <2>3. /\ new \in EpochStates /\ new.lastIssued = st.issued /\ new.lastUseful = st.useful
          /\ new.degree = IF di = 0 THEN e.degree ELSE d
      BY <1>5, <2>1, <2>2, DegreeBounds DEF EpochStates
    <2>4. /\ new.degree < e.degree => 10 * du < 9 * di
          /\ new.degree > e.degree => 2 * du >= di
      BY <1>1, <1>5, <2>3
    <2> QED
      BY <1>3, <1>7, <2>3, <2>4 DEF new
  <1> QED
    BY <1>6, <1>7

-----------------------------------------------------------------------------
(***************************************************************************)
(* What the parts would fetch.                                             *)
(***************************************************************************)
\* A turn of the walk keeps to blocks and pointers.
LEMMA WalkStepKeeps ==
  ASSUME NEW gg \in GhbStates, NEW tag, NEW w, w.history \in Seq(Nat), w.walker \in Pointers
  PROVE  LET new == WalkStep(gg, tag, w)
         IN  new.history \in Seq(Nat) /\ new.walker \in Pointers
  <1> DEFINE entry == gg.slot[w.walker % GhbSize]
  <1>1. w.walker \in Int /\ w.walker % GhbSize \in 0 .. GhbSize - 1
    BY TwoBuffers DEF Pointers
  <1>2. entry.block \in Nat /\ entry.prev \in Pointers /\ Null \in Pointers
    <2>1. gg.slot \in [0 .. GhbSize - 1 ->
                         [block : Nat, ptr : Pointers, prev : Pointers, tag : Tags]]
      BY DEF GhbStates
    <2>2. entry \in [block : Nat, ptr : Pointers, prev : Pointers, tag : Tags]
      BY <1>1, <2>1
    <2> HIDE DEF entry
    <2>3. Null \in Pointers
      BY TwoBuffers DEF Pointers, Null
    <2> QED
      BY <2>2, <2>3
  <1> HIDE DEF entry
  <1>3. Sanitized(gg, entry.prev, tag) \in Pointers
    BY <1>2 DEF Sanitized
  <1>4. Append(w.history, entry.block) \in Seq(Nat)
    BY <1>2
  <1> QED
    BY <1>3, <1>4 DEF WalkStep, entry

\* A walk finds blocks.
LEMMA WalkFindsBlocks ==
  ASSUME NEW gg \in GhbStates, NEW pc \in Pcs
  PROVE  Walk(gg, pc) \in Seq(Nat)
  <1> DEFINE start == WalkStart(gg, pc)  one == WalkStep(gg, pc.tag, start)
             two == WalkStep(gg, pc.tag, one)
  <1>1. start.history \in Seq(Nat) /\ start.walker \in Pointers
    BY NewestIsPointer DEF WalkStart
  <1> HIDE DEF start
  <1>2. one.history \in Seq(Nat) /\ one.walker \in Pointers
    BY <1>1, WalkStepKeeps
  <1> HIDE DEF one
  <1>3. two.history \in Seq(Nat)
    BY <1>2, WalkStepKeeps
  <1> QED
    BY <1>3, WalkIsTwoSteps DEF one, two, start

\* The numbers before the first negative one are as many as the count of those that
\* have no negative one up to them.
LEMMA BeforeFirstNegative ==
  ASSUME NEW d \in Nat, NEW a \in [1 .. d -> Int]
  PROVE  LET n == Cardinality({i \in 1 .. d : \A j \in 1 .. i : a[j] >= 0})
         IN  n \in 0 .. d /\ \A i \in 1 .. n : a[i] >= 0
  <1> DEFINE S == {i \in 1 .. d : \A j \in 1 .. i : a[j] >= 0}  n == Cardinality(S)
  <1>1. IsFiniteSet(1 .. d) /\ Cardinality(1 .. d) = d
    BY FS_Interval
  <1>2. S \in SUBSET (1 .. d)
    OBVIOUS
  <1>3. \A i \in S : \A j \in 1 .. i : a[j] >= 0
    OBVIOUS
  <1> HIDE DEF S
  <1>4. IsFiniteSet(S) /\ n <= d
    <2>1. IsFiniteSet(S) /\ Cardinality(S) <= Cardinality(1 .. d)
      BY <1>1, <1>2, FS_Subset, Zenon
    <2> QED
      BY <1>1, <2>1
  <1>5. n \in Nat
    BY <1>4, FS_CardinalityType
  <1> HIDE DEF n
  <1>6. ASSUME NEW i \in 1 .. n, ~ (a[i] >= 0)
        PROVE  FALSE
    <2>1. i \in Nat /\ i >= 1
      BY <1>5
    <2>2. S \in SUBSET (1 .. i - 1)
      BY <1>2, <1>3, <1>6, <2>1
    <2>3. IsFiniteSet(1 .. i - 1) /\ Cardinality(1 .. i - 1) = i - 1
      BY <2>1, FS_Interval
    <2>4. n <= i - 1
      <3>1. Cardinality(S) <= Cardinality(1 .. i - 1)
        BY <2>2, <2>3, FS_Subset, Zenon
      <3> QED
        BY <2>3, <3>1 DEF n
    <2> QED
      BY <1>5, <2>1, <2>4
  <1> QED
    BY <1>4, <1>5, <1>6 DEF S, n

\* The GHB part fetches no more lines than its degree, and none below address 0
\* (ghb_pccs.cc:79).
LEMMA GhbBlocksAreLines ==
  ASSUME NEW gg \in GhbStates, NEW pc \in Pcs, NEW block \in Nat, NEW degree \in Nat
  PROVE  /\ GhbBlocks(gg, pc, block, degree) \in Seq(Nat)
         /\ Len(GhbBlocks(gg, pc, block, degree)) <= degree
  <1> DEFINE history == Walk(gg, pc)
             stride == block - history[1]
             ahead == [i \in 1 .. degree |-> block + stride * (Distance + i - 1)]
             n == Cardinality({i \in 1 .. degree : \A j \in 1 .. i : ahead[j] >= 0})
             Ahead(i) == block + stride * (Distance + i - 1)
             m == Cardinality({i \in 1 .. degree : \A j \in 1 .. i : Ahead(j) >= 0})
  <1>1. history \in Seq(Nat)
    BY WalkFindsBlocks
  <1> HIDE DEF history
  <1>2. CASE Len(history) = 2
    <2>1. stride \in Int
      <3> HIDE DEF Ahead, m, n, ahead
      <3>1. 1 \in DOMAIN history
        BY <1>1, <1>2
      <3>2. history[1] \in Nat
        BY <1>1, <3>1
      <3> QED
        BY <3>2
    <2> HIDE DEF stride
    <2>2. \A i \in 1 .. degree : stride * (Distance + i - 1) \in Int
      <3> TAKE i \in 1 .. degree
      <3>1. Distance + i - 1 \in Int
        BY GhbAssumption
      <3> QED
        BY <2>1, <3>1
    <2>3. ahead \in [1 .. degree -> Int]
      BY <2>2
    <2>4. {i \in 1 .. degree : \A j \in 1 .. i : ahead[j] >= 0}
            = {i \in 1 .. degree : \A j \in 1 .. i : Ahead(j) >= 0}
      <3>1. \A i \in 1 .. degree : \A j \in 1 .. i : j \in 1 .. degree
        OBVIOUS
      <3> QED
        BY <3>1
    <2>5. \A i \in 1 .. degree : Ahead(i) = ahead[i]
      OBVIOUS
    <2> HIDE DEF ahead
    <2>6. n \in 0 .. degree /\ \A i \in 1 .. n : ahead[i] >= 0
      BY <2>3, BeforeFirstNegative
    <2>7. m = n
      BY <2>4
    <2> HIDE DEF m, n
    <2>8. [i \in 1 .. m |-> Ahead(i)] \in Seq(Nat) /\ Len([i \in 1 .. m |-> Ahead(i)]) = m
      <3> HIDE DEF Ahead
      <3>1. \A i \in 1 .. m : Ahead(i) \in Nat
        <4> TAKE i \in 1 .. m
        <4>1. i \in 1 .. degree /\ ahead[i] >= 0
          BY <2>6, <2>7
        <4>2. ahead[i] \in Int /\ Ahead(i) = ahead[i]
          BY <2>3, <2>5, <4>1
        <4> QED
          BY <4>1, <4>2
      <3> QED
        BY <2>6, <2>7, <3>1
    <2>9. GhbBlocks(gg, pc, block, degree) =
            IF stride = history[1] - history[2] /\ stride # 0 THEN [i \in 1 .. m |-> Ahead(i)] ELSE <<>>
      BY <1>2 DEF GhbBlocks, m, history, stride
    <2> QED
      BY <2>6, <2>7, <2>8, <2>9
  <1>3. CASE Len(history) # 2
    <2>1. GhbBlocks(gg, pc, block, degree) = <<>>
      BY <1>3 DEF GhbBlocks, history
    <2> QED
      BY <2>1
  <1> QED
    BY <1>2, <1>3

\* The best-offset part of the hybrid prefetcher fetches one line at most (bop.cc:117).
LEMMA BopFetchesOne ==
  ASSUME NEW bb \in BopStates, NEW line \in Nat
  PROVE  BopLines(bb, line, 1) \in Seq(Nat) /\ Len(BopLines(bb, line, 1)) <= 1
  <1> DEFINE More(k) == IF SamePage(line + bb.best[k], line) THEN <<line + bb.best[k]>> ELSE <<>>
             Body(f) == [k \in 0 .. 1 |-> IF k = 0 THEN <<>> ELSE f[k - 1] \o More(k)]
             issued == CHOOSE f : f = Body(f)
             last == <<>> \o More(1)
             run == [k \in 0 .. 1 |-> IF k = 0 THEN <<>> ELSE last]
  <1>1. run = Body(run)
    <2> HIDE DEF More
    <2> SUFFICES ASSUME NEW k \in 0 .. 1
                 PROVE  run[k] = IF k = 0 THEN <<>> ELSE run[k - 1] \o More(k)
      OBVIOUS
    <2>1. CASE k = 0
      BY <2>1
    <2>2. CASE k = 1
      <3>1. last = <<>> \o More(1)
        OBVIOUS
      <3> HIDE DEF last
      <3>2. run[1] = last /\ run[0] = <<>> /\ k - 1 = 0 /\ k # 0
        BY <2>2
      <3> HIDE DEF run
      <3> QED
        BY <2>2, <3>1, <3>2
    <2> QED
      BY <2>1, <2>2
  <1>2. BopLines(bb, line, 1) = IF bb.enabled THEN issued[1] ELSE <<>>
    BY DEF BopLines
  <1>3. issued = Body(issued)
    <2> HIDE DEF Body, run
    <2> QED
      BY <1>1
  <1> HIDE DEF issued
  <1>4. issued[0] = <<>>
    BY <1>3
  <1>5. issued[1] = last
    <2> HIDE DEF More
    <2>1. issued[1] = issued[0] \o More(1)
      BY <1>3
    <2> QED
      BY <1>4, <2>1
  <1>6. line + bb.best[1] \in Nat
    BY DEF BopStates
  <1>7. last \in Seq(Nat) /\ Len(last) <= 1
    BY <1>6
  <1> HIDE DEF last
  <1>8. <<>> \in Seq(Nat) /\ Len(<<>>) <= 1
    OBVIOUS
  <1>9. BopLines(bb, line, 1) = last \/ BopLines(bb, line, 1) = <<>>
    BY <1>2, <1>5, Zenon
  <1> QED
    BY <1>7, <1>8, <1>9, Zenon

-----------------------------------------------------------------------------
(***************************************************************************)
(* The shadow table while the predictions of an access enter.              *)
(***************************************************************************)
Raw == [line : Nat, time : 0 .. Now, creator : {GHB, BOP, BOTH}]

Predictions == [line : Nat, by : {GHB, BOP}]

OneEach(table) == \A e, f \in table : e.line = f.line => e = f

Table(table) ==
    /\ table \in SUBSET Raw /\ IsFiniteSet(table)
    /\ Cardinality(table) <= ShadowMax /\ OneEach(table)

\* An entry of now that a prediction made or touched.
Holds(table, p) ==
    \E e \in table : e.line = p.line /\ e.time = Now /\ e.creator \in {p.by, BOTH}

\* The first k predictions are in the table, and nothing else has their time.
Filling(table, predictions, k) ==
    /\ Table(table)
    /\ \A j \in 1 .. k : Holds(table, predictions[j])
    /\ \A e \in table : e.time = Now => \E j \in 1 .. k : predictions[j].line = e.line

LEMMA ShadowBounds == ShadowMax \in Nat /\ ShadowMax >= MaxDegree + 1 /\ MaxDegree \in Nat /\ Now \in Nat
  BY DegreeBounds, PrefetchersAssumption DEF Now

\* The clean-up finds an oldest entry.
LEMMA OldestIsThere ==
  ASSUME NEW table \in SUBSET Raw, table # {}, OneEach(table)
  PROVE  Oldest(table) \in table /\ \A f \in table : Oldest(table).time <= f.time
  <1> DEFINE times == {e.time : e \in table}
  <1>1. \A e \in table : e.time \in Nat /\ e.line \in Nat
    BY ShadowBounds DEF Raw
  <1>2. times \in SUBSET Nat /\ times # {}
    BY <1>1
  <1>3. PICK t \in times : \A u \in times : t <= u
    <2> HIDE DEF times
    <2> QED
      BY <1>2, LeastNatural
  <1> DEFINE lines == {e.line : e \in {f \in table : f.time = t}}
  <1>4. lines \in SUBSET Nat /\ lines # {}
    BY <1>1, <1>3
  <1>5. PICK l \in lines : \A m \in lines : l <= m
    <2> HIDE DEF lines
    <2> QED
      BY <1>4, LeastNatural
  <1>6. PICK o \in table : o.time = t /\ o.line = l
    BY <1>5
  <1>7. \A f \in table \ {o} : o.time < f.time \/ (o.time = f.time /\ o.line < f.line)
    <2> TAKE f \in table \ {o}
    <2>1. t <= f.time /\ f.time \in Nat /\ t \in Nat /\ f.line \in Nat /\ l \in Nat
      BY <1>1, <1>3, <1>6
    <2>2. f.time = t => l <= f.line
      BY <1>5
    <2>3. f.line # l
      BY <1>6 DEF OneEach
    <2> QED
      BY <1>6, <2>1, <2>2, <2>3
  <1> DEFINE First(e) == \A f \in table \ {e} : e.time < f.time \/ (e.time = f.time /\ e.line < f.line)
             oldest == CHOOSE e \in table : First(e)
  <1>8. oldest = Oldest(table)
    BY DEF Oldest
  <1>9. First(o)
    BY <1>7
  <1> HIDE DEF First
  <1>10. oldest \in table /\ First(oldest)
    BY <1>9
  <1> HIDE DEF oldest
  <1>11. \A f \in table : oldest.time <= f.time
    BY <1>1, <1>10 DEF First
  <1> QED
    BY <1>8, <1>10, <1>11

\* The entries of now are no more than the predictions.
LEMMA SomeAreOlder ==
  ASSUME NEW table \in SUBSET Raw, IsFiniteSet(table), OneEach(table),
         NEW predictions, NEW k \in Nat, Cardinality(table) > k,
         \A e \in table : e.time = Now => \E j \in 1 .. k : predictions[j].line = e.line
  PROVE  \E e \in table : e.time < Now
  <1> SUFFICES ASSUME ~ \E e \in table : e.time < Now
               PROVE  FALSE
    OBVIOUS
  <1>1. \A e \in table : e.time = Now
    BY ShadowBounds DEF Raw
  <1> DEFINE f == [e \in table |-> CHOOSE j \in 1 .. k : predictions[j].line = e.line]
  <1>2. \A e \in table : f[e] \in 1 .. k /\ predictions[f[e]].line = e.line
    BY <1>1
  <1>3. f \in [table -> 1 .. k]
    BY <1>2
  <1> HIDE DEF f
  <1>4. \A d, e \in table : f[d] = f[e] => d = e
    BY <1>2 DEF OneEach
  <1>5. f \in Injection(table, 1 .. k)
    BY <1>3, <1>4 DEF Injection, IsInjective
  <1>6. IsFiniteSet(1 .. k) /\ Cardinality(1 .. k) = k
    BY FS_Interval
  <1>7. Cardinality(table) <= Cardinality(1 .. k)
    BY <1>5, <1>6, FS_Injection, Zenon
  <1>8. Cardinality(table) \in Nat
    BY FS_CardinalityType
  <1> QED
    BY <1>6, <1>7, <1>8

\* The creator of a touched entry stands for all that predicted the line.
LEMMA CreatorStandsForAll ==
  ASSUME NEW old \in SUBSET Raw, NEW by \in {GHB, BOP}
  PROVE  LET creators == {by} \cup {e.creator : e \in old}
             creator == IF Cardinality(creators) = 1 THEN by ELSE BOTH
         IN  /\ creator \in {by, BOTH}
             /\ \A e \in old : e.creator # by => creator = BOTH
  <1> DEFINE creators == {by} \cup {e.creator : e \in old}
             creator == IF Cardinality(creators) = 1 THEN by ELSE BOTH
  <1>1. IsFiniteSet({GHB, BOP, BOTH})
    <2>1. GHB # BOP /\ GHB # BOTH /\ BOP # BOTH
      BY DEF GHB, BOP, BOTH
    <2> QED
      BY <2>1, ThreeMembers, Zenon
  <1>2. creators \in SUBSET {GHB, BOP, BOTH}
    BY DEF Raw
  <1>3. IsFiniteSet(creators)
    <2> HIDE DEF creators
    <2> QED
      BY <1>1, <1>2, FS_Subset
  <1>4. ASSUME NEW e \in old, e.creator # by
        PROVE  creator = BOTH
    <2>1. e.creator \in creators /\ by \in creators
      OBVIOUS
    <2> HIDE DEF creators
    <2>2. ~ \E x : creators = {x}
      BY <1>4, <2>1
    <2>3. Cardinality(creators) # 1
      BY <1>3, <2>2, FS_Singleton
    <2> QED
      BY <2>3
  <1> QED
    BY <1>4

\* One prediction enters: it makes or touches an entry, whose creator stands for all
\* the predictors of the line, and the entry that the clean-up removes is not of now,
\* since the table has room for all predictions of an access
\* (update_shadow_table, hybrid.cc:20-46).
LEMMA ShadowedStep ==
  ASSUME NEW table, NEW predictions \in Seq(Predictions), Len(predictions) <= ShadowMax,
         NEW k \in 1 .. Len(predictions), Filling(table, predictions, k - 1)
  PROVE  Filling(Shadowed(table, predictions[k]), predictions, k)
  <1> DEFINE p == predictions[k]
             old == EntriesOf(table, p.line)
             creators == {p.by} \cup {e.creator : e \in old}
             creator == IF Cardinality(creators) = 1 THEN p.by ELSE BOTH
             new == [line |-> p.line, time |-> Now, creator |-> creator]
             rest == table \ old
             all == rest \cup {new}
  <1>1. /\ table \in SUBSET Raw /\ IsFiniteSet(table)
        /\ Cardinality(table) <= ShadowMax /\ OneEach(table)
        /\ \A j \in 1 .. k - 1 : Holds(table, predictions[j])
        /\ \A e \in table : e.time = Now => \E j \in 1 .. k - 1 : predictions[j].line = e.line
    BY DEF Filling, Table
  <1>2. p \in Predictions /\ p.line \in Nat /\ p.by \in {GHB, BOP}
    <2>1. p \in Predictions
      OBVIOUS
    <2> HIDE DEF p
    <2> QED
      BY <2>1 DEF Predictions
  <1>3. old \in SUBSET Raw /\ rest \in SUBSET Raw /\ (\A e \in rest : e.line # p.line)
        /\ \A e \in old : e.line = p.line
    BY <1>1 DEF EntriesOf
  <1>4. creator \in {p.by, BOTH} /\ \A e \in old : e.creator # p.by => creator = BOTH
    <2> HIDE DEF p, old
    <2> QED
      BY <1>2, <1>3, CreatorStandsForAll
  <1> HIDE DEF creator
  <1>5. new \in Raw /\ new.line = p.line /\ new.time = Now /\ new.creator = creator
    BY <1>2, <1>4, ShadowBounds DEF Raw, BOTH, GHB, BOP
  <1>6. Shadowed(table, p) = IF Cardinality(all) > ShadowMax THEN all \ {Oldest(all)} ELSE all
    BY DEF Shadowed, creator
  <1> HIDE DEF new
  <1>7. all \in SUBSET Raw /\ OneEach(all) /\ all # {}
    BY <1>1, <1>3, <1>5 DEF OneEach
  <1>8. IsFiniteSet(all) /\ Cardinality(all) \in Nat /\ Cardinality(all) <= ShadowMax + 1
    <2> HIDE DEF old, p
    <2>1. IsFiniteSet(rest) /\ Cardinality(rest) <= Cardinality(table)
      BY <1>1, FS_Subset, Zenon
    <2>2. Cardinality(rest) \in Nat /\ Cardinality(table) \in Nat
      BY <1>1, <2>1, FS_CardinalityType
    <2> HIDE DEF rest
    <2>3. IsFiniteSet(all)
          /\ Cardinality(all) = IF new \in rest THEN Cardinality(rest) ELSE Cardinality(rest) + 1
      BY <2>1, FS_AddElement
    <2> HIDE DEF all
    <2> QED
      BY <1>1, <2>1, <2>2, <2>3, ShadowBounds
  <1>9. \A j \in 1 .. k : Holds(all, predictions[j])
    <2> TAKE j \in 1 .. k
    <2>1. CASE predictions[j].line # p.line
      <3>1. j \in 1 .. k - 1
        BY <2>1
      <3>2. PICK e \in table : e.line = predictions[j].line /\ e.time = Now
                               /\ e.creator \in {predictions[j].by, BOTH}
        BY <1>1, <3>1 DEF Holds
      <3>3. e \in all
        BY <2>1, <3>2 DEF EntriesOf
      <3> QED
        BY <3>2, <3>3 DEF Holds
    <2>2. CASE predictions[j].line = p.line /\ predictions[j].by = p.by
      BY <1>4, <1>5, <2>2 DEF Holds
    <2>3. CASE predictions[j].line = p.line /\ predictions[j].by # p.by
      <3>1. j \in 1 .. k - 1
        BY <2>3
      <3>2. PICK e \in table : e.line = predictions[j].line /\ e.time = Now
                               /\ e.creator \in {predictions[j].by, BOTH}
        BY <1>1, <3>1 DEF Holds
      <3>3. e \in old /\ e.creator # p.by
        BY <1>2, <2>3, <3>2 DEF EntriesOf, BOTH, GHB, BOP
      <3>4. creator = BOTH
        BY <1>4, <3>3
      <3> QED
        BY <1>5, <2>3, <3>4 DEF Holds
    <2> QED
      BY <2>1, <2>2, <2>3
  <1>10. \A e \in all : e.time = Now => \E j \in 1 .. k : predictions[j].line = e.line
    <2> TAKE e \in all
    <2>1. CASE e = new
      BY <1>5, <2>1
    <2>2. CASE e \in table
      BY <1>1, <2>2
    <2> QED
      BY <2>1, <2>2
  <1> HIDE DEF all
  <1>11. CASE Cardinality(all) <= ShadowMax
    <2>1. Shadowed(table, p) = all
      BY <1>6, <1>8, <1>11, ShadowBounds
    <2> QED
      BY <1>7, <1>8, <1>9, <1>10, <1>11, <2>1 DEF Filling, Table
  <1>12. CASE Cardinality(all) > ShadowMax
    <2> DEFINE o == Oldest(all)  kept == all \ {o}
    <2>1. Shadowed(table, p) = kept
      BY <1>6, <1>12
    <2>2. o \in all /\ \A e \in all : o.time <= e.time
      BY <1>7, OldestIsThere
    <2> HIDE DEF o
    <2>3. k \in Nat /\ Cardinality(all) > k
      BY <1>12, <1>8, ShadowBounds
    <2>4. \E e \in all : e.time < Now
      BY <1>7, <1>8, <1>10, <2>3, SomeAreOlder
    <2>5. o.time # Now
      BY <1>7, <2>2, <2>4, ShadowBounds DEF Raw
    <2>6. IsFiniteSet(kept) /\ Cardinality(kept) <= ShadowMax
      <3>1. IsFiniteSet(kept) /\ Cardinality(kept) = Cardinality(all) - 1
        BY <1>8, <2>2, FS_RemoveElement
      <3> QED
        BY <1>8, <3>1, ShadowBounds
    <2>7. kept \in SUBSET Raw /\ OneEach(kept) /\ \A e \in kept : e \in all
      BY <1>7 DEF OneEach
    <2>8. \A e \in all : e.time = Now => e \in kept
      BY <2>5
    <2> HIDE DEF kept
    <2>9. \A j \in 1 .. k : Holds(kept, predictions[j])
      BY <1>9, <2>8 DEF Holds
    <2> QED
      BY <1>10, <2>1, <2>6, <2>7, <2>9 DEF Filling, Table
  <1> QED
    BY <1>8, <1>11, <1>12, ShadowBounds

\* All predictions of an access enter.
LEMMA AllShadowedStep ==
  ASSUME NEW table, NEW predictions \in Seq(Predictions), Len(predictions) <= ShadowMax,
         Filling(table, predictions, 0)
  PROVE  Filling(AllShadowed(table, predictions), predictions, Len(predictions))
  <1> DEFINE n == Len(predictions)
             C == SUBSET Raw
             I == [k \in 0 .. n |-> {t \in C : Filling(t, predictions, k)}]
             turn == [k \in 1 .. n |-> [t \in C |-> Shadowed(t, predictions[k])]]
             Body(f) == [k \in 0 .. n |-> IF k = 0 THEN table ELSE Shadowed(f[k - 1], predictions[k])]
             after == CHOOSE f : f = Body(f)
  <1>1. n \in Nat
    OBVIOUS
  <1>2. ASSUME NEW k \in 1 .. n, NEW t \in I[k - 1]
        PROVE  turn[k][t] \in I[k]
    <2>1. t \in C /\ Filling(t, predictions, k - 1)
      BY <1>1, <1>2
    <2>2. Filling(Shadowed(t, predictions[k]), predictions, k)
      BY <2>1, ShadowedStep
    <2>3. Shadowed(t, predictions[k]) \in C
      BY <2>2 DEF Filling, Table
    <2> QED
      BY <2>1, <2>2, <2>3
  <1>3. table \in I[0]
    BY <1>1 DEF Filling, Table
  <1>4. PICK run \in [0 .. n -> C] :
           /\ run[0] = table
           /\ \A k \in 1 .. n : run[k] = turn[k][run[k - 1]]
           /\ \A k \in 0 .. n : run[k] \in I[k]
    <2>1. I \in [0 .. n -> SUBSET C]
      OBVIOUS
    <2> HIDE DEF I, turn, n, C
    <2>2. \E run \in [0 .. n -> C] :
            /\ LoopRun(run, n, table, turn)
            /\ \A k \in 0 .. n : run[k] \in I[k]
      BY <1>1, <1>2, <1>3, <2>1, LoopKeeps
    <2> QED
      BY <2>2 DEF LoopRun
  <1>5. run = Body(run)
    <2>1. \A k \in 0 .. n : run[k] = IF k = 0 THEN table ELSE Shadowed(run[k - 1], predictions[k])
      <3> TAKE k \in 0 .. n
      <3>1. CASE k = 0
        BY <1>4, <3>1
      <3>2. CASE k # 0
        <4>1. k \in 1 .. n /\ k - 1 \in 0 .. n
          BY <1>1, <3>2
        <4>2. run[k - 1] \in C
          BY <1>4, <4>1
        <4> QED
          BY <1>4, <3>2, <4>1, <4>2
      <3> QED
        BY <3>1, <3>2
    <2> QED
      BY <2>1
  <1>6. AllShadowed(table, predictions) = after[n]
    BY DEF AllShadowed
  <1>7. after = Body(after)
    <2> HIDE DEF Body
    <2> QED
      BY <1>5
  <1> HIDE DEF after
  <1> DEFINE S == {k \in 0 .. n : after[k] = run[k]}
  <1>8. 0 .. n \subseteq S
    <2>1. 0 \in S
      BY <1>1, <1>4, <1>7
    <2>2. ASSUME NEW k \in 0 .. n - 1, k \in S PROVE k + 1 \in S
      <3>1. k + 1 \in 0 .. n /\ k + 1 # 0 /\ (k + 1) - 1 = k /\ k \in 0 .. n
        BY <1>1
      <3>2. after[k + 1] = Shadowed(after[k], predictions[k + 1])
        BY <1>7, <3>1
      <3>3. run[k + 1] = Shadowed(run[k], predictions[k + 1])
        BY <1>5, <3>1
      <3> QED
        BY <2>2, <3>1, <3>2, <3>3
    <2> HIDE DEF S
    <2> QED
      BY <1>1, <2>1, <2>2, LoopInduction
  <1>9. n \in 0 .. n
    BY <1>1
  <1>10. after[n] = run[n] /\ run[n] \in I[n]
    BY <1>4, <1>8, <1>9
  <1>11. Filling(run[n], predictions, n)
    BY <1>9, <1>10
  <1> QED
    BY <1>6, <1>10, <1>11

\* Numbering the times anew keeps the lines and their creators.
LEMMA RenumberedStep ==
  ASSUME NEW table, Table(table)
  PROVE  LET new == Renumbered(table)
         IN  /\ new \in SUBSET Entries /\ IsFiniteSet(new)
             /\ Cardinality(new) <= ShadowMax /\ OneEach(new)
             /\ \A e \in table : \E f \in new : f.line = e.line /\ f.creator = e.creator
             /\ \A f \in new : \E e \in table : f.line = e.line /\ f.creator = e.creator
  <1> DEFINE Older(e) == {h \in table : h.time < e.time}
             Times(e) == {f.time : f \in Older(e)}
             rank == [e \in table |-> Cardinality(Times(e))]
             F == [e \in table |-> [e EXCEPT !.time = rank[e]]]
             new == {F[e] : e \in table}
  <1>1. /\ table \in SUBSET Raw /\ IsFiniteSet(table)
        /\ Cardinality(table) <= ShadowMax /\ OneEach(table)
    BY DEF Table
  <1>2. ASSUME NEW e \in table
        PROVE  Cardinality(Times(e)) \in 0 .. ShadowMax
    <2> DEFINE older == Older(e)  times == Times(e)  time == [f \in older |-> f.time]
    <2>1. older \in SUBSET table
      OBVIOUS
    <2>2. time \in Surjection(older, times)
      BY DEF Surjection
    <2> HIDE DEF older, times, time
    <2>3. IsFiniteSet(older) /\ Cardinality(older) <= Cardinality(table)
      BY <1>1, <2>1, FS_Subset, Zenon
    <2>4. IsFiniteSet(times) /\ Cardinality(times) <= Cardinality(older)
      BY <2>2, <2>3, FS_Surjection, Zenon
    <2>5. Cardinality(times) \in Nat /\ Cardinality(older) \in Nat /\ Cardinality(table) \in Nat
      BY <1>1, <2>3, <2>4, FS_CardinalityType
    <2>6. Cardinality(times) \in 0 .. ShadowMax
      BY <1>1, <2>3, <2>4, <2>5, ShadowBounds
    <2> QED
      BY <2>6 DEF times
  <1>3. \A e \in table : rank[e] \in 0 .. ShadowMax
    BY <1>2
  <1>4. Renumbered(table) = new
    BY DEF Renumbered
  <1> HIDE DEF rank
  <1>5. \A e \in table : /\ F[e].line = e.line /\ F[e].creator = e.creator
                         /\ F[e] \in Entries
    <2> TAKE e \in table
    <2>1. e \in Raw /\ rank[e] \in 0 .. ShadowMax
      BY <1>1, <1>3
    <2>2. F[e] = [e EXCEPT !.time = rank[e]]
      OBVIOUS
    <2> QED
      BY <2>1, <2>2 DEF Raw, Entries
  <1>6. F \in Surjection(table, new)
    BY DEF Surjection
  <1> HIDE DEF F
  <1>7. new \in SUBSET Entries
    BY <1>5
  <1>8. OneEach(new)
    BY <1>1, <1>5 DEF OneEach
  <1>9. /\ \A e \in table : \E f \in new : f.line = e.line /\ f.creator = e.creator
        /\ \A f \in new : \E e \in table : f.line = e.line /\ f.creator = e.creator
    BY <1>5
  <1> HIDE DEF new
  <1>10. IsFiniteSet(new) /\ Cardinality(new) <= ShadowMax
    <2>1. IsFiniteSet(new) /\ Cardinality(new) <= Cardinality(table)
      BY <1>1, <1>6, FS_Surjection, Zenon
    <2>2. Cardinality(new) \in Nat /\ Cardinality(table) \in Nat
      BY <1>1, <2>1, FS_CardinalityType
    <2> QED
      BY <1>1, <2>1, <2>2, ShadowBounds
  <1> QED
    BY <1>4, <1>7, <1>8, <1>9, <1>10

\* ShadowInv of a table and the lines that were predicted last.
Survives(table, lines) ==
    /\ table \in SUBSET Entries /\ IsFiniteSet(table)
    /\ lines \in [{GHB, BOP} -> SUBSET Nat]
    /\ \A p \in {GHB, BOP} : \A line \in lines[p] :
          \E e \in table : e.line = line /\ e.creator \in {p, BOTH}
    /\ OneEach(table)
    /\ Cardinality(table) <= ShadowMax

By(p, lines) == [k \in DOMAIN lines |-> [line |-> lines[k], by |-> p]]

LEMMA PredictionsBy ==
  ASSUME NEW p \in {GHB, BOP}, NEW lines \in Seq(Nat)
  PROVE  /\ By(p, lines) \in Seq(Predictions) /\ Len(By(p, lines)) = Len(lines)
         /\ \A k \in 1 .. Len(lines) : By(p, lines)[k] = [line |-> lines[k], by |-> p]
  <1> DEFINE n == Len(lines)
  <1>1. n \in Nat /\ DOMAIN lines = 1 .. n /\ \A k \in 1 .. n : lines[k] \in Nat
    OBVIOUS
  <1> HIDE DEF n
  <1>2. By(p, lines) = [k \in 1 .. n |-> [line |-> lines[k], by |-> p]]
    BY <1>1 DEF By
  <1>3. \A k \in 1 .. n : [line |-> lines[k], by |-> p] \in Predictions
    BY <1>1 DEF Predictions
  <1>4. By(p, lines) \in [1 .. n -> Predictions] /\ DOMAIN By(p, lines) = 1 .. n
        /\ \A k \in 1 .. n : By(p, lines)[k] = [line |-> lines[k], by |-> p]
    BY <1>2, <1>3
  <1> HIDE <1>2
  <1>5. By(p, lines) \in Seq(Predictions) /\ Len(By(p, lines)) = n
    BY <1>1, <1>4
  <1> QED
    BY <1>4, <1>5 DEF n

\* What the two parts predict, in the order of the code.
LEMMA PredictionsOfBoth ==
  ASSUME NEW xs \in Seq(Nat), NEW ys \in Seq(Nat)
  PROVE  LET all == By(GHB, xs) \o By(BOP, ys)
         IN  /\ all \in Seq(Predictions) /\ Len(all) = Len(xs) + Len(ys)
             /\ \A line \in ToSet(xs) : \E j \in 1 .. Len(all) : all[j] = [line |-> line, by |-> GHB]
             /\ \A line \in ToSet(ys) : \E j \in 1 .. Len(all) : all[j] = [line |-> line, by |-> BOP]
  <1> DEFINE px == By(GHB, xs)  py == By(BOP, ys)  all == px \o py
  <1>1. px \in Seq(Predictions) /\ Len(px) = Len(xs)
        /\ \A k \in 1 .. Len(xs) : px[k] = [line |-> xs[k], by |-> GHB]
    BY PredictionsBy, Zenon
  <1>2. py \in Seq(Predictions) /\ Len(py) = Len(ys)
        /\ \A k \in 1 .. Len(ys) : py[k] = [line |-> ys[k], by |-> BOP]
    BY PredictionsBy, Zenon
  <1> HIDE DEF px, py
  <1>3. Len(xs) \in Nat /\ Len(ys) \in Nat
    OBVIOUS
  <1>4. all \in Seq(Predictions) /\ Len(all) = Len(xs) + Len(ys)
    <2>1. \A T : \A s, t \in Seq(T) : s \o t \in Seq(T) /\ Len(s \o t) = Len(s) + Len(t)
      OBVIOUS
    <2>2. px \o py \in Seq(Predictions) /\ Len(px \o py) = Len(px) + Len(py)
      BY <1>1, <1>2, <2>1, Zenon
    <2> QED
      BY <1>1, <1>2, <2>2
  <1>5. \A k \in 1 .. Len(xs) : k \in 1 .. Len(all) /\ all[k] = px[k]
    BY <1>1, <1>2, <1>3, <1>4
  <1>6. \A k \in 1 .. Len(ys) : k + Len(xs) \in 1 .. Len(all) /\ all[k + Len(xs)] = py[k]
    BY <1>1, <1>2, <1>3, <1>4
  <1> HIDE DEF all
  <1>7. ASSUME NEW line \in ToSet(xs)
        PROVE  \E j \in 1 .. Len(all) : all[j] = [line |-> line, by |-> GHB]
    <2>1. PICK k \in 1 .. Len(xs) : xs[k] = line
      BY <1>7 DEF ToSet
    <2> QED
      BY <1>1, <1>5, <2>1
  <1>8. ASSUME NEW line \in ToSet(ys)
        PROVE  \E j \in 1 .. Len(all) : all[j] = [line |-> line, by |-> BOP]
    <2>1. PICK k \in 1 .. Len(ys) : ys[k] = line
      BY <1>8 DEF ToSet
    <2> QED
      BY <1>2, <1>6, <2>1
  <1> QED
    BY <1>4, <1>7, <1>8 DEF all, px, py

\* An access that hits no useful prefetch takes its line from the table.
LEMMA TakenStep ==
  ASSUME NEW table, NEW lines, Survives(table, lines), NEW line
  PROVE  /\ Table(table \ EntriesOf(table, line))
         /\ \A e \in table \ EntriesOf(table, line) : e \in Entries
         /\ Survives(Renumbered(table \ EntriesOf(table, line)),
                     [p \in {GHB, BOP} |-> lines[p] \ {line}])
  <1> DEFINE rest == table \ EntriesOf(table, line)  new == Renumbered(rest)
             left == [p \in {GHB, BOP} |-> lines[p] \ {line}]
  <1>1. /\ table \in SUBSET Entries /\ IsFiniteSet(table)
        /\ lines \in [{GHB, BOP} -> SUBSET Nat]
        /\ OneEach(table) /\ Cardinality(table) <= ShadowMax
    BY DEF Survives
  <1>2. rest \in SUBSET table /\ \A e \in table : e.line # line => e \in rest
    BY DEF EntriesOf
  <1> HIDE DEF rest
  <1>3. rest \in SUBSET Raw /\ OneEach(rest) /\ rest \in SUBSET Entries
    BY <1>1, <1>2, ShadowBounds DEF Entries, Raw, OneEach, Now
  <1>4. IsFiniteSet(rest) /\ Cardinality(rest) <= ShadowMax
    <2>1. IsFiniteSet(rest) /\ Cardinality(rest) <= Cardinality(table)
      BY <1>1, <1>2, FS_Subset, Zenon
    <2>2. Cardinality(rest) \in Nat /\ Cardinality(table) \in Nat
      BY <1>1, <2>1, FS_CardinalityType
    <2> QED
      BY <1>1, <2>1, <2>2, ShadowBounds
  <1>5. Table(rest)
    BY <1>3, <1>4 DEF Table
  <1>6. /\ new \in SUBSET Entries /\ IsFiniteSet(new)
        /\ Cardinality(new) <= ShadowMax /\ OneEach(new)
        /\ \A e \in rest : \E f \in new : f.line = e.line /\ f.creator = e.creator
    BY <1>5, RenumberedStep
  <1> HIDE DEF new
  <1>7. left \in [{GHB, BOP} -> SUBSET Nat]
    BY <1>1
  <1>8. \A p \in {GHB, BOP} : \A m \in left[p] : m \in lines[p] /\ m # line
    OBVIOUS
  <1> HIDE DEF left
  <1>9. \A p \in {GHB, BOP} : \A m \in left[p] :
           \E e \in new : e.line = m /\ e.creator \in {p, BOTH}
    <2> TAKE p \in {GHB, BOP}
    <2> TAKE m \in left[p]
    <2>1. PICK e \in table : e.line = m /\ e.creator \in {p, BOTH}
      BY <1>8 DEF Survives
    <2>2. e \in rest
      BY <1>2, <1>8, <2>1
    <2> QED
      BY <1>6, <2>1, <2>2
  <1>10. Survives(new, left)
    BY <1>6, <1>7, <1>9 DEF Survives
  <1> QED
    BY <1>3, <1>5, <1>10 DEF rest, new, left

\* The table and the lines predicted last after a miss or a useful prefetch.
Entered(table, line, xs, ys) ==
    Renumbered(AllShadowed(table \ EntriesOf(table, line), By(GHB, xs) \o By(BOP, ys)))

LastOf(xs, ys) == [p \in {GHB, BOP} |-> ToSet(IF p = GHB THEN xs ELSE ys)]

\* A miss or a useful prefetch enters what both parts would fetch.
LEMMA EnteredStep ==
  ASSUME NEW table, NEW lines, Survives(table, lines), NEW line,
         NEW xs \in Seq(Nat), Len(xs) <= MaxDegree, NEW ys \in Seq(Nat), Len(ys) <= 1
  PROVE  Survives(Entered(table, line, xs, ys), LastOf(xs, ys))
  <1> USE DEF Entered, LastOf
  <1> DEFINE rest == table \ EntriesOf(table, line)
             all == By(GHB, xs) \o By(BOP, ys)
             filled == AllShadowed(rest, all)
             new == Renumbered(filled)
             last == [p \in {GHB, BOP} |-> ToSet(IF p = GHB THEN xs ELSE ys)]
  <1>1. Table(rest) /\ \A e \in rest : e \in Entries
    BY TakenStep
  <1>2. /\ all \in Seq(Predictions) /\ Len(all) = Len(xs) + Len(ys)
        /\ \A m \in ToSet(xs) : \E j \in 1 .. Len(all) : all[j] = [line |-> m, by |-> GHB]
        /\ \A m \in ToSet(ys) : \E j \in 1 .. Len(all) : all[j] = [line |-> m, by |-> BOP]
    BY PredictionsOfBoth
  <1> HIDE DEF rest, all
  <1>3. Len(all) <= ShadowMax
    BY <1>2, ShadowBounds
  <1>4. Filling(rest, all, 0)
    BY <1>1, ShadowBounds DEF Filling, Entries, Now
  <1>5. Filling(filled, all, Len(all))
    BY <1>2, <1>3, <1>4, AllShadowedStep
  <1> HIDE DEF filled
  <1>6. /\ new \in SUBSET Entries /\ IsFiniteSet(new)
        /\ Cardinality(new) <= ShadowMax /\ OneEach(new)
        /\ \A e \in filled : \E f \in new : f.line = e.line /\ f.creator = e.creator
    BY <1>5, RenumberedStep DEF Filling
  <1> HIDE DEF new
  <1>7. GHB # BOP
    BY DEF GHB, BOP
  <1>8. last[GHB] = ToSet(xs) /\ last[BOP] = ToSet(ys)
    BY <1>7
  <1>9. last \in [{GHB, BOP} -> SUBSET Nat]
    <2>1. ToSet(xs) \in SUBSET Nat /\ ToSet(ys) \in SUBSET Nat
      BY DEF ToSet
    <2> QED
      BY <2>1
  <1> HIDE DEF last
  <1>10. ASSUME NEW p \in {GHB, BOP}, NEW m \in last[p]
         PROVE  \E e \in new : e.line = m /\ e.creator \in {p, BOTH}
    <2>1. PICK j \in 1 .. Len(all) : all[j] = [line |-> m, by |-> p]
      BY <1>2, <1>8
    <2>2. Holds(filled, all[j])
      BY <1>5 DEF Filling
    <2>3. PICK e \in filled : e.line = m /\ e.creator \in {p, BOTH}
      BY <2>1, <2>2 DEF Holds
    <2> QED
      BY <1>6, <2>3
  <1>11. Survives(new, last)
    BY <1>6, <1>9, <1>10 DEF Survives
  <1> QED
    BY <1>11 DEF new, last, filled, rest, all

-----------------------------------------------------------------------------
(***************************************************************************)
(* The invariant holds at the start and is kept by every step.             *)
(***************************************************************************)
LEMMA ScoresOfState == ScoresAreTests <=> ScoresWithinTurns(b)
  BY DEF ScoresAreTests, ScoresWithinTurns, Turns

LEMMA ShadowOfState == ShadowInv <=> Survives(shadow, predicted)
  BY DEF ShadowInv, Survives, PredictionsSurvive, OneEach

\* The traces give accesses.
LEMMA TracesAreAccesses ==
  ASSUME NEW k \in Kinds
  PROVE  /\ Len(Trace[k]) \in Nat \ {0}
         /\ \A p \in 1 .. Len(Trace[k]) : \A acc \in Trace[k][p] : acc.pc \in Pcs /\ acc.line \in Nat
  <1> DEFINE t == Trace[k]
  <1>1. t \in Seq(SUBSET Accesses) /\ t # <<>>
    BY TraceAssumption
  <1> HIDE DEF t
  <1>2. Len(t) \in Nat \ {0} /\ \A p \in 1 .. Len(t) : t[p] \in SUBSET Accesses
    BY <1>1
  <1> QED
    BY <1>2 DEF t, Accesses, Pcs

LEMMA TournamentBounds ==
  TournamentMax \in Nat /\ Middle \in 0 .. TournamentMax
  BY PrefetchersAssumption DEF Middle

\* What is added to a sum is added to its second part.
LEMMA SumGrows ==
  ASSUME NEW x \in Int, NEW y \in Int, NEW z \in Int, NEW more \in Int, x = y + z
  PROVE  x + more = y + (z + more)
  OBVIOUS

LEMMA InitStep == Init => IInv
  <1> SUFFICES ASSUME Init PROVE IInv
    OBVIOUS
  <1> USE DEF Init
  <1>1. g \in GhbStates
    <2>1. (CHOOSE t \in Tags : TRUE) \in Tags
      BY GhbAssumption
    <2>2. Null \in Pointers /\ 0 \in 0 .. PtrRange - 1
      BY TwoBuffers DEF Null, Pointers
    <2> QED
      BY <2>1, <2>2 DEF GhbStart, GhbStates
  <1>2. b \in BopStates /\ ScoresWithinTurns(b)
    <2>1. b \in BopStates
      BY OffsetCount DEF BopStart, BopStates
    <2>2. ScoresWithinTurns(b)
      <3> SUFFICES ASSUME NEW i \in DOMAIN Offsets
                   PROVE  b.scores[i] <= Cardinality(Turns(b.accesses, b.rounds, i))
        BY DEF ScoresWithinTurns
      <3>1. b.scores[i] = 0 /\ b.rounds = 0
        BY DEF BopStart
      <3>2. Cardinality(Turns(b.accesses, b.rounds, i)) \in Nat
        BY <3>1, TurnsAreFinite
      <3> QED
        BY <3>1, <3>2
    <2> QED
      BY <2>1, <2>2
  <1>3. TypeInv
    <2>1. epoch \in EpochStates
      BY DegreeBounds DEF EpochStart, EpochStates
    <2>2. kind \in Kinds /\ pos \in 1 .. Len(Trace[kind])
      BY TracesAreAccesses
    <2>3. tournament \in 0 .. TournamentMax
      BY TournamentBounds
    <2>4. stats \in [issued : 0 .. CountMax, useful : 0 .. CountMax]
          /\ since \in [issued : Nat, useful : Nat, phase : BOOLEAN]
      BY DegreeBounds
    <2>5. log \in Seq(Logged) /\ Len(log) <= GhbSize /\ age \in [Indexes -> 0 .. PtrRange]
      BY TwoBuffers
    <2> QED
      BY <1>1, <1>2, <2>1, <2>2, <2>3, <2>4, <2>5 DEF TypeInv
  <1>4. GhbInv
    <2>1. \A p \in 1 .. GhbSize : EntryOf(g, p).ptr = Null
      <3> TAKE p \in 1 .. GhbSize
      <3> DEFINE a == g.head - p
      <3>1. a \in Int
        BY TwoBuffers DEF GhbStart
      <3> HIDE DEF a
      <3>2. a % GhbSize \in 0 .. GhbSize - 1
        BY <3>1, TwoBuffers
      <3> QED
        BY <3>2 DEF EntryOf, GhbStart, a
    <2>2. Len(log) = 0 /\ DOMAIN log = {}
      OBVIOUS
    <2>3. Buffered(g, log)
      BY <2>1, <2>2 DEF Buffered
    <2>4. Indexed(g, log, age)
      BY <2>2, TwoBuffers DEF Indexed
    <2>5. Linked(g, log)
      BY <2>2 DEF Linked
    <2> QED
      BY <2>3, <2>4, <2>5 DEF GhbInv
  <1>5. CountInv
    BY DEF CountInv, EpochStart
  <1>6. Survives(shadow, predicted)
    <2>1. IsFiniteSet({}) /\ Cardinality({}) = 0
      BY FS_EmptySet
    <2> QED
      BY <2>1, ShadowBounds DEF Survives, OneEach
  <1> QED
    BY <1>2, <1>3, <1>4, <1>5, <1>6, ScoresOfState, ShadowOfState DEF IInv

\* An access keeps the invariant.
LEMMA AccessStep == IInv /\ Access => IInv'
  <1> SUFFICES ASSUME IInv, Access PROVE IInv'
    OBVIOUS
  <1>1. TypeInv /\ GhbInv /\ CountInv /\ ScoresWithinTurns(b) /\ Survives(shadow, predicted)
    BY ScoresOfState, ShadowOfState DEF IInv
  <1>2. PICK acc \in Trace[kind][pos], hit \in BOOLEAN, useful \in BOOLEAN, bandwidth \in Bandwidths :
          LET trigger == ~ hit \/ useful
              ghbLines == FromGhb(acc)
              bopLines == FromBop(acc, trigger, bandwidth)
              fetched == Fetched(ghbLines, bopLines, Scored(acc.line))
          IN  /\ useful => hit
              /\ g' = IF UsesGhb THEN Recorded(g, acc.pc, acc.line) ELSE g
              /\ b' = IF UsesBop /\ trigger THEN BopLearned(b, acc.line) ELSE b
              /\ IF kind = "hybrid" THEN Tournament(acc.line, trigger, ghbLines, bopLines)
                 ELSE UNCHANGED <<tournament, shadow, predicted>>
              /\ \E issued \in 0 .. Len(fetched) : Counted(issued, IF useful THEN 1 ELSE 0)
              /\ IF UsesGhb
                 THEN /\ log' = LET access == [pc |-> acc.pc, block |-> acc.line,
                                   late |-> g.it[acc.pc.index].valid /\ age[acc.pc.index] = PtrRange]
                                    all == <<access>> \o log
                                IN  IF Len(all) > GhbSize THEN Front(all) ELSE all
                      /\ age' = [i \in Indexes |-> IF i = acc.pc.index THEN 0
                                                   ELSE IF age[i] < PtrRange THEN age[i] + 1 ELSE PtrRange]
                 ELSE UNCHANGED <<log, age>>
    BY Zenon DEF Access
  <1>3. pos' = 1 + (pos % Len(Trace[kind])) /\ UNCHANGED <<kind, epoch>>
    BY DEF Access
  <1> DEFINE trigger == ~ hit \/ useful
             ghbLines == FromGhb(acc)
             bopLines == FromBop(acc, trigger, bandwidth)
             fetched == Fetched(ghbLines, bopLines, Scored(acc.line))
  <1>4. /\ kind \in Kinds /\ g \in GhbStates /\ epoch \in EpochStates /\ b \in BopStates
        /\ tournament \in 0 .. TournamentMax
        /\ stats \in [issued : 0 .. CountMax, useful : 0 .. CountMax]
        /\ since \in [issued : Nat, useful : Nat, phase : BOOLEAN]
        /\ pos \in 1 .. Len(Trace[kind])
        /\ log \in Seq(Logged) /\ Len(log) <= GhbSize
        /\ age \in [Indexes -> 0 .. PtrRange]
    BY <1>1 DEF TypeInv
  <1>5. acc.pc \in Pcs /\ acc.line \in Nat /\ Len(Trace[kind]) \in Nat \ {0}
    BY <1>4, TracesAreAccesses
  <1>6. /\ g' \in GhbStates /\ log' \in Seq(Logged) /\ Len(log') <= GhbSize
        /\ age' \in [Indexes -> 0 .. PtrRange] /\ GhbInv'
    <2>1. CASE UsesGhb
      <3> DEFINE new == Recorded(g, acc.pc, acc.line)
                 nl == NewLog(log, LoggedAccess(g, age, acc.pc, acc.line))
                 na == NewAges(age, acc.pc)
      <3>1. /\ new \in GhbStates
            /\ nl \in Seq(Logged) /\ Len(nl) <= GhbSize
            /\ na \in [Indexes -> 0 .. PtrRange]
            /\ Buffered(new, nl) /\ Indexed(new, nl, na) /\ Linked(new, nl)
        BY <1>1, <1>4, <1>5, RecordedKeeps DEF GhbInv
      <3>2. g' = new /\ log' = nl /\ age' = na
        BY <1>2, <2>1, Zenon DEF NewLog, LoggedAccess, NewAges
      <3> HIDE DEF new, nl, na
      <3> QED
        BY <3>1, <3>2 DEF GhbInv
    <2>2. CASE ~ UsesGhb
      <3>1. g' = g /\ log' = log /\ age' = age
        BY <1>2, <2>2
      <3> QED
        BY <1>1, <1>4, <3>1 DEF GhbInv
    <2> QED
      BY <2>1, <2>2
  <1>7. b' \in BopStates /\ ScoresWithinTurns(b')
    <2>1. CASE UsesBop /\ trigger
      <3>1. b' = BopLearned(b, acc.line)
        BY <1>2, <2>1
      <3> QED
        BY <1>1, <1>4, <3>1, LearnedStep
    <2>2. CASE ~ (UsesBop /\ trigger)
      <3>1. b' = b
        BY <1>2, <2>2
      <3> QED
        BY <1>1, <1>4, <3>1
    <2> QED
      BY <2>1, <2>2
  <1>8. tournament' \in 0 .. TournamentMax /\ Survives(shadow', predicted')
    <2>1. CASE kind # "hybrid"
      <3>1. tournament' = tournament /\ shadow' = shadow /\ predicted' = predicted
        BY <1>2, <2>1
      <3> QED
        BY <1>1, <1>4, <3>1
    <2>2. CASE kind = "hybrid"
      <3>1. Tournament(acc.line, trigger, ghbLines, bopLines)
        BY <1>2, <2>2
      <3>2. tournament' = Scored(acc.line)
        BY <3>1 DEF Tournament
      <3>3. Scored(acc.line) \in 0 .. TournamentMax
        <4>1. \/ tournament > 0 /\ Scored(acc.line) = tournament - 1
              \/ tournament < TournamentMax /\ Scored(acc.line) = tournament + 1
              \/ Scored(acc.line) = tournament
          BY DEF Scored
        <4> QED
          BY <1>4, <4>1, TournamentBounds
      <3>4. ghbLines \in Seq(Nat) /\ Len(ghbLines) <= MaxDegree
        <4>1. epoch.degree \in Nat /\ epoch.degree <= MaxDegree
          BY <1>4, DegreeBounds DEF EpochStates
        <4>2. ghbLines = GhbBlocks(g, acc.pc, acc.line, epoch.degree)
          BY <2>2 DEF FromGhb, UsesGhb
        <4> HIDE DEF ghbLines
        <4>3. ghbLines \in Seq(Nat) /\ Len(ghbLines) <= epoch.degree
          BY <1>4, <1>5, <4>1, <4>2, GhbBlocksAreLines
        <4> QED
          BY <4>1, <4>3, DegreeBounds
      <3>5. trigger => bopLines \in Seq(Nat) /\ Len(bopLines) <= 1
        <4> SUFFICES ASSUME trigger PROVE bopLines \in Seq(Nat) /\ Len(bopLines) <= 1
          OBVIOUS
        <4>1. bopLines = BopLines(BopLearned(b, acc.line), acc.line, 1)
          BY <2>2 DEF FromBop, UsesBop
        <4>2. BopLearned(b, acc.line) \in BopStates
          BY <1>1, <1>4, LearnedStep
        <4> HIDE DEF bopLines
        <4> QED
          BY <1>5, <4>1, <4>2, BopFetchesOne
      <3> HIDE DEF trigger, ghbLines, bopLines
      <3>6. CASE trigger
        <4>1. shadow' = Entered(shadow, acc.line, ghbLines, bopLines)
              /\ predicted' = LastOf(ghbLines, bopLines)
          BY <3>1, <3>6 DEF Tournament, By, Entered, LastOf
        <4>2. bopLines \in Seq(Nat) /\ Len(bopLines) <= 1
          BY <3>5, <3>6
        <4>3. Survives(Entered(shadow, acc.line, ghbLines, bopLines), LastOf(ghbLines, bopLines))
          BY <1>1, <3>4, <4>2, EnteredStep, Zenon
        <4> QED
          BY <3>2, <3>3, <4>1, <4>3, Zenon
      <3>7. CASE ~ trigger
        <4>1. shadow' = Renumbered(shadow \ EntriesOf(shadow, acc.line))
              /\ predicted' = [p \in {GHB, BOP} |-> predicted[p] \ {acc.line}]
          BY <3>1, <3>7 DEF Tournament
        <4> QED
          BY <1>1, <3>2, <3>3, <4>1, TakenStep
      <3> QED
        BY <3>6, <3>7
    <2> QED
      BY <2>1, <2>2
  <1>9. /\ stats' \in [issued : 0 .. CountMax, useful : 0 .. CountMax]
        /\ since' \in [issued : Nat, useful : Nat, phase : BOOLEAN]
        /\ CountInv'
    <2>1. PICK issued \in 0 .. Len(fetched) : Counted(issued, IF useful THEN 1 ELSE 0)
      BY <1>2
    <2>2. issued \in Nat
      BY <2>1
    <2> DEFINE one == IF useful THEN 1 ELSE 0
    <2>3. one \in Nat /\ Counted(issued, one)
      BY <2>1
    <2> HIDE DEF one, fetched
    <2>4. /\ stats.issued \in 0 .. CountMax /\ stats.useful \in 0 .. CountMax
          /\ since.issued \in Nat /\ since.useful \in Nat /\ since.phase \in BOOLEAN
          /\ epoch.lastIssued \in 0 .. CountMax /\ epoch.lastUseful \in 0 .. CountMax
          /\ CountMax \in Nat
      BY <1>4, DegreeBounds DEF EpochStates
    <2>5. CASE kind \in Measured
      <3>1. /\ stats.issued + issued <= CountMax /\ stats.useful + one <= CountMax
            /\ stats' = [issued |-> stats.issued + issued, useful |-> stats.useful + one]
            /\ since' = IF since.phase THEN since
                        ELSE [since EXCEPT !.issued = @ + issued, !.useful = @ + one]
        BY <2>3, <2>5 DEF Counted
      <3>2. stats' \in [issued : 0 .. CountMax, useful : 0 .. CountMax]
        <4> DEFINE i == stats.issued + issued  u == stats.useful + one
        <4>1. i \in 0 .. CountMax
          BY <2>2, <2>4, <3>1
        <4>2. u \in 0 .. CountMax
          BY <2>3, <2>4, <3>1
        <4>3. stats' = [issued |-> i, useful |-> u]
          BY <3>1
        <4> HIDE DEF i, u
        <4> QED
          BY <4>1, <4>2, <4>3
      <3>3. since' \in [issued : Nat, useful : Nat, phase : BOOLEAN]
        <4> DEFINE i == since.issued + issued  u == since.useful + one
        <4>1. i \in Nat /\ u \in Nat
          BY <2>2, <2>3, <2>4
        <4>2. since' = IF since.phase THEN since ELSE [since EXCEPT !.issued = i, !.useful = u]
          BY <3>1
        <4> HIDE DEF i, u
        <4> QED
          BY <1>4, <4>1, <4>2
      <3>4. CountInv'
        <4> SUFFICES ASSUME ~ since'.phase
                     PROVE  /\ stats'.issued = epoch'.lastIssued + since'.issued
                            /\ stats'.useful = epoch'.lastUseful + since'.useful
          BY DEF CountInv
        <4>1. ~ since.phase /\ epoch' = epoch
          BY <1>3, <3>1
        <4>2. since'.issued = since.issued + issued /\ since'.useful = since.useful + one
          BY <1>4, <3>1, <4>1
        <4>3. stats'.issued = stats.issued + issued /\ stats'.useful = stats.useful + one
          BY <3>1
        <4>4. /\ stats.issued = epoch.lastIssued + since.issued
              /\ stats.useful = epoch.lastUseful + since.useful
          BY <1>1, <4>1 DEF CountInv
        <4>5. /\ stats.issued + issued = epoch.lastIssued + (since.issued + issued)
              /\ stats.useful + one = epoch.lastUseful + (since.useful + one)
          <5>1. /\ stats.issued \in Int /\ stats.useful \in Int /\ since.issued \in Int
                /\ since.useful \in Int /\ epoch.lastIssued \in Int /\ epoch.lastUseful \in Int
                /\ issued \in Int /\ one \in Int
            BY <2>2, <2>3, <2>4
          <5>2. stats.issued + issued = epoch.lastIssued + (since.issued + issued)
            BY <4>4, <5>1, SumGrows
          <5>3. stats.useful + one = epoch.lastUseful + (since.useful + one)
            BY <4>4, <5>1, SumGrows
          <5> QED
            BY <5>2, <5>3
        <4>6. epoch'.lastIssued = epoch.lastIssued /\ epoch'.lastUseful = epoch.lastUseful
          BY <4>1
        <4> QED
          BY <4>2, <4>3, <4>5, <4>6, Zenon
      <3> QED
        BY <3>2, <3>3, <3>4
    <2>6. CASE kind \notin Measured
      <3>1. stats' = stats /\ since' = since
        BY <2>3, <2>6 DEF Counted
      <3> QED
        BY <1>1, <1>3, <1>4, <3>1 DEF CountInv
    <2> QED
      BY <2>5, <2>6
  <1>10. pos' \in 1 .. Len(Trace[kind'])
    <2> DEFINE n == Len(Trace[kind])
    <2>1. n \in Nat \ {0} /\ pos \in Nat /\ pos' = 1 + (pos % n) /\ kind' = kind
      BY <1>3, <1>4, <1>5
    <2> HIDE DEF n
    <2>2. pos' \in 1 .. n
      BY <2>1
    <2> QED
      BY <2>1, <2>2 DEF n
  <1>11. TypeInv'
    BY <1>3, <1>4, <1>6, <1>7, <1>8, <1>9, <1>10 DEF TypeInv
  <1>12. ScoresAreTests' /\ ShadowInv'
    BY <1>7, <1>8 DEF ScoresAreTests, ScoresWithinTurns, Turns, ShadowInv, Survives, OneEach,
                      PredictionsSurvive
  <1> QED
    BY <1>6, <1>9, <1>11, <1>12 DEF IInv

\* A fill keeps the invariant: it writes the table of recent requests only.
LEMMA FillStep == IInv /\ Fill => IInv'
  <1> SUFFICES ASSUME IInv, Fill PROVE IInv'
    OBVIOUS
  <1>1. TypeInv /\ GhbInv /\ CountInv /\ ScoresWithinTurns(b) /\ ShadowInv
    BY ScoresOfState DEF IInv
  <1>2. PICK line \in Fills[kind], prefetched \in BOOLEAN : b' = BopFilled(b, line, prefetched)
    BY DEF Fill
  <1>3. UNCHANGED <<kind, g, epoch, tournament, shadow, stats, pos, log, age, predicted, since>>
    BY DEF Fill
  <1>4. line \in Nat
    BY <1>1, TraceAssumption DEF TypeInv
  <1>5. b' \in BopStates /\ ScoresWithinTurns(b')
    BY <1>1, <1>2, <1>4, FilledStep DEF TypeInv
  <1>6. TypeInv'
    BY <1>1, <1>3, <1>5 DEF TypeInv
  <1>7. GhbInv' /\ CountInv'
    BY <1>1, <1>3 DEF GhbInv, CountInv
  <1>8. ShadowInv'
    BY <1>1, <1>3 DEF ShadowInv, PredictionsSurvive
  <1>9. ScoresAreTests'
    BY <1>5 DEF ScoresAreTests, ScoresWithinTurns, Turns
  <1> QED
    BY <1>6, <1>7, <1>8, <1>9 DEF IInv

\* A cycle keeps the invariant, and the degree follows what was counted.
LEMMA CycleStep ==
  ASSUME IInv, Cycle
  PROVE  /\ IInv'
         /\ ~ since.phase =>
              /\ epoch'.degree < epoch.degree => 10 * since.useful < 9 * since.issued
              /\ epoch'.degree > epoch.degree => 2 * since.useful >= since.issued
  <1>1. TypeInv /\ GhbInv /\ CountInv /\ ScoresAreTests /\ ShadowInv
    BY DEF IInv
  <1>2. PICK bandwidth \in Bandwidths : epoch' = EpochCycle(epoch, stats, bandwidth)
    BY DEF Cycle
  <1>3. /\ since' = IF EpochEnds(epoch) THEN [issued |-> 0, useful |-> 0, phase |-> FALSE] ELSE since
        /\ UNCHANGED <<kind, g, b, tournament, shadow, stats, pos, log, age, predicted>>
    BY DEF Cycle
  <1>4. epoch \in EpochStates /\ stats \in Counts
        /\ since \in [issued : Nat, useful : Nat, phase : BOOLEAN]
    BY <1>1 DEF TypeInv, Counts
  <1> DEFINE new == EpochCycle(epoch, stats, bandwidth)
  <1>5. /\ new \in EpochStates
        /\ EpochEnds(epoch) => new.lastIssued = stats.issued /\ new.lastUseful = stats.useful
        /\ ~ EpochEnds(epoch) => /\ new.lastIssued = epoch.lastIssued
                                 /\ new.lastUseful = epoch.lastUseful
                                 /\ new.degree = epoch.degree
        /\ \A issued, useful \in Nat :
             stats.issued = epoch.lastIssued + issued /\ stats.useful = epoch.lastUseful + useful =>
               /\ new.degree < epoch.degree => 10 * useful < 9 * issued
               /\ new.degree > epoch.degree => 2 * useful >= issued
    BY <1>4, EpochStep
  <1>6. epoch' = new
    BY <1>2
  <1> HIDE DEF new
  <1>7. ~ since.phase =>
          /\ epoch'.degree < epoch.degree => 10 * since.useful < 9 * since.issued
          /\ epoch'.degree > epoch.degree => 2 * since.useful >= since.issued
    BY <1>1, <1>4, <1>5, <1>6 DEF CountInv
  <1>8. since' \in [issued : Nat, useful : Nat, phase : BOOLEAN]
    BY <1>3, <1>4
  <1>9. CountInv'
    <2>1. CASE EpochEnds(epoch)
      <3>1. since'.issued = 0 /\ since'.useful = 0 /\ stats' = stats
        BY <1>3, <2>1
      <3>2. epoch'.lastIssued = stats.issued /\ epoch'.lastUseful = stats.useful
        BY <1>5, <1>6, <2>1
      <3>3. stats.issued \in Int /\ stats.useful \in Int
        BY <1>4, DegreeBounds DEF Counts
      <3> QED
        BY <3>1, <3>2, <3>3 DEF CountInv
    <2>2. CASE ~ EpochEnds(epoch)
      <3>1. since' = since /\ stats' = stats
        BY <1>3, <2>2
      <3>2. epoch'.lastIssued = epoch.lastIssued /\ epoch'.lastUseful = epoch.lastUseful
        BY <1>5, <1>6, <2>2
      <3> QED
        BY <1>1, <3>1, <3>2 DEF CountInv
    <2> QED
      BY <2>1, <2>2
  <1>10. TypeInv'
    BY <1>1, <1>3, <1>5, <1>6, <1>8 DEF TypeInv
  <1>11. GhbInv' /\ ScoresAreTests'
    BY <1>1, <1>3 DEF GhbInv, ScoresAreTests
  <1>12. ShadowInv'
    BY <1>1, <1>3 DEF ShadowInv, PredictionsSurvive
  <1> QED
    BY <1>7, <1>9, <1>10, <1>11, <1>12 DEF IInv

\* The start of a phase keeps the invariant: nothing is said of the counters until the
\* epoch has sampled them again.
LEMMA BeginPhaseStep == IInv /\ BeginPhase => IInv'
  <1> SUFFICES ASSUME IInv, BeginPhase PROVE IInv'
    OBVIOUS
  <1>1. TypeInv /\ GhbInv /\ CountInv /\ ScoresAreTests /\ ShadowInv
    BY DEF IInv
  <1>2. /\ stats' = [issued |-> 0, useful |-> 0]
        /\ since' = [issued |-> 0, useful |-> 0, phase |-> TRUE]
        /\ UNCHANGED <<kind, g, epoch, b, tournament, shadow, pos, log, age, predicted>>
    BY DEF BeginPhase
  <1>3. TypeInv'
    <2>1. stats' \in [issued : 0 .. CountMax, useful : 0 .. CountMax]
          /\ since' \in [issued : Nat, useful : Nat, phase : BOOLEAN]
      BY <1>2, DegreeBounds
    <2> QED
      BY <1>1, <1>2, <2>1 DEF TypeInv
  <1>4. GhbInv' /\ ScoresAreTests' /\ CountInv'
    BY <1>1, <1>2 DEF GhbInv, ScoresAreTests, CountInv
  <1>5. ShadowInv'
    BY <1>1, <1>2 DEF ShadowInv, PredictionsSurvive
  <1> QED
    BY <1>3, <1>4, <1>5 DEF IInv

LEMMA NextStep == IInv /\ [Next]_vars => IInv'
  <1> SUFFICES ASSUME IInv, [Next]_vars PROVE IInv'
    OBVIOUS
  <1>1. CASE Access
    BY <1>1, AccessStep
  <1>2. CASE Fill
    BY <1>2, FillStep
  <1>3. CASE Cycle
    BY <1>3, CycleStep
  <1>4. CASE BeginPhase
    BY <1>4, BeginPhaseStep
  <1>5. CASE UNCHANGED vars
    <2>1. UNCHANGED <<kind, g, epoch, b, tournament, shadow>>
          /\ UNCHANGED <<stats, pos, log, age, predicted, since>>
      BY <1>5 DEF vars
    <2>2. TypeInv /\ GhbInv /\ CountInv /\ ScoresAreTests /\ ShadowInv
      BY DEF IInv
    <2>3. TypeInv'
      BY <2>1, <2>2 DEF TypeInv
    <2>4. GhbInv' /\ ScoresAreTests' /\ CountInv'
      BY <2>1, <2>2 DEF GhbInv, ScoresAreTests, CountInv
    <2>5. ShadowInv'
      BY <2>1, <2>2 DEF ShadowInv, PredictionsSurvive
    <2> QED
      BY <2>3, <2>4, <2>5 DEF IInv
  <1> QED
    BY <1>1, <1>2, <1>3, <1>4, <1>5 DEF Next

\* The inductive invariant holds in every state.
THEOREM Invariance == Spec => []IInv
  BY InitStep, NextStep, PTL DEF Spec

-----------------------------------------------------------------------------
(***************************************************************************)
(* The properties.                                                         *)
(***************************************************************************)
\* The state has its types: the slots, the index table and the head of the GHB, the
\* scores and the best offsets, the degree within MinDegree and MaxDegree and the
\* tournament counter within its range (the state of ghb_pccs.cc, abop.cc, hybrid.cc).
THEOREM TypeCorrect == Spec => []TypeInv
  <1>1. IInv => TypeInv
    BY DEF IInv
  <1> QED
    BY <1>1, Invariance, PTL

\* The strides come from the program counter's own last accesses, although slots are
\* reused and pointers wrap (pointer_valid, ghb.cc:178).
THEOREM HistoryIsOwn == Spec => []WalkIsOwnHistory
  <1>1. IInv => WalkIsOwnHistory
    BY WalksOwnHistory DEF IInv
  <1> QED
    BY <1>1, Invariance, PTL

\* A score is a number of tests of the present round (operate, bop.cc:68-111).
THEOREM ScoresCount == Spec => []ScoresAreTests
  <1>1. IInv => ScoresAreTests
    BY DEF IInv
  <1> QED
    BY <1>1, Invariance, PTL

\* What both parts predicted last is in the shadow table (update_shadow_table,
\* hybrid.cc:20).
THEOREM PredictionsStay == Spec => []PredictionsSurvive
  <1>1. IInv => PredictionsSurvive
    BY DEF IInv, ShadowInv
  <1> QED
    BY <1>1, Invariance, PTL

\* The degree follows the accuracy of the epoch (prefetcher_cycle_operate, ghb.cc:112).
THEOREM DegreeFollows == Spec => DegreeFollowsAccuracy
  <1> DEFINE Follows ==
               ~ since.phase =>
                  /\ epoch'.degree < epoch.degree => 10 * since.useful < 9 * since.issued
                  /\ epoch'.degree > epoch.degree => 2 * since.useful >= since.issued
  <1>1. IInv /\ [Next]_vars => [Follows]_vars
    <2> SUFFICES ASSUME IInv, Next PROVE Follows
      BY DEF vars
    <2>1. CASE Cycle
      BY <2>1, CycleStep
    <2>2. CASE Access \/ Fill \/ BeginPhase
      <3>1. epoch' = epoch
        BY <2>2 DEF Access, Fill, BeginPhase
      <3>2. epoch.degree \in Int
        BY DegreeBounds DEF IInv, TypeInv, EpochStates
      <3> QED
        BY <3>1, <3>2
    <2> QED
      BY <2>1, <2>2 DEF Next
  <1>2. Spec => [][Follows]_vars
    <2> HIDE DEF Follows
    <2> QED
      BY <1>1, Invariance, PTL DEF Spec
  <1> QED
    BY <1>2 DEF DegreeFollowsAccuracy
=============================================================================
