------------------------- MODULE MemHierarchyProofs -------------------------
(***************************************************************************)
(* Proofs about MemHierarchy for every program, cache geometry, number of  *)
(* MSHRs, banks and queue slots, and for all timing constants.             *)
(*                                                                         *)
(* The safety properties are not inductive as they stand.  IInv adds where *)
(* the next instruction comes from when the decode slot is empty, in which *)
(* phases a recovery or a resolved jump may be pending, whose block a      *)
(* stage waits for and that the block is not in its L1 cache, and that     *)
(* every L2 set is in LRU order, without which an insertion could push a   *)
(* recency out of range.                                                   *)
(*                                                                         *)
(* That a stage that waits has an MSHR holds only while fetch stays away   *)
(* from the blocks of the program's data (ApartInv): the MSHRs of such     *)
(* blocks are then the MEM stage's own, and a release of a cancelled fetch *)
(* miss cannot hit one, because the fill of a waiting MEM stage is taken   *)
(* by the stage that runs right after the memory controller.               *)
(***************************************************************************)
EXTENDS MemHierarchy, FiniteSetTheorems, WellFoundedInduction, TLAPS

-----------------------------------------------------------------------------
(***************************************************************************)
(* Numbers and loops. Induction is over sets: to show P of every number up *)
(* to n, take the set of the numbers up to n that satisfy P.               *)
(***************************************************************************)
\* A set of numbers that is not empty has a least member.
LEMMA LeastNatural ==
  ASSUME NEW S \in SUBSET Nat, S # {}
  PROVE  \E n \in S : \A m \in S : n <= m
  <1> DEFINE R == {ss \in Nat \X Nat : ss[1] < ss[2]}
  <1>1. IsWellFoundedOn(R, Nat)
    BY NatLessThanWellFounded DEF OpToRel
  <1>2. PICK n \in S : \A m \in S : ~ (<<m, n>> \in R)
    <2> HIDE DEF R
    <2> QED
      BY <1>1, WFMin
  <1>3. \A m \in S : ~ (m < n)
    BY <1>2
  <1> QED
    BY <1>3

\* A loop from 0 to n: what holds before it and is kept by each turn holds
\* after every turn.
LEMMA LoopInduction ==
  ASSUME NEW n \in Nat, NEW S,
         0 \in S,
         \A i \in 0 .. n - 1 : i \in S => i + 1 \in S
  PROVE  0 .. n \subseteq S
  <1> DEFINE T == {i \in 0 .. n : i \notin S}
  <1> SUFFICES ASSUME T # {} PROVE FALSE
    OBVIOUS
  <1>1. T \in SUBSET Nat
    OBVIOUS
  <1>2. PICK k \in T : \A m \in T : k <= m
    <2> HIDE DEF T
    <2> QED
      BY <1>1, LeastNatural
  <1>3. k \in 1 .. n /\ k - 1 \in 0 .. n - 1 /\ k - 1 \in S
    BY <1>2
  <1> QED
    BY <1>2, <1>3

\* The values of a loop of n turns.
LoopRun(run, n, start, turn) ==
  /\ run[0] = start
  /\ \A i \in 1 .. n : run[i] = turn[i][run[i - 1]]

\* A loop of n turns on values in C has a run, of values in C.
LEMMA LoopRuns ==
  ASSUME NEW n \in Nat, NEW C, NEW start \in C, NEW turn \in [1 .. n -> [C -> C]]
  PROVE  \E run \in [0 .. n -> C] : LoopRun(run, n, start, turn)
  <1> USE DEF LoopRun
  <1> DEFINE Run(k, run) == run \in [0 .. k -> C] /\ LoopRun(run, k, start, turn)
             S == {k \in 0 .. n : \E run : Run(k, run)}
  <1>1. 0 \in S
    <2> DEFINE first == [i \in 0 .. 0 |-> start]
    <2>1. Run(0, first)
      OBVIOUS
    <2> HIDE DEF first
    <2> QED
      BY <2>1
  <1>2. ASSUME NEW k \in 0 .. n - 1, k \in S
        PROVE  k + 1 \in S
    <2>1. PICK old : Run(k, old)
      BY <1>2
    <2> DEFINE new == [i \in 0 .. k + 1 |->
                         IF i = k + 1 THEN turn[k + 1][old[k]] ELSE old[i]]
    <2>2. k + 1 \in 1 .. n /\ k \in 0 .. k /\ 0 \in 0 .. k
      OBVIOUS
    <2>3. turn[k + 1] \in [C -> C] /\ old[k] \in C
      BY <2>1, <2>2
    <2>4. turn[k + 1][old[k]] \in C
      BY <2>3
    <2>5. new \in [0 .. k + 1 -> C] /\ new[0] = start
      BY <2>1, <2>2, <2>4
    <2>6. \A i \in 1 .. k + 1 : new[i] = turn[i][new[i - 1]]
      <3> SUFFICES ASSUME NEW i \in 1 .. k + 1 PROVE new[i] = turn[i][new[i - 1]]
        OBVIOUS
      <3>1. i - 1 \in 0 .. k /\ new[i - 1] = old[i - 1]
        OBVIOUS
      <3>2. CASE i = k + 1
        BY <3>1, <3>2
      <3>3. CASE i # k + 1
        <4>1. i \in 1 .. k /\ i \in 0 .. k + 1 /\ new[i] = old[i]
          BY <3>3
        <4> QED
          BY <2>1, <3>1, <4>1
      <3> QED
        BY <3>2, <3>3
    <2> HIDE DEF new
    <2>7. Run(k + 1, new)
      BY <2>5, <2>6
    <2> QED
      BY <2>2, <2>7
  <1>3. n \in S
    <2> HIDE DEF S
    <2>1. 0 .. n \subseteq S
      BY <1>1, <1>2, LoopInduction
    <2> QED
      BY <2>1
  <1> QED
    BY <1>3

\* Division with remainder.
LEMMA Quotient ==
  ASSUME NEW d \in Nat \ {0}, NEW a \in Nat
  PROVE  /\ a \div d \in Nat /\ a % d \in 0 .. d - 1
         /\ a = d * (a \div d) + (a % d)
  OBVIOUS

-----------------------------------------------------------------------------
(***************************************************************************)
(* Replacement in the caches, for every number of sets and ways.  The      *)
(* recencies of a set are in LRU order when those of its valid blocks have *)
(* neither ties nor gaps; then they are 0, 1, ..., a full set has exactly  *)
(* one block with recency num_ways - 1, and a set with a free way has      *)
(* none.  This order is what insert_l2_block needs to find its victim and  *)
(* to stay in range, and what update_lru and insert_l2_block keep although *)
(* they age the other blocks by different rules.                           *)
(***************************************************************************)

\* A set of a cache with so many ways.
Set(ways) == [0 .. ways - 1 -> CacheBlock(Nat, ways)]

Caches(sets, ways) == [0 .. sets - 1 -> Set(ways)]

Used(set) == {w \in DOMAIN set : set[w].valid}

\* The recencies of the valid blocks: no ties ...
NoTies(set) ==
  \A v, w \in Used(set) : set[v].recency = set[w].recency => v = w

\* ... and no gaps.
NoGaps(set) ==
  \A w \in Used(set) : \A r \in 0 .. set[w].recency - 1 :
    \E v \in Used(set) : set[v].recency = r

LruOrder(set) == NoTies(set) /\ NoGaps(set)

-----------------------------------------------------------------------------
\* The loops that search for the first way or MSHR find a member of the set.
LEMMA LowestIsMember ==
  ASSUME NEW S \in SUBSET Nat, S # {}
  PROVE  Lowest(S) \in S /\ \A i \in S : Lowest(S) <= i
  BY LeastNatural DEF Lowest

\* The set bits of an address name a set of the cache.
LEMMA SetIndexInRange ==
  ASSUME NEW sets \in Nat \ {0}, NEW ways \in Nat \ {0},
         NEW cache \in Caches(sets, ways), NEW block \in Nat
  PROVE  SetIndex(cache, block) \in 0 .. sets - 1
  <1>1. DOMAIN cache = 0 .. sets - 1
    BY DEF Caches
  <1>2. Cardinality(0 .. sets - 1) = sets
    BY FS_Interval
  <1> QED
    BY <1>1, <1>2 DEF SetIndex

\* The ways in which probe_cache finds a block hold valid blocks.
LEMMA HitWaysAreWays ==
  ASSUME NEW sets \in Nat \ {0}, NEW ways \in Nat \ {0},
         NEW cache \in Caches(sets, ways), NEW block \in Nat
  PROVE  HitWays(cache, block) \subseteq Used(cache[SetIndex(cache, block)])
         /\ HitWays(cache, block) \subseteq 0 .. ways - 1
  BY SetIndexInRange DEF HitWays, Used, Caches, Set

\* The victim is a way; a free one when there is one, and in a full set one
\* whose recency is num_ways - 1 when there is one.
LEMMA VictimIsWay ==
  ASSUME NEW ways \in Nat \ {0}, NEW set \in Set(ways)
  PROVE  /\ VictimWay(set) \in 0 .. ways - 1
         /\ (\E w \in 0 .. ways - 1 : ~ set[w].valid) => ~ set[VictimWay(set)].valid
         /\ (\A w \in 0 .. ways - 1 : set[w].valid) /\ (\E w \in 0 .. ways - 1 : set[w].recency = ways - 1)
              => set[VictimWay(set)].recency = ways - 1
  <1> DEFINE invalid == {w \in DOMAIN set : ~ set[w].valid}
             oldest == {w \in DOMAIN set : set[w].recency = Cardinality(DOMAIN set) - 1}
  <1>1. DOMAIN set = 0 .. ways - 1 /\ Cardinality(DOMAIN set) = ways
    BY FS_Interval DEF Set
  <1>2. invalid \in SUBSET Nat /\ oldest \in SUBSET Nat
    BY <1>1
  <1>3. invalid # {} => Lowest(invalid) \in invalid
    <2> HIDE DEF invalid
    <2> QED BY <1>2, LowestIsMember
  <1>4. oldest # {} => Lowest(oldest) \in oldest
    <2> HIDE DEF oldest
    <2> QED BY <1>2, LowestIsMember
  <1>5. VictimWay(set) = IF invalid # {} THEN Lowest(invalid)
                         ELSE IF oldest # {} THEN Lowest(oldest) ELSE 0
    BY DEF VictimWay
  <1>6. CASE invalid # {}
    BY <1>1, <1>3, <1>5, <1>6
  <1>7. CASE invalid = {} /\ oldest # {}
    BY <1>1, <1>4, <1>5, <1>7
  <1>8. CASE invalid = {} /\ oldest = {}
    BY <1>1, <1>5, <1>8
  <1> QED
    BY <1>6, <1>7, <1>8

\* update_lru changes recencies only and keeps them in range.
LEMMA UpdateLruType ==
  ASSUME NEW ways \in Nat \ {0}, NEW set \in Set(ways), NEW way \in 0 .. ways - 1
  PROVE  /\ UpdateLru(set, way) \in Set(ways)
         /\ \A w \in 0 .. ways - 1 :
              /\ UpdateLru(set, way)[w].valid = set[w].valid
              /\ UpdateLru(set, way)[w].tag = set[w].tag
  BY DEF UpdateLru, Set, CacheBlock

-----------------------------------------------------------------------------
\* In LRU order the recencies of the n valid blocks are 0, ..., n - 1.
LEMMA OrderIsInterval ==
  ASSUME NEW ways \in Nat \ {0}, NEW set \in Set(ways), LruOrder(set)
  PROVE  /\ IsFiniteSet(Used(set)) /\ Cardinality(Used(set)) \in 0 .. ways
         /\ {set[w].recency : w \in Used(set)} = 0 .. Cardinality(Used(set)) - 1
  <1> DEFINE U == Used(set)
             R == {set[w].recency : w \in U}
             f == [w \in U |-> set[w].recency]
  <1>1. DOMAIN set = 0 .. ways - 1 /\ U \subseteq 0 .. ways - 1 /\ R \subseteq 0 .. ways - 1
    BY DEF Set, Used, CacheBlock
  <1>2. IsFiniteSet(U) /\ Cardinality(U) \in Nat /\ Cardinality(U) <= ways
    <2>1. IsFiniteSet(0 .. ways - 1) /\ Cardinality(0 .. ways - 1) = ways
      BY FS_Interval
    <2>2. U \subseteq 0 .. ways - 1
      BY <1>1
    <2> HIDE DEF U
    <2>3. IsFiniteSet(U) /\ Cardinality(U) <= ways
      BY <2>1, <2>2, FS_Subset
    <2> QED
      BY <2>3, FS_CardinalityType
  <1>3. f \in Surjection(U, R) /\ f \in Injection(U, R)
    BY DEF Surjection, Injection, LruOrder, NoTies, IsInjective
  <1>4. Cardinality(R) = Cardinality(U)
    <2> HIDE DEF U, R, f
    <2> QED
      BY <1>2, <1>3, FS_Surjection
  <1>5. PICK m \in Nat : m \notin R /\ \A k \in Nat \ R : m <= k
    <2>1. ways \in Nat \ R /\ Nat \ R \in SUBSET Nat
      BY <1>1
    <2> HIDE DEF R
    <2> QED
      BY <2>1, LeastNatural
  <1>6. \A r \in R : r < m
    <2> SUFFICES ASSUME NEW w \in U, ~ set[w].recency < m PROVE FALSE
      OBVIOUS
    <2>1. set[w].recency \in Nat /\ set[w].recency \in R
      BY <1>1
    <2>2. m \in 0 .. set[w].recency - 1
      BY <2>1, <1>5
    <2>3. m \in R
      BY <2>2 DEF LruOrder, NoGaps
    <2> QED
      BY <2>3, <1>5
  <1>7. R = 0 .. m - 1
    <2>1. R \subseteq Nat
      BY <1>1
    <2> HIDE DEF R
    <2>2. \A k \in 0 .. m - 1 : k \in R
      BY <1>5
    <2>3. \A r \in R : r \in 0 .. m - 1
      BY <1>5, <1>6, <2>1
    <2> QED
      BY <2>2, <2>3
  <1> HIDE DEF R, U
  <1>8. Cardinality(R) = m
    <2>1. Cardinality(0 .. m - 1) = m
      BY <1>5, FS_Interval
    <2> QED
      BY <1>7, <2>1
  <1>9. R = 0 .. Cardinality(U) - 1 /\ Cardinality(U) \in 0 .. ways
    BY <1>2, <1>4, <1>7, <1>8
  <1> QED
    BY <1>2, <1>9 DEF R, U

\* A full set in LRU order has a block whose recency is num_ways - 1, and a set
\* with a free way has none.
LEMMA OldestOfFullSet ==
  ASSUME NEW ways \in Nat \ {0}, NEW set \in Set(ways), LruOrder(set)
  PROVE  /\ (\A w \in 0 .. ways - 1 : set[w].valid) =>
              \E w \in 0 .. ways - 1 : set[w].recency = ways - 1
         /\ (\E w \in 0 .. ways - 1 : ~ set[w].valid) =>
              \A w \in Used(set) : set[w].recency < ways - 1
  <1> DEFINE U == Used(set)  R == {set[w].recency : w \in U}
  <1>1. /\ DOMAIN set = 0 .. ways - 1
        /\ IsFiniteSet(0 .. ways - 1) /\ Cardinality(0 .. ways - 1) = ways
    BY FS_Interval DEF Set
  <1>2. /\ IsFiniteSet(U) /\ Cardinality(U) \in 0 .. ways
        /\ R = 0 .. Cardinality(U) - 1
    BY OrderIsInterval
  <1>3. ASSUME \A w \in 0 .. ways - 1 : set[w].valid
        PROVE  \E w \in 0 .. ways - 1 : set[w].recency = ways - 1
    <2>1. U = 0 .. ways - 1
      BY <1>1, <1>3 DEF Used
    <2>2. ways - 1 \in R
      <3> HIDE DEF U, R
      <3>1. Cardinality(U) = ways
        BY <2>1, <1>1
      <3> QED
        BY <3>1, <1>2
    <2> QED
      BY <2>1, <2>2
  <1>4. ASSUME NEW w \in 0 .. ways - 1, ~ set[w].valid, NEW v \in U
        PROVE  set[v].recency < ways - 1
    <2>1. U \in SUBSET (0 .. ways - 1) /\ U # 0 .. ways - 1
      BY <1>1, <1>4 DEF Used
    <2>2. Cardinality(U) # ways /\ Cardinality(U) \in 0 .. ways
      <3> HIDE DEF U
      <3> QED
        BY <1>1, <1>2, <2>1, FS_Subset
    <2>3. set[v].recency \in 0 .. Cardinality(U) - 1
      BY <1>2
    <2> QED
      BY <2>2, <2>3
  <1> QED
    BY <1>3, <1>4

\* update_lru keeps the LRU order: the touched block moves to the front, those
\* that were in front of it move back by one.
LEMMA TouchKeepsOrder ==
  ASSUME NEW ways \in Nat \ {0}, NEW set \in Set(ways), LruOrder(set),
         NEW way \in Used(set)
  PROVE  LruOrder(UpdateLru(set, way))
  <1> DEFINE new == UpdateLru(set, way)
             r == set[way].recency
  <1>1. /\ DOMAIN new = DOMAIN set /\ DOMAIN set = 0 .. ways - 1
        /\ Used(new) = Used(set) /\ r \in Nat
        /\ \A w \in Used(set) :
             /\ set[w].recency \in Nat
             /\ new[w].recency = IF w = way THEN 0
                                 ELSE IF set[w].recency < r THEN set[w].recency + 1
                                 ELSE set[w].recency
    BY DEF UpdateLru, Used, Set, CacheBlock
  <1> HIDE DEF new
  <1>2. NoTies(new)
    BY <1>1, SMTT(30) DEF LruOrder, NoTies
  <1>3. NoGaps(new)
    <2> SUFFICES ASSUME NEW w \in Used(set), NEW k \in 0 .. new[w].recency - 1
                 PROVE  \E v \in Used(set) : new[v].recency = k
      BY <1>1 DEF NoGaps
    <2>1. CASE k = 0
      BY <1>1, <2>1
    <2>2. CASE k > 0 /\ k <= r
      <3>1. PICK v \in Used(set) : set[v].recency = k - 1
        BY <1>1, <2>2 DEF LruOrder, NoGaps
      <3> QED
        BY <1>1, <2>2, <3>1
    <2>3. CASE k > r
      <3>1. w # way /\ new[w].recency = set[w].recency
        BY <1>1, <2>3
      <3>2. PICK v \in Used(set) : set[v].recency = k
        BY <1>1, <2>3, <3>1 DEF LruOrder, NoGaps
      <3> QED
        BY <1>1, <2>3, <3>2
    <2> QED
      BY <1>1, <2>1, <2>2, <2>3
  <1> QED
    BY <1>2, <1>3 DEF LruOrder, new

\* insert_l2_block keeps the LRU order and the range of the recencies, although it
\* ages every other valid block: the victim was invalid or the oldest.
LEMMA InsertKeepsOrder ==
  ASSUME NEW ways \in Nat \ {0}, NEW set \in Set(ways), LruOrder(set),
         NEW block \in Nat
  PROVE  InsertL2(set, block) \in Set(ways) /\ LruOrder(InsertL2(set, block))
  <1> DEFINE v == VictimWay(set)
             new == InsertL2(set, block)
  <1>1. /\ v \in 0 .. ways - 1 /\ DOMAIN set = 0 .. ways - 1
        /\ (\E w \in 0 .. ways - 1 : ~ set[w].valid) => v \notin Used(set)
        /\ v \in Used(set) => set[v].recency = ways - 1
    BY VictimIsWay, OldestOfFullSet DEF Used, Set
  <1>2. \A w \in Used(set) \ {v} : set[w].recency \in Nat /\ set[w].recency < ways - 1
    <2>1. \A w \in Used(set) : set[w].recency \in 0 .. ways - 1
      BY DEF Used, Set, CacheBlock
    <2>2. CASE v \in Used(set)
      BY <1>1, <2>1, <2>2 DEF LruOrder, NoTies
    <2>3. CASE v \notin Used(set)
      BY <1>1, <2>1, <2>3, OldestOfFullSet DEF Used
    <2> QED
      BY <2>2, <2>3
  <1>3. new = [w \in DOMAIN set |->
         IF w = v THEN [valid |-> TRUE, tag |-> block, recency |-> 0]
         ELSE IF set[w].valid THEN [set[w] EXCEPT !.recency = @ + 1]
         ELSE set[w]]
    BY DEF InsertL2
  <1> HIDE DEF new, v
  <1>4. new \in Set(ways)
    <2>1. ASSUME NEW w \in 0 .. ways - 1
          PROVE  new[w] \in CacheBlock(Nat, ways)
      <3>0. set[w] \in CacheBlock(Nat, ways)
        BY DEF Set
      <3>1. CASE w = v
        BY <1>1, <1>3, <3>1 DEF CacheBlock
      <3>2. CASE w # v /\ set[w].valid
        <4>1. set[w].recency \in Nat /\ set[w].recency + 1 \in 0 .. ways - 1
          BY <1>1, <1>2, <3>2 DEF Used
        <4> QED
          BY <1>1, <1>3, <3>0, <3>2, <4>1 DEF CacheBlock
      <3>3. CASE w # v /\ ~ set[w].valid
        BY <1>1, <1>3, <3>0, <3>3
      <3> QED
        BY <3>1, <3>2, <3>3
    <2> QED
      BY <2>1, <1>1, <1>3 DEF Set
  <1>5. /\ Used(new) = Used(set) \cup {v}
        /\ \A w \in Used(new) :
             new[w].recency = IF w = v THEN 0 ELSE set[w].recency + 1
    BY <1>1, <1>3 DEF Used, Set, CacheBlock
  <1>6. NoTies(new)
    BY <1>2, <1>5 DEF LruOrder, NoTies
  <1>7. NoGaps(new)
    <2> SUFFICES ASSUME NEW w \in Used(new), NEW k \in 0 .. new[w].recency - 1
                 PROVE  \E u \in Used(new) : new[u].recency = k
      BY DEF NoGaps
    <2>1. CASE k = 0
      BY <1>5, <2>1
    <2>2. CASE k > 0
      <3>1. w # v /\ w \in Used(set) /\ k - 1 \in 0 .. set[w].recency - 1
        BY <1>2, <1>5, <2>2
      <3>2. PICK u \in Used(set) : set[u].recency = k - 1
        BY <3>1 DEF LruOrder, NoGaps
      <3>3. u # v
        BY <1>1, <1>2, <3>1, <3>2
      <3> QED
        BY <1>2, <1>5, <3>2, <3>3
    <2> QED
      BY <2>1, <2>2
  <1> QED
    BY <1>4, <1>6, <1>7 DEF LruOrder, new

-----------------------------------------------------------------------------
\* A hit keeps the blocks where they are, and the LRU order of every set.
LEMMA TouchBlockKeeps ==
  ASSUME NEW sets \in Nat \ {0}, NEW ways \in Nat \ {0},
         NEW cache \in Caches(sets, ways), NEW block \in Nat,
         IsCached(cache, block)
  PROVE  /\ TouchBlock(cache, block) \in Caches(sets, ways)
         /\ \A s \in 0 .. sets - 1, w \in 0 .. ways - 1 :
              /\ TouchBlock(cache, block)[s][w].valid = cache[s][w].valid
              /\ TouchBlock(cache, block)[s][w].tag = cache[s][w].tag
         /\ (\A s \in 0 .. sets - 1 : LruOrder(cache[s])) =>
              \A s \in 0 .. sets - 1 : LruOrder(TouchBlock(cache, block)[s])
  <1> DEFINE i == SetIndex(cache, block)
             h == Lowest(HitWays(cache, block))
  <1>1. i \in 0 .. sets - 1 /\ cache[i] \in Set(ways)
    BY SetIndexInRange DEF Caches
  <1>2. h \in Used(cache[i]) /\ h \in 0 .. ways - 1
    <2>1. /\ HitWays(cache, block) \in SUBSET Nat /\ HitWays(cache, block) # {}
          /\ HitWays(cache, block) \subseteq Used(cache[i])
          /\ HitWays(cache, block) \subseteq 0 .. ways - 1
      BY HitWaysAreWays DEF IsCached
    <2> QED
      BY <2>1, LowestIsMember
  <1>3. TouchBlock(cache, block) = [cache EXCEPT ![i] = UpdateLru(cache[i], h)]
    BY DEF TouchBlock
  <1> HIDE DEF i, h
  <1>4. /\ UpdateLru(cache[i], h) \in Set(ways)
        /\ \A w \in 0 .. ways - 1 :
              /\ UpdateLru(cache[i], h)[w].valid = cache[i][w].valid
              /\ UpdateLru(cache[i], h)[w].tag = cache[i][w].tag
    BY <1>1, <1>2, UpdateLruType
  <1>5. LruOrder(cache[i]) => LruOrder(UpdateLru(cache[i], h))
    BY <1>1, <1>2, TouchKeepsOrder
  <1> QED
    BY <1>1, <1>3, <1>4, <1>5 DEF Caches

\* One way of set i is given to the block, and the others keep theirs.
OneWayFilled(cache, new, sets, ways, i, block) ==
  \E v \in 0 .. ways - 1 :
    \A s \in 0 .. sets - 1, w \in 0 .. ways - 1 :
      IF s = i /\ w = v
      THEN new[s][w].valid /\ new[s][w].tag = block
      ELSE new[s][w].valid = cache[s][w].valid /\ new[s][w].tag = cache[s][w].tag

\* complete_l1_fill puts the block into one way of its set.
LEMMA L1FillKeeps ==
  ASSUME NEW sets \in Nat \ {0}, NEW ways \in Nat \ {0},
         NEW cache \in Caches(sets, ways), NEW block \in Nat
  PROVE  /\ CompleteL1Fill(cache, block) \in Caches(sets, ways)
         /\ OneWayFilled(cache, CompleteL1Fill(cache, block), sets, ways,
                         SetIndex(cache, block), block)
  <1> DEFINE i == SetIndex(cache, block)
             v == VictimWay(cache[i])
             filled == [cache[i] EXCEPT ![v].tag = block, ![v].valid = TRUE]
  <1>1. i \in 0 .. sets - 1 /\ cache[i] \in Set(ways) /\ v \in 0 .. ways - 1
    BY SetIndexInRange, VictimIsWay DEF Caches
  <1>2. CompleteL1Fill(cache, block) = [cache EXCEPT ![i] = UpdateLru(filled, v)]
    BY DEF CompleteL1Fill
  <1>3. /\ filled \in Set(ways)
        /\ \A w \in 0 .. ways - 1 :
             IF w = v THEN filled[w].valid /\ filled[w].tag = block
             ELSE filled[w] = cache[i][w]
    <2> HIDE DEF v, i
    <2>1. DOMAIN cache[i] = 0 .. ways - 1 /\ DOMAIN filled = 0 .. ways - 1
      BY <1>1 DEF Set
    <2>2. ASSUME NEW w \in 0 .. ways - 1, w # v
          PROVE  filled[w] = cache[i][w]
      BY <1>1, <2>1, <2>2
    <2>3. cache[i][v] \in CacheBlock(Nat, ways) /\ v \in DOMAIN cache[i]
      BY <1>1 DEF Set
    <2>4. /\ filled[v].valid /\ filled[v].tag = block
          /\ filled[v] \in CacheBlock(Nat, ways)
      BY <2>1, <2>3 DEF CacheBlock
    <2> HIDE DEF filled
    <2>5. filled \in Set(ways)
      <3>1. \A w \in 0 .. ways - 1 : cache[i][w] \in CacheBlock(Nat, ways)
        BY <1>1 DEF Set
      <3>2. filled = [w \in 0 .. ways - 1 |-> filled[w]]
        BY <2>1 DEF filled
      <3> QED
        BY <2>2, <2>4, <3>1, <3>2 DEF Set
    <2> QED
      BY <2>2, <2>4, <2>5
  <1> HIDE DEF filled, v, i
  <1>4. /\ UpdateLru(filled, v) \in Set(ways)
        /\ \A w \in 0 .. ways - 1 :
              /\ UpdateLru(filled, v)[w].valid = filled[w].valid
              /\ UpdateLru(filled, v)[w].tag = filled[w].tag
    BY <1>1, <1>3, UpdateLruType
  <1>5. CompleteL1Fill(cache, block) \in Caches(sets, ways)
    BY <1>1, <1>2, <1>4 DEF Caches
  <1>6. \A s \in 0 .. sets - 1, w \in 0 .. ways - 1 :
          CompleteL1Fill(cache, block)[s][w] =
            IF s = i THEN UpdateLru(filled, v)[w] ELSE cache[s][w]
    BY <1>1, <1>2 DEF Caches
  <1>7. \A s \in 0 .. sets - 1, w \in 0 .. ways - 1 :
          IF s = i /\ w = v
          THEN /\ CompleteL1Fill(cache, block)[s][w].valid
               /\ CompleteL1Fill(cache, block)[s][w].tag = block
          ELSE /\ CompleteL1Fill(cache, block)[s][w].valid = cache[s][w].valid
               /\ CompleteL1Fill(cache, block)[s][w].tag = cache[s][w].tag
    BY <1>1, <1>3, <1>4, <1>6
  <1>8. OneWayFilled(cache, CompleteL1Fill(cache, block), sets, ways, i, block)
    BY <1>1, <1>7 DEF OneWayFilled
  <1> QED
    BY <1>5, <1>8 DEF i

\* insert_l2_block keeps the LRU order of every set.
LEMMA L2InsertKeeps ==
  ASSUME NEW sets \in Nat \ {0}, NEW ways \in Nat \ {0},
         NEW cache \in Caches(sets, ways), NEW block \in Nat,
         \A s \in 0 .. sets - 1 : LruOrder(cache[s])
  PROVE  /\ InsertL2Block(cache, block) \in Caches(sets, ways)
         /\ \A s \in 0 .. sets - 1 : LruOrder(InsertL2Block(cache, block)[s])
  <1> DEFINE i == SetIndex(cache, block)
  <1>1. i \in 0 .. sets - 1 /\ cache[i] \in Set(ways) /\ LruOrder(cache[i])
    BY SetIndexInRange DEF Caches
  <1>2. InsertL2Block(cache, block) = [cache EXCEPT ![i] = InsertL2(cache[i], block)]
    BY DEF InsertL2Block, InsertL2
  <1>3. InsertL2(cache[i], block) \in Set(ways) /\ LruOrder(InsertL2(cache[i], block))
    BY <1>1, InsertKeepsOrder
  <1> HIDE DEF i
  <1> QED
    BY <1>1, <1>2, <1>3 DEF Caches

-----------------------------------------------------------------------------
(***************************************************************************)
(* The invariant.                                                          *)
(***************************************************************************)
MshrTable == [Mshrs -> [valid : BOOLEAN, done : BOOLEAN, block : Nat,
                        fill : Nat \cup {NotQueued}, isIcache : BOOLEAN]]

OnePerBlock(ms) ==
  \A i, j \in Mshrs : ms[i].valid /\ ms[j].valid /\ ms[i].block = ms[j].block => i = j

Queued(q) ==
  \A s \in Slots : q[s] # NoRequest =>
    q[s] \in [block : Nat, arrival : Int, fromMem : BOOLEAN, mshr : Mshrs]

\* The caches an L2 cache can be.
L2States ==
  {cache \in Caches(L2Sets, L2Ways) : \A s \in 0 .. L2Sets - 1 : LruOrder(cache[s])}

\* A stage that waits, waits for the block of its own address.
OwnBlocks ==
  /\ fetchMiss.waiting => fetchMiss.block = BlockOf(pc)
  /\ memMiss.waiting => MemAccesses /\ memMiss.block = MemBlock

\* The block it waits for is not in its cache.
MissesAreMisses ==
  /\ fetchMiss.waiting => ~ IsCached(icache, fetchMiss.block)
  /\ memMiss.waiting => ~ IsCached(dcache, memMiss.block)

\* A taken branch is recovered from at the end of its cycle, and a jump leaves
\* MEM at the start of the next.
JumpsResolved ==
  /\ recovery # NoOp => phase \in {"decode", "fetch", "recover"}
  /\ memOp # NoOp /\ Instruction(memOp).kind = "jump" /\ recovery = NoOp =>
       phase \in {"dram", "mem"} /\ decodeOp = NoOp /\ executeOp = NoOp

\* The types, with an L2 whose sets are all in LRU order: an insertion keeps
\* the recencies in range only because the oldest block of a full set makes room.
Types ==
  /\ phase \in {"mem", "execute", "decode", "fetch", "recover", "dram"}
  /\ pc \in Nat
  /\ {decodeOp, executeOp, memOp, recovery} \subseteq Nat \cup {NoOp}
  /\ fetchMiss \in [waiting : BOOLEAN, cancelled : BOOLEAN, block : Nat]
  /\ memMiss \in [waiting : BOOLEAN, block : Nat]
  /\ icache \in Caches(L1Sets, L1Ways) /\ dcache \in Caches(L1Sets, L1Ways)
  /\ l2cache \in L2States
  /\ mshrs \in MshrTable
  /\ banks \in [Banks -> Bank]
  /\ Queued(queue)
  /\ aborted \in {"no", "no_mshr", "queue_full"}
  /\ program \in Programs

IInv ==
  /\ Types
  /\ OwnBlocks /\ MissesAreMisses
  /\ OnePerBlock(mshrs) /\ NoDuplicates(icache) /\ NoDuplicates(dcache)
  /\ Consecutive /\ JumpsResolved

(***************************************************************************)
(* What holds while code and data lie in different blocks.                 *)
(***************************************************************************)
DataBlocks ==
  {program[address].block :
     address \in {a \in DOMAIN program : program[a].kind = "mem"}}

\* Fetch, on the wrong path included, never reads a block that a load or store
\* of the program reads too.
CodeAndDataApart == BlockOf(pc) \notin DataBlocks

\* An MSHR of a block of data is the one that MEM waits for.
DataMshrs ==
  \A i \in Mshrs : mshrs[i].valid /\ mshrs[i].block \in DataBlocks =>
    memMiss.waiting /\ memMiss.block = mshrs[i].block

\* A fill is done by the memory controller, and the MEM stage, which is next,
\* takes it.
FillTakenAtOnce ==
  phase # "mem" /\ memMiss.waiting =>
    \A i \in FindMshr(mshrs, memMiss.block) : ~ mshrs[i].done

WaitersHaveMshrs ==
  /\ fetchMiss.waiting => FindMshr(mshrs, fetchMiss.block) # {}
  /\ memMiss.waiting => FindMshr(mshrs, memMiss.block) # {}

ApartInv == DataMshrs /\ FillTakenAtOnce /\ WaitersHaveMshrs
-----------------------------------------------------------------------------
(***************************************************************************)
(* The operators the actions are built from.                               *)
(***************************************************************************)
\* The sizes are positive, and the two names of the set of caches agree.
LEMMA Geometry ==
  /\ L1Sets \in Nat \ {0} /\ L1Ways \in Nat \ {0}
  /\ L2Sets \in Nat \ {0} /\ L2Ways \in Nat \ {0}
  /\ NumMshr \in Nat \ {0} /\ L2HitLatency \in Nat \ {0}
  /\ WordsPerBlock \in Nat \ {0} /\ StartPC \in Nat
  /\ \A sets, ways \in Nat \ {0} : Cache(sets, ways) = Caches(sets, ways)
  BY HierarchyAssumption DEF Cache, Caches, Set

\* The searches for the first MSHR of a kind find one of that kind.
LEMMA MshrsAreNumbers ==
  ASSUME NEW S \in SUBSET Mshrs, S # {}
  PROVE  Lowest(S) \in S
  BY Geometry, LowestIsMember DEF Mshrs

\* The block of an address.
LEMMA BlockOfType ==
  ASSUME NEW address \in Nat
  PROVE  BlockOf(address) \in Nat
  BY Geometry, Quotient DEF BlockOf

\* What an instruction, or the no-op beyond the program, may be.
LEMMA InstructionType ==
  ASSUME program \in Programs, NEW address
  PROVE  /\ Instruction(address).kind \in {"alu", "mem", "branch", "jump"}
         /\ Instruction(address).kind = "mem" => Instruction(address).block \in Nat
         /\ Instruction(address).kind \in {"branch", "jump"} =>
              Instruction(address).dest \in Nat
  BY ProgramAssumption DEF Instruction

\* free_mshr frees the MSHR of the block, of which there is one at most.
LEMMA DropMshr ==
  ASSUME mshrs \in MshrTable, OnePerBlock(mshrs), NEW block \in Nat
  PROVE  /\ MshrsWithout(block) \in MshrTable
         /\ OnePerBlock(MshrsWithout(block))
         /\ \A i \in Mshrs :
              MshrsWithout(block)[i] =
                IF mshrs[i].valid /\ mshrs[i].block = block THEN FreeMshr ELSE mshrs[i]
  <1>1. FreeMshr \in [valid : BOOLEAN, done : BOOLEAN, block : Nat,
                      fill : Nat \cup {NotQueued}, isIcache : BOOLEAN]
    BY DEF FreeMshr, NotQueued
  <1>2. CASE FindMshr(mshrs, block) = {}
    BY <1>2 DEF MshrsWithout, FindMshr
  <1>3. CASE FindMshr(mshrs, block) # {}
    <2>1. PICK l : l = Lowest(FindMshr(mshrs, block))
      OBVIOUS
    <2>2. l \in Mshrs /\ mshrs[l].valid /\ mshrs[l].block = block
      BY <1>3, <2>1, MshrsAreNumbers DEF FindMshr
    <2>3. MshrsWithout(block) = [mshrs EXCEPT ![l] = FreeMshr]
      BY <1>3, <2>1 DEF MshrsWithout
    <2>4. \A i \in Mshrs : (mshrs[i].valid /\ mshrs[i].block = block) <=> i = l
      BY <2>2 DEF OnePerBlock
    <2>5. ~ FreeMshr.valid
      BY DEF FreeMshr
    <2> QED
      BY <1>1, <2>2, <2>3, <2>4, <2>5 DEF MshrTable, OnePerBlock
  <1> QED
    BY <1>2, <1>3

\* At most a free MSHR has been given to the block.
Allocates(ms, new, block) ==
  \A i \in Mshrs :
    \/ new[i] = ms[i]
    \/ /\ ~ ms[i].valid
       /\ new[i].valid /\ ~ new[i].done /\ new[i].block = block

\* l1_cache_access that answers CACHE_MISS_WAIT leaves an MSHR for the block and
\* at most one, takes it from the free ones, and keeps the order of L2.
LEMMA MissWait ==
  ASSUME NEW ms \in MshrTable, OnePerBlock(ms), l2cache \in L2States,
         NEW l1, NEW block \in Nat, NEW isIcache \in BOOLEAN,
         L1MissWait(ms, l1, block, isIcache)
  PROVE  /\ mshrs' \in MshrTable /\ OnePerBlock(mshrs')
         /\ l2cache' \in L2States
         /\ ~ IsCached(l1, block)
         /\ FindMshr(mshrs', block) # {}
         /\ Allocates(ms, mshrs', block)
  <1> USE DEF Allocates
  <1>1. CASE FindMshr(ms, block) # {} /\ mshrs' = ms /\ UNCHANGED l2cache
    BY <1>1 DEF L1MissWait
  <1>2. CASE /\ FindMshr(ms, block) = {} /\ FreeMshrs(ms) # {}
             /\ L2CacheAccess(ms, block, isIcache)
    <2>1. PICK l : l = Lowest(FreeMshrs(ms))
      OBVIOUS
    <2>2. l \in Mshrs /\ ~ ms[l].valid
      BY <1>2, <2>1, MshrsAreNumbers DEF FreeMshrs
    <2>3. PICK new \in [valid : BOOLEAN, done : BOOLEAN, block : Nat,
                        fill : Nat \cup {NotQueued}, isIcache : BOOLEAN] :
             /\ mshrs' = [ms EXCEPT ![l] = new]
             /\ new.valid /\ ~ new.done /\ new.block = block
      <3> DEFINE new == [valid |-> TRUE, done |-> FALSE, block |-> block,
                         fill |-> IF IsCached(l2cache, block) THEN L2HitLatency
                                  ELSE NotQueued,
                         isIcache |-> isIcache]
      <3>1. new \in [valid : BOOLEAN, done : BOOLEAN, block : Nat,
                     fill : Nat \cup {NotQueued}, isIcache : BOOLEAN]
        BY Geometry DEF NotQueued
      <3>2. mshrs' = [ms EXCEPT ![l] = new]
        BY <1>2, <2>1 DEF L2CacheAccess
      <3>3. new.valid /\ ~ new.done /\ new.block = block
        OBVIOUS
      <3> HIDE DEF new
      <3> QED
        BY <3>1, <3>2, <3>3
    <2>4. mshrs' \in MshrTable
      BY <2>2, <2>3 DEF MshrTable
    <2>5. \A i \in Mshrs : mshrs'[i] = IF i = l THEN new ELSE ms[i]
      BY <2>2, <2>3 DEF MshrTable
    <2>6. OnePerBlock(mshrs')
      BY <1>2, <2>3, <2>5 DEF OnePerBlock, FindMshr
    <2>7. FindMshr(mshrs', block) # {}
      BY <2>2, <2>3, <2>5 DEF FindMshr
    <2>8. l2cache' \in L2States
      <3>1. CASE ~ IsCached(l2cache, block)
        BY <1>2, <3>1 DEF L2CacheAccess
      <3>2. CASE IsCached(l2cache, block)
        <4>1. l2cache' = TouchBlock(l2cache, block)
          BY <1>2, <3>2 DEF L2CacheAccess
        <4> QED
          BY <3>2, <4>1, Geometry, TouchBlockKeeps DEF L2States
      <3> QED
        BY <3>1, <3>2
    <2> QED
      BY <1>2, <2>2, <2>3, <2>4, <2>5, <2>6, <2>7, <2>8 DEF L1MissWait
  <1> QED
    BY <1>1, <1>2 DEF L1MissWait

-----------------------------------------------------------------------------
\* NoDuplicates, spelt out for an L1 cache.
LEMMA NoDuplicatesInL1 ==
  ASSUME NEW cache \in Caches(L1Sets, L1Ways)
  PROVE  NoDuplicates(cache) <=>
           \A s \in 0 .. L1Sets - 1 : \A v, w \in 0 .. L1Ways - 1 :
             cache[s][v].valid /\ cache[s][w].valid
             /\ cache[s][v].tag = cache[s][w].tag => v = w
  <1>1. /\ DOMAIN cache = 0 .. L1Sets - 1
        /\ \A s \in 0 .. L1Sets - 1 : DOMAIN cache[s] = 0 .. L1Ways - 1
    BY DEF Caches, Set
  <1> QED
    BY <1>1, Zenon DEF NoDuplicates

\* An L1 hit duplicates no block.
LEMMA TouchL1 ==
  ASSUME NEW cache \in Caches(L1Sets, L1Ways), NoDuplicates(cache),
         NEW block \in Nat, IsCached(cache, block)
  PROVE  /\ TouchBlock(cache, block) \in Caches(L1Sets, L1Ways)
         /\ NoDuplicates(TouchBlock(cache, block))
  <1>1. PICK new : new = TouchBlock(cache, block)
    OBVIOUS
  <1>2. /\ new \in Caches(L1Sets, L1Ways)
        /\ \A s \in 0 .. L1Sets - 1, w \in 0 .. L1Ways - 1 :
             new[s][w].valid = cache[s][w].valid /\ new[s][w].tag = cache[s][w].tag
    BY <1>1, Geometry, TouchBlockKeeps
  <1>3. NoDuplicates(new)
    BY <1>2, NoDuplicatesInL1
  <1> QED
    BY <1>1, <1>2, <1>3

\* complete_l1_fill duplicates no block if the block was not in the cache.
LEMMA FillL1 ==
  ASSUME NEW cache \in Caches(L1Sets, L1Ways), NoDuplicates(cache),
         NEW block \in Nat, ~ IsCached(cache, block)
  PROVE  /\ CompleteL1Fill(cache, block) \in Caches(L1Sets, L1Ways)
         /\ NoDuplicates(CompleteL1Fill(cache, block))
  <1>1. PICK new, i : new = CompleteL1Fill(cache, block) /\ i = SetIndex(cache, block)
    OBVIOUS
  <1>2. new \in Caches(L1Sets, L1Ways)
    BY <1>1, Geometry, L1FillKeeps
  <1>3. PICK v \in 0 .. L1Ways - 1 :
          \A s \in 0 .. L1Sets - 1, w \in 0 .. L1Ways - 1 :
            IF s = i /\ w = v
            THEN new[s][w].valid /\ new[s][w].tag = block
            ELSE new[s][w].valid = cache[s][w].valid /\ new[s][w].tag = cache[s][w].tag
    <2>1. OneWayFilled(cache, CompleteL1Fill(cache, block), L1Sets, L1Ways,
                       SetIndex(cache, block), block)
      BY Geometry, L1FillKeeps
    <2>2. OneWayFilled(cache, new, L1Sets, L1Ways, i, block)
      BY <1>1, <2>1
    <2> QED
      BY <2>2 DEF OneWayFilled
  <1>4. i \in 0 .. L1Sets - 1
    BY <1>1, Geometry, SetIndexInRange
  <1>5. \A w \in 0 .. L1Ways - 1 : ~ (cache[i][w].valid /\ cache[i][w].tag = block)
    BY <1>1, <1>4 DEF IsCached, HitWays, Caches, Set
  <1>6. NoDuplicates(new)
    <2> SUFFICES ASSUME NEW s \in 0 .. L1Sets - 1, NEW x \in 0 .. L1Ways - 1,
                        NEW y \in 0 .. L1Ways - 1,
                        new[s][x].valid, new[s][y].valid,
                        new[s][x].tag = new[s][y].tag
                 PROVE  x = y
      BY <1>2, NoDuplicatesInL1
    <2>1. \A a \in 0 .. L1Sets - 1 : \A b, c \in 0 .. L1Ways - 1 :
            cache[a][b].valid /\ cache[a][c].valid
            /\ cache[a][b].tag = cache[a][c].tag => b = c
      BY NoDuplicatesInL1
    <2>2. CASE s # i
      BY <1>3, <2>1, <2>2
    <2>3. CASE s = i /\ x # v /\ y # v
      BY <1>3, <2>1, <2>3
    <2>4. CASE s = i /\ (x = v \/ y = v)
      BY <1>3, <1>5, <2>4
    <2> QED
      BY <2>2, <2>3, <2>4
  <1> QED
    BY <1>1, <1>2, <1>6

-----------------------------------------------------------------------------
\* issue_dram_request and the end of the cycle leave well-formed banks, and the
\* time of a fill is a number of cycles.
LEMMA DramTypes ==
  ASSUME NEW bs \in [Banks -> Bank], NEW block \in Nat
  PROVE  /\ IssueOnBank(bs, block, 0) \in [Banks -> Bank]
         /\ AgeBanks(bs) \in [Banks -> Bank]
         /\ FillCompleteCycle(0, NumCommands(bs, block)) \in Nat
  <1>1. NumBanks \in Nat \ {0} /\ RowBlocks \in Nat \ {0}
        /\ BankBusyCycles \in Nat /\ DataTfCycles \in Nat /\ FillLatency \in Nat
    BY TimingAssumption
  <1>2. GetBankIndex(block) \in Banks /\ GetRowIndex(block) \in Nat
    BY <1>1, Quotient DEF GetBankIndex, GetRowIndex, Banks
  <1>3. NumCommands(bs, block) \in 1 .. 3
    BY DEF NumCommands
  <1>4. IssueOnBank(bs, block, 0) \in [Banks -> Bank]
    BY <1>2, <1>3 DEF IssueOnBank, Bank
  <1>5. AgeBanks(bs) \in [Banks -> Bank]
    BY DEF AgeBanks, Bank
  <1>6. ASSUME NEW n \in 1 .. 3
        PROVE  FillCompleteCycle(0, n) \in Nat
    <2>1. n = 1 \/ n = 2 \/ n = 3
      OBVIOUS
    <2> QED
      BY <1>1, <2>1 DEF FillCompleteCycle, CommandsEnd
  <1> QED
    BY <1>3, <1>4, <1>5, <1>6

\* The queue holds requests with the MSHRs they belong to.
LEMMA QueueMissesType ==
  ASSUME NEW ms \in MshrTable, Queued(queue)
  PROVE  Queued(QueueMisses(ms))
  <1> SUFFICES ASSUME NEW s \in Slots, QueueMisses(ms)[s] # NoRequest
               PROVE  QueueMisses(ms)[s] \in
                        [block : Nat, arrival : Int, fromMem : BOOLEAN, mshr : Mshrs]
    BY DEF Queued
  <1> DEFINE Rank(i) == RankIn(FreeSlots, s) = RankIn(Unqueued(ms), i)
  <1>1. CASE \E i \in Unqueued(ms) : s \in FreeSlots /\ Rank(i)
    <2>1. PICK i : i = CHOOSE k \in Unqueued(ms) : Rank(k)
      OBVIOUS
    <2>2. i \in Unqueued(ms)
      BY <1>1, <2>1
    <2>3. i \in Mshrs /\ ms[i].block \in Nat /\ ms[i].isIcache \in BOOLEAN
      BY <2>2 DEF Unqueued, MshrTable
    <2>4. QueueMisses(ms)[s] = [block |-> ms[i].block, arrival |-> 0,
              fromMem |-> ~ ms[i].isIcache, mshr |-> i]
      BY <1>1, <2>1 DEF QueueMisses
    <2> QED
      BY <2>3, <2>4
  <1>2. CASE ~ \E i \in Unqueued(ms) : s \in FreeSlots /\ Rank(i)
    BY <1>2 DEF QueueMisses, Queued
  <1> QED
    BY <1>1, <1>2

\* The end of the cycle keeps the queue well-formed.
LEMMA AgeQueueType ==
  ASSUME NEW q, Queued(q)
  PROVE  Queued(AgeQueue(q))
  BY DEF Queued, AgeQueue

\* The passes of the memory controller over the MSHRs change no block.
SameBlocks(ms, new) ==
  \A i \in Mshrs : new[i].valid = ms[i].valid /\ new[i].block = ms[i].block

\* Marking fills done, marking misses queued and the end of the cycle.
LEMMA MshrPasses ==
  ASSUME NEW ms \in MshrTable
  PROVE  /\ MarkDone(ms) \in MshrTable /\ SameBlocks(ms, MarkDone(ms))
         /\ MarkQueued(ms) \in MshrTable /\ SameBlocks(ms, MarkQueued(ms))
         /\ AgeMshrs(ms) \in MshrTable /\ SameBlocks(ms, AgeMshrs(ms))
  <1>1. MarkDone(ms) \in MshrTable /\ SameBlocks(ms, MarkDone(ms))
    BY DEF MarkDone, MshrTable, SameBlocks
  <1>2. MarkQueued(ms) \in MshrTable /\ SameBlocks(ms, MarkQueued(ms))
    BY DEF MarkQueued, MshrTable, SameBlocks
  <1>3. AgeMshrs(ms) \in MshrTable /\ SameBlocks(ms, AgeMshrs(ms))
    <2>1. \A n \in Nat : n > 0 => n - 1 \in Nat
      OBVIOUS
    <2>2. \A i \in Mshrs : ms[i].fill \in Nat \/ ms[i].fill = -1
      BY DEF MshrTable, NotQueued
    <2>3. \A i \in Mshrs : ms[i].fill > 0 => ms[i].fill - 1 \in Nat
      BY <2>2
    <2> QED
      BY <2>3 DEF AgeMshrs, MshrTable, SameBlocks
  <1> QED
    BY <1>1, <1>2, <1>3

\* issue_dram_request sets the fill time of the MSHR of the request.
LEMMA IssueFillType ==
  ASSUME NEW ms \in MshrTable, banks \in [Banks -> Bank],
         NEW r \in [block : Nat, arrival : Int, fromMem : BOOLEAN, mshr : Mshrs]
  PROVE  IssueFill(ms, r) \in MshrTable /\ SameBlocks(ms, IssueFill(ms, r))
  <1>1. PICK f \in Nat : f = FillCompleteCycle(0, NumCommands(banks, r.block))
    BY DramTypes
  <1>2. r.mshr \in Mshrs
    OBVIOUS
  <1>3. IssueFill(ms, r) = [ms EXCEPT ![r.mshr].fill =
                              IF ms[r.mshr].valid THEN f ELSE ms[r.mshr].fill]
    BY <1>1 DEF IssueFill, MshrTable
  <1> QED
    BY <1>1, <1>2, <1>3 DEF MshrTable, SameBlocks

\* They keep one MSHR per block.
LEMMA SameBlocksKeepOne ==
  ASSUME NEW ms, NEW new, OnePerBlock(ms), SameBlocks(ms, new)
  PROVE  OnePerBlock(new)
  BY DEF OnePerBlock, SameBlocks

\* The insertions of one cycle, in slot order, keep every L2 set in LRU order.
LEMMA InsertFillsType ==
  ASSUME NEW l2 \in L2States, NEW q, Queued(q), NEW ms
  PROVE  InsertFills(l2, q, ms) \in L2States
  <1> DEFINE Due(s) == q[s - 1] # NoRequest /\ ms[q[s - 1].mshr].done
             after[s \in 0 .. QueueCapacity] ==
               IF s = 0 THEN l2
               ELSE IF q[s - 1] # NoRequest /\ ms[q[s - 1].mshr].done
                    THEN InsertL2Block(after[s - 1], q[s - 1].block)
                    ELSE after[s - 1]
             turn == [s \in 1 .. QueueCapacity |-> [cache \in L2States |->
                        IF Due(s) THEN InsertL2Block(cache, q[s - 1].block) ELSE cache]]
  <1>1. QueueCapacity \in Nat /\ \A s \in 1 .. QueueCapacity : s - 1 \in Slots
    BY TimingAssumption DEF Slots
  <1>2. ASSUME NEW s \in 1 .. QueueCapacity, Due(s), NEW cache \in L2States
        PROVE  InsertL2Block(cache, q[s - 1].block) \in L2States
    <2>1. q[s - 1].block \in Nat
      BY <1>1, <1>2 DEF Queued
    <2> QED
      BY <2>1, Geometry, L2InsertKeeps DEF L2States
  <1>3. turn \in [1 .. QueueCapacity -> [L2States -> L2States]]
    <2> HIDE DEF Due
    <2> QED
      BY <1>2
  <1>4. PICK run \in [0 .. QueueCapacity -> L2States] :
          run[0] = l2 /\ \A s \in 1 .. QueueCapacity : run[s] = turn[s][run[s - 1]]
    <2> HIDE DEF turn, Due, after
    <2>1. \E run \in [0 .. QueueCapacity -> L2States] :
             LoopRun(run, QueueCapacity, l2, turn)
      BY <1>1, <1>3, LoopRuns
    <2> QED
      BY <2>1 DEF LoopRun
  <1>4a. /\ run[0] = l2
         /\ \A s \in 1 .. QueueCapacity :
              run[s] = IF Due(s) THEN InsertL2Block(run[s - 1], q[s - 1].block)
                       ELSE run[s - 1]
    <2> HIDE DEF Due
    <2>1. \A s \in 1 .. QueueCapacity : run[s - 1] \in L2States
      BY <1>1
    <2>2. \A s \in 1 .. QueueCapacity : \A cache \in L2States :
            turn[s][cache] = IF Due(s) THEN InsertL2Block(cache, q[s - 1].block)
                             ELSE cache
      OBVIOUS
    <2> HIDE DEF turn
    <2> QED
      BY <1>4, <2>1, <2>2
  <1>5. run = [s \in 0 .. QueueCapacity |->
                 IF s = 0 THEN l2
                 ELSE IF q[s - 1] # NoRequest /\ ms[q[s - 1].mshr].done
                      THEN InsertL2Block(run[s - 1], q[s - 1].block)
                      ELSE run[s - 1]]
    <2>1. run = [s \in 0 .. QueueCapacity |-> run[s]]
      OBVIOUS
    <2>2. \A s \in 0 .. QueueCapacity : s = 0 \/ s \in 1 .. QueueCapacity
      BY <1>1
    <2> QED
      BY <1>4a, <2>1, <2>2
  <1>6. after = [s \in 0 .. QueueCapacity |->
                 IF s = 0 THEN l2
                 ELSE IF q[s - 1] # NoRequest /\ ms[q[s - 1].mshr].done
                      THEN InsertL2Block(after[s - 1], q[s - 1].block)
                      ELSE after[s - 1]]
    BY <1>5
  <1>7. InsertFills(l2, q, ms) = after[QueueCapacity]
    BY DEF InsertFills
  <1> HIDE DEF after
  <1>6a. \A s \in 0 .. QueueCapacity :
           after[s] = IF s = 0 THEN l2
                      ELSE IF q[s - 1] # NoRequest /\ ms[q[s - 1].mshr].done
                           THEN InsertL2Block(after[s - 1], q[s - 1].block)
                           ELSE after[s - 1]
    BY <1>6, Zenon
  <1> DEFINE S == {s \in 0 .. QueueCapacity : after[s] \in L2States}
  <1>8. 0 \in S
    BY <1>1, <1>6
  <1>9. ASSUME NEW s \in 0 .. QueueCapacity - 1, s \in S
        PROVE  s + 1 \in S
    <2>1. s + 1 \in 1 .. QueueCapacity /\ (s + 1) - 1 = s /\ after[s] \in L2States
      BY <1>1, <1>9
    <2>2. after[s + 1] = IF q[s] # NoRequest /\ ms[q[s].mshr].done
                         THEN InsertL2Block(after[s], q[s].block) ELSE after[s]
      BY <1>1, <1>6a, <2>1
    <2>3. after[s + 1] \in L2States
      BY <1>2, <2>1, <2>2
    <2> QED
      BY <2>1, <2>3
  <1>10. 0 .. QueueCapacity \subseteq S
    <2> HIDE DEF S
    <2> QED
      BY <1>1, <1>8, <1>9, LoopInduction
  <1> QED
    BY <1>1, <1>7, <1>10
-----------------------------------------------------------------------------
(***************************************************************************)
(* The steps.                                                              *)
(***************************************************************************)
\* The invariant holds when the simulator starts.
LEMMA InvInit == Init => IInv
  <1> SUFFICES ASSUME Init PROVE IInv
    OBVIOUS
  <1>1. ASSUME NEW sets \in Nat \ {0}, NEW ways \in Nat \ {0}
        PROVE  /\ AllocCache(sets, ways) \in Caches(sets, ways)
               /\ NoDuplicates(AllocCache(sets, ways))
               /\ \A s \in 0 .. sets - 1 : LruOrder(AllocCache(sets, ways)[s])
    <2>1. [w \in 0 .. ways - 1 |-> [valid |-> FALSE, tag |-> 0, recency |-> 0]]
            \in Set(ways)
      BY DEF Set, CacheBlock
    <2>2. AllocCache(sets, ways) \in Caches(sets, ways)
      BY <2>1 DEF AllocCache, Caches
    <2>3. \A s \in 0 .. sets - 1 : /\ DOMAIN AllocCache(sets, ways)[s] = 0 .. ways - 1
                                   /\ \A w \in 0 .. ways - 1 : ~ AllocCache(sets, ways)[s][w].valid
      BY DEF AllocCache
    <2>4. DOMAIN AllocCache(sets, ways) = 0 .. sets - 1
      BY DEF AllocCache
    <2>5. \A s \in 0 .. sets - 1 : Used(AllocCache(sets, ways)[s]) = {}
      BY <2>3 DEF Used
    <2> QED
      BY <2>2, <2>3, <2>4, <2>5 DEF NoDuplicates, LruOrder, NoTies, NoGaps
  <1>2. /\ icache \in Caches(L1Sets, L1Ways) /\ dcache \in Caches(L1Sets, L1Ways)
        /\ NoDuplicates(icache) /\ NoDuplicates(dcache)
        /\ l2cache \in L2States
    BY <1>1, Geometry DEF Init, L2States
  <1>3. mshrs \in MshrTable /\ OnePerBlock(mshrs)
    BY DEF Init, MshrTable, OnePerBlock, FreeMshr, NotQueued
  <1>4. banks \in [Banks -> Bank] /\ Queued(queue)
    BY DEF Init, UnusedBank, Bank, Queued
  <1>5. Types
    BY <1>2, <1>3, <1>4, Geometry DEF Init, Types, NoOp
  <1>6. OwnBlocks /\ MissesAreMisses /\ Consecutive /\ JumpsResolved
    BY DEF Init, OwnBlocks, MissesAreMisses, Consecutive, NextOp, Successors, JumpsResolved
  <1> QED
    BY <1>2, <1>3, <1>5, <1>6 DEF IInv

\* pipe_stage_mem keeps the invariant.
LEMMA MemStep ==
  ASSUME IInv, PipeStageMem
  PROVE  IInv'
  <1> USE DEF IInv
  <1>1. /\ phase = "mem" /\ phase' = "execute"
        /\ recovery = NoOp
    BY DEF PipeStageMem, JumpsResolved
  <1>2. CASE MemFill
    <2>1. /\ memMiss.waiting /\ memMiss.block \in Nat
          /\ MemAccesses /\ ~ IsCached(dcache, memMiss.block)
      BY <1>2 DEF MemFill, OwnBlocks, MissesAreMisses, Types
    <2>2. /\ dcache' \in Caches(L1Sets, L1Ways) /\ NoDuplicates(dcache')
      BY <1>2, <2>1, FillL1 DEF MemFill, Types
    <2>3. mshrs' \in MshrTable /\ OnePerBlock(mshrs')
      BY <1>2, <2>1, DropMshr DEF MemFill, Types
    <2>4. memMiss' = [waiting |-> FALSE, block |-> 0]
      BY <1>2 DEF MemFill
    <2>5. Types'
      BY <1>1, <1>2, <2>2, <2>3, <2>4 DEF MemFill, Types, pipeline, dram
    <2>6. OwnBlocks' /\ MissesAreMisses'
      BY <1>2, <2>4 DEF MemFill, OwnBlocks, MissesAreMisses, BlockOf, pipeline
    <2>7. Consecutive' /\ JumpsResolved'
      BY <1>1, <1>2, <2>1 DEF MemFill, Consecutive, NextOp, Successors, JumpsResolved, pipeline,
         MemAccesses, Instruction
    <2>8. NoDuplicates(icache')
      BY <1>2 DEF MemFill
    <2> QED
      BY <2>2, <2>3, <2>5, <2>6, <2>7, <2>8
  <1>3. CASE MemStall
    <2>1. memOp # NoOp => Instruction(memOp).kind = "mem"
      BY <1>3 DEF MemStall, OwnBlocks, MemAccesses
    <2>2. UNCHANGED <<program, pipeline, misses, caches, mshrs, dram, aborted>>
      BY <1>3 DEF MemStall
    <2>3. Types'
      BY <1>1, <2>2 DEF Types, pipeline, misses, caches, dram
    <2>4. OwnBlocks' /\ MissesAreMisses'
      BY <2>2 DEF OwnBlocks, MissesAreMisses, BlockOf, pipeline, misses, caches,
         MemAccesses, MemBlock, Instruction
    <2>5. Consecutive' /\ JumpsResolved'
      BY <1>1, <2>1, <2>2 DEF Consecutive, NextOp, Successors, JumpsResolved,
         pipeline, Instruction
    <2> QED
      BY <2>2, <2>3, <2>4, <2>5 DEF caches
  <1>4. CASE MemMiss
    <2>1. MemAccesses /\ MemBlock \in Nat
      BY <1>4, InstructionType DEF MemMiss, Types, MemAccesses, MemBlock
    <2>2. /\ mshrs' \in MshrTable /\ OnePerBlock(mshrs') /\ l2cache' \in L2States
          /\ ~ IsCached(dcache, MemBlock)
      BY <1>4, <2>1, MissWait DEF MemMiss, Types
    <2>3. memMiss' = [waiting |-> TRUE, block |-> MemBlock]
      BY <1>4 DEF MemMiss
    <2>4. Types'
      BY <1>1, <1>4, <2>1, <2>2, <2>3 DEF MemMiss, Types, pipeline, dram
    <2>5. OwnBlocks' /\ MissesAreMisses'
      BY <1>4, <2>1, <2>2, <2>3 DEF MemMiss, OwnBlocks, MissesAreMisses, BlockOf,
         pipeline, MemAccesses, MemBlock, Instruction
    <2>6. Consecutive' /\ JumpsResolved'
      BY <1>1, <1>4, <2>1 DEF MemMiss, Consecutive, NextOp, Successors, JumpsResolved, pipeline,
         MemAccesses, Instruction
    <2>7. NoDuplicates(icache') /\ NoDuplicates(dcache')
      BY <1>4 DEF MemMiss
    <2> QED
      BY <2>2, <2>4, <2>5, <2>6, <2>7
  <1>5. CASE MemNoMshr
    <2>1. memOp # NoOp => Instruction(memOp).kind = "mem"
      BY <1>5 DEF MemNoMshr, MemAccesses
    <2>2. /\ UNCHANGED <<program, pipeline, misses, caches, mshrs, dram>>
          /\ aborted' = "no_mshr"
      BY <1>5 DEF MemNoMshr, Abort
    <2>3. Types'
      BY <1>1, <2>2 DEF Types, pipeline, misses, caches, dram
    <2>4. OwnBlocks' /\ MissesAreMisses'
      BY <2>2 DEF OwnBlocks, MissesAreMisses, BlockOf, pipeline, misses, caches,
         MemAccesses, MemBlock, Instruction
    <2>5. Consecutive' /\ JumpsResolved'
      BY <1>1, <2>1, <2>2 DEF Consecutive, NextOp, Successors, JumpsResolved,
         pipeline, Instruction
    <2> QED
      BY <2>2, <2>3, <2>4, <2>5 DEF caches
  <1>6. CASE MemDone
    <2>1. dcache' \in Caches(L1Sets, L1Ways) /\ NoDuplicates(dcache')
      <3>1. CASE dcache' = dcache
        BY <3>1 DEF Types
      <3>2. CASE /\ MemAccesses /\ IsCached(dcache, MemBlock)
                 /\ dcache' = TouchBlock(dcache, MemBlock)
        <4>1. MemBlock \in Nat
          BY <3>2, InstructionType DEF Types, MemAccesses, MemBlock
        <4> QED
          BY <3>2, <4>1, TouchL1 DEF Types
      <3> QED
        BY <1>6, <3>1, <3>2 DEF MemDone
    <2>2. ~ memMiss.waiting /\ memOp' = NoOp /\ UNCHANGED misses
      BY <1>6 DEF MemDone
    <2>3. Types'
      BY <1>1, <1>6, <2>1, <2>2 DEF MemDone, Types, misses, dram
    <2>4. OwnBlocks' /\ MissesAreMisses'
      BY <1>6, <2>2 DEF MemDone, OwnBlocks, MissesAreMisses, BlockOf, misses
    <2>5. Consecutive' /\ JumpsResolved'
      BY <1>1, <1>6, <2>2 DEF MemDone, Consecutive, NextOp, Successors, JumpsResolved, Instruction
    <2>6. NoDuplicates(icache') /\ OnePerBlock(mshrs')
      BY <1>6 DEF MemDone
    <2> QED
      BY <2>1, <2>3, <2>4, <2>5, <2>6
  <1> QED
    BY <1>2, <1>3, <1>4, <1>5, <1>6 DEF PipeStageMem

\* pipe_stage_execute keeps the invariant: a jump reaches MEM with its recovery.
LEMMA ExecuteStep ==
  ASSUME IInv, PipeStageExecute
  PROVE  IInv'
  <1> USE DEF IInv
  <1>1. /\ phase = "execute" /\ phase' = "decode" /\ recovery = NoOp
        /\ UNCHANGED <<program, pc, decodeOp, misses, caches, mshrs, dram, aborted>>
    BY DEF PipeStageExecute, JumpsResolved
  <1>2. \/ UNCHANGED <<memOp, executeOp, recovery>>
        \/ /\ memOp = NoOp /\ executeOp # NoOp
           /\ memOp' = executeOp /\ executeOp' = NoOp
           /\ \/ Instruction(executeOp).kind # "jump" /\ recovery' = NoOp
              \/ recovery' \in Nat
    <2>1. Instruction(executeOp).kind \in {"branch", "jump"} =>
            Instruction(executeOp).dest \in Nat
      BY InstructionType DEF Types
    <2> QED
      BY <1>1, <2>1 DEF PipeStageExecute, ExecuteMoves
  <1>3. Types'
    BY <1>1, <1>2 DEF Types, misses, caches, dram
  <1>4. OwnBlocks' /\ MissesAreMisses'
    BY <1>1, <1>2 DEF OwnBlocks, MissesAreMisses, BlockOf, misses, caches,
       MemAccesses, MemBlock, Instruction
  <1>5. Consecutive'
    <2>1. CASE UNCHANGED <<memOp, executeOp, recovery>>
      BY <1>1, <2>1 DEF Consecutive, NextOp, Successors, Instruction
    <2>2. CASE ExecuteMoves
      <3>1. /\ executeOp # NoOp /\ memOp' = executeOp /\ executeOp' = NoOp
            /\ LET instruction == Instruction(executeOp)
               IN  \/ instruction.kind # "jump" /\ UNCHANGED recovery
                   \/ instruction.kind \in {"branch", "jump"} /\ recovery' = instruction.dest
        BY <2>2 DEF PipeStageExecute, ExecuteMoves
      <3>2. NextOp' = executeOp + 1
        BY <1>1, <3>1 DEF Consecutive, NextOp
      <3>3. Successors(memOp)' = Successors(executeOp)
        BY <1>1, <3>1 DEF Successors, Instruction
      <3>4. IF recovery' = NoOp THEN NextOp' \in Successors(executeOp)
            ELSE recovery' \in Successors(executeOp)
        <4>1. CASE Instruction(executeOp).kind # "jump" /\ UNCHANGED recovery
          BY <1>1, <3>2, <4>1 DEF Successors
        <4>2. CASE /\ Instruction(executeOp).kind \in {"branch", "jump"}
                   /\ recovery' = Instruction(executeOp).dest
          <5>1. Instruction(executeOp).dest \in Nat
            BY <4>2, InstructionType DEF Types
          <5>2. recovery' # NoOp /\ recovery' \in Successors(executeOp)
            BY <4>2, <5>1 DEF Successors, NoOp
          <5> QED
            BY <5>2
        <4> QED
          BY <3>1, <4>1, <4>2
      <3> QED
        BY <1>1, <3>1, <3>2, <3>3, <3>4 DEF Consecutive
    <2> QED
      BY <2>1, <2>2 DEF PipeStageExecute
  <1>6. JumpsResolved'
    <2>1. ASSUME memOp' # NoOp, Instruction(memOp)'.kind = "jump", recovery' = NoOp
          PROVE  FALSE
      <3>1. CASE UNCHANGED <<memOp, executeOp, recovery>>
        BY <1>1, <2>1, <3>1 DEF JumpsResolved, Instruction
      <3>2. CASE /\ memOp' = executeOp
                 /\ \/ Instruction(executeOp).kind # "jump" /\ recovery' = NoOp
                    \/ recovery' \in Nat
        <4>1. Instruction(memOp)' = Instruction(executeOp)
          BY <1>1, <3>2 DEF Instruction
        <4> QED
          BY <2>1, <3>2, <4>1 DEF NoOp
      <3> QED
        BY <1>2, <3>1, <3>2
    <2> QED
      BY <1>1, <2>1 DEF JumpsResolved
  <1>7. OnePerBlock(mshrs') /\ NoDuplicates(icache') /\ NoDuplicates(dcache')
    BY <1>1 DEF caches
  <1> QED
    BY <1>3, <1>4, <1>5, <1>6, <1>7

\* pipe_stage_decode keeps the invariant.
LEMMA DecodeStep ==
  ASSUME IInv, PipeStageDecode
  PROVE  IInv'
  <1> USE DEF IInv
  <1>1. /\ phase = "decode" /\ phase' = "fetch"
        /\ UNCHANGED <<program, pc, memOp, recovery, misses, caches, mshrs, dram,
                       aborted>>
        /\ IF executeOp = NoOp THEN executeOp' = decodeOp /\ decodeOp' = NoOp
           ELSE UNCHANGED <<executeOp, decodeOp>>
    BY DEF PipeStageDecode
  <1>2. Types'
    BY <1>1 DEF Types, misses, caches, dram
  <1>3. OwnBlocks' /\ MissesAreMisses'
    BY <1>1 DEF OwnBlocks, MissesAreMisses, BlockOf, misses, caches, MemAccesses,
       MemBlock, Instruction
  <1>4. Consecutive'
    BY <1>1 DEF Consecutive, NextOp, Successors, Instruction
  <1>5. JumpsResolved'
    BY <1>1 DEF JumpsResolved, Instruction
  <1>6. OnePerBlock(mshrs') /\ NoDuplicates(icache') /\ NoDuplicates(dcache')
    BY <1>1 DEF caches
  <1> QED
    BY <1>2, <1>3, <1>4, <1>5, <1>6

\* Fetch goes on with the MSHRs that the release of a cancelled miss leaves.
LEMMA FetchStarts ==
  ASSUME IInv
  PROVE  /\ MshrsAtFetch \in MshrTable /\ OnePerBlock(MshrsAtFetch)
         /\ FetchMissState \in [waiting : BOOLEAN, cancelled : BOOLEAN, block : Nat]
         /\ FetchMissState.waiting = fetchMiss.waiting
  <1>1. fetchMiss.block \in Nat
    BY DEF IInv, Types
  <1>2. /\ MshrsWithout(fetchMiss.block) \in MshrTable
        /\ OnePerBlock(MshrsWithout(fetchMiss.block))
    BY <1>1, DropMshr DEF IInv, Types
  <1> QED
    BY <1>2 DEF MshrsAtFetch, FetchMissState, IInv, Types

\* pipe_stage_fetch keeps the invariant.
LEMMA FetchStep ==
  ASSUME IInv, PipeStageFetch
  PROVE  IInv'
  <1> USE DEF IInv
  <1>1. phase = "fetch" /\ phase' = "recover"
    BY DEF PipeStageFetch
  <1>2. pc \in Nat /\ BlockOf(pc) \in Nat
    BY BlockOfType DEF Types
  <1>3. ASSUME /\ UNCHANGED <<program, pipeline, misses, caches, mshrs, dram>>
               /\ aborted' \in {aborted, "no_mshr"}
        PROVE  IInv'
    <2>1. Types'
      BY <1>1, <1>3 DEF Types, pipeline, misses, caches, dram
    <2>2. OwnBlocks' /\ MissesAreMisses'
      BY <1>3 DEF OwnBlocks, MissesAreMisses, BlockOf, pipeline, misses, caches,
         MemAccesses, MemBlock, Instruction
    <2>3. Consecutive' /\ JumpsResolved'
      BY <1>1, <1>3 DEF Consecutive, NextOp, Successors, JumpsResolved,
         pipeline, Instruction
    <2> QED
      BY <1>3, <2>1, <2>2, <2>3 DEF caches
  <1>4. CASE FetchStall
    BY <1>3, <1>4 DEF FetchStall
  <1>5. CASE FetchNoMshr
    BY <1>3, <1>5 DEF FetchNoMshr, Abort
  <1>6. CASE FetchFill
    <2>1. /\ fetchMiss.waiting /\ fetchMiss.block \in Nat
          /\ ~ IsCached(icache, fetchMiss.block)
      BY <1>6 DEF FetchFill, MissesAreMisses, Types
    <2>2. /\ icache' \in Caches(L1Sets, L1Ways) /\ NoDuplicates(icache')
      BY <1>6, <2>1, FillL1 DEF FetchFill, Types
    <2>3. mshrs' \in MshrTable /\ OnePerBlock(mshrs')
      BY <1>6, <2>1, DropMshr DEF FetchFill, Types
    <2>4. /\ fetchMiss' \in [waiting : BOOLEAN, cancelled : BOOLEAN, block : Nat]
          /\ ~ fetchMiss'.waiting
      BY <1>6 DEF FetchFill, Types
    <2>5. Types'
      BY <1>1, <1>6, <2>2, <2>3, <2>4 DEF FetchFill, Types, pipeline, dram
    <2>6. OwnBlocks' /\ MissesAreMisses'
      BY <1>6, <2>4 DEF FetchFill, OwnBlocks, MissesAreMisses, pipeline,
         MemAccesses, MemBlock, Instruction
    <2>7. Consecutive' /\ JumpsResolved'
      BY <1>1, <1>6 DEF FetchFill, Consecutive, NextOp, Successors, JumpsResolved,
         pipeline, Instruction
    <2>8. NoDuplicates(dcache')
      BY <1>6 DEF FetchFill
    <2> QED
      BY <2>2, <2>3, <2>5, <2>6, <2>7, <2>8
  <1>7. CASE FetchHit
    <2>1. icache' \in Caches(L1Sets, L1Ways) /\ NoDuplicates(icache')
      BY <1>2, <1>7, TouchL1 DEF FetchHit, Types
    <2>2. /\ mshrs' \in MshrTable /\ OnePerBlock(mshrs')
          /\ fetchMiss' \in [waiting : BOOLEAN, cancelled : BOOLEAN, block : Nat]
          /\ ~ fetchMiss'.waiting
      BY <1>7, FetchStarts DEF FetchHit, FetchAccess
    <2>3. decodeOp = NoOp /\ decodeOp' = pc /\ pc' = pc + 1
          /\ UNCHANGED <<executeOp, memOp, recovery, program>>
      BY <1>7 DEF FetchHit, FetchAccess
    <2>4. Types'
      BY <1>1, <1>2, <1>7, <2>1, <2>2, <2>3 DEF FetchHit, Types, dram
    <2>5. OwnBlocks' /\ MissesAreMisses'
      BY <1>7, <2>2 DEF FetchHit, OwnBlocks, MissesAreMisses, MemAccesses,
         MemBlock, Instruction
    <2>6. Consecutive'
      BY <1>2, <2>3 DEF Consecutive, NextOp, Successors, NoOp, Instruction
    <2>7. JumpsResolved'
      BY <1>1, <2>3 DEF JumpsResolved, Instruction
    <2>8. NoDuplicates(dcache')
      BY <1>7 DEF FetchHit
    <2> QED
      BY <2>1, <2>2, <2>4, <2>5, <2>6, <2>7, <2>8
  <1>8. CASE FetchWait
    <2>1. /\ mshrs' \in MshrTable /\ OnePerBlock(mshrs') /\ l2cache' \in L2States
          /\ ~ IsCached(icache, BlockOf(pc))
      BY <1>2, <1>8, FetchStarts, MissWait DEF FetchWait, Types
    <2>2. /\ fetchMiss' \in [waiting : BOOLEAN, cancelled : BOOLEAN, block : Nat]
          /\ fetchMiss'.waiting /\ fetchMiss'.block = BlockOf(pc)
      BY <1>2, <1>8, FetchStarts DEF FetchWait
    <2>3. Types'
      BY <1>1, <1>8, <2>1, <2>2 DEF FetchWait, Types, pipeline, dram
    <2>4. OwnBlocks' /\ MissesAreMisses'
      BY <1>8, <2>1, <2>2 DEF FetchWait, OwnBlocks, MissesAreMisses, BlockOf,
         pipeline, MemAccesses, MemBlock, Instruction
    <2>5. Consecutive' /\ JumpsResolved'
      BY <1>1, <1>8 DEF FetchWait, Consecutive, NextOp, Successors, JumpsResolved,
         pipeline, Instruction
    <2>6. NoDuplicates(icache') /\ NoDuplicates(dcache')
      BY <1>8 DEF FetchWait
    <2> QED
      BY <2>1, <2>3, <2>4, <2>5, <2>6
  <1> QED
    BY <1>4, <1>5, <1>6, <1>7, <1>8 DEF PipeStageFetch

\* Branch recovery keeps the invariant: it empties what lies behind the jump.
LEMMA RecoverStep ==
  ASSUME IInv, BranchRecovery
  PROVE  IInv'
  <1> USE DEF IInv
  <1>1. /\ phase = "recover" /\ phase' = "dram"
        /\ UNCHANGED <<program, memOp, memMiss, caches, mshrs, dram, aborted>>
    BY DEF BranchRecovery, pipeline
  <1>2. \/ /\ recovery = NoOp /\ recovery' = NoOp
           /\ UNCHANGED <<pc, decodeOp, executeOp, fetchMiss>>
        \/ /\ recovery \in Nat /\ pc' = recovery /\ recovery' = NoOp
           /\ decodeOp' = NoOp /\ executeOp' = NoOp
           /\ fetchMiss' \in [waiting : BOOLEAN, cancelled : BOOLEAN, block : Nat]
           /\ ~ fetchMiss'.waiting
    BY DEF BranchRecovery, pipeline, FetchCancelled, Types
  <1>3. Types'
    BY <1>1, <1>2 DEF Types, caches, dram
  <1>4. OwnBlocks' /\ MissesAreMisses'
    BY <1>1, <1>2 DEF OwnBlocks, MissesAreMisses, BlockOf, caches, MemAccesses,
       MemBlock, Instruction
  <1>5. Consecutive'
    <2>1. CASE recovery = NoOp
      BY <1>1, <1>2, <2>1 DEF Consecutive, NextOp, Successors, Instruction, NoOp
    <2>2. CASE recovery # NoOp
      <3>1. pc' = recovery /\ decodeOp' = NoOp /\ executeOp' = NoOp /\ recovery' = NoOp
        BY <1>2, <2>2
      <3>2. NextOp' = recovery
        BY <3>1 DEF NextOp
      <3>3. memOp # NoOp => recovery \in Successors(memOp)
        BY <2>2 DEF Consecutive
      <3>4. Successors(memOp)' = Successors(memOp)
        BY <1>1 DEF Successors, Instruction
      <3> QED
        BY <1>1, <3>1, <3>2, <3>3, <3>4 DEF Consecutive
    <2> QED
      BY <2>1, <2>2
  <1>6. JumpsResolved'
    BY <1>1, <1>2 DEF JumpsResolved, Instruction
  <1>7. OnePerBlock(mshrs') /\ NoDuplicates(icache') /\ NoDuplicates(dcache')
    BY <1>1 DEF caches
  <1> QED
    BY <1>3, <1>4, <1>5, <1>6, <1>7

\* What the memory controller does to the MSHRs, the queue, the banks and L2.
LEMMA ServeTypes ==
  ASSUME IInv, ServeMemory
  PROVE  /\ mshrs' \in MshrTable /\ SameBlocks(mshrs, mshrs')
         /\ l2cache' \in L2States
         /\ banks' \in [Banks -> Bank] /\ Queued(queue')
  <1>1. PICK done, q, marked :
          done = MarkDone(mshrs) /\ q = QueueMisses(done) /\ marked = MarkQueued(done)
    OBVIOUS
  <1>2. /\ done \in MshrTable /\ marked \in MshrTable
        /\ SameBlocks(mshrs, done) /\ SameBlocks(done, marked)
    BY <1>1, MshrPasses DEF IInv, Types
  <1>3. Queued(q)
    BY <1>1, <1>2, QueueMissesType DEF IInv, Types
  <1>4. /\ banks \in [Banks -> Bank] /\ l2cache \in L2States
        /\ SameBlocks(mshrs, marked)
    BY <1>2 DEF IInv, Types, SameBlocks
  <1>5. CASE SelectRequestToSchedule(banks, q, 0) = {}
    <2>1. /\ mshrs' = AgeMshrs(marked) /\ queue' = AgeQueue(q)
          /\ banks' = AgeBanks(banks) /\ l2cache' = InsertFills(l2cache, q, marked)
      BY <1>1, <1>5 DEF ServeMemory
    <2>2. mshrs' \in MshrTable /\ SameBlocks(marked, mshrs')
      BY <1>2, <2>1, MshrPasses
    <2>3. Queued(queue') /\ l2cache' \in L2States
      BY <1>3, <1>4, <2>1, AgeQueueType, InsertFillsType
    <2>4. banks' \in [Banks -> Bank]
      BY <1>4, <2>1, DramTypes
    <2> QED
      BY <1>4, <2>2, <2>3, <2>4 DEF SameBlocks
  <1>6. CASE SelectRequestToSchedule(banks, q, 0) # {}
    <2>1. PICK s \in SelectRequestToSchedule(banks, q, 0) :
            /\ mshrs' = AgeMshrs(IssueFill(marked, q[s]))
            /\ queue' = AgeQueue([q EXCEPT ![s] = NoRequest])
            /\ banks' = AgeBanks(IssueOnBank(banks, q[s].block, 0))
            /\ l2cache' = InsertFills(l2cache, [q EXCEPT ![s] = NoRequest],
                                      IssueFill(marked, q[s]))
      BY <1>1, <1>6 DEF ServeMemory
    <2>2. s \in Slots /\ q[s] # NoRequest
      BY DEF SelectRequestToSchedule, Candidates
    <2>3. q[s] \in [block : Nat, arrival : Int, fromMem : BOOLEAN, mshr : Mshrs]
      BY <1>3, <2>2 DEF Queued
    <2>4. PICK left, served : /\ left = [q EXCEPT ![s] = NoRequest]
                              /\ served = IssueFill(marked, q[s])
      OBVIOUS
    <2>5. served \in MshrTable /\ SameBlocks(marked, served)
      BY <1>2, <1>4, <2>3, <2>4, IssueFillType
    <2>6. Queued(left)
      <3>1. DOMAIN q = Slots
        BY <1>1 DEF QueueMisses
      <3> QED
        BY <1>3, <2>4, <3>1 DEF Queued
    <2>7. mshrs' \in MshrTable /\ SameBlocks(served, mshrs')
      BY <2>1, <2>4, <2>5, MshrPasses
    <2>8. Queued(queue') /\ l2cache' \in L2States
      BY <1>4, <2>1, <2>4, <2>6, AgeQueueType, InsertFillsType
    <2>9. banks' \in [Banks -> Bank]
      <3>1. q[s].block \in Nat
        BY <2>3
      <3>2. IssueOnBank(banks, q[s].block, 0) \in [Banks -> Bank]
        BY <1>4, <3>1, DramTypes
      <3> QED
        BY <2>1, <3>1, <3>2, DramTypes
    <2> QED
      BY <1>4, <2>5, <2>7, <2>8, <2>9 DEF SameBlocks
  <1> QED
    BY <1>5, <1>6

\* memory_controller_cycle keeps the invariant.
LEMMA DramStep ==
  ASSUME IInv, MemoryControllerCycle
  PROVE  IInv'
  <1> USE DEF IInv
  <1>1. phase = "dram" /\ phase' = "mem"
    BY DEF MemoryControllerCycle
  <1>2. /\ UNCHANGED <<program, pipeline, misses, icache, dcache>>
        /\ mshrs' \in MshrTable /\ SameBlocks(mshrs, mshrs')
        /\ l2cache' \in L2States
        /\ banks' \in [Banks -> Bank] /\ Queued(queue')
        /\ aborted' \in {aborted, "queue_full"}
    <2>1. CASE QueueOverflow
      BY <2>1 DEF QueueOverflow, Abort, caches, dram, Types, SameBlocks
    <2>2. CASE ServeMemory
      <3>1. UNCHANGED <<program, pipeline, misses, icache, dcache, aborted>>
        BY <2>2 DEF ServeMemory
      <3> QED
        BY <2>2, <3>1, ServeTypes
    <2> QED
      BY <2>1, <2>2 DEF MemoryControllerCycle
  <1>3. Types'
    BY <1>1, <1>2 DEF Types, pipeline, misses
  <1>4. OwnBlocks' /\ MissesAreMisses'
    BY <1>2 DEF OwnBlocks, MissesAreMisses, BlockOf, pipeline, misses,
       MemAccesses, MemBlock, Instruction
  <1>5. Consecutive' /\ JumpsResolved'
    BY <1>1, <1>2 DEF Consecutive, NextOp, Successors, JumpsResolved,
         pipeline, Instruction
  <1>6. OnePerBlock(mshrs') /\ NoDuplicates(icache') /\ NoDuplicates(dcache')
    BY <1>2, SameBlocksKeepOne
  <1> QED
    BY <1>2, <1>3, <1>4, <1>5, <1>6

\* Every step keeps the invariant.
LEMMA InvStep == IInv /\ [Next]_vars => IInv'
  <1> SUFFICES ASSUME IInv, [Next]_vars PROVE IInv'
    OBVIOUS
  <1>1. CASE UNCHANGED vars
    <2>1. UNCHANGED <<program, phase, pipeline, misses, caches, mshrs, dram, aborted>>
      BY <1>1 DEF vars
    <2>2. Types'
      BY <2>1 DEF IInv, Types, pipeline, misses, caches, dram
    <2>3. OwnBlocks' /\ MissesAreMisses'
      BY <2>1 DEF IInv, OwnBlocks, MissesAreMisses, BlockOf, pipeline, misses,
         caches, MemAccesses, MemBlock, Instruction
    <2>4. Consecutive' /\ JumpsResolved'
      BY <2>1 DEF IInv, Consecutive, NextOp, Successors, JumpsResolved,
         pipeline, Instruction
    <2> QED
      BY <2>1, <2>2, <2>3, <2>4 DEF IInv, caches
  <1>2. CASE Aborted
    BY <1>1, <1>2 DEF Aborted
  <1> QED
    BY <1>1, <1>2, MemStep, ExecuteStep, DecodeStep, FetchStep, RecoverStep,
       DramStep DEF Next

\* Every step hands MEM the next op of the path, or leaves it alone.
LEMMA PathStep == IInv /\ Next => MemTakesTheNext \/ UNCHANGED vars
  <1> SUFFICES ASSUME IInv, Next PROVE MemTakesTheNext \/ UNCHANGED vars
    OBVIOUS
  <1>1. CASE PipeStageMem
    <2>1. CASE MemDone
      BY <2>1 DEF MemDone, MemTakesTheNext, NextOp
    <2>2. CASE ~ MemDone
      <3>1. UNCHANGED pipeline
        BY <1>1, <2>2 DEF PipeStageMem, MemFill, MemStall, MemMiss, MemNoMshr, Abort
      <3> QED
        BY <3>1 DEF pipeline, MemTakesTheNext, NextOp
    <2> QED
      BY <2>1, <2>2
  <1>2. CASE PipeStageExecute
    <2>1. UNCHANGED <<pc, decodeOp>>
      BY <1>2 DEF PipeStageExecute
    <2>2. CASE ExecuteMoves
      <3>1. memOp = NoOp /\ executeOp # NoOp /\ memOp' = executeOp /\ executeOp' = NoOp
        BY <1>2, <2>2 DEF PipeStageExecute, ExecuteMoves
      <3> QED
        BY <2>1, <3>1 DEF IInv, Consecutive, MemTakesTheNext, NextOp
    <2>3. CASE ~ ExecuteMoves
      BY <1>2, <2>1, <2>3 DEF PipeStageExecute, MemTakesTheNext, NextOp
    <2> QED
      BY <2>2, <2>3
  <1>3. CASE PipeStageDecode
    BY <1>3 DEF PipeStageDecode, MemTakesTheNext, NextOp
  <1>4. CASE PipeStageFetch
    <2>1. CASE FetchHit
      BY <2>1 DEF FetchHit, FetchAccess, MemTakesTheNext, NextOp, IInv, Types, NoOp
    <2>2. CASE ~ FetchHit
      <3>1. UNCHANGED pipeline
        BY <1>4, <2>2 DEF PipeStageFetch, FetchStall, FetchFill, FetchWait, FetchNoMshr, Abort
      <3> QED
        BY <3>1 DEF pipeline, MemTakesTheNext, NextOp
    <2> QED
      BY <2>1, <2>2
  <1>5. CASE BranchRecovery
    BY <1>5 DEF BranchRecovery, pipeline, MemTakesTheNext, NextOp
  <1>6. CASE MemoryControllerCycle
    <2>1. UNCHANGED pipeline
      BY <1>6 DEF MemoryControllerCycle, QueueOverflow, ServeMemory, Abort
    <2> QED
      BY <2>1 DEF pipeline, MemTakesTheNext, NextOp
  <1>7. CASE Aborted
    BY <1>7 DEF Aborted
  <1> QED
    BY <1>1, <1>2, <1>3, <1>4, <1>5, <1>6, <1>7 DEF Next

\* The inductive invariant of the timing simulator.
THEOREM Invariance == Spec => []IInv
  BY InvInit, InvStep, PTL DEF Spec

-----------------------------------------------------------------------------
\* Every variable keeps its type; in particular the recency of an L2 block never
\* leaves the range that insert_l2_block searches (cache.c:201-240).
THEOREM TypeCorrect == Spec => []TypeOK
  <1>1. IInv => TypeOK
    BY Geometry DEF IInv, Types, TypeOK, L2States, MshrTable, Queued
  <1> QED
    BY <1>1, Invariance, PTL

\* MEM executes the instructions of one path, each once and without a gap, and the
\* slots before it hold those that come next (pipe.c: stalls, branch recovery).
THEOREM InProgramOrder == Spec => ProgramOrder
  <1>1. IInv => Consecutive
    BY DEF IInv
  <1>2. IInv /\ [Next]_vars => [MemTakesTheNext]_vars
    BY PathStep
  <1> QED
    BY <1>1, <1>2, Invariance, PTL DEF Spec, ProgramOrder

\* No block has two MSHRs or two copies in an L1 cache, although complete_l1_fill
\* does not look (cache.c:127-161).
THEOREM OneMshrOneCopy == Spec => []OneOfEachBlock
  <1>1. IInv => OneOfEachBlock
    BY DEF IInv, OnePerBlock, OneOfEachBlock
  <1> QED
    BY <1>1, Invariance, PTL

\* The valid blocks of an L2 set are ranked without ties or gaps.
THEOREM L2InLruOrder == Spec => []L2RecencyIsOrder
  <1>1. IInv => L2RecencyIsOrder
    <2> SUFFICES ASSUME IInv, NEW s \in DOMAIN l2cache
                 PROVE  {l2cache[s][w].recency : w \in Used(l2cache[s])} =
                          0 .. Cardinality(Used(l2cache[s])) - 1
      BY DEF L2RecencyIsOrder, Used
    <2>1. l2cache \in Caches(L2Sets, L2Ways) /\ l2cache \in L2States
      BY DEF IInv, Types, L2States
    <2>2. s \in 0 .. L2Sets - 1 /\ l2cache[s] \in Set(L2Ways) /\ LruOrder(l2cache[s])
      BY <2>1 DEF L2States, Caches
    <2> QED
      BY <2>2, Geometry, OrderIsInterval
  <1> QED
    BY <1>1, Invariance, PTL

-----------------------------------------------------------------------------
(***************************************************************************)
(* While code and data are apart, nobody takes an MSHR away.               *)
(***************************************************************************)
\* A load or store in MEM accesses a block of the program's data.
LEMMA MemBlockIsData ==
  ASSUME MemAccesses
  PROVE  MemBlock \in DataBlocks
  BY DEF MemAccesses, MemBlock, DataBlocks, Instruction

\* check_l1_fill_ready looks at the only MSHR of the block.
LEMMA ReadyMshrs ==
  ASSUME IInv, NEW block \in Nat
  PROVE  /\ FillReady(block) =>
              \A i \in FindMshr(mshrs, block) : mshrs[i].done
         /\ ~ FillReady(block) =>
              \A i \in FindMshr(mshrs, block) : ~ mshrs[i].done
  <1>1. ASSUME NEW i \in FindMshr(mshrs, block)
        PROVE  i = Lowest(FindMshr(mshrs, block))
    <2>1. PICK l : l = Lowest(FindMshr(mshrs, block))
      OBVIOUS
    <2>2. FindMshr(mshrs, block) \in SUBSET Mshrs
      BY DEF FindMshr
    <2>3. l \in FindMshr(mshrs, block)
      BY <2>1, <2>2, MshrsAreNumbers
    <2> QED
      BY <2>1, <2>3 DEF IInv, OnePerBlock, FindMshr
  <1> QED
    BY <1>1 DEF FillReady

\* Nobody waits when the simulator starts.
LEMMA ApartInit == Init => ApartInv
  BY DEF Init, ApartInv, DataMshrs, FillTakenAtOnce, WaitersHaveMshrs, FreeMshr

\* pipe_stage_mem takes the fill of its own block at once, and nobody else's.
LEMMA ApartMem ==
  ASSUME IInv, ApartInv, CodeAndDataApart, PipeStageMem
  PROVE  ApartInv'
  <1> USE DEF ApartInv
  <1>1. /\ phase = "mem" /\ program' = program /\ DataBlocks' = DataBlocks
        /\ fetchMiss' = fetchMiss
    BY DEF PipeStageMem, MemFill, MemStall, MemMiss, MemNoMshr, MemDone, Abort,
       misses, DataBlocks
  <1>2. /\ memMiss.waiting => memMiss.block \in DataBlocks
        /\ fetchMiss.waiting => fetchMiss.block \notin DataBlocks
        /\ memMiss.waiting => MemAccesses
    BY MemBlockIsData DEF IInv, OwnBlocks, CodeAndDataApart
  <1>3. CASE MemFill
    <2>1. memMiss.waiting /\ memMiss.block \in Nat /\ ~ memMiss'.waiting
      BY <1>3 DEF MemFill, IInv, Types
    <2>2. \A i \in Mshrs : mshrs'[i] =
             IF mshrs[i].valid /\ mshrs[i].block = memMiss.block THEN FreeMshr
             ELSE mshrs[i]
      BY <1>3, <2>1, DropMshr DEF MemFill, IInv, Types
    <2>3. DataMshrs'
      BY <1>1, <2>1, <2>2 DEF DataMshrs, FreeMshr
    <2>4. fetchMiss.waiting => FindMshr(mshrs', fetchMiss.block) # {}
      BY <1>2, <2>1, <2>2 DEF WaitersHaveMshrs, FindMshr
    <2> QED
      BY <1>1, <2>1, <2>3, <2>4 DEF FillTakenAtOnce, WaitersHaveMshrs
  <1>4. CASE MemStall
    <2>1. UNCHANGED <<misses, mshrs>>
      BY <1>4 DEF MemStall
    <2>2. memMiss.waiting => ~ FillReady(memMiss.block) /\ memMiss.block \in Nat
      BY <1>2, <1>4 DEF MemStall, MemAccesses, IInv, Types
    <2>3. memMiss.waiting => \A i \in FindMshr(mshrs, memMiss.block) : ~ mshrs[i].done
      BY <2>2, ReadyMshrs
    <2>4. DataMshrs' /\ WaitersHaveMshrs'
      BY <1>1, <2>1 DEF misses, DataMshrs, WaitersHaveMshrs
    <2> QED
      BY <2>1, <2>3, <2>4 DEF misses, FillTakenAtOnce
  <1>5. CASE MemMiss
    <2>1. MemAccesses /\ MemBlock \in DataBlocks /\ MemBlock \in Nat
      BY <1>5, MemBlockIsData, InstructionType DEF MemMiss, IInv, Types,
         MemAccesses, MemBlock
    <2>2. FindMshr(mshrs', MemBlock) # {} /\ Allocates(mshrs, mshrs', MemBlock)
      BY <1>5, <2>1, MissWait DEF MemMiss, IInv, Types
    <2>3. ~ memMiss.waiting /\ memMiss'.waiting /\ memMiss'.block = MemBlock
      BY <1>5 DEF MemMiss
    <2>4. DataMshrs'
      BY <1>1, <2>1, <2>2, <2>3 DEF DataMshrs, Allocates
    <2>5. \A i \in FindMshr(mshrs', MemBlock) : ~ mshrs'[i].done
      BY <2>1, <2>2, <2>3 DEF DataMshrs, FindMshr, Allocates
    <2>6. fetchMiss.waiting => FindMshr(mshrs', fetchMiss.block) # {}
      BY <2>2 DEF WaitersHaveMshrs, FindMshr, Allocates
    <2> QED
      BY <1>1, <2>2, <2>3, <2>4, <2>5, <2>6 DEF FillTakenAtOnce, WaitersHaveMshrs
  <1>6. CASE MemNoMshr \/ MemDone
    <2>1. UNCHANGED <<misses, mshrs>> /\ ~ memMiss.waiting
      BY <1>6 DEF MemNoMshr, MemDone, Abort
    <2> QED
      BY <1>1, <2>1 DEF misses, DataMshrs, FillTakenAtOnce, WaitersHaveMshrs
  <1> QED
    BY <1>3, <1>4, <1>5, <1>6 DEF PipeStageMem

\* pipe_stage_fetch frees no MSHR that MEM waits for: it is not done.
LEMMA ApartFetch ==
  ASSUME IInv, ApartInv, CodeAndDataApart, PipeStageFetch
  PROVE  ApartInv'
  <1> USE DEF ApartInv
  <1>1. /\ phase = "fetch" /\ DataBlocks' = DataBlocks
        /\ memMiss' = memMiss
    BY DEF PipeStageFetch, FetchStall, FetchFill, FetchHit, FetchWait, FetchNoMshr,
       Abort, misses, DataBlocks
  <1>2. /\ memMiss.waiting => memMiss.block \in DataBlocks
        /\ fetchMiss.waiting => fetchMiss.block \notin DataBlocks
        /\ BlockOf(pc) \notin DataBlocks /\ BlockOf(pc) \in Nat
        /\ fetchMiss.block \in Nat
    BY MemBlockIsData, BlockOfType DEF IInv, Types, OwnBlocks, CodeAndDataApart
  <1>3. ASSUME fetchMiss'.waiting => FindMshr(mshrs', fetchMiss'.block) # {},
               \A i \in Mshrs :
                 \/ mshrs'[i] = mshrs[i]
                 \/ /\ ~ mshrs'[i].valid
                    /\ memMiss.waiting => mshrs[i].block # memMiss.block
                 \/ /\ mshrs'[i].block = BlockOf(pc)
                    /\ ~ mshrs[i].valid \/
                         (memMiss.waiting => mshrs[i].block # memMiss.block)
        PROVE  ApartInv'
    <2>1. DataMshrs'
      BY <1>1, <1>2, <1>3 DEF DataMshrs
    <2>2. FillTakenAtOnce'
      BY <1>1, <1>2, <1>3 DEF FillTakenAtOnce, FindMshr
    <2>3. memMiss.waiting => FindMshr(mshrs', memMiss.block) # {}
      BY <1>3 DEF WaitersHaveMshrs, FindMshr
    <2> QED
      BY <1>1, <1>3, <2>1, <2>2, <2>3 DEF WaitersHaveMshrs
  <1>4. CASE FetchStall \/ FetchNoMshr
    BY <1>1, <1>4 DEF FetchStall, FetchNoMshr, Abort, misses, DataMshrs,
       FillTakenAtOnce, WaitersHaveMshrs
  <1>5. ASSUME FillReady(fetchMiss.block), NEW i \in Mshrs
        PROVE  \/ MshrsWithout(fetchMiss.block)[i] = mshrs[i]
               \/ /\ ~ MshrsWithout(fetchMiss.block)[i].valid
                  /\ memMiss.waiting => mshrs[i].block # memMiss.block
    <2>1. MshrsWithout(fetchMiss.block)[i] =
            IF mshrs[i].valid /\ mshrs[i].block = fetchMiss.block THEN FreeMshr
            ELSE mshrs[i]
      BY <1>2, DropMshr DEF IInv, Types
    <2>2. \A j \in FindMshr(mshrs, fetchMiss.block) : mshrs[j].done
      BY <1>2, <1>5, ReadyMshrs
    <2> QED
      BY <1>1, <2>1, <2>2 DEF FillTakenAtOnce, FindMshr, FreeMshr
  <1>6. CASE FetchFill
    <2>1. /\ FillReady(fetchMiss.block) /\ ~ fetchMiss'.waiting
          /\ mshrs' = MshrsWithout(fetchMiss.block)
      BY <1>6 DEF FetchFill, IInv, Types
    <2> QED
      BY <1>3, <1>5, <2>1
  <1>7. \A i \in Mshrs :
          \/ MshrsAtFetch[i] = mshrs[i]
          \/ /\ ~ MshrsAtFetch[i].valid
             /\ memMiss.waiting => mshrs[i].block # memMiss.block
    BY <1>5 DEF MshrsAtFetch, DropsCancelled
  <1>8. CASE FetchHit
    <2>1. mshrs' = MshrsAtFetch /\ ~ fetchMiss'.waiting
      BY <1>8, FetchStarts DEF FetchHit, FetchAccess
    <2> QED
      BY <1>3, <1>7, <2>1
  <1>9. CASE FetchWait
    <2>1. /\ FindMshr(mshrs', BlockOf(pc)) # {}
          /\ Allocates(MshrsAtFetch, mshrs', BlockOf(pc))
      BY <1>2, <1>9, FetchStarts, MissWait DEF FetchWait, IInv, Types
    <2>2. fetchMiss'.block = BlockOf(pc)
      BY <1>9, FetchStarts DEF FetchWait
    <2>3. \A i \in Mshrs :
            \/ mshrs'[i] = mshrs[i]
            \/ /\ ~ mshrs'[i].valid
               /\ memMiss.waiting => mshrs[i].block # memMiss.block
            \/ /\ mshrs'[i].block = BlockOf(pc)
               /\ ~ mshrs[i].valid \/
                    (memMiss.waiting => mshrs[i].block # memMiss.block)
      BY <1>7, <2>1 DEF Allocates
    <2> QED
      BY <1>3, <2>1, <2>2, <2>3
  <1> QED
    BY <1>4, <1>6, <1>8, <1>9 DEF PipeStageFetch

\* Every step keeps ApartInv while fetch stays away from the data.
LEMMA ApartStep ==
  ASSUME IInv, ApartInv, CodeAndDataApart, [Next]_vars
  PROVE  ApartInv'
  <1>1. CASE PipeStageMem
    BY <1>1, ApartMem
  <1>2. CASE PipeStageFetch
    BY <1>2, ApartFetch
  <1>3. CASE PipeStageExecute \/ PipeStageDecode \/ UNCHANGED vars
    <2>1. /\ UNCHANGED <<program, misses, mshrs>>
          /\ phase' # "mem" => phase # "mem"
      BY <1>3 DEF PipeStageExecute, PipeStageDecode, vars
    <2> QED
      BY <2>1 DEF misses, ApartInv, DataMshrs, FillTakenAtOnce, WaitersHaveMshrs,
         DataBlocks
  <1>4. CASE BranchRecovery
    <2>1. /\ UNCHANGED <<program, memMiss, mshrs>> /\ phase = "recover"
          /\ fetchMiss' = fetchMiss \/ ~ fetchMiss'.waiting
      BY <1>4 DEF BranchRecovery, FetchCancelled, IInv, Types
    <2> QED
      BY <2>1 DEF ApartInv, DataMshrs, FillTakenAtOnce, WaitersHaveMshrs, DataBlocks
  <1>5. CASE MemoryControllerCycle
    <2>1. /\ UNCHANGED <<program, misses>> /\ phase' = "mem"
          /\ SameBlocks(mshrs, mshrs')
      <3>1. CASE QueueOverflow
        BY <1>5, <3>1 DEF MemoryControllerCycle, QueueOverflow, Abort, SameBlocks
      <3>2. CASE ServeMemory
        <4>1. UNCHANGED <<program, misses>>
          BY <3>2 DEF ServeMemory
        <4> QED
          BY <1>5, <3>2, <4>1, ServeTypes DEF MemoryControllerCycle
      <3> QED
        BY <1>5, <3>1, <3>2 DEF MemoryControllerCycle
    <2>2. DataMshrs'
      BY <2>1 DEF ApartInv, DataMshrs, SameBlocks, misses, DataBlocks
    <2>3. WaitersHaveMshrs'
      BY <2>1 DEF ApartInv, WaitersHaveMshrs, FindMshr, SameBlocks, misses
    <2> QED
      BY <2>1, <2>2, <2>3 DEF ApartInv, FillTakenAtOnce
  <1> QED
    BY <1>1, <1>2, <1>3, <1>4, <1>5 DEF Next, Aborted

\* While code and data lie in different blocks, a stage that waits waits for the
\* block it needs now, by an MSHR of that block (pipe.c, cache.c:87-125).
THEOREM WaitersAreServed ==
  Spec /\ []CodeAndDataApart => []WaitsForWhatItNeeds
  <1>1. IInv /\ ApartInv => WaitsForWhatItNeeds
    BY DEF IInv, OwnBlocks, ApartInv, WaitersHaveMshrs, WaitsForWhatItNeeds
  <1>2. IInv /\ ApartInv /\ CodeAndDataApart /\ [Next]_vars => ApartInv'
    BY ApartStep
  <1> QED
    BY <1>1, <1>2, ApartInit, Invariance, PTL DEF Spec
=============================================================================
