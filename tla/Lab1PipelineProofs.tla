------------------------- MODULE Lab1PipelineProofs -------------------------
(***************************************************************************)
(* Proofs about the pipeline of lab1: that its state always has its type,  *)
(* its two caches included, and that it executes programs as the           *)
(* instruction set of MipsIsa does.  First the arithmetic of words and     *)
(* halves, then the caches under the three policies, then the invariant,   *)
(* one lemma per stage, and last the refinement, again one lemma per       *)
(* stage.  The invariant says of the slots that the ops which are not      *)
(* squashed follow each other in the program, up to the exit syscall.      *)
(***************************************************************************)
EXTENDS Lab1Pipeline, FiniteSetTheorems, WellFoundedInduction, TLAPS

-----------------------------------------------------------------------------
(***************************************************************************)
(* Numbers.                                                                *)
(***************************************************************************)
\* A set of numbers that is not empty has a least member.
LEMMA LeastNatural ==
  ASSUME NEW S \in SUBSET Nat, S # {}
  PROVE  \E n \in S : \A m \in S : n <= m
  <1> DEFINE R == {ss \in Nat \X Nat : ss[1] < ss[2]}
  <1>1. IsWellFoundedOn(R, Nat)
    BY NatLessThanWellFounded DEF OpToRel
  <1>2. PICK n \in S : \A m \in S : ~ (<<m, n>> \in R)
    <2> HIDE DEF R
    <2> QED
      BY <1>1, WFMin
  <1>3. \A m \in S : ~ (m < n)
    BY <1>2
  <1> QED
    BY <1>3

\* Division with remainder.
LEMMA Quotient ==
  ASSUME NEW d \in Nat \ {0}, NEW a \in Nat
  PROVE  /\ a \div d \in Nat /\ a % d \in 0 .. d - 1
         /\ a = d * (a \div d) + (a % d)
  OBVIOUS

-----------------------------------------------------------------------------

\* The number of words, and what is taken modulo it.
LEMMA WordFacts ==
  /\ Half \in Nat /\ Half >= 2
  /\ WordRange \in Nat /\ WordRange >= 4 /\ WordRange = Half * Half /\ WordRange >= Half
  /\ \A n \in Int : n % WordRange \in Words
  <1>1. Half \in Nat /\ Half >= 2
    BY MipsAssumption
  <1>2. \A h \in Nat : h >= 2 => h * h \in Nat /\ h * h >= 2 * h
    <2> TAKE h \in Nat
    <2> HAVE h >= 2
    <2>1. h * h = 2 * h + (h - 2) * h
      OBVIOUS
    <2>2. (h - 2) * h \in Nat
      OBVIOUS
    <2> QED
      BY <2>1, <2>2
  <1>3. WordRange \in Nat /\ WordRange >= 2 * Half
    BY <1>1, <1>2 DEF WordRange
  <1>4. \A d \in Nat \ {0} : \A n \in Int : n % d \in 0 .. d - 1
    OBVIOUS
  <1>5. WordRange = Half * Half
    BY DEF WordRange
  <1> HIDE DEF WordRange
  <1>6. WordRange \in Nat \ {0}
    BY <1>1, <1>3
  <1>7. \A n \in Int : n % WordRange \in Words
    BY <1>4, <1>6 DEF Words
  <1> QED
    BY <1>1, <1>3, <1>5, <1>7

\* Two halves make a word.
LEMMA HalvesMakeAWord ==
  ASSUME NEW h \in 0 .. Half - 1, NEW l \in 0 .. Half - 1
  PROVE  Half * h + l \in Words
  <1>1. Half * h <= Half * (Half - 1)
    <2>1. Half \in Nat /\ Half - 1 - h \in Nat
      BY WordFacts
    <2>2. Half * (Half - 1 - h) \in Nat
      BY <2>1
    <2>3. Half * (Half - 1) = Half * h + Half * (Half - 1 - h)
      BY <2>1
    <2> QED
      BY <2>1, <2>2, <2>3
  <1>2. Half * (Half - 1) = Half * Half - Half
    BY WordFacts
  <1>3. Half * h \in Nat
    BY WordFacts
  <1> QED
    BY <1>1, <1>2, <1>3, WordFacts DEF Words

\* The halves of a word.
LEMMA HalvesOfAWord ==
  ASSUME NEW w \in Words
  PROVE  w \div Half \in 0 .. Half - 1 /\ w % Half \in 0 .. Half - 1
  <1>1. w \in Nat /\ w < Half * Half /\ Half \in Nat \ {0}
    BY WordFacts DEF Words
  <1> DEFINE q == w \div Half  r == w % Half
  <1>2. q \in Nat /\ r \in 0 .. Half - 1 /\ w = Half * q + r
    BY <1>1, Quotient
  <1> HIDE DEF q, r
  <1>3. q < Half
    <2> SUFFICES ASSUME q >= Half PROVE FALSE
      BY <1>1, <1>2
    <2>1. Half * q = Half * Half + Half * (q - Half)
      BY <1>1, <1>2
    <2>2. Half * (q - Half) \in Nat
      BY <1>1, <1>2
    <2>3. Half * Half \in Nat
      BY <1>1
    <2> QED
      BY <1>1, <1>2, <2>1, <2>2, <2>3
  <1> QED
    BY <1>1, <1>2, <1>3 DEF q, r

\* A word read as a signed number.
LEMMA SignedType ==
  ASSUME NEW w \in Words
  PROVE  Signed(w) \in Int
  BY WordFacts DEF Signed, Words

Instructions == [op : STRING, d : Registers, s1 : Registers, s2 : Registers, imm : Words]
HiLo == [hi : Words, lo : Words]

\* What an instruction computes is a word.
LEMMA ResultType ==
  ASSUME NEW i \in Instructions, NEW p \in Words, NEW a \in Words, NEW b \in Words,
         NEW hl \in HiLo
  PROVE  Result(i, p, a, b, hl) \in Words
  <1>1. /\ (a + b) % WordRange \in Words /\ (a - b) % WordRange \in Words
        /\ (a + i.imm) % WordRange \in Words /\ (p + 1) % WordRange \in Words
    <2>1. a \in Int /\ b \in Int /\ i.imm \in Int /\ p \in Int
      BY WordFacts DEF Words, Instructions
    <2>2. a + b \in Int /\ a - b \in Int /\ a + i.imm \in Int /\ p + 1 \in Int
      BY <2>1
    <2> HIDE DEF Words, WordRange
    <2> QED
      BY <2>2, WordFacts
  <1>2. hl.hi \in Words /\ hl.lo \in Words
    BY DEF HiLo
  <1>3. 0 \in Words /\ 1 \in Words
    BY WordFacts DEF Words
  <1>4. \A q : Truth(q) \in Words
    BY <1>3 DEF Truth
  <1> HIDE DEF Words, WordRange, Truth, Signed
  <1> QED
    BY <1>1, <1>2, <1>3, <1>4 DEF Result

\* HI and LO hold words.
LEMMA HiLoAfterType ==
  ASSUME NEW i \in Instructions, NEW a \in Words, NEW b \in Words, NEW hl \in HiLo
  PROVE  HiLoAfter(i, a, b, hl) \in HiLo
  <1> DEFINE Split(n) == [hi |-> (n \div WordRange) % WordRange, lo |-> n % WordRange]
  <1>1. ASSUME NEW n \in Int PROVE Split(n) \in HiLo
    <2>1. n \div WordRange \in Int
      BY WordFacts
    <2> HIDE DEF Words, WordRange
    <2> QED
      BY <2>1, WordFacts DEF HiLo
  <1>2. Split(Signed(a) * Signed(b)) \in HiLo
    <2>1. Signed(a) * Signed(b) \in Int
      <3>1. \A m, n \in Int : m * n \in Int
        OBVIOUS
      <3> QED
        BY <3>1, SignedType
    <2> HIDE DEF Split
    <2> QED
      BY <1>1, <2>1
  <1>3. Split(a * b) \in HiLo
    <2>1. a * b \in Int
      BY WordFacts DEF Words
    <2> HIDE DEF Split
    <2> QED
      BY <1>1, <2>1
  <1>4. 0 \in Words
    BY WordFacts DEF Words
  <1>5. ASSUME b # 0 PROVE a % b \in Words /\ a \div b \in Words
    <2>1. a \in Nat /\ b \in Nat \ {0} /\ a <= WordRange - 1 /\ b <= WordRange - 1
      BY <1>5, WordFacts DEF Words
    <2>2. a \div b \in Nat /\ a % b \in 0 .. b - 1 /\ a = b * (a \div b) + (a % b)
      BY <2>1, Quotient
    <2>3. \A d \in Nat \ {0} : \A q \in Nat : d * q >= q
      <3> TAKE d \in Nat \ {0}
      <3> TAKE q \in Nat
      <3>1. d * q = q + (d - 1) * q /\ (d - 1) * q \in Nat
        OBVIOUS
      <3> QED
        BY <3>1
    <2>4. b * (a \div b) >= a \div b
      BY <2>1, <2>2, <2>3
    <2>5. b * (a \div b) \in Nat
      BY <2>1, <2>2
    <2>6. a % b <= WordRange - 1 /\ a % b \in Nat
      BY <2>1, <2>2, WordFacts
    <2>7. a \div b <= WordRange - 1
      <3> DEFINE q == a \div b  bq == b * q  r == a % b
      <3>1. q \in Nat /\ bq \in Nat /\ bq >= q /\ a = bq + r /\ r \in Nat
        BY <2>2, <2>4, <2>5, <2>6
      <3> HIDE DEF q, bq, r
      <3>2. q <= WordRange - 1
        BY <3>1, <2>1, WordFacts
      <3> QED
        BY <3>2 DEF q
    <2> QED
      BY <2>2, <2>6, <2>7, WordFacts DEF Words
  <1>6. /\ [hi |-> 0, lo |-> 0] \in HiLo
        /\ [hl EXCEPT !.hi = a] \in HiLo /\ [hl EXCEPT !.lo = a] \in HiLo
    BY <1>4 DEF HiLo
  <1>7. (IF b = 0 THEN [hi |-> 0, lo |-> 0] ELSE [hi |-> a % b, lo |-> a \div b]) \in HiLo
    BY <1>5, <1>6 DEF HiLo
  <1> HIDE DEF Words, WordRange, Signed, HiLo
  <1> QED
    BY <1>2, <1>3, <1>6, <1>7 DEF HiLoAfter

\* Addresses and branch targets are words, and an address names a word of the memory.
LEMMA AddressType ==
  ASSUME NEW i \in Instructions, NEW a \in Words
  PROVE  /\ Address(i, a) \in Words /\ BranchDest(i, a) \in Words
         /\ WordOf(a) \in DOMAIN StartMemory /\ WordOf(a) \in Nat
  <1>1. a + i.imm \in Int /\ a \in Nat /\ i.imm \in Words
    BY WordFacts DEF Words, Instructions
  <1>2. Address(i, a) \in Words
    <2> HIDE DEF Words
    <2> QED
      BY <1>1, WordFacts DEF Address
  <1>3. BranchDest(i, a) \in Words
    <2> HIDE DEF Words
    <2> QED
      BY <1>1 DEF BranchDest
  <1>4. WordOf(a) \in DOMAIN StartMemory
    <2> HIDE DEF Words, WordOf
    <2> QED
      BY StartAssumption
  <1> QED
    BY <1>1, <1>2, <1>3, <1>4 DEF WordOf

\* What a load reads is a word.
LEMMA LoadedType ==
  ASSUME NEW i \in Instructions, IsLoad(i), NEW w \in Words, NEW a \in Words
  PROVE  Loaded(i, w, a) \in Words
  <1> DEFINE half == IF a % 2 = 1 THEN w \div Half ELSE w % Half
  <1>1. half \in 0 .. Half - 1
    BY HalvesOfAWord
  <1>2. half \in Words /\ half + WordRange - Half \in Words
    <2> HIDE DEF half
    <2> QED
      BY <1>1, WordFacts DEF Words
  <1> HIDE DEF Words, WordRange
  <1> QED
    BY <1>2 DEF Loaded, IsLoad

\* What a store leaves in the memory is a word.
LEMMA StoredType ==
  ASSUME NEW i \in Instructions, NEW w \in Words, NEW a \in Words, NEW v \in Words
  PROVE  Stored(i, w, a, v) \in Words
  <1>1. v % Half \in 0 .. Half - 1 /\ w % Half \in 0 .. Half - 1 /\ w \div Half \in 0 .. Half - 1
    BY HalvesOfAWord
  <1>2. Half * (v % Half) + (w % Half) \in Words /\ Half * (w \div Half) + (v % Half) \in Words
    BY <1>1, HalvesMakeAWord
  <1>3. (w % Half) + Half * (v % Half) = Half * (v % Half) + (w % Half)
    <2>1. \A x, y \in Int : x + y = y + x
      OBVIOUS
    <2>2. \A x, y \in Int : x * y \in Int
      OBVIOUS
    <2> QED
      BY <1>1, <2>1, <2>2, WordFacts
  <1> HIDE DEF Words, WordRange
  <1> QED
    BY <1>2, <1>3 DEF Stored

-----------------------------------------------------------------------------

\* The ways of a set hold Blocks; the rank is the recency or the RRPV.
Blocks == [valid : BOOLEAN, block : Nat, rank : Nat]

\* Under LRU the ranks of a set order its ways; the valid ways are the first ones and
\* hold the least ranks, an invalid way still has the rank it was given.
RecencyOrder(set) ==
  /\ \A v, w \in Ways : set[v].rank = set[w].rank => v = w
  /\ \A w \in Ways : ~ set[w].valid => set[w].rank = w
  /\ \A v, w \in Ways : (set[v].valid /\ ~ set[w].valid) => (v < w /\ set[v].rank < w)

MaxRank(p) == IF p = "RRIP" THEN DistantRrpv ELSE NumWays - 1

\* What holds of every set of a cache under policy p: no block is in it twice.
GoodSet(p, set) ==
  /\ set \in [Ways -> Blocks]
  /\ \A v, w \in Ways :
        (set[v].valid /\ set[w].valid /\ set[v].block = set[w].block) => v = w
  /\ \A w \in Ways : set[w].rank <= MaxRank(p)
  /\ p = "LRU" => RecencyOrder(set)

GoodCache(p, cache) ==
  cache \in [Sets -> [Ways -> Blocks]] /\ \A s \in Sets : GoodSet(p, cache[s])

ThePolicies == {"LRU", "RRIP", "RAND"}

\* Sets and ways are numbers, and every block belongs to a set.
LEMMA SetFacts ==
  /\ NumWays \in Nat \ {0} /\ Ways \subseteq Nat /\ 0 \in Ways
  /\ \A b \in Nat : SetOf(b) \in Sets
  <1>1. \A d \in Nat \ {0} : \A b \in Nat : b % d \in 0 .. d - 1
    OBVIOUS
  <1> QED
    BY <1>1, PolicyAssumption DEF Ways, Sets, SetOf

\* First finds the least of some ways.
LEMMA FirstIsLeast ==
  ASSUME NEW S \in SUBSET Ways, S # {}
  PROVE  First(S) \in S /\ \A v \in S : First(S) <= v
  <1>1. \E n \in S : \A v \in S : n <= v
    BY LeastNatural, SetFacts
  <1> QED
    BY <1>1 DEF First

\* A new cache holds nothing.
LEMMA AllocIsGood ==
  ASSUME NEW p \in ThePolicies
  PROVE  GoodCache(p, AllocCache(p))
  <1> DEFINE r(w) == CASE p = "LRU" -> w [] p = "RRIP" -> LongRrpv [] p = "RAND" -> 0
  <1>1. \A w \in Ways : /\ r(w) \in Nat /\ r(w) <= MaxRank(p)
                        /\ p = "LRU" => r(w) = w
    BY SetFacts DEF ThePolicies, MaxRank, LongRrpv, DistantRrpv, Ways
  <1> DEFINE set == [w \in Ways |-> [valid |-> FALSE, block |-> 0, rank |-> r(w)]]
  <1>2. AllocCache(p) = [s \in Sets |-> set]
    BY DEF AllocCache
  <1> HIDE DEF r
  <1>3. set \in [Ways -> Blocks]
    BY <1>1 DEF Blocks
  <1>4. \A w \in Ways : set[w].rank = r(w) /\ set[w].valid = FALSE
    OBVIOUS
  <1> HIDE DEF set
  <1>5. GoodSet(p, set)
    BY <1>1, <1>3, <1>4 DEF GoodSet, RecencyOrder
  <1> QED
    BY <1>2, <1>3, <1>5 DEF GoodCache

\* update_lru and update_rrip keep a set good.
LEMMA UpdatedIsGood ==
  ASSUME NEW p \in ThePolicies, NEW set, GoodSet(p, set), NEW way \in Ways, set[way].valid
  PROVE  GoodSet(p, Updated(p, set, way))
  <1> DEFINE new == Updated(p, set, way)
  <1>0. \A w \in Ways : set[w] \in Blocks
    BY DEF GoodSet
  <1>1. CASE p = "LRU"
    <2> DEFINE ages(w) == set[w].valid /\ set[w].rank < set[way].rank
               r(w) == IF w = way THEN 0 ELSE IF ages(w) THEN set[w].rank + 1 ELSE set[w].rank
    <2>1. new = [w \in Ways |-> IF w = way THEN [set[w] EXCEPT !.rank = 0]
                                ELSE IF ages(w) THEN [set[w] EXCEPT !.rank = @ + 1]
                                ELSE set[w]]
      BY <1>1 DEF Updated
    <2>2. \A w \in Ways : /\ new[w] \in Blocks /\ new[w].valid = set[w].valid
                          /\ new[w].block = set[w].block /\ new[w].rank = r(w)
      <3> SUFFICES ASSUME NEW w \in Ways
                   PROVE  /\ new[w] \in Blocks /\ new[w].valid = set[w].valid
                          /\ new[w].block = set[w].block /\ new[w].rank = r(w)
        OBVIOUS
      <3>1. set[w] \in Blocks
        BY <1>0
      <3>2. CASE w = way
        <4>1. new[w] = [set[w] EXCEPT !.rank = 0]
          BY <2>1, <3>2
        <4> HIDE DEF new
        <4> QED
          BY <3>1, <3>2, <4>1 DEF Blocks
      <3>3. CASE w # way /\ ages(w)
        <4>1. new[w] = [set[w] EXCEPT !.rank = set[w].rank + 1]
          BY <2>1, <3>3
        <4>2. set[w].rank + 1 \in Nat /\ r(w) = set[w].rank + 1
          BY <3>1, <3>3 DEF Blocks
        <4>3. PICK n : n = set[w].rank + 1
          OBVIOUS
        <4> HIDE DEF new
        <4> QED
          BY <3>1, <4>1, <4>2, <4>3 DEF Blocks
      <3>4. CASE w # way /\ ~ ages(w)
        <4>1. new[w] = set[w]
          BY <2>1, <3>4
        <4> HIDE DEF new
        <4> QED
          BY <3>1, <3>4, <4>1 DEF Blocks
      <3> QED
        BY <3>2, <3>3, <3>4
    <2>3. new \in [Ways -> Blocks]
      BY <2>1, <2>2
    <2> HIDE DEF new
    <2>4. \A w \in Ways : set[w].rank \in Nat /\ set[w].valid \in BOOLEAN
      BY <1>0 DEF Blocks
    <2>5. \A w \in Ways : set[w].rank <= NumWays - 1 /\ MaxRank(p) = NumWays - 1
      BY <1>1 DEF GoodSet, MaxRank
    <2>6. RecencyOrder(set)
      BY <1>1 DEF GoodSet
    <2>7. \A w \in Ways : r(w) <= NumWays - 1
      BY <2>4, <2>5, SetFacts
    <2>8. \A v, w \in Ways : r(v) = r(w) => v = w
      BY <2>4, <2>6 DEF RecencyOrder
    <2>9. \A w \in Ways : ~ set[w].valid => r(w) = w
      BY <2>6 DEF RecencyOrder
    <2>10. \A v, w \in Ways : (set[v].valid /\ ~ set[w].valid) => (v < w /\ r(v) < w)
      <3> SUFFICES ASSUME NEW v \in Ways, NEW w \in Ways, set[v].valid, ~ set[w].valid
                   PROVE  v < w /\ r(v) < w
        OBVIOUS
      <3>1. v < w /\ set[v].rank < w /\ way < w /\ set[way].rank < w
        BY <2>6 DEF RecencyOrder
      <3> QED
        BY <3>1, <2>4, SetFacts
    <2> HIDE DEF r
    <2>11. RecencyOrder(new)
      BY <2>2, <2>8, <2>9, <2>10 DEF RecencyOrder
    <2>12. \A v, w \in Ways :
             (new[v].valid /\ new[w].valid /\ new[v].block = new[w].block) => v = w
      BY <2>2 DEF GoodSet
    <2>13. \A w \in Ways : new[w].rank <= MaxRank(p)
      BY <2>2, <2>5, <2>7
    <2>14. GoodSet(p, new)
      BY <2>3, <2>11, <2>12, <2>13 DEF GoodSet
    <2> QED
      BY <2>14 DEF new
  <1>2. CASE p = "RRIP"
    <2>1. new = [set EXCEPT ![way].rank = ImmediateRrpv]
      BY <1>2 DEF Updated
    <2> HIDE DEF new
    <2>2. \A w \in Ways : /\ new[w] \in Blocks /\ new[w].valid = set[w].valid
                          /\ new[w].block = set[w].block
                          /\ new[w].rank = IF w = way THEN 0 ELSE set[w].rank
      BY <2>1, <1>0 DEF Blocks, ImmediateRrpv, GoodSet
    <2>3. new \in [Ways -> Blocks]
      BY <2>1, <2>2 DEF GoodSet
    <2>4. \A w \in Ways : new[w].rank <= MaxRank(p)
      BY <2>2, <1>2 DEF GoodSet, MaxRank, DistantRrpv
    <2>5. \A v, w \in Ways :
             (new[v].valid /\ new[w].valid /\ new[v].block = new[w].block) => v = w
      BY <2>2 DEF GoodSet
    <2>6. p # "LRU"
      BY <1>2
    <2>7. GoodSet(p, new)
      BY <2>3, <2>4, <2>5, <2>6 DEF GoodSet
    <2> QED
      BY <2>7 DEF new
  <1>3. CASE p = "RAND"
    BY <1>3 DEF Updated
  <1> QED
    BY <1>1, <1>2, <1>3 DEF ThePolicies

\* A hit keeps a cache good.
LEMMA HitIsGood ==
  ASSUME NEW p \in ThePolicies, NEW cache, GoodCache(p, cache),
         NEW block \in Nat, IsHit(cache, block)
  PROVE  GoodCache(p, HitCache(p, cache, block))
  <1> DEFINE s == SetOf(block)
             way == CHOOSE w \in HitWays(cache, block) : TRUE
  <1>1. s \in Sets
    BY SetFacts
  <1>2. way \in HitWays(cache, block)
    BY DEF IsHit
  <1>3. way \in Ways /\ cache[s][way].valid
    BY <1>2 DEF HitWays
  <1>4. HitCache(p, cache, block) = [cache EXCEPT ![s] = Updated(p, cache[s], way)]
    BY DEF HitCache
  <1> HIDE DEF s, way
  <1>5. GoodSet(p, Updated(p, cache[s], way))
    BY <1>1, <1>3, UpdatedIsGood DEF GoodCache
  <1>6. Updated(p, cache[s], way) \in [Ways -> Blocks]
    BY <1>5 DEF GoodSet
  <1> QED
    BY <1>1, <1>4, <1>5, <1>6 DEF GoodCache

\* A full set that LRU orders holds a block of the greatest rank: that is the victim
\* cache_access searches.
LEMMA GreatestRank ==
  ASSUME NEW set, GoodSet("LRU", set)
  PROVE  \E w \in Ways : set[w].rank = NumWays - 1
  <1> SUFFICES ASSUME \A w \in Ways : set[w].rank # NumWays - 1
               PROVE  FALSE
    OBVIOUS
  <1> DEFINE T == 0 .. NumWays - 2
             f == [w \in Ways |-> set[w].rank]
  <1>1. \A w \in Ways : set[w].rank \in Nat /\ set[w].rank <= NumWays - 1
    BY DEF GoodSet, Blocks, MaxRank
  <1>2. f \in [Ways -> T]
    BY <1>1, SetFacts
  <1>3. \A v, w \in Ways : f[v] = f[w] => v = w
    BY DEF GoodSet, RecencyOrder
  <1>4. IsFiniteSet(T) /\ Cardinality(T) = NumWays - 1
    BY SetFacts, FS_Interval
  <1>5. IsFiniteSet(Ways) /\ Cardinality(Ways) = NumWays
    BY SetFacts, FS_Interval DEF Ways
  <1> HIDE DEF f, T
  <1>6. f \in Injection(Ways, T)
    BY <1>2, <1>3 DEF Injection, IsInjective
  <1>7. Cardinality(Ways) <= Cardinality(T)
    BY <1>4, <1>5, <1>6, FS_Injection
  <1> QED
    BY <1>4, <1>5, <1>7, SetFacts

\* The blocks of a set without their RRPVs.
SameButRanks(new, set) ==
  \A w \in Ways : (new[w].valid <=> set[w].valid) /\ new[w].block = set[w].block

\* A turn of the search ages every block of a full set that is not distant.
LEMMA TurnIsGood ==
  ASSUME NEW set, GoodSet("RRIP", set), Invalid(set) = {}
  PROVE  /\ GoodSet("RRIP", OneTurn(set)) /\ Invalid(OneTurn(set)) = {}
         /\ SameButRanks(OneTurn(set), set)
         /\ \A w \in Ways : OneTurn(set)[w].rank =
              IF set[w].rank < DistantRrpv THEN set[w].rank + 1 ELSE set[w].rank
  <1> DEFINE new == OneTurn(set)
  <1>1. \A w \in Ways : set[w] \in Blocks /\ set[w].valid /\ set[w].rank \in 0 .. DistantRrpv
    BY DEF GoodSet, Blocks, MaxRank, DistantRrpv, Invalid
  <1>2. new = [w \in Ways |-> IF set[w].rank < DistantRrpv
                              THEN [set[w] EXCEPT !.rank = set[w].rank + 1] ELSE set[w]]
    BY <1>1 DEF OneTurn
  <1> HIDE DEF new
  <1>3. \A w \in Ways :
          /\ new[w] \in Blocks /\ new[w].valid /\ new[w].block = set[w].block
          /\ new[w].rank = IF set[w].rank < DistantRrpv THEN set[w].rank + 1 ELSE set[w].rank
    <2> SUFFICES ASSUME NEW w \in Ways
                 PROVE  /\ new[w] \in Blocks /\ new[w].valid /\ new[w].block = set[w].block
                        /\ new[w].rank = IF set[w].rank < DistantRrpv THEN set[w].rank + 1
                                         ELSE set[w].rank
      OBVIOUS
    <2>1. CASE set[w].rank < DistantRrpv
      <3>1. set[w].rank + 1 \in Nat
        BY <1>1
      <3>2. new[w] = [set[w] EXCEPT !.rank = set[w].rank + 1]
        BY <1>2, <2>1
      <3> QED
        BY <1>1, <2>1, <3>1, <3>2 DEF Blocks
    <2>2. CASE ~ (set[w].rank < DistantRrpv)
      BY <1>1, <1>2, <2>2
    <2> QED
      BY <2>1, <2>2
  <1>4. \A w \in Ways : new[w].rank <= DistantRrpv
    BY <1>1, <1>3 DEF DistantRrpv
  <1>5. GoodSet("RRIP", new)
    <2>1. new \in [Ways -> Blocks]
      BY <1>2, <1>3
    <2>2. \A v, w \in Ways :
            (new[v].valid /\ new[w].valid /\ new[v].block = new[w].block) => v = w
      BY <1>1, <1>3 DEF GoodSet
    <2> QED
      BY <1>4, <2>1, <2>2 DEF GoodSet, MaxRank
  <1>6. Invalid(new) = {}
    BY <1>3 DEF Invalid
  <1>7. SameButRanks(new, set)
    BY <1>1, <1>3 DEF SameButRanks
  <1>8. \A w \in Ways : new[w].rank =
          IF set[w].rank < DistantRrpv THEN set[w].rank + 1 ELSE set[w].rank
    BY <1>3
  <1> USE DEF new
  <1> QED
    BY <1>5, <1>6, <1>7, <1>8, Zenon

\* The search of a full set ends: after three turns every block is distant, or one
\* was before.
LEMMA AgedIsGood ==
  ASSUME NEW set, GoodSet("RRIP", set), Invalid(set) = {}
  PROVE  /\ EndingTurns(set) # {}
         /\ GoodSet("RRIP", Aged(set)) /\ SameButRanks(Aged(set), set)
         /\ \E w \in Ways : Aged(set)[w].rank = DistantRrpv
  <1>1. PICK one, two, three :
          one = OneTurn(set) /\ two = OneTurn(one) /\ three = OneTurn(two)
    OBVIOUS
  <1>2. Searching(set) = <<set, one, two, three>>
    BY <1>1 DEF Searching
  <1>3. /\ GoodSet("RRIP", one) /\ Invalid(one) = {} /\ SameButRanks(one, set)
        /\ \A w \in Ways : one[w].rank =
              IF set[w].rank < DistantRrpv THEN set[w].rank + 1 ELSE set[w].rank
    BY <1>1, TurnIsGood
  <1>4. /\ GoodSet("RRIP", two) /\ Invalid(two) = {} /\ SameButRanks(two, one)
        /\ \A w \in Ways : two[w].rank =
              IF one[w].rank < DistantRrpv THEN one[w].rank + 1 ELSE one[w].rank
    BY <1>1, <1>3, TurnIsGood
  <1>5. /\ GoodSet("RRIP", three) /\ SameButRanks(three, two)
        /\ \A w \in Ways : three[w].rank =
              IF two[w].rank < DistantRrpv THEN two[w].rank + 1 ELSE two[w].rank
    BY <1>1, <1>4, TurnIsGood
  <1>6. \A t \in 1 .. 4 :
          GoodSet("RRIP", Searching(set)[t]) /\ SameButRanks(Searching(set)[t], set)
    <2>1. SameButRanks(set, set) /\ SameButRanks(two, set) /\ SameButRanks(three, set)
      BY <1>3, <1>4, <1>5 DEF SameButRanks
    <2> SUFFICES ASSUME NEW t \in 1 .. 4
                 PROVE  GoodSet("RRIP", Searching(set)[t])
                        /\ SameButRanks(Searching(set)[t], set)
      OBVIOUS
    <2>2. t = 1 \/ t = 2 \/ t = 3 \/ t = 4
      OBVIOUS
    <2>3. Searching(set)[t] \in {set, one, two, three}
      BY <1>2, <2>2
    <2> QED
      BY <1>3, <1>4, <1>5, <2>1, <2>3
  <1>7. 4 \in EndingTurns(set)
    <2>1. 0 \in Ways
      BY SetFacts
    <2>2. set[0].rank \in 0 .. 3
      BY <2>1 DEF GoodSet, Blocks, MaxRank, DistantRrpv
    <2>3. one[0].rank \in 1 .. 3
      BY <1>3, <2>1, <2>2 DEF DistantRrpv
    <2>4. two[0].rank \in 2 .. 3
      BY <1>4, <2>1, <2>3 DEF DistantRrpv
    <2>5. three[0].rank = DistantRrpv
      BY <1>5, <2>1, <2>4 DEF DistantRrpv
    <2>6. HasDistant(three)
      BY <2>1, <2>5 DEF HasDistant
    <2>7. Searching(set)[4] = three
      BY <1>2
    <2> QED
      BY <2>6, <2>7 DEF EndingTurns
  <1>8. PICK t \in EndingTurns(set) : Aged(set) = Searching(set)[t]
    <2> DEFINE S == EndingTurns(set)
    <2>1. S \in SUBSET Nat /\ S # {}
      BY <1>7 DEF EndingTurns
    <2> HIDE DEF S
    <2>2. \E n \in S : \A m \in S : n <= m
      BY <2>1, LeastNatural
    <2>3. First(S) \in S
      BY <2>2 DEF First
    <2> QED
      BY <2>3 DEF Aged, S
  <1>9. t \in 1 .. 4 /\ HasDistant(Searching(set)[t])
    BY DEF EndingTurns
  <1> QED
    BY <1>6, <1>7, <1>8, <1>9 DEF HasDistant

\* A victim is a way, and the first invalid way if there is one.
LEMMA VictimsAreWays ==
  ASSUME NEW p \in ThePolicies, NEW set, GoodSet(p, set), NEW way \in Victims(p, set)
  PROVE  /\ way \in Ways
         /\ Invalid(set) # {} => way = First(Invalid(set))
  <1>0. Invalid(set) \in SUBSET Ways
    BY DEF Invalid
  <1>1. CASE Invalid(set) # {}
    BY <1>0, <1>1, FirstIsLeast DEF Victims
  <1>2. CASE Invalid(set) = {} /\ p = "LRU"
    <2> DEFINE S == {w \in Ways : set[w].rank = NumWays - 1}
    <2>1. S \in SUBSET Ways /\ S # {}
      BY <1>2, GreatestRank
    <2>2. way = First(S)
      BY <1>2 DEF Victims
    <2> HIDE DEF S
    <2> QED
      BY <1>2, <2>1, <2>2, FirstIsLeast
  <1>3. CASE Invalid(set) = {} /\ p = "RRIP"
    <2> DEFINE S == {w \in Ways : Aged(set)[w].rank = DistantRrpv}
    <2>1. S \in SUBSET Ways /\ S # {}
      BY <1>3, AgedIsGood
    <2>2. way = First(S)
      BY <1>3 DEF Victims
    <2> HIDE DEF S
    <2> QED
      BY <1>3, <2>1, <2>2, FirstIsLeast
  <1>4. CASE Invalid(set) = {} /\ p = "RAND"
    BY <1>4 DEF Victims
  <1> QED
    BY <1>1, <1>2, <1>3, <1>4 DEF ThePolicies

\* A block that a set does not hold is put into one of its ways.
LEMMA FilledIsGood ==
  ASSUME NEW p \in ThePolicies, NEW set, GoodSet(p, set), NEW way \in Victims(p, set),
         NEW block \in Nat, \A w \in Ways : set[w].valid => set[w].block # block
  PROVE  GoodSet(p, Filled(p, set, way, block))
  <1> DEFINE base == Searched(p, set)
             new == [set[way] EXCEPT !.block = block, !.valid = TRUE,
                                     !.rank = IF p = "RRIP" THEN LongRrpv ELSE @]
             filled == [base EXCEPT ![way] = new]
  <1>1. /\ GoodSet(p, base)
        /\ \A w \in Ways : (base[w].valid <=> set[w].valid) /\ base[w].block = set[w].block
        /\ p # "RRIP" => base = set
    <2>1. CASE p = "RRIP" /\ Invalid(set) = {}
      BY <2>1, AgedIsGood DEF Searched, SameButRanks
    <2>2. CASE ~ (p = "RRIP" /\ Invalid(set) = {})
      BY <2>2 DEF Searched
    <2> QED
      BY <2>1, <2>2
  <1>2. way \in Ways /\ set[way] \in Blocks /\ (Invalid(set) # {} => way = First(Invalid(set)))
    BY VictimsAreWays DEF GoodSet
  <1>3. /\ new \in Blocks /\ new.valid = TRUE /\ new.block = block
        /\ new.rank = IF p = "RRIP" THEN LongRrpv ELSE set[way].rank
    BY <1>2 DEF Blocks, LongRrpv
  <1> HIDE DEF base, new
  <1>4. filled \in [Ways -> Blocks] /\ filled[way] = new
    BY <1>1, <1>2, <1>3 DEF GoodSet
  <1>5. \A w \in Ways : w # way => filled[w] = base[w]
    BY <1>1, <1>2 DEF GoodSet
  <1> HIDE DEF filled
  <1>6. \A v, w \in Ways :
          (filled[v].valid /\ filled[w].valid /\ filled[v].block = filled[w].block) => v = w
    <2> SUFFICES ASSUME NEW v \in Ways, NEW w \in Ways, filled[v].valid, filled[w].valid,
                        filled[v].block = filled[w].block, v # w
                 PROVE  FALSE
      OBVIOUS
    <2>1. CASE v = way
      BY <1>1, <1>3, <1>4, <1>5, <2>1
    <2>2. CASE w = way
      BY <1>1, <1>3, <1>4, <1>5, <2>2
    <2>3. CASE v # way /\ w # way
      BY <1>1, <1>5, <2>3 DEF GoodSet
    <2> QED
      BY <2>1, <2>2, <2>3
  <1>7. \A w \in Ways : filled[w].rank <= MaxRank(p)
    <2>1. new.rank <= MaxRank(p)
      BY <1>2, <1>3 DEF GoodSet, MaxRank, LongRrpv, DistantRrpv
    <2> QED
      BY <1>1, <1>4, <1>5, <2>1 DEF GoodSet
  <1>8. ASSUME p = "LRU"
        PROVE  RecencyOrder(filled)
    <2>1. base = set /\ RecencyOrder(set) /\ \A w \in Ways : filled[w].rank = set[w].rank
      BY <1>1, <1>3, <1>4, <1>5, <1>8 DEF GoodSet
    <2>2. \A w \in Ways : ~ filled[w].valid => w # way /\ ~ set[w].valid /\ w \in Invalid(set)
      BY <1>3, <1>4, <1>5, <2>1 DEF Invalid
    <2>3. ASSUME NEW v \in Ways, NEW w \in Ways, filled[v].valid, ~ filled[w].valid
          PROVE  v < w /\ set[v].rank < w
      <3>1. w \in Invalid(set) /\ Invalid(set) \in SUBSET Ways /\ w # way
        BY <2>2, <2>3 DEF Invalid
      <3>2. way \in Invalid(set) /\ way <= w
        BY <1>2, <3>1, FirstIsLeast
      <3>3. way < w /\ set[way].rank = way
        BY <2>1, <3>1, <3>2, SetFacts DEF RecencyOrder, Invalid
      <3>4. CASE v = way
        BY <3>3, <3>4
      <3>5. CASE v # way
        <4>1. set[v].valid /\ ~ set[w].valid
          BY <1>5, <2>1, <2>2, <2>3, <3>5
        <4> QED
          BY <2>1, <4>1 DEF RecencyOrder
      <3> QED
        BY <3>4, <3>5
    <2>4. \A v, w \in Ways : filled[v].rank = filled[w].rank => v = w
      BY <2>1 DEF RecencyOrder
    <2>5. \A w \in Ways : ~ filled[w].valid => filled[w].rank = w
      BY <2>1, <2>2 DEF RecencyOrder
    <2> QED
      BY <2>1, <2>3, <2>4, <2>5 DEF RecencyOrder
  <1>9. GoodSet(p, filled)
    BY <1>4, <1>6, <1>7, <1>8 DEF GoodSet
  <1>10. GoodSet(p, Updated(p, filled, way))
    BY <1>2, <1>3, <1>4, <1>9, UpdatedIsGood
  <1>11. Filled(p, set, way, block) = Updated(p, filled, way)
    BY DEF Filled, filled, base, new
  <1> QED
    BY <1>10, <1>11

\* A miss keeps a cache good.
LEMMA MissIsGood ==
  ASSUME NEW p \in ThePolicies, NEW cache, GoodCache(p, cache),
         NEW block \in Nat, ~ IsHit(cache, block), NEW new \in MissCaches(p, cache, block)
  PROVE  GoodCache(p, new)
  <1>1. PICK s : s = SetOf(block)
    OBVIOUS
  <1>2. s \in Sets /\ GoodSet(p, cache[s])
    BY <1>1, SetFacts DEF GoodCache
  <1>3. PICK way \in Victims(p, cache[s]) :
          new = [cache EXCEPT ![s] = Filled(p, cache[s], way, block)]
    BY <1>1 DEF MissCaches
  <1>4. \A w \in Ways : cache[s][w].valid => cache[s][w].block # block
    BY <1>1 DEF IsHit, HitWays
  <1>5. GoodSet(p, Filled(p, cache[s], way, block))
    BY <1>2, <1>4, FilledIsGood
  <1>6. Filled(p, cache[s], way, block) \in [Ways -> Blocks]
    BY <1>5 DEF GoodSet
  <1> QED
    BY <1>2, <1>3, <1>5, <1>6 DEF GoodCache

-----------------------------------------------------------------------------

\* What the slots before MEM and write back hold when they are not empty.
Ops == [pc : Words, a : Words, b : Words, address : Words, value : Words]
Memories == [DOMAIN StartMemory -> Words]
Phases == {"wb", "mem", "execute", "decode", "fetch", "recover", "off"}

\* The types of the variables that are not caches.
Typed ==
  /\ program \in [Words -> Instructions] /\ policy \in ThePolicies
  /\ phase \in Phases
  /\ pc \in Words
  /\ decodeOp \in Words \cup {NoOp} /\ executeOp \in Words \cup {NoOp}
  /\ memOp \in Ops \cup {EmptySlot} /\ wbOp \in Ops \cup {EmptySlot}
  /\ regs \in [Registers -> Words] /\ regs[0] = 0
  /\ hilo \in HiLo
  /\ multiplierStall \in 0 .. MultCycles + DivCycles
  /\ recovery \in Words \cup {NoOp}
  /\ memory \in Memories
  /\ fetchStall \in 0 .. DramCycles - 1 /\ memStall \in 0 .. DramCycles - 1
  /\ runBit \in BOOLEAN /\ exitAt \in Words \cup {NoOp}

GoodCaches == GoodCache(policy, icache) /\ GoodCache(policy, dcache)

\* What the order of the stages and the end of a cycle guarantee.
Stages ==
  /\ phase = "mem" => wbOp = EmptySlot
  /\ recovery # NoOp => phase \in {"decode", "fetch", "recover"}
  /\ exitAt = NoOp <=> runBit
  /\ phase = "wb" => runBit

\* The pc where fetch goes on after the op at p, and where the exit syscall sets it.
Behind(p) == (p + 1) % WordRange
AtExit == exitAt # NoOp /\ pc \in {exitAt, Behind(exitAt)}

\* The ops that are not squashed follow each other in the program, and the pc follows
\* them, until the exit syscall has set it.
InSequence ==
  recovery = NoOp =>
    /\ decodeOp # NoOp => pc = Behind(decodeOp) \/ AtExit
    /\ (decodeOp = NoOp /\ executeOp # NoOp) => pc = Behind(executeOp) \/ AtExit
    /\ (decodeOp # NoOp /\ executeOp # NoOp /\ (runBit \/ phase \notin {"recover", "off"}))
         => decodeOp = Behind(executeOp)

\* The inductive invariant.
IInv == Typed /\ GoodCaches /\ Stages /\ InSequence

\* An occupied slot holds an op of an instruction; NoOp and EmptySlot are no ops.
LEMMA OpFacts ==
  /\ NoOp \notin Words /\ 0 \in Words /\ EmptySlot \notin Ops
  /\ \A p \in Words : Behind(p) \in Words
  /\ \A op \in Ops : op.pc \in Words /\ op.pc # NoOp
  /\ 0 \in Registers
  <1>1. NoOp \notin Words /\ 0 \in Words
    BY WordFacts DEF NoOp, Words
  <1>2. \A p \in Words : p + 1 \in Int
    BY WordFacts DEF Words
  <1>3. 0 \in Registers
    BY MipsAssumption DEF Registers
  <1> HIDE DEF Words, WordRange
  <1>4. EmptySlot \notin Ops
    <2>1. EmptySlot.pc = NoOp
      BY DEF EmptySlot
    <2> QED
      BY <1>1, <2>1 DEF Ops
  <1> QED
    BY <1>1, <1>2, <1>3, <1>4, WordFacts DEF Behind, Ops

\* What the program holds at a word is an instruction.
LEMMA ProgramFacts ==
  ASSUME program \in [Words -> Instructions], NEW p \in Words
  PROVE  /\ program[p] \in Instructions
         /\ program[p].d \in Registers /\ program[p].s1 \in Registers
         /\ program[p].s2 \in Registers
  <1>1. program[p] \in Instructions
    OBVIOUS
  <1> QED
    BY <1>1 DEF Instructions

\* Register 0 is never written.
LEMMA WrittenType ==
  ASSUME NEW rs \in [Registers -> Words], rs[0] = 0, NEW d \in Registers, NEW v \in Words
  PROVE  Written(rs, d, v) \in [Registers -> Words] /\ Written(rs, d, v)[0] = 0
  BY OpFacts DEF Written

\* The invariant holds at the start.
LEMMA InitInvariant ==
  ASSUME Init
  PROVE  IInv
  <1>1. program \in [Words -> Instructions]
    BY ProgramsAssumption DEF Init, Instructions
  <1>2. policy \in ThePolicies
    BY Lab1Assumption DEF Init, ThePolicies
  <1>3. memory \in Memories /\ regs \in [Registers -> Words] /\ regs[0] = 0
    BY StartAssumption DEF Init, Memories
  <1>4. hilo \in HiLo /\ pc \in Words
    BY OpFacts DEF Init, HiLo
  <1>5. /\ multiplierStall \in 0 .. MultCycles + DivCycles
        /\ fetchStall \in 0 .. DramCycles - 1 /\ memStall \in 0 .. DramCycles - 1
    BY Lab1Assumption DEF Init
  <1>6. GoodCaches
    BY <1>2, AllocIsGood DEF Init, GoodCaches
  <1>7. Typed
    BY <1>1, <1>2, <1>3, <1>4, <1>5 DEF Init, Typed, Phases
  <1>8. Stages
    BY DEF Init, Stages
  <1>9. InSequence
    BY DEF Init, InSequence
  <1> QED
    BY <1>6, <1>7, <1>8, <1>9 DEF IInv

\* Write back keeps the invariant: the registers get a word, and where the exit
\* syscall sets the pc is a place that AtExit allows.
LEMMA WbStep ==
  ASSUME IInv, PipeStageWb
  PROVE  IInv'
  <1> USE DEF PipeStageWb, IInv, control, caches
  <1>1. CASE wbOp = EmptySlot
    <2>1. Typed'
      BY <1>1 DEF Typed, Phases
    <2>2. GoodCaches'
      BY DEF GoodCaches
    <2>3. Stages'
      BY <1>1 DEF Stages
    <2>4. InSequence'
      BY <1>1 DEF InSequence, AtExit
    <2> QED
      BY <2>1, <2>2, <2>3, <2>4
  <1>2. CASE wbOp # EmptySlot
    <2>1. wbOp \in Ops /\ wbOp.pc \in Words /\ wbOp.value \in Words /\ wbOp.pc # NoOp
      BY <1>2, OpFacts DEF Typed, Ops
    <2>2. InstructionOf(wbOp).d \in Registers
      BY <2>1, ProgramFacts DEF Typed, InstructionOf
    <2>3. regs' \in [Registers -> Words] /\ regs'[0] = 0
      BY <1>2, <2>1, <2>2, WrittenType DEF Typed
    <2>4. pc' \in Words /\ exitAt' \in Words \cup {NoOp} /\ runBit' \in BOOLEAN
      BY <1>2, <2>1, OpFacts DEF Typed, Behind
    <2>5. Typed'
      BY <2>3, <2>4 DEF Typed, Phases
    <2>6. GoodCaches'
      BY DEF GoodCaches
    <2>7. Stages'
      BY <1>2, <2>1 DEF Stages
    <2>8. CASE IsExit(InstructionOf(wbOp), wbOp.a)
      <3>1. AtExit' /\ runBit' = FALSE /\ exitAt' # NoOp
        BY <1>2, <2>1, <2>8 DEF AtExit, Behind
      <3>2. runBit /\ exitAt = NoOp
        BY DEF Stages
      <3>3. InSequence'
        BY <3>1, <3>2 DEF InSequence, AtExit
      <3> QED
        BY <2>5, <2>6, <2>7, <3>3
    <2>9. CASE ~ IsExit(InstructionOf(wbOp), wbOp.a)
      <3>1. InSequence'
        BY <1>2, <2>9 DEF InSequence, AtExit
      <3> QED
        BY <2>5, <2>6, <2>7, <3>1
    <2> QED
      BY <2>8, <2>9
  <1> QED
    BY <1>1, <1>2

\* MEM keeps the invariant: what it loads and stores are words.
LEMMA MemStep ==
  ASSUME IInv, PipeStageMem
  PROVE  IInv'
  <1> USE DEF PipeStageMem, IInv, control
  <1>1. memOp # EmptySlot => /\ memOp \in Ops /\ memOp.pc \in Words /\ memOp.address \in Words
                             /\ memOp.b \in Words /\ InstructionOf(memOp) \in Instructions
                             /\ MemBlock \in Nat /\ MemBlock \in DOMAIN StartMemory
    <2> SUFFICES ASSUME memOp # EmptySlot
                 PROVE  /\ memOp \in Ops /\ memOp.pc \in Words /\ memOp.address \in Words
                        /\ memOp.b \in Words /\ InstructionOf(memOp) \in Instructions
                        /\ MemBlock \in Nat /\ MemBlock \in DOMAIN StartMemory
      OBVIOUS
    <2>1. memOp \in Ops /\ memOp.pc \in Words /\ memOp.address \in Words /\ memOp.b \in Words
      BY DEF Typed, Ops
    <2>2. InstructionOf(memOp) \in Instructions
      BY <2>1, ProgramFacts DEF Typed, InstructionOf
    <2>3. MemBlock \in Nat /\ MemBlock \in DOMAIN StartMemory
      BY <2>1, <2>2, AddressType DEF MemBlock
    <2> QED
      BY <2>1, <2>2, <2>3
  <1>2. Stages' /\ InSequence'
    <2>1. Stages'
      BY DEF Stages
    <2>2. InSequence'
      BY DEF InSequence, AtExit
    <2> QED
      BY <2>1, <2>2
  <1>3. CASE MemStalled
    <2>1. memStall' \in 0 .. DramCycles - 1
      BY <1>3, Lab1Assumption DEF Typed, MemStalled
    <2>2. Typed'
      BY <1>3, <2>1 DEF Typed, Phases, MemStalled
    <2>3. GoodCaches'
      BY <1>3 DEF GoodCaches, MemStalled
    <2> QED
      BY <1>2, <2>2, <2>3
  <1>4. CASE MemMisses
    <2>1. memStall' \in 0 .. DramCycles - 1
      BY <1>4, Lab1Assumption DEF MemMisses
    <2>2. Typed'
      BY <1>4, <2>1 DEF Typed, Phases, MemMisses
    <2>3. GoodCache(policy, dcache')
      BY <1>1, <1>4, MissIsGood DEF MemMisses, GoodCaches, Typed
    <2>4. GoodCaches'
      BY <2>3 DEF GoodCaches
    <2> QED
      BY <1>2, <2>2, <2>4
  <1>5. CASE MemCompletes
    <2> DEFINE i == InstructionOf(memOp)
               word == memory[MemBlock]
    <2>1. memOp # EmptySlot /\ word \in Words
      BY <1>1, <1>5 DEF MemCompletes, Typed, Memories
    <2>2. /\ wbOp' = IF IsLoad(i) THEN [memOp EXCEPT !.value = Loaded(i, word, memOp.address)]
                     ELSE memOp
          /\ memory' = IF IsStore(i)
                       THEN [memory EXCEPT ![MemBlock] = Stored(i, word, memOp.address, memOp.b)]
                       ELSE memory
          /\ dcache' = IF IsMem(i) THEN HitCache(policy, dcache, MemBlock) ELSE dcache
          /\ IsMem(i) => IsHit(dcache, MemBlock)
          /\ memOp' = EmptySlot /\ memStall' = memStall
      BY <1>5 DEF MemCompletes, MemBlock
    <2>3. i \in Instructions
      BY <1>1, <2>1
    <2> HIDE DEF i, word
    <2>4. wbOp' \in Ops
      <3>1. CASE IsLoad(i)
        <4>1. Loaded(i, word, memOp.address) \in Words
          BY <1>1, <2>1, <2>3, <3>1, LoadedType
        <4> QED
          BY <1>1, <2>1, <2>2, <3>1, <4>1 DEF Ops
      <3>2. CASE ~ IsLoad(i)
        BY <1>1, <2>1, <2>2, <3>2
      <3> QED
        BY <3>1, <3>2
    <2>5. memory' \in Memories
      <3>1. Stored(i, word, memOp.address, memOp.b) \in Words
        BY <1>1, <2>1, <2>3, StoredType
      <3> QED
        BY <1>1, <2>1, <2>2, <3>1 DEF Typed, Memories
    <2>6. Typed'
      BY <2>2, <2>4, <2>5 DEF Typed, Phases
    <2>7. GoodCache(policy, dcache')
      BY <1>1, <2>1, <2>2, HitIsGood DEF GoodCaches, Typed
    <2>8. GoodCaches'
      BY <2>7 DEF GoodCaches
    <2> QED
      BY <1>2, <2>6, <2>8
  <1> QED
    BY <1>3, <1>4, <1>5

\* What execute reads is what the registers will hold once the op in write back is done.
LEMMA OperandIsAfterWb ==
  ASSUME Typed, NEW r \in Registers
  PROVE  Operand(r) = AfterWb[r] /\ Operand(r) \in Words
  <1>1. CASE wbOp = EmptySlot
    BY <1>1, OpFacts DEF Operand, AfterWb, Typed
  <1>2. CASE wbOp # EmptySlot
    <2>1. wbOp \in Ops /\ wbOp.pc \in Words /\ wbOp.value \in Words
      BY <1>2 DEF Typed, Ops
    <2>2. InstructionOf(wbOp).d \in Registers
      BY <2>1, ProgramFacts DEF Typed, InstructionOf
    <2> QED
      BY <1>2, <2>1, <2>2, OpFacts DEF Operand, AfterWb, Typed, Written
  <1> QED
    BY <1>1, <1>2

\* Execute keeps the invariant: it empties its slot or asks for a recovery.
LEMMA ExecuteStep ==
  ASSUME IInv, PipeStageExecute
  PROVE  IInv'
  <1> USE DEF PipeStageExecute, IInv, control, caches
  <1>1. GoodCaches'
    BY DEF GoodCaches
  <1>2. MultiplierBusy \in 0 .. MultCycles + DivCycles
    BY Lab1Assumption DEF MultiplierBusy, Typed
  <1>3. CASE ExecuteStalled
    <2>1. Typed'
      BY <1>2, <1>3 DEF Typed, Phases
    <2>2. Stages'
      BY <1>3 DEF Stages
    <2>3. InSequence'
      BY <1>3 DEF InSequence, AtExit
    <2> QED
      BY <1>1, <2>1, <2>2, <2>3
  <1>4. CASE ~ ExecuteStalled
    <2> DEFINE i == program[executeOp]
               a == Operand(i.s1)
               b == Operand(i.s2)
    <2>1. executeOp \in Words /\ executeOp # NoOp
      BY <1>4 DEF ExecuteStalled, Typed
    <2>2. i \in Instructions /\ a \in Words /\ b \in Words
      BY <2>1, ProgramFacts, OperandIsAfterWb DEF Typed
    <2>3. /\ memOp' = [pc |-> executeOp, a |-> a, b |-> b, address |-> Address(i, a),
                       value |-> Result(i, executeOp, a, b, hilo)]
          /\ executeOp' = NoOp
          /\ hilo' = HiLoAfter(i, a, b, hilo)
          /\ multiplierStall' = IF ~ UsesMultiplier(i) THEN MultiplierBusy
                                ELSE IF i.op = "divu" THEN DivCycles ELSE MultCycles
          /\ recovery' = IF BranchTaken(i, a, b) /\ recovery = NoOp THEN BranchDest(i, a)
                         ELSE recovery
      BY <1>4 DEF Executes
    <2> HIDE DEF i, a, b
    <2>4. memOp' \in Ops
      BY <2>1, <2>2, <2>3, AddressType, ResultType DEF Ops, Typed
    <2>5. hilo' \in HiLo
      BY <2>2, <2>3, HiLoAfterType DEF Typed
    <2>6. multiplierStall' \in 0 .. MultCycles + DivCycles
      BY <1>2, <2>3, Lab1Assumption
    <2>7. recovery' \in Words \cup {NoOp}
      BY <2>2, <2>3, AddressType DEF Typed
    <2>8. Typed'
      BY <2>3, <2>4, <2>5, <2>6, <2>7 DEF Typed, Phases
    <2>9. Stages'
      BY DEF Stages
    <2>10. InSequence'
      BY <2>3 DEF InSequence, AtExit, Stages
    <2> QED
      BY <1>1, <2>8, <2>9, <2>10
  <1> QED
    BY <1>3, <1>4

\* Decode keeps the invariant: the op it passes on stays behind the same pc.
LEMMA DecodeStep ==
  ASSUME IInv, PipeStageDecode
  PROVE  IInv'
  <1> USE DEF PipeStageDecode, IInv, control, caches, machine
  <1>1. Typed'
    BY DEF Typed, Phases
  <1>2. GoodCaches'
    BY DEF GoodCaches
  <1>3. Stages'
    BY DEF Stages
  <1>4. InSequence'
    BY DEF InSequence, AtExit
  <1> QED
    BY <1>1, <1>2, <1>3, <1>4

\* Fetch keeps the invariant: the pc moves behind the op it fetches.
LEMMA FetchStep ==
  ASSUME IInv, PipeStageFetch
  PROVE  IInv'
  <1> USE DEF PipeStageFetch, IInv, control, machine
  <1>1. CodeBlock \in Nat
    <2>1. pc \in Nat /\ BlockWords \in Nat \ {0}
      BY Lab1Assumption, WordFacts DEF Typed, Words
    <2> QED
      BY <2>1, Quotient DEF CodeBlock
  <1>2. Stages'
    BY DEF Stages
  <1>3. CASE FetchStalled
    <2>1. fetchStall' \in 0 .. DramCycles - 1
      BY <1>3, Lab1Assumption DEF Typed, FetchStalled
    <2>2. Typed'
      BY <1>3, <2>1 DEF Typed, Phases, FetchStalled
    <2>3. GoodCaches'
      BY <1>3 DEF GoodCaches, FetchStalled
    <2>4. InSequence'
      BY <1>3 DEF InSequence, AtExit, FetchStalled
    <2> QED
      BY <1>2, <2>2, <2>3, <2>4
  <1>4. CASE FetchMisses
    <2>1. fetchStall' \in 0 .. DramCycles - 1
      BY <1>4, Lab1Assumption DEF FetchMisses
    <2>2. Typed'
      BY <1>4, <2>1 DEF Typed, Phases, FetchMisses
    <2>3. GoodCache(policy, icache')
      BY <1>1, <1>4, MissIsGood DEF FetchMisses, GoodCaches, Typed
    <2>4. GoodCaches'
      BY <2>3 DEF GoodCaches
    <2>5. InSequence'
      BY <1>4 DEF InSequence, AtExit, FetchMisses
    <2> QED
      BY <1>2, <2>2, <2>4, <2>5
  <1>5. CASE Fetches
    <2>1. pc' = Behind(pc) /\ decodeOp' = pc /\ decodeOp = NoOp /\ pc \in Words /\ pc # NoOp
      BY <1>5, OpFacts DEF Fetches, Behind, Typed
    <2>2. pc' \in Words /\ decodeOp' \in Words
      BY <2>1, OpFacts
    <2>3. Typed'
      BY <1>5, <2>2 DEF Typed, Phases, Fetches
    <2>4. GoodCache(policy, icache')
      BY <1>1, <1>5, HitIsGood DEF Fetches, GoodCaches, Typed
    <2>5. GoodCaches'
      BY <2>4 DEF GoodCaches
    <2>6. InSequence'
      BY <2>1 DEF InSequence, AtExit, Stages, Behind
    <2> QED
      BY <1>2, <2>3, <2>5, <2>6
  <1> QED
    BY <1>3, <1>4, <1>5

\* The recovery keeps the invariant: no op is left to follow the pc.
LEMMA RecoveryStep ==
  ASSUME IInv, BranchRecovery
  PROVE  IInv'
  <1> USE DEF BranchRecovery, IInv, control, machine, caches
  <1>1. Typed'
    BY DEF Typed, Phases
  <1>2. GoodCaches'
    BY DEF GoodCaches
  <1>3. Stages'
    BY DEF Stages
  <1>4. InSequence'
    BY DEF InSequence, AtExit
  <1> QED
    BY <1>1, <1>2, <1>3, <1>4

\* Every stage of the pipeline keeps the invariant.
THEOREM Invariance == Spec => []IInv
  <1>1. ASSUME IInv, [Next]_vars
        PROVE  IInv'
    <2>1. CASE Next
      <3>1. ASSUME Stopped PROVE IInv'
        BY <1>1, <3>1 DEF Stopped, vars, slots, machine, caches, control, IInv, Typed,
           GoodCaches, Stages, InSequence, AtExit
      <3> QED
        BY <1>1, <2>1, <3>1, WbStep, MemStep, ExecuteStep, DecodeStep, FetchStep, RecoveryStep
           DEF Next
    <2>2. CASE UNCHANGED vars
      BY <1>1, <2>2 DEF vars, slots, machine, caches, control, IInv, Typed, GoodCaches,
         Stages, InSequence, AtExit
    <2> QED
      BY <1>1, <2>1, <2>2
  <1> QED
    BY InitInvariant, <1>1, PTL DEF Spec

\* A good cache is what the type invariant says of it.
LEMMA GoodIsCached ==
  ASSUME NEW cache, policy \in ThePolicies, GoodCache(policy, cache)
  PROVE  Cached(cache)
  <1> SUFFICES ASSUME NEW s \in Sets
               PROVE  /\ {cache[s][w].rank : w \in Ways}
                            \subseteq 0 .. (IF policy = "RRIP" THEN DistantRrpv ELSE NumWays - 1)
                      /\ policy = "LRU" => \A v, w \in Ways :
                                               cache[s][v].rank = cache[s][w].rank => v = w
                      /\ \A v, w \in Ways : (cache[s][v].valid /\ cache[s][w].valid /\ v # w)
                                            => cache[s][v].block # cache[s][w].block
    BY DEF Cached
  <1>1. GoodSet(policy, cache[s])
    BY DEF GoodCache
  <1>2. PICK set : set = cache[s]
    OBVIOUS
  <1>3. \A w \in Ways : set[w].rank \in Nat /\ set[w].rank <= MaxRank(policy)
    BY <1>1, <1>2 DEF GoodSet, Blocks
  <1>4. \A w \in Ways : set[w].rank \in 0 .. MaxRank(policy)
    BY <1>3, SetFacts DEF MaxRank, DistantRrpv
  <1>5. policy = "LRU" => \A v, w \in Ways : set[v].rank = set[w].rank => v = w
    BY <1>1, <1>2 DEF GoodSet, RecencyOrder
  <1>6. \A v, w \in Ways : (set[v].valid /\ set[w].valid /\ v # w) => set[v].block # set[w].block
    BY <1>1, <1>2 DEF GoodSet
  <1> QED
    BY <1>2, <1>4, <1>5, <1>6 DEF MaxRank

\* The state of the pipeline always has its type, for every program, policy, size of
\* the caches and latency; in particular a full set always has the victim that
\* cache_access searches (cache.c:133), and no set holds a block twice.
THEOREM TypeCorrect == Spec => []TypeOK
  <1>1. ASSUME IInv PROVE TypeOK
    <2>1. \A op \in {memOp, wbOp} \ {EmptySlot} :
            {op.pc, op.a, op.b, op.address, op.value} \subseteq Words
      BY <1>1 DEF IInv, Typed, Ops
    <2>2. Cached(icache) /\ Cached(dcache)
      BY <1>1, GoodIsCached DEF IInv, Typed, GoodCaches
    <2> QED
      BY <1>1, <2>1, <2>2 DEF IInv, Typed, Phases, Memories, HiLo, TypeOK
  <1> QED
    BY Invariance, <1>1, PTL

-----------------------------------------------------------------------------

\* MipsIsa and the pipeline compute with the same operators.
LEMMA SameSemantics ==
  /\ Processor!WordRange = WordRange
  /\ \A i : (Processor!IsLoad(i) <=> IsLoad(i)) /\ (Processor!IsStore(i) <=> IsStore(i))
  /\ \A i, a : /\ Processor!IsExit(i, a) <=> IsExit(i, a)
               /\ Processor!Address(i, a) = Address(i, a)
               /\ Processor!BranchDest(i, a) = BranchDest(i, a)
  /\ \A a : Processor!WordOf(a) = WordOf(a)
  /\ \A i, a, b : Processor!BranchTaken(i, a, b) <=> BranchTaken(i, a, b)
  /\ \A i, p, a, b, hl : Processor!Result(i, p, a, b, hl) = Result(i, p, a, b, hl)
  /\ \A i, a, b, hl : Processor!HiLoAfter(i, a, b, hl) = HiLoAfter(i, a, b, hl)
  /\ \A i, w, a : Processor!Loaded(i, w, a) = Loaded(i, w, a)
  /\ \A i, w, a, v : Processor!Stored(i, w, a, v) = Stored(i, w, a, v)
  /\ \A rs, d, v : Processor!Written(rs, d, v) = Written(rs, d, v)
  <1>1. Processor!WordRange = WordRange
    BY DEF Processor!WordRange, WordRange
  <1>2. \A i : (Processor!IsLoad(i) <=> IsLoad(i)) /\ (Processor!IsStore(i) <=> IsStore(i))
    BY DEF Processor!IsLoad, IsLoad, Processor!IsStore, IsStore
  <1>3. \A i, a : Processor!IsExit(i, a) <=> IsExit(i, a)
    BY DEF Processor!IsExit, IsExit
  <1>4. \A i, a : /\ Processor!Address(i, a) = Address(i, a)
                 /\ Processor!BranchDest(i, a) = BranchDest(i, a)
    BY <1>1 DEF Processor!Address, Address, Processor!BranchDest, BranchDest
  <1>5. \A a : Processor!WordOf(a) = WordOf(a)
    BY DEF Processor!WordOf, WordOf
  <1>6. \A v : Processor!Signed(v) = Signed(v)
    BY <1>1 DEF Processor!Signed, Signed
  <1>7. \A q : Processor!Truth(q) = Truth(q)
    BY DEF Processor!Truth, Truth
  <1>8. \A i, a, b : Processor!BranchTaken(i, a, b) <=> BranchTaken(i, a, b)
    BY <1>6 DEF Processor!BranchTaken, BranchTaken
  <1>9. \A i, p, a, b, hl : Processor!Result(i, p, a, b, hl) = Result(i, p, a, b, hl)
    BY <1>1, <1>6, <1>7 DEF Processor!Result, Result
  <1>10. \A i, a, b, hl : Processor!HiLoAfter(i, a, b, hl) = HiLoAfter(i, a, b, hl)
    BY <1>1, <1>6 DEF Processor!HiLoAfter, HiLoAfter
  <1>11. \A i, w, a : Processor!Loaded(i, w, a) = Loaded(i, w, a)
    BY <1>1 DEF Processor!Loaded, Loaded
  <1>12. \A i, w, a, v : Processor!Stored(i, w, a, v) = Stored(i, w, a, v)
    BY DEF Processor!Stored, Stored
  <1>13. \A rs, d, v : Processor!Written(rs, d, v) = Written(rs, d, v)
    BY DEF Processor!Written, Written
  <1> QED
    BY <1>1, <1>2, <1>3, <1>4, <1>5, <1>8, <1>9, <1>10, <1>11, <1>12, <1>13

\* What execute does is one step of the instruction set, of the instruction that is next.
IsaStep ==
  LET i == program[NextPc]
      a == AfterBoth[i.s1]
      b == AfterBoth[i.s2]
      address == Address(i, a)
      word == AfterMem[WordOf(address)]
  IN  /\ AfterBoth' = Written(AfterBoth, i.d, IF IsLoad(i) THEN Loaded(i, word, address)
                                              ELSE Result(i, NextPc, a, b, hilo))
      /\ hilo' = HiLoAfter(i, a, b, hilo)
      /\ AfterMem' = IF IsStore(i)
                     THEN [AfterMem EXCEPT ![WordOf(address)] = Stored(i, word, address, b)]
                     ELSE AfterMem
      /\ NextPc' \in {IF BranchTaken(i, a, b) THEN BranchDest(i, a) ELSE Behind(NextPc)}
                     \cup Processor!ExitPcs
      /\ ExitOnItsWay' = IF ExitOnItsWay = NoOp /\ IsExit(i, a) THEN NextPc ELSE ExitOnItsWay
      /\ UNCHANGED program

\* IsaStep, written with the operators of the pipeline, is the step of MipsIsa.
LEMMA IsaStepExecutes ==
  ASSUME IsaStep
  PROVE  Processor!Execute
  <1>1. Processor!NoExit = NoOp
    BY DEF Processor!NoExit, NoOp
  <1> HIDE DEF NextPc, AfterBoth, AfterMem, ExitOnItsWay
  <1> QED
    BY <1>1, SameSemantics DEF IsaStep, Processor!Execute, Behind

\* Where the pc may be once an exit syscall is on its way.
LEMMA ExitPcsAre ==
  Processor!ExitPcs = IF ExitOnItsWay = NoOp THEN {} ELSE {ExitOnItsWay, Behind(ExitOnItsWay)}
  BY SameSemantics DEF Processor!ExitPcs, Processor!NoExit, NoOp, Behind

\* The stages around execute change nothing that the instruction set sees.
Unseen == UNCHANGED <<program, NextPc, AfterBoth, hilo, AfterMem, ExitOnItsWay>>

\* Write back completes an op that counted as executed before; only an exit syscall
\* is seen, when nothing is left in the pipeline that hides the pc it sets.
LEMMA WbRefines ==
  ASSUME IInv, PipeStageWb
  PROVE  Unseen \/ Processor!Exit
  <1> USE DEF PipeStageWb, IInv, control, caches
  <1>1. CASE wbOp = EmptySlot
    BY <1>1 DEF Unseen, NextPc, AfterBoth, AfterWb, AfterMem, ExitOnItsWay, InstructionOf, MemBlock
  <1>2. CASE wbOp # EmptySlot
    <2>1. wbOp \in Ops /\ wbOp.pc # NoOp
      BY <1>2, OpFacts DEF Typed
    <2>2. exitAt = NoOp
      BY DEF Stages
    <2>3. UNCHANGED <<program, hilo>> /\ AfterMem' = AfterMem
      BY DEF AfterMem, InstructionOf, MemBlock
    <2>4. AfterWb' = AfterWb
      BY <1>2 DEF AfterWb, InstructionOf
    <2>5. AfterBoth' = AfterBoth
      BY <2>4 DEF AfterBoth, InstructionOf, MemBlock
    <2>6. CASE IsExit(InstructionOf(wbOp), wbOp.a)
      <3>1. ExitOnItsWay = wbOp.pc /\ ExitOnItsWay' = wbOp.pc
        BY <1>2, <2>1, <2>2, <2>6 DEF ExitOnItsWay, InstructionOf
      <3>2. pc' \in {wbOp.pc, Behind(wbOp.pc)}
        BY <1>2, <2>6 DEF Behind
      <3>3. NextPc' = NextPc \/ NextPc' = pc'
        BY DEF NextPc
      <3>4. ASSUME NextPc' = pc' PROVE Processor!Exit
        <4>1. NextPc' \in Processor!ExitPcs
          BY <2>1, <3>1, <3>2, <3>4, ExitPcsAre
        <4> QED
          BY <2>3, <2>5, <3>1, <4>1 DEF Processor!Exit
      <3> QED
        BY <2>3, <2>5, <3>1, <3>3, <3>4 DEF Unseen
    <2>7. CASE ~ IsExit(InstructionOf(wbOp), wbOp.a)
      <3>1. ExitOnItsWay' = ExitOnItsWay /\ NextPc' = NextPc
        BY <1>2, <2>7 DEF ExitOnItsWay, NextPc, InstructionOf
      <3> QED
        BY <2>3, <2>5, <3>1 DEF Unseen
    <2> QED
      BY <2>6, <2>7
  <1> QED
    BY <1>1, <1>2

\* MEM completes an op that counted as executed before: what it was going to load or
\* store is what it loads or stores.
LEMMA MemRefines ==
  ASSUME IInv, PipeStageMem
  PROVE  Unseen
  <1> USE DEF PipeStageMem, IInv, control
  <1>1. wbOp = EmptySlot
    BY DEF Stages
  <1>2. NextPc' = NextPc /\ UNCHANGED <<program, hilo, regs, exitAt>>
    BY DEF NextPc
  <1>3. CASE MemStalled \/ MemMisses
    BY <1>2, <1>3 DEF MemStalled, MemMisses, Unseen, AfterBoth, AfterWb, AfterMem, ExitOnItsWay,
       InstructionOf, MemBlock
  <1>4. CASE MemCompletes
    <2> DEFINE i == InstructionOf(memOp)
               word == memory[MemBlock]
    <2>1. memOp # EmptySlot
      BY <1>4 DEF MemCompletes
    <2>2. memOp \in Ops
      BY <2>1 DEF Typed
    <2>3. /\ wbOp' = IF IsLoad(i) THEN [memOp EXCEPT !.value = Loaded(i, word, memOp.address)]
                     ELSE memOp
          /\ memory' = IF IsStore(i)
                       THEN [memory EXCEPT ![MemBlock] = Stored(i, word, memOp.address, memOp.b)]
                       ELSE memory
          /\ memOp' = EmptySlot
      BY <1>4 DEF MemCompletes, MemBlock
    <2>4. i = program[memOp.pc]
      BY DEF InstructionOf
    <2> HIDE DEF i, word
    <2>5. /\ wbOp'.pc = memOp.pc /\ wbOp'.a = memOp.a
          /\ wbOp'.value = IF IsLoad(i) THEN Loaded(i, word, memOp.address) ELSE memOp.value
      BY <2>2, <2>3 DEF Ops
    <2>6. wbOp'.pc # NoOp /\ wbOp' # EmptySlot
      BY <2>2, <2>5, OpFacts DEF EmptySlot
    <2>7. AfterMem = memory' /\ AfterMem' = memory'
      BY <2>1, <2>3 DEF AfterMem, i, word
    <2>8. AfterWb = regs /\ AfterWb' = Written(regs, i.d, wbOp'.value)
      BY <1>1, <1>2, <2>4, <2>5, <2>6 DEF AfterWb, InstructionOf
    <2>9. AfterBoth = Written(regs, i.d, wbOp'.value)
      BY <2>1, <2>5, <2>8 DEF AfterBoth, i, word
    <2>10. AfterBoth' = AfterBoth
      BY <2>3, <2>8, <2>9 DEF AfterBoth
    <2>11. ExitOnItsWay' = ExitOnItsWay
      <3>1. ExitOnItsWay = IF exitAt # NoOp THEN exitAt
                           ELSE IF IsExit(i, memOp.a) THEN memOp.pc ELSE NoOp
        BY <1>1, <2>1 DEF ExitOnItsWay, i
      <3>2. ExitOnItsWay' = IF exitAt # NoOp THEN exitAt
                            ELSE IF IsExit(i, memOp.a) THEN memOp.pc ELSE NoOp
        BY <1>2, <2>3, <2>4, <2>5, <2>6 DEF ExitOnItsWay, InstructionOf
      <3> QED
        BY <3>1, <3>2
    <2> QED
      BY <1>2, <2>7, <2>10, <2>11 DEF Unseen
  <1> QED
    BY <1>3, <1>4

\* Execute executes the instruction that is next, on the operands it should have.
LEMMA ExecuteRefines ==
  ASSUME IInv, PipeStageExecute
  PROVE  Unseen \/ IsaStep
  <1> USE DEF PipeStageExecute, IInv, control, caches
  <1>1. CASE ExecuteStalled
    BY <1>1 DEF Unseen, NextPc, AfterBoth, AfterWb, AfterMem, ExitOnItsWay, InstructionOf, MemBlock
  <1>2. CASE ~ ExecuteStalled
    <2> DEFINE i == program[executeOp]
               a == Operand(i.s1)
               b == Operand(i.s2)
               address == Address(i, a)
               word == memory[WordOf(address)]
               result == Result(i, executeOp, a, b, hilo)
    <2>1. executeOp \in Words /\ executeOp # NoOp /\ memOp = EmptySlot /\ recovery = NoOp
      BY <1>2 DEF ExecuteStalled, Typed, Stages
    <2>2. NextPc = executeOp /\ AfterMem = memory /\ AfterBoth = AfterWb
      BY <2>1 DEF NextPc, AfterMem, AfterBoth
    <2>3. /\ i \in Instructions /\ a \in Words /\ b \in Words
          /\ a = AfterBoth[i.s1] /\ b = AfterBoth[i.s2]
      BY <2>1, <2>2, ProgramFacts, OperandIsAfterWb DEF Typed
    <2>4. /\ memOp' = [pc |-> executeOp, a |-> a, b |-> b, address |-> address, value |-> result]
          /\ executeOp' = NoOp
          /\ hilo' = HiLoAfter(i, a, b, hilo)
          /\ recovery' = IF BranchTaken(i, a, b) THEN BranchDest(i, a) ELSE NoOp
          /\ UNCHANGED <<program, pc, decodeOp, wbOp, regs, memory, runBit, exitAt>>
      BY <1>2, <2>1 DEF Executes
    <2> HIDE DEF a, b, address, result
    <2>5. /\ memOp'.pc = executeOp /\ memOp'.a = a /\ memOp'.b = b
          /\ memOp'.address = address /\ memOp'.value = result
          /\ memOp' # EmptySlot
      BY <2>1, <2>4 DEF EmptySlot
    <2>6. InstructionOf(memOp)' = i /\ MemBlock' = WordOf(address)
      BY <2>4, <2>5 DEF InstructionOf, MemBlock
    <2> HIDE DEF i
    <2>7. AfterMem' = IF IsStore(i)
                      THEN [memory EXCEPT ![WordOf(address)] = Stored(i, word, address, b)]
                      ELSE memory
      BY <2>4, <2>5, <2>6 DEF AfterMem
    <2>8. AfterWb' = AfterWb
      BY <2>4 DEF AfterWb, InstructionOf
    <2>9. AfterBoth' = Written(AfterWb, i.d, IF IsLoad(i) THEN Loaded(i, word, address)
                                             ELSE result)
      BY <2>4, <2>5, <2>6, <2>8 DEF AfterBoth
    <2>10. ExitOnItsWay' = IF ExitOnItsWay = NoOp /\ IsExit(i, a) THEN executeOp ELSE ExitOnItsWay
      <3>1. wbOp # EmptySlot => wbOp.pc # NoOp
        BY OpFacts DEF Typed
      <3>2. ExitOnItsWay = IF exitAt # NoOp THEN exitAt
                           ELSE IF wbOp # EmptySlot /\ IsExit(InstructionOf(wbOp), wbOp.a)
                                THEN wbOp.pc
                           ELSE NoOp
        BY <2>1 DEF ExitOnItsWay
      <3>3. ExitOnItsWay' = IF exitAt # NoOp THEN exitAt
                            ELSE IF wbOp # EmptySlot /\ IsExit(InstructionOf(wbOp), wbOp.a)
                                 THEN wbOp.pc
                            ELSE IF IsExit(i, a) THEN executeOp
                            ELSE NoOp
        BY <2>4, <2>5, <2>6 DEF ExitOnItsWay, InstructionOf
      <3> QED
        BY <3>1, <3>2, <3>3
    <2>11. NextPc' \in {IF BranchTaken(i, a, b) THEN BranchDest(i, a) ELSE Behind(executeOp)}
                      \cup Processor!ExitPcs
      <3>1. CASE BranchTaken(i, a, b)
        <4>1. BranchDest(i, a) # NoOp
          BY <2>3, AddressType, OpFacts
        <4>2. NextPc' = BranchDest(i, a)
          BY <2>4, <3>1, <4>1 DEF NextPc
        <4> QED
          BY <3>1, <4>2
      <3>2. CASE ~ BranchTaken(i, a, b) /\ decodeOp # NoOp
        <4>1. NextPc' = decodeOp
          BY <2>4, <3>2 DEF NextPc
        <4>2. decodeOp = Behind(executeOp)
          BY <2>1, <3>2 DEF InSequence
        <4> QED
          BY <3>2, <4>1, <4>2
      <3>3. CASE ~ BranchTaken(i, a, b) /\ decodeOp = NoOp
        <4>1. NextPc' = pc
          BY <2>4, <3>3 DEF NextPc
        <4>2. pc = Behind(executeOp) \/ AtExit
          BY <2>1, <3>3 DEF InSequence
        <4>3. ASSUME AtExit PROVE pc \in Processor!ExitPcs
          BY <4>3, ExitPcsAre DEF AtExit, ExitOnItsWay
        <4> QED
          BY <3>3, <4>1, <4>2, <4>3
      <3> QED
        BY <3>1, <3>2, <3>3
    <2>12. i = program[NextPc]
      BY <2>2 DEF i
    <2> HIDE DEF NextPc, AfterMem, AfterBoth, ExitOnItsWay
    <2> QED
      BY <2>2, <2>3, <2>4, <2>7, <2>9, <2>10, <2>11, <2>12 DEF IsaStep, address, word, result
  <1> QED
    BY <1>1, <1>2

\* Decode, fetch and the recovery change where the next instruction is found, not
\* which one it is.
LEMMA FrontEndRefines ==
  ASSUME IInv, PipeStageDecode \/ PipeStageFetch \/ BranchRecovery
  PROVE  Unseen
  <1>1. CASE PipeStageDecode
    BY <1>1 DEF PipeStageDecode, machine, caches, control, Unseen, NextPc, AfterBoth, AfterWb,
       AfterMem, ExitOnItsWay, InstructionOf, MemBlock
  <1>2. CASE PipeStageFetch
    <2>1. UNCHANGED <<program, executeOp, memOp, wbOp, regs, hilo, memory, recovery, exitAt>>
      BY <1>2 DEF PipeStageFetch, machine, control
    <2>2. (pc' = pc /\ decodeOp' = decodeOp) \/ (decodeOp = NoOp /\ decodeOp' = pc)
      BY <1>2 DEF PipeStageFetch, FetchStalled, FetchMisses, Fetches
    <2>3. pc # NoOp
      BY OpFacts DEF IInv, Typed
    <2>4. NextPc' = NextPc
      BY <2>1, <2>2, <2>3 DEF NextPc
    <2>5. AfterBoth' = AfterBoth /\ AfterMem' = AfterMem /\ ExitOnItsWay' = ExitOnItsWay
      BY <2>1 DEF AfterBoth, AfterWb, AfterMem, ExitOnItsWay, InstructionOf, MemBlock
    <2> QED
      BY <2>1, <2>4, <2>5 DEF Unseen
  <1>3. CASE BranchRecovery
    <2>1. UNCHANGED <<program, memOp, wbOp, regs, hilo, memory, exitAt>>
      BY <1>3 DEF BranchRecovery, machine, control
    <2>2. NextPc' = NextPc
      BY <1>3 DEF BranchRecovery, NextPc
    <2>3. AfterBoth' = AfterBoth /\ AfterMem' = AfterMem /\ ExitOnItsWay' = ExitOnItsWay
      BY <2>1 DEF AfterBoth, AfterWb, AfterMem, ExitOnItsWay, InstructionOf, MemBlock
    <2> QED
      BY <2>1, <2>2, <2>3 DEF Unseen
  <1> QED
    BY <1>1, <1>2, <1>3

\* The pipeline executes programs as MipsIsa does, one instruction after the other:
\* stalls, bypasses, the multiplier, cache misses and squashed instructions change the
\* time a program takes and nothing else (pipe.c:86-97, 278-290, 305-330, 405-430).
THEOREM Refinement == Spec => ImplementsIsa
  <1>1. Init => Processor!Init
    BY DEF Init, Processor!Init, NextPc, ExitOnItsWay, NoOp, EmptySlot, Processor!NoExit
  <1>2. Unseen => UNCHANGED Processor!vars
    BY DEF Unseen, Processor!vars
  <1>3. IInv /\ [Next]_vars => [Processor!Next]_(Processor!vars)
    <2> SUFFICES ASSUME IInv, [Next]_vars PROVE Processor!Next \/ Unseen
      BY <1>2
    <2>1. CASE PipeStageWb
      BY <2>1, WbRefines DEF Processor!Next
    <2>2. CASE PipeStageMem
      BY <2>2, MemRefines
    <2>3. CASE PipeStageExecute
      BY <2>3, ExecuteRefines, IsaStepExecutes DEF Processor!Next
    <2>4. CASE PipeStageDecode \/ PipeStageFetch \/ BranchRecovery
      BY <2>4, FrontEndRefines
    <2>5. CASE UNCHANGED vars
      BY <2>5 DEF vars, slots, machine, caches, control, Unseen, NextPc, AfterBoth, AfterWb,
         AfterMem, ExitOnItsWay, InstructionOf, MemBlock
    <2> QED
      BY <2>1, <2>2, <2>3, <2>4, <2>5 DEF Next, Stopped
  <1> QED
    BY <1>1, <1>3, Invariance, PTL DEF Spec, ImplementsIsa, Processor!Spec
=============================================================================
