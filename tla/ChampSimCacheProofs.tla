------------------------- MODULE ChampSimCacheProofs -------------------------
(***************************************************************************)
(* Proofs about ChampSimCache, for every cache that CacheAssumption        *)
(* allows: its queues and counters keep their bounds (TypeOK), every MSHR  *)
(* that awaits an answer gets exactly one (MshrsAwaitAnswers), every load  *)
(* from above is owed by exactly one place (OwedOnce), and a write-back is *)
(* never lost (WritesAreKept).                                             *)
(*                                                                         *)
(* None of these is inductive.  IInv adds what the elements of every queue *)
(* look like, so that a request for a load also names whom to answer, and  *)
(* states the four as counts (CountIn) of the elements of the queues that  *)
(* are in a set, which moving, merging and splitting of queues preserve.   *)
(* A cycle is a long sequence of steps on a state record: each has a lemma *)
(* that it preserves Fine, which is the invariant and, for the action      *)
(* property, that the writes of the blocks in D are kept or are below; a   *)
(* loop has one for its turns.  CycleIsFine and NextKeeps combine them.    *)
(***************************************************************************)
EXTENDS ChampSimCache, FiniteSetTheorems, SequenceTheorems, WellFoundedInduction, TLAPS

-----------------------------------------------------------------------------
(***************************************************************************)
(* Numbers and loops. Induction is over sets: to show P of every number up *)
(* to n, take the set of the numbers up to n that satisfy P.               *)
(***************************************************************************)
\* A set of numbers that is not empty has a least member.
LEMMA LeastNatural ==
  ASSUME NEW S \in SUBSET Nat, S # {}
  PROVE  \E n \in S : \A m \in S : n <= m
  <1> DEFINE R == {ss \in Nat \X Nat : ss[1] < ss[2]}
  <1>1. IsWellFoundedOn(R, Nat)
    BY NatLessThanWellFounded DEF OpToRel
  <1>2. PICK n \in S : \A m \in S : ~ (<<m, n>> \in R)
    <2> HIDE DEF R
    <2> QED
      BY <1>1, WFMin
  <1>3. \A m \in S : ~ (m < n)
    BY <1>2
  <1> QED
    BY <1>3

\* A loop from 0 to n: what holds before it and is kept by each turn holds
\* after every turn.
LEMMA LoopInduction ==
  ASSUME NEW n \in Nat, NEW S,
         0 \in S,
         \A i \in 0 .. n - 1 : i \in S => i + 1 \in S
  PROVE  0 .. n \subseteq S
  <1> DEFINE T == {i \in 0 .. n : i \notin S}
  <1> SUFFICES ASSUME T # {} PROVE FALSE
    OBVIOUS
  <1>1. T \in SUBSET Nat
    OBVIOUS
  <1>2. PICK k \in T : \A m \in T : k <= m
    <2> HIDE DEF T
    <2> QED
      BY <1>1, LeastNatural
  <1>3. k \in 1 .. n /\ k - 1 \in 0 .. n - 1 /\ k - 1 \in S
    BY <1>2
  <1> QED
    BY <1>2, <1>3

\* The values of a loop of n turns.
LoopRun(run, n, start, turn) ==
  /\ run[0] = start
  /\ \A i \in 1 .. n : run[i] = turn[i][run[i - 1]]

\* A loop of n turns on values in C has a run, of values in C.
LEMMA LoopRuns ==
  ASSUME NEW n \in Nat, NEW C, NEW start \in C, NEW turn \in [1 .. n -> [C -> C]]
  PROVE  \E run \in [0 .. n -> C] : LoopRun(run, n, start, turn)
  <1> USE DEF LoopRun
  <1> DEFINE Run(k, run) == run \in [0 .. k -> C] /\ LoopRun(run, k, start, turn)
             S == {k \in 0 .. n : \E run : Run(k, run)}
  <1>1. 0 \in S
    <2> DEFINE first == [i \in 0 .. 0 |-> start]
    <2>1. Run(0, first)
      OBVIOUS
    <2> HIDE DEF first
    <2> QED
      BY <2>1
  <1>2. ASSUME NEW k \in 0 .. n - 1, k \in S
        PROVE  k + 1 \in S
    <2>1. PICK old : Run(k, old)
      BY <1>2
    <2> DEFINE new == [i \in 0 .. k + 1 |->
                         IF i = k + 1 THEN turn[k + 1][old[k]] ELSE old[i]]
    <2>2. k + 1 \in 1 .. n /\ k \in 0 .. k /\ 0 \in 0 .. k
      OBVIOUS
    <2>3. turn[k + 1] \in [C -> C] /\ old[k] \in C
      BY <2>1, <2>2
    <2>4. turn[k + 1][old[k]] \in C
      BY <2>3
    <2>5. new \in [0 .. k + 1 -> C] /\ new[0] = start
      BY <2>1, <2>2, <2>4
    <2>6. \A i \in 1 .. k + 1 : new[i] = turn[i][new[i - 1]]
      <3> SUFFICES ASSUME NEW i \in 1 .. k + 1 PROVE new[i] = turn[i][new[i - 1]]
        OBVIOUS
      <3>1. i - 1 \in 0 .. k /\ new[i - 1] = old[i - 1]
        OBVIOUS
      <3>2. CASE i = k + 1
        BY <3>1, <3>2
      <3>3. CASE i # k + 1
        <4>1. i \in 1 .. k /\ i \in 0 .. k + 1 /\ new[i] = old[i]
          BY <3>3
        <4> QED
          BY <2>1, <3>1, <4>1
      <3> QED
        BY <3>2, <3>3
    <2> HIDE DEF new
    <2>7. Run(k + 1, new)
      BY <2>5, <2>6
    <2> QED
      BY <2>2, <2>7
  <1>3. n \in S
    <2> HIDE DEF S
    <2>1. 0 .. n \subseteq S
      BY <1>1, <1>2, LoopInduction
    <2> QED
      BY <2>1
  <1> QED
    BY <1>3

\* The same for turns that keep an invariant, which may differ from turn to turn,
\* and may leave C elsewhere.
LEMMA LoopKeeps ==
  ASSUME NEW n \in Nat, NEW C, NEW I \in [0 .. n -> SUBSET C], NEW start \in I[0], NEW turn,
         \A k \in 1 .. n : \A x \in I[k - 1] : turn[k][x] \in I[k]
  PROVE  \E run \in [0 .. n -> C] :
            /\ LoopRun(run, n, start, turn)
            /\ \A k \in 0 .. n : run[k] \in I[k]
  <1> DEFINE tame == [k \in 1 .. n |-> [x \in C |-> IF turn[k][x] \in C THEN turn[k][x] ELSE x]]
  <1>1. 0 \in 0 .. n /\ \A k \in 0 .. n : I[k] \subseteq C
    OBVIOUS
  <1>2. \A k \in 1 .. n : k - 1 \in 0 .. n /\ k \in 0 .. n
    OBVIOUS
  <1>3. tame \in [1 .. n -> [C -> C]]
    OBVIOUS
  <1>4. \A k \in 1 .. n : \A x \in I[k - 1] : tame[k][x] = turn[k][x]
    BY <1>1, <1>2
  <1> HIDE DEF tame
  <1>5. start \in C
    BY <1>1
  <1>6. PICK run \in [0 .. n -> C] : LoopRun(run, n, start, tame)
    BY <1>3, <1>5, LoopRuns
  <1> DEFINE S == {k \in 0 .. n : run[k] \in I[k]}
  <1>7. 0 \in S
    BY <1>1, <1>6 DEF LoopRun
  <1>8. ASSUME NEW k \in 0 .. n - 1, k \in S
        PROVE  k + 1 \in S
    <2>1. k + 1 \in 1 .. n /\ (k + 1) - 1 = k
      OBVIOUS
    <2>2. run[k + 1] = tame[k + 1][run[k]]
      BY <1>6, <2>1 DEF LoopRun
    <2>3. run[k] \in I[k]
      BY <1>8
    <2> QED
      BY <1>2, <1>4, <2>1, <2>2, <2>3
  <1>9. 0 .. n \subseteq S
    <2> HIDE DEF S
    <2> QED
      BY <1>7, <1>8, LoopInduction
  <1>10. LoopRun(run, n, start, turn)
    BY <1>2, <1>4, <1>6, <1>9 DEF LoopRun
  <1> QED
    BY <1>9, <1>10

-----------------------------------------------------------------------------
(***************************************************************************)
(* Counting the elements of a sequence that are in a set.                  *)
(***************************************************************************)
PlacesIn(q, S) == {i \in DOMAIN q : q[i] \in S}
CountIn(q, S) == Cardinality(PlacesIn(q, S))
One(b) == IF b THEN 1 ELSE 0

\* What a sequence over T is.
LEMMA SequenceFacts ==
  ASSUME NEW T, NEW q \in Seq(T)
  PROVE  /\ Len(q) \in Nat /\ DOMAIN q = 1 .. Len(q)
         /\ \A i \in 1 .. Len(q) : q[i] \in T
  OBVIOUS

\* The count is a number up to the length, 0 if no element is in S.
LEMMA CountIsNumber ==
  ASSUME NEW T, NEW q \in Seq(T), NEW S
  PROVE  /\ IsFiniteSet(PlacesIn(q, S))
         /\ CountIn(q, S) \in Nat /\ CountIn(q, S) <= Len(q)
         /\ CountIn(q, S) = 0 <=> \A i \in 1 .. Len(q) : q[i] \notin S
  <1>1. Len(q) \in Nat /\ DOMAIN q = 1 .. Len(q) /\ 0 \in Int
    OBVIOUS
  <1>2. PlacesIn(q, S) \in SUBSET (1 .. Len(q))
    BY <1>1 DEF PlacesIn
  <1>3. IsFiniteSet(1 .. Len(q)) /\ Cardinality(1 .. Len(q)) = Len(q)
    BY <1>1, FS_Interval
  <1>4. IsFiniteSet(PlacesIn(q, S)) /\ Cardinality(PlacesIn(q, S)) <= Len(q)
    BY <1>2, <1>3, FS_Subset
  <1>5. Cardinality(PlacesIn(q, S)) \in Nat
    BY <1>4, FS_CardinalityType
  <1>6. Cardinality(PlacesIn(q, S)) = 0 <=> PlacesIn(q, S) = {}
    BY <1>4, FS_EmptySet
  <1>7. PlacesIn(q, S) = {} <=> \A i \in 1 .. Len(q) : q[i] \notin S
    BY <1>1 DEF PlacesIn
  <1> QED
    BY <1>4, <1>5, <1>6, <1>7 DEF CountIn

\* A sequence of which one element counts.
LEMMA CountAt ==
  ASSUME NEW T, NEW q \in Seq(T), NEW S, NEW i \in 1 .. Len(q)
  PROVE  /\ Cardinality(PlacesIn(q, S) \ {i}) \in Nat
         /\ CountIn(q, S) = Cardinality(PlacesIn(q, S) \ {i}) + One(q[i] \in S)
  <1>1. IsFiniteSet(PlacesIn(q, S)) /\ CountIn(q, S) \in Nat
    BY CountIsNumber
  <1>2. /\ IsFiniteSet(PlacesIn(q, S) \ {i})
        /\ Cardinality(PlacesIn(q, S) \ {i})
             = IF i \in PlacesIn(q, S) THEN Cardinality(PlacesIn(q, S)) - 1
               ELSE Cardinality(PlacesIn(q, S))
    BY <1>1, FS_RemoveElement
  <1>3. Cardinality(PlacesIn(q, S) \ {i}) \in Nat
    BY <1>2, FS_CardinalityType
  <1>4. i \in PlacesIn(q, S) <=> q[i] \in S
    BY DEF PlacesIn
  <1> QED
    BY <1>1, <1>2, <1>3, <1>4 DEF CountIn, One

\* Replacing one element by e.
LEMMA CountReplace ==
  ASSUME NEW T, NEW q \in Seq(T), NEW S, NEW i \in 1 .. Len(q), NEW e \in T
  PROVE  /\ [q EXCEPT ![i] = e] \in Seq(T) /\ Len([q EXCEPT ![i] = e]) = Len(q)
         /\ CountIn([q EXCEPT ![i] = e], S) = CountIn(q, S) - One(q[i] \in S) + One(e \in S)
  <1> DEFINE p == [q EXCEPT ![i] = e]
  <1>1. p \in Seq(T) /\ Len(p) = Len(q) /\ p[i] = e /\ DOMAIN p = DOMAIN q
    OBVIOUS
  <1>2. \A k \in DOMAIN q : k # i => p[k] = q[k]
    OBVIOUS
  <1> HIDE DEF p
  <1>3. PlacesIn(p, S) \ {i} = PlacesIn(q, S) \ {i}
    BY <1>1, <1>2 DEF PlacesIn
  <1>4. /\ Cardinality(PlacesIn(q, S) \ {i}) \in Nat
        /\ CountIn(q, S) = Cardinality(PlacesIn(q, S) \ {i}) + One(q[i] \in S)
    BY CountAt
  <1>5. CountIn(p, S) = Cardinality(PlacesIn(p, S) \ {i}) + One(p[i] \in S)
    <2>1. i \in 1 .. Len(p)
      BY <1>1
    <2> QED
      BY <1>1, <2>1, CountAt
  <1>6. One(q[i] \in S) \in Int /\ One(e \in S) \in Int
    BY DEF One
  <1>7. CountIn(p, S) = CountIn(q, S) - One(q[i] \in S) + One(e \in S)
    <2> DEFINE a == One(q[i] \in S)  b == One(e \in S)  r == Cardinality(PlacesIn(q, S) \ {i})
    <2>1. CountIn(p, S) = r + b
      <3>1. CountIn(p, S) = r + One(p[i] \in S)
        BY <1>3, <1>5
      <3> QED
        BY <1>1, <3>1
    <2>2. CountIn(q, S) = r + a /\ r \in Nat
      BY <1>4
    <2>3. a \in Int /\ b \in Int
      BY <1>6
    <2> HIDE DEF a, b, r
    <2>4. CountIn(p, S) = CountIn(q, S) - a + b
      BY <2>1, <2>2, <2>3
    <2> QED
      BY <2>4 DEF a, b
  <1> QED
    BY <1>1, <1>7 DEF p

\* A mapped sequence.
LEMMA CountSame ==
  ASSUME NEW T, NEW q \in Seq(T), NEW p, NEW S, NEW R, DOMAIN p = DOMAIN q,
         \A i \in 1 .. Len(q) : p[i] \in S <=> q[i] \in R
  PROVE  CountIn(p, S) = CountIn(q, R)
  <1>1. PlacesIn(p, S) = PlacesIn(q, R)
    BY SequenceFacts DEF PlacesIn
  <1> QED
    BY <1>1 DEF CountIn

\* The places of two sequences in a row.
LEMMA CountConcat ==
  ASSUME NEW T, NEW p \in Seq(T), NEW q \in Seq(T), NEW S
  PROVE  CountIn(p \o q, S) = CountIn(p, S) + CountIn(q, S)
  <1> DEFINE n == Len(p)
             A == PlacesIn(p, S)
             B == PlacesIn(q, S)
             C == {n + i : i \in B}
             f == [i \in B |-> n + i]
  <1>1. n \in Nat /\ DOMAIN p = 1 .. n /\ DOMAIN q = 1 .. Len(q) /\ Len(q) \in Nat
    OBVIOUS
  <1>2. /\ p \o q \in Seq(T) /\ DOMAIN (p \o q) = 1 .. n + Len(q)
        /\ \A i \in 1 .. n + Len(q) : (p \o q)[i] = IF i <= n THEN p[i] ELSE q[i - n]
    OBVIOUS
  <1>3. PlacesIn(p \o q, S) = A \cup C
    <2>1. A \cup C \subseteq PlacesIn(p \o q, S)
      BY <1>1, <1>2 DEF PlacesIn
    <2>2. ASSUME NEW i \in PlacesIn(p \o q, S) PROVE i \in A \cup C
      <3>1. i \in 1 .. n + Len(q) /\ (p \o q)[i] \in S
        BY <1>2 DEF PlacesIn
      <3>2. CASE i <= n
        BY <1>1, <1>2, <3>1, <3>2 DEF PlacesIn
      <3>3. CASE ~ (i <= n)
        <4>1. i - n \in B /\ i = n + (i - n)
          BY <1>1, <1>2, <3>1, <3>3 DEF PlacesIn
        <4> QED
          BY <4>1
      <3> QED
        BY <3>2, <3>3
    <2> QED
      BY <2>1, <2>2
  <1>4. IsFiniteSet(A) /\ IsFiniteSet(B) /\ Cardinality(A) \in Nat /\ Cardinality(B) \in Nat
    BY CountIsNumber DEF CountIn
  <1>5. A \subseteq 1 .. n /\ B \subseteq 1 .. Len(q)
    BY <1>1 DEF PlacesIn
  <1>6. A \cap C = {}
    BY <1>1, <1>5
  <1>7. IsFiniteSet(C) /\ Cardinality(C) = Cardinality(B)
    <2>1. f \in Bijection(B, C)
      <3>1. f \in [B -> C]
        OBVIOUS
      <3>2. \A i, j \in B : f[i] = f[j] => i = j
        BY <1>1, <1>5
      <3>3. \A c \in C : \E i \in B : f[i] = c
        OBVIOUS
      <3> QED
        BY <3>1, <3>2, <3>3 DEF Bijection, Injection, Surjection, IsInjective
    <2>2. ExistsBijection(B, C)
      BY <2>1 DEF ExistsBijection
    <2> HIDE DEF B, C
    <2> QED
      BY <1>4, <2>2, FS_Bijection
  <1> HIDE DEF A, B, C
  <1>8. Cardinality(A \cup C) = Cardinality(A) + Cardinality(C) - Cardinality(A \cap C)
    BY <1>4, <1>7, FS_Union
  <1>9. Cardinality(A \cap C) = 0
    BY <1>6, FS_EmptySet
  <1> QED
    BY <1>3, <1>4, <1>7, <1>8, <1>9 DEF CountIn, A, B

\* A sequence of one element.
LEMMA CountSingle ==
  ASSUME NEW T, NEW e \in T, NEW S
  PROVE  <<e>> \in Seq(T) /\ Len(<<e>>) = 1 /\ CountIn(<<e>>, S) = One(e \in S)
  <1>1. <<e>> \in Seq(T) /\ Len(<<e>>) = 1 /\ DOMAIN <<e>> = 1 .. 1 /\ <<e>>[1] = e
    OBVIOUS
  <1>2. PlacesIn(<<e>>, S) = IF e \in S THEN {1} ELSE {}
    BY <1>1 DEF PlacesIn
  <1>3. Cardinality({1}) = 1 /\ Cardinality({}) = 0
    BY FS_Singleton, FS_EmptySet
  <1> QED
    BY <1>1, <1>2, <1>3 DEF CountIn, One

\* One more element at the end.
LEMMA CountAppend ==
  ASSUME NEW T, NEW q \in Seq(T), NEW e \in T, NEW S
  PROVE  /\ Append(q, e) \in Seq(T) /\ Len(Append(q, e)) = Len(q) + 1
         /\ CountIn(Append(q, e), S) = CountIn(q, S) + One(e \in S)
  <1>1. Append(q, e) = q \o <<e>> /\ Append(q, e) \in Seq(T) /\ Len(Append(q, e)) = Len(q) + 1
    BY AppendIsConcat
  <1>2. <<e>> \in Seq(T) /\ CountIn(<<e>>, S) = One(e \in S)
    BY CountSingle
  <1>3. CountIn(q \o <<e>>, S) = CountIn(q, S) + CountIn(<<e>>, S)
    BY <1>2, CountConcat
  <1>4. CountIn(Append(q, e), S) = CountIn(q, S) + One(e \in S)
    BY <1>1, <1>2, <1>3
  <1> QED
    BY <1>1, <1>4

\* A sequence and its two parts.
LEMMA Parts ==
  ASSUME NEW T, NEW q \in Seq(T), NEW n \in 0 .. Len(q)
  PROVE  /\ SubSeq(q, 1, n) \in Seq(T) /\ Len(SubSeq(q, 1, n)) = n
         /\ \A k \in 1 .. n : SubSeq(q, 1, n)[k] = q[k]
         /\ From(q, n + 1) \in Seq(T) /\ Len(From(q, n + 1)) = Len(q) - n
         /\ \A k \in 1 .. Len(q) - n : From(q, n + 1)[k] = q[n + k]
         /\ q = SubSeq(q, 1, n) \o From(q, n + 1)
  <1> DEFINE front == SubSeq(q, 1, n)  back == SubSeq(q, n + 1, Len(q))
  <1>1. Len(q) \in Nat /\ n \in 0 .. Len(q) /\ DOMAIN q = 1 .. Len(q)
    OBVIOUS
  <1>2. \A k \in 1 .. Len(q) : q[k] \in T
    OBVIOUS
  <1>3. front \in Seq(T) /\ Len(front) = n /\ \A k \in 1 .. n : front[k] = q[k]
    <2>1. \A k \in 1 .. n : q[k] \in T
      BY <1>1, <1>2
    <2>2. /\ front \in Seq(T) /\ Len(front) = IF 1 <= n THEN n - 1 + 1 ELSE 0
          /\ \A k \in 1 .. n - 1 + 1 : front[k] = q[1 + k - 1]
      BY <1>1, <2>1, SubSeqProperties
    <2> HIDE DEF front
    <2> QED
      BY <1>1, <2>2
  <1>4. /\ back \in Seq(T) /\ Len(back) = Len(q) - n
        /\ \A k \in 1 .. Len(q) - n : back[k] = q[n + k]
    <2>1. \A k \in n + 1 .. Len(q) : q[k] \in T
      BY <1>1, <1>2
    <2>2. /\ back \in Seq(T)
          /\ Len(back) = IF n + 1 <= Len(q) THEN Len(q) - (n + 1) + 1 ELSE 0
          /\ \A k \in 1 .. Len(q) - (n + 1) + 1 : back[k] = q[n + 1 + k - 1]
      BY <1>1, <2>1, SubSeqProperties
    <2> HIDE DEF back
    <2>3. Len(back) = Len(q) - n
      <3>1. Len(back) = IF n + 1 <= Len(q) THEN Len(q) - (n + 1) + 1 ELSE 0
        BY <2>2
      <3>2. Len(q) \in Nat /\ n \in Nat /\ n <= Len(q)
        BY <1>1
      <3>3. CASE n + 1 <= Len(q)
        BY <3>1, <3>2, <3>3
      <3>4. CASE ~ (n + 1 <= Len(q))
        BY <3>1, <3>2, <3>4
      <3> QED
        BY <3>3, <3>4
    <2>4. ASSUME NEW k \in 1 .. Len(q) - n PROVE back[k] = q[n + k]
      <3>1. k \in 1 .. Len(q) - (n + 1) + 1 /\ n + 1 + k - 1 = n + k
        BY <1>1
      <3> QED
        BY <2>2, <3>1
    <2> QED
      BY <2>2, <2>3, <2>4
  <1> HIDE DEF front, back
  <1>5. /\ front \o back \in Seq(T)
        /\ Len(front \o back) = Len(q)
        /\ \A k \in 1 .. Len(q) :
              (front \o back)[k] = IF k <= n THEN front[k] ELSE back[k - n]
    <2>1. /\ front \o back \in Seq(T) /\ Len(front \o back) = Len(front) + Len(back)
          /\ \A k \in 1 .. Len(front) + Len(back) :
                (front \o back)[k] = IF k <= Len(front) THEN front[k] ELSE back[k - Len(front)]
      BY <1>3, <1>4, ConcatProperties
    <2>2. Len(front) + Len(back) = Len(q)
      BY <1>1, <1>3, <1>4
    <2> QED
      BY <1>3, <2>1, <2>2
  <1>6. \A k \in 1 .. Len(q) : (front \o back)[k] = q[k]
    <2> TAKE k \in 1 .. Len(q)
    <2>1. CASE k <= n
      BY <1>1, <1>3, <1>5, <2>1
    <2>2. CASE ~ (k <= n)
      <3>1. k - n \in 1 .. Len(q) - n /\ n + (k - n) = k
        BY <1>1, <2>2
      <3> QED
        BY <1>4, <1>5, <2>2, <3>1
    <2> QED
      BY <2>1, <2>2
  <1>7. q = front \o back
    BY <1>5, <1>6, SeqEqual
  <1> QED
    BY <1>3, <1>4, <1>7 DEF front, back, From

\* A queue counts as much as its first n elements and the others.
LEMMA CountParts ==
  ASSUME NEW T, NEW q \in Seq(T), NEW n \in 0 .. Len(q), NEW S
  PROVE  CountIn(SubSeq(q, 1, n), S) + CountIn(From(q, n + 1), S) = CountIn(q, S)
  <1> DEFINE front == SubSeq(q, 1, n)  back == From(q, n + 1)
  <1>1. front \in Seq(T) /\ back \in Seq(T) /\ q = front \o back
    BY Parts
  <1> HIDE DEF front, back
  <1>2. CountIn(front \o back, S) = CountIn(front, S) + CountIn(back, S)
    BY <1>1, CountConcat
  <1>3. CountIn(q, S) = CountIn(front, S) + CountIn(back, S)
    BY <1>1, <1>2
  <1> QED
    BY <1>3 DEF front, back

\* Taking out the element at place i.
LEMMA CountRemove ==
  ASSUME NEW T, NEW q \in Seq(T), NEW i \in 1 .. Len(q), NEW S
  PROVE  /\ RemoveAt(q, i) \in Seq(T) /\ Len(RemoveAt(q, i)) = Len(q) - 1
         /\ \A k \in 1 .. Len(q) - 1 :
               RemoveAt(q, i)[k] = IF k < i THEN q[k] ELSE q[k + 1]
         /\ CountIn(RemoveAt(q, i), S) = CountIn(q, S) - One(q[i] \in S)
  <1> DEFINE front == SubSeq(q, 1, i - 1)  back == From(q, i + 1)  rest == From(q, i)
  <1>1. Len(q) \in Nat /\ i \in 1 .. Len(q) /\ i - 1 \in 0 .. Len(q) /\ i \in 0 .. Len(q)
        /\ q[i] \in T /\ (i - 1) + 1 = i
    OBVIOUS
  <1>2. /\ front \in Seq(T) /\ Len(front) = i - 1 /\ \A k \in 1 .. i - 1 : front[k] = q[k]
        /\ rest \in Seq(T) /\ Len(rest) = Len(q) - (i - 1)
        /\ \A k \in 1 .. Len(q) - (i - 1) : rest[k] = q[(i - 1) + k]
        /\ q = front \o rest
    <2> DEFINE j == i - 1
    <2>1. j \in 0 .. Len(q)
      BY <1>1
    <2>2. rest = From(q, j + 1) /\ front = SubSeq(q, 1, j)
      BY <1>1
    <2> HIDE DEF front, rest, j
    <2>3. /\ SubSeq(q, 1, j) \in Seq(T) /\ Len(SubSeq(q, 1, j)) = j
          /\ \A k \in 1 .. j : SubSeq(q, 1, j)[k] = q[k]
          /\ From(q, j + 1) \in Seq(T) /\ Len(From(q, j + 1)) = Len(q) - j
          /\ \A k \in 1 .. Len(q) - j : From(q, j + 1)[k] = q[j + k]
          /\ q = SubSeq(q, 1, j) \o From(q, j + 1)
      BY <2>1, Parts, Zenon
    <2> QED
      BY <2>2, <2>3 DEF j
  <1>3. /\ back \in Seq(T) /\ Len(back) = Len(q) - i
        /\ \A k \in 1 .. Len(q) - i : back[k] = q[i + k]
    BY <1>1, Parts
  <1>4. RemoveAt(q, i) = front \o back
    BY DEF RemoveAt, From
  <1> HIDE DEF front, back, rest
  <1>5. /\ front \o back \in Seq(T) /\ Len(front \o back) = Len(front) + Len(back)
        /\ \A k \in 1 .. Len(front) + Len(back) :
              (front \o back)[k] = IF k <= Len(front) THEN front[k] ELSE back[k - Len(front)]
    <2>1. front \in Seq(T) /\ back \in Seq(T)
      BY <1>2, <1>3
    <2> QED
      BY <2>1, ConcatProperties
  <1>6. ASSUME NEW k \in 1 .. Len(q) - 1
        PROVE  (front \o back)[k] = IF k < i THEN q[k] ELSE q[k + 1]
    <2>1. CASE k < i
      BY <1>1, <1>2, <1>3, <1>5, <2>1
    <2>2. CASE ~ (k < i)
      <3>1. k - (i - 1) \in 1 .. Len(q) - i /\ i + (k - (i - 1)) = k + 1
        BY <1>1, <2>2
      <3>2. (front \o back)[k] = back[k - (i - 1)]
        <4>1. k \in 1 .. Len(front) + Len(back) /\ ~ (k <= Len(front)) /\ Len(front) = i - 1
          BY <1>1, <1>2, <1>3, <2>2
        <4> QED
          BY <1>5, <4>1
      <3> QED
        BY <2>2, <1>3, <3>1, <3>2
    <2> QED
      BY <2>1, <2>2
  <1>7. rest = <<q[i]>> \o back
    <2>1. <<q[i]>> \o back \in Seq(T) /\ Len(<<q[i]>> \o back) = Len(q) - (i - 1)
      BY <1>1, <1>3, CountSingle, ConcatProperties
    <2>2. ASSUME NEW k \in 1 .. Len(rest) PROVE rest[k] = (<<q[i]>> \o back)[k]
      <3>1. (<<q[i]>> \o back)[k] = IF k <= 1 THEN <<q[i]>>[k] ELSE back[k - 1]
        <4>1. <<q[i]>> \in Seq(T) /\ Len(<<q[i]>>) = 1
          BY <1>1
        <4>2. k \in 1 .. Len(<<q[i]>>) + Len(back)
          BY <4>1, <1>1, <1>2, <1>3
        <4> QED
          BY <1>3, <4>1, <4>2, ConcatProperties
      <3>2. rest[k] = q[(i - 1) + k]
        BY <1>2
      <3>3. CASE k <= 1
        <4>1. k = 1 /\ (i - 1) + k = i
          BY <3>3, <1>1, <1>2
        <4> QED
          BY <3>1, <3>2, <4>1
      <3>4. CASE ~ (k <= 1)
        <4>1. k - 1 \in 1 .. Len(q) - i /\ i + (k - 1) = (i - 1) + k
          BY <1>1, <1>2, <3>4
        <4> QED
          BY <1>3, <3>1, <3>2, <3>4, <4>1
      <3> QED
        BY <3>3, <3>4
    <2> QED
      BY <1>2, <2>1, <2>2, SeqEqual
  <1>8. CountIn(q, S) = CountIn(front, S) + (One(q[i] \in S) + CountIn(back, S))
    <2>1. CountIn(q, S) = CountIn(front, S) + CountIn(rest, S)
      BY <1>2, CountConcat
    <2>2. CountIn(<<q[i]>> \o back, S) = CountIn(<<q[i]>>, S) + CountIn(back, S)
      <3>1. <<q[i]>> \in Seq(T)
        BY <1>1
      <3> QED
        BY <1>3, <3>1, CountConcat
    <2>3. CountIn(<<q[i]>>, S) = One(q[i] \in S)
      BY <1>1, CountSingle
    <2> QED
      BY <1>7, <2>1, <2>2, <2>3
  <1>9. CountIn(front \o back, S) = CountIn(front, S) + CountIn(back, S)
    BY <1>2, <1>3, CountConcat
  <1>10. CountIn(front, S) \in Nat /\ CountIn(back, S) \in Nat /\ CountIn(q, S) \in Nat
    BY <1>2, <1>3, CountIsNumber
  <1>11. CountIn(front \o back, S) = CountIn(q, S) - One(q[i] \in S)
    BY <1>8, <1>9, <1>10 DEF One
  <1>12. Len(front \o back) = Len(q) - 1
    BY <1>1, <1>2, <1>3, <1>5
  <1>13. \A k \in 1 .. Len(q) - 1 : (front \o back)[k] = IF k < i THEN q[k] ELSE q[k + 1]
    BY <1>6
  <1> QED
    BY <1>4, <1>5, <1>11, <1>12, <1>13, Zenon

-----------------------------------------------------------------------------
(***************************************************************************)
(* Those, the first place of a set, and loops.                             *)
(***************************************************************************)

\* What is kept is of the set, as many as there are, and counts as the sequence
\* does within the set.
ThoseFits(T, q, K) ==
  /\ Those(q, K) \in Seq(T \cap K)
  /\ Len(Those(q, K)) = CountIn(q, K)
  /\ \A S : CountIn(Those(q, K), S) = CountIn(q, K \cap S)

\* The loop keeps the elements of the set.
LEMMA ThoseAre ==
  ASSUME NEW T, NEW q \in Seq(T), NEW K
  PROVE  ThoseFits(T, q, K)
  <1> DEFINE n == Len(q)
             kept[k \in 0 .. n] ==
               IF k = 0 THEN <<>>
               ELSE IF q[k] \in K THEN Append(kept[k - 1], q[k]) ELSE kept[k - 1]
             Body(g) == [k \in 0 .. n |->
               IF k = 0 THEN <<>>
               ELSE IF q[k] \in K THEN Append(g[k - 1], q[k]) ELSE g[k - 1]]
             C == Seq(T \cap K)
             I == [k \in 0 .. n |-> C]
             turn == [k \in 1 .. n |-> [s \in C |-> IF q[k] \in K THEN Append(s, q[k]) ELSE s]]
             front(k) == SubSeq(q, 1, k)
  <1>1. n \in Nat /\ \A k \in 1 .. n : q[k] \in T
    OBVIOUS
  <1>2. ASSUME NEW k \in 1 .. n, NEW s \in I[k - 1]
        PROVE  turn[k][s] \in I[k]
    <2>1. k - 1 \in 0 .. n /\ k \in 0 .. n
      BY <1>1
    <2>2. s \in C /\ I[k] = C
      BY <2>1
    <2>3. turn[k][s] = IF q[k] \in K THEN Append(s, q[k]) ELSE s
      BY <2>2
    <2>4. q[k] \in K => q[k] \in T \cap K
      BY <1>1
    <2> HIDE DEF turn, I, n
    <2>5. CASE q[k] \in K
      <3>1. Append(s, q[k]) \in C
        BY <2>2, <2>4, <2>5, AppendProperties
      <3> QED
        BY <2>2, <2>3, <2>5, <3>1
    <2>6. CASE q[k] \notin K
      BY <2>2, <2>3, <2>6
    <2> QED
      BY <2>5, <2>6
  <1>3. <<>> \in I[0] /\ I \in [0 .. n -> SUBSET C]
    BY <1>1
  <1>4. PICK run \in [0 .. n -> C] :
           /\ run[0] = <<>>
           /\ \A k \in 1 .. n : run[k] = turn[k][run[k - 1]]
    <2> HIDE DEF I, turn, n, C
    <2>1. \E run \in [0 .. n -> C] :
            /\ LoopRun(run, n, <<>>, turn)
            /\ \A k \in 0 .. n : run[k] \in I[k]
      BY <1>1, <1>2, <1>3, LoopKeeps
    <2> QED
      BY <2>1 DEF LoopRun
  <1>5. run = Body(run)
    <2>1. \A k \in 0 .. n : run[k] = IF k = 0 THEN <<>>
               ELSE IF q[k] \in K THEN Append(run[k - 1], q[k]) ELSE run[k - 1]
      <3> TAKE k \in 0 .. n
      <3>1. CASE k = 0
        BY <1>4, <3>1
      <3>2. CASE k # 0
        <4>1. k \in 1 .. n /\ k - 1 \in 0 .. n /\ run[k - 1] \in C
          BY <1>1, <1>4, <3>2
        <4>2. turn[k][run[k - 1]]
                = IF q[k] \in K THEN Append(run[k - 1], q[k]) ELSE run[k - 1]
          BY <4>1
        <4> QED
          BY <1>4, <3>2, <4>1, <4>2
      <3> QED
        BY <3>1, <3>2
    <2> QED
      BY <2>1
  <1>6. kept = CHOOSE g : g = Body(g)
    OBVIOUS
  <1>7. Those(q, K) = kept[n]
    BY DEF Those
  <1> HIDE DEF kept
  <1>8. kept = Body(kept)
    <2> HIDE DEF Body
    <2> QED
      BY <1>5, <1>6
  <1> DEFINE S == {k \in 0 .. n :
                     /\ kept[k] \in C
                     /\ Len(kept[k]) = CountIn(front(k), K)
                     /\ \A R : CountIn(kept[k], R) = CountIn(front(k), K \cap R)}
  <1>9. 0 \in S
    <2>1. kept[0] = <<>> /\ <<>> \in C /\ Len(<<>>) = 0 /\ 0 \in 0 .. n
      BY <1>1, <1>8
    <2>2. front(0) = <<>>
      OBVIOUS
    <2>3. \A R : CountIn(<<>>, R) = 0
      <3> TAKE R
      <3>1. PlacesIn(<<>>, R) = {}
        BY DEF PlacesIn
      <3> QED
        BY <3>1, FS_EmptySet DEF CountIn
    <2> HIDE DEF front
    <2> QED
      BY <2>1, <2>2, <2>3
  <1>10. ASSUME NEW k \in 0 .. n - 1, k \in S PROVE k + 1 \in S
    <2> DEFINE e == q[k + 1]
    <2>1. k + 1 \in 0 .. n /\ k + 1 # 0 /\ (k + 1) - 1 = k /\ k \in 0 .. n /\ e \in T
      BY <1>1
    <2>2. kept[k + 1] = IF e \in K THEN Append(kept[k], e) ELSE kept[k]
      BY <1>8, <2>1
    <2>3. front(k) \in Seq(T)
      BY <2>1, Parts
    <2>4. front(k + 1) = Append(front(k), e)
      <3>1. front(k + 1) \in Seq(T) /\ Len(front(k + 1)) = k + 1
            /\ \A i \in 1 .. k + 1 : front(k + 1)[i] = q[i]
        BY <2>1, Parts
      <3>2. Len(front(k)) = k /\ \A i \in 1 .. k : front(k)[i] = q[i]
        BY <2>1, Parts
      <3> HIDE DEF front
      <3>3. /\ Append(front(k), e) \in Seq(T) /\ Len(Append(front(k), e)) = k + 1
            /\ \A i \in 1 .. k + 1 : Append(front(k), e)[i] = IF i = k + 1 THEN e ELSE front(k)[i]
        BY <2>1, <2>3, <3>2, AppendProperties
      <3>4. \A i \in 1 .. k + 1 : Append(front(k), e)[i] = front(k + 1)[i]
        BY <2>1, <3>1, <3>2, <3>3
      <3> QED
        BY <3>1, <3>3, <3>4, SeqEqual
    <2>5. /\ kept[k] \in C /\ Len(kept[k]) = CountIn(front(k), K)
          /\ \A R : CountIn(kept[k], R) = CountIn(front(k), K \cap R)
      BY <1>10
    <2>6. \A R : CountIn(front(k + 1), R) = CountIn(front(k), R) + One(e \in R)
      <3> TAKE R
      <3> HIDE DEF front, e
      <3>1. CountIn(Append(front(k), e), R) = CountIn(front(k), R) + One(e \in R)
        BY <2>1, <2>3, CountAppend
      <3> QED
        BY <2>4, <3>1
    <2>7. \A R : CountIn(front(k), R) \in Nat
      BY <2>3, CountIsNumber
    <2> HIDE DEF front, e
    <2>8. CASE e \in K
      <3>1. kept[k + 1] = Append(kept[k], e) /\ e \in T \cap K
        BY <2>1, <2>2, <2>8
      <3>2. /\ Append(kept[k], e) \in C /\ Len(Append(kept[k], e)) = Len(kept[k]) + 1
            /\ \A R : CountIn(Append(kept[k], e), R) = CountIn(kept[k], R) + One(e \in R)
        BY <2>5, <3>1, CountAppend
      <3>3. \A R : One(e \in K \cap R) = One(e \in R)
        BY <2>8 DEF One
      <3>4. \A R : CountIn(kept[k + 1], R) = CountIn(front(k + 1), K \cap R)
        BY <2>5, <2>6, <3>1, <3>2, <3>3
      <3>5. Len(kept[k + 1]) = CountIn(front(k + 1), K)
        <4>1. One(e \in K) = 1
          BY <2>8 DEF One
        <4> QED
          BY <2>5, <2>6, <3>1, <3>2, <4>1
      <3> QED
        BY <2>1, <3>1, <3>2, <3>4, <3>5
    <2>9. CASE e \notin K
      <3>1. kept[k + 1] = kept[k]
        BY <2>2, <2>9
      <3>2. \A R : One(e \in K \cap R) = 0
        BY <2>9 DEF One
      <3>3. One(e \in K) = 0
        BY <2>9 DEF One
      <3>4. \A R : CountIn(front(k + 1), K \cap R) = CountIn(front(k), K \cap R)
        <4> TAKE R
        <4>1. CountIn(front(k + 1), K \cap R) = CountIn(front(k), K \cap R) + 0
          BY <2>6, <3>2
        <4>2. CountIn(front(k), K \cap R) \in Nat
          BY <2>7
        <4> QED
          BY <4>1, <4>2
      <3>5. CountIn(front(k + 1), K) = CountIn(front(k), K)
        <4>1. CountIn(front(k + 1), K) = CountIn(front(k), K) + 0
          BY <2>6, <3>3
        <4>2. CountIn(front(k), K) \in Nat
          BY <2>7
        <4> QED
          BY <4>1, <4>2
      <3> QED
        BY <2>1, <2>5, <3>1, <3>4, <3>5
    <2> QED
      BY <2>8, <2>9
  <1>11. 0 .. n \subseteq S
    <2> HIDE DEF S
    <2> QED
      BY <1>1, <1>9, <1>10, LoopInduction
  <1>12. n \in S /\ front(n) = q
    <2>1. n \in 0 .. n
      BY <1>1
    <2>2. front(n) = q
      BY SubSeqFull
    <2> HIDE DEF S, front
    <2> QED
      BY <1>11, <2>1, <2>2
  <1> HIDE DEF front
  <1>13. /\ kept[n] \in Seq(T \cap K) /\ Len(kept[n]) = CountIn(q, K)
         /\ \A R : CountIn(kept[n], R) = CountIn(q, K \cap R)
    BY <1>12
  <1> QED
    BY <1>7, <1>13 DEF ThoseFits

\* What is kept, as many as there are of the set.
LEMMA ThoseFit ==
  ASSUME NEW T, NEW q \in Seq(T), NEW K
  PROVE  Those(q, K) \in Seq(T \cap K) /\ Len(Those(q, K)) = CountIn(q, K)
  <1>1. ThoseFits(T, q, K)
    BY ThoseAre
  <1> QED
    BY <1>1 DEF ThoseFits

\* What is kept is of the sequence, and in its order everything that counts is kept.
LEMMA ThoseElements ==
  ASSUME NEW T, NEW q \in Seq(T), NEW K, NEW e
  PROVE  e \in ToSet(Those(q, K)) <=> e \in ToSet(q) /\ e \in K
  <1> DEFINE p == Those(q, K)
  <1>1. p \in Seq(T \cap K) /\ CountIn(p, {e}) = CountIn(q, K \cap {e})
    <2>1. ThoseFits(T, q, K)
      BY ThoseAre
    <2> QED
      BY <2>1 DEF ThoseFits
  <1> HIDE DEF p
  <1>2. CountIn(p, {e}) = 0 <=> \A i \in 1 .. Len(p) : p[i] \notin {e}
    BY <1>1, CountIsNumber
  <1>3. CountIn(q, K \cap {e}) = 0 <=> \A i \in 1 .. Len(q) : q[i] \notin K \cap {e}
    BY CountIsNumber
  <1>4. e \in ToSet(p) <=> \E i \in 1 .. Len(p) : p[i] = e
    BY <1>1 DEF ToSet
  <1>5. e \in ToSet(q) <=> \E i \in 1 .. Len(q) : q[i] = e
    BY DEF ToSet
  <1> QED
    BY <1>1, <1>2, <1>3, <1>4, <1>5 DEF p

\* A queue that is split counts as much as before.
LEMMA SplitCount ==
  ASSUME NEW T, NEW q \in Seq(T), NEW K, NEW S
  PROVE  /\ Those(q, K) \in Seq(T) /\ Those(q, ToSet(q) \ K) \in Seq(T)
         /\ Len(Those(q, K)) + Len(Those(q, ToSet(q) \ K)) = Len(q)
         /\ CountIn(Those(q, K), S) + CountIn(Those(q, ToSet(q) \ K), S) = CountIn(q, S)
  <1> DEFINE L == ToSet(q) \ K
  <1>1. /\ Those(q, K) \in Seq(T \cap K) /\ Len(Those(q, K)) = CountIn(q, K)
        /\ CountIn(Those(q, K), S) = CountIn(q, K \cap S)
    <2>1. ThoseFits(T, q, K)
      BY ThoseAre
    <2> HIDE DEF L
    <2> QED
      BY <2>1 DEF ThoseFits
  <1>2. /\ Those(q, L) \in Seq(T \cap L) /\ Len(Those(q, L)) = CountIn(q, L)
        /\ CountIn(Those(q, L), S) = CountIn(q, L \cap S)
    <2> HIDE DEF L
    <2>1. ThoseFits(T, q, L)
      BY ThoseAre
    <2> QED
      BY <2>1 DEF ThoseFits
  <1>3. \A A : A \subseteq T => Seq(A) \subseteq Seq(T)
    BY SeqMonotonic
  <1>4. Those(q, K) \in Seq(T) /\ Those(q, L) \in Seq(T)
    BY <1>1, <1>2, <1>3
  <1>5. ASSUME NEW R
        PROVE  CountIn(q, K \cap R) + CountIn(q, L \cap R) = CountIn(q, R)
    <2> DEFINE A == PlacesIn(q, K \cap R)  B == PlacesIn(q, L \cap R)
    <2>1. IsFiniteSet(A) /\ IsFiniteSet(B) /\ Cardinality(A) \in Nat /\ Cardinality(B) \in Nat
      BY CountIsNumber DEF CountIn
    <2>2. A \cap B = {}
      BY DEF PlacesIn
    <2>3. A \cup B = PlacesIn(q, R)
      BY DEF PlacesIn, ToSet
    <2> HIDE DEF A, B
    <2>4. Cardinality(A \cup B) = Cardinality(A) + Cardinality(B) - Cardinality(A \cap B)
      BY <2>1, FS_Union
    <2>5. Cardinality(A \cap B) = 0
      BY <2>2, FS_EmptySet
    <2> DEFINE a == Cardinality(A)  b == Cardinality(B)
    <2>6. a + b = Cardinality(PlacesIn(q, R))
      <3>1. Cardinality(A \cup B) = a + b - 0 /\ a \in Nat /\ b \in Nat
        BY <2>1, <2>4, <2>5
      <3>2. Cardinality(PlacesIn(q, R)) = a + b - 0
        BY <2>3, <3>1
      <3> HIDE DEF a, b
      <3> QED
        BY <3>1, <3>2
    <2> QED
      BY <2>6, Zenon DEF CountIn, A, B
  <1>6. CountIn(q, K) + CountIn(q, L) = Len(q)
    <2>1. CountIn(q, K \cap T) + CountIn(q, L \cap T) = CountIn(q, T)
      BY <1>5
    <2>2. PlacesIn(q, K \cap T) = PlacesIn(q, K) /\ PlacesIn(q, L \cap T) = PlacesIn(q, L)
      BY SequenceFacts DEF PlacesIn
    <2>3. PlacesIn(q, T) = 1 .. Len(q)
      BY SequenceFacts DEF PlacesIn
    <2>4. Cardinality(1 .. Len(q)) = Len(q)
      <3>1. Len(q) \in Nat /\ 1 \in Int
        OBVIOUS
      <3>2. Cardinality(1 .. Len(q)) = IF 1 > Len(q) THEN 0 ELSE Len(q) - 1 + 1
        BY <3>1, FS_Interval
      <3> QED
        BY <3>1, <3>2
    <2> QED
      BY <2>1, <2>2, <2>3, <2>4 DEF CountIn
  <1> HIDE DEF L
  <1>7. CountIn(q, K \cap S) + CountIn(q, L \cap S) = CountIn(q, S)
    BY <1>5
  <1> QED
    BY <1>1, <1>2, <1>4, <1>6, <1>7 DEF L

\* The first of some places, 0 if there are none (SelectInSeq).
First(I) == IF I # {} THEN Min(I) ELSE 0

\* The first place is one of the places, and none is before it.
LEMMA FirstPlace ==
  ASSUME NEW n \in Nat, NEW I \in SUBSET (1 .. n)
  PROVE  /\ First(I) \in 0 .. n
         /\ First(I) = 0 => I = {}
         /\ First(I) # 0 => First(I) \in I /\ \A j \in I : First(I) <= j
  <1>1. CASE I # {}
    <2>1. I \in SUBSET Nat
      OBVIOUS
    <2>2. \E k \in I : \A j \in I : k <= j
      BY <1>1, <2>1, LeastNatural
    <2>3. Min(I) \in I /\ \A j \in I : Min(I) <= j
      BY <2>2, Zenon DEF Min
    <2>4. First(I) = Min(I)
      BY <1>1, Zenon DEF First
    <2> DEFINE m == Min(I)
    <2> HIDE DEF m
    <2>5. m \in I /\ (\A j \in I : m <= j) /\ First(I) = m
      BY <2>3, <2>4 DEF m
    <2> QED
      BY <2>5
  <1>2. CASE I = {}
    BY <1>2 DEF First
  <1> QED
    BY <1>1, <1>2

\* The first elements of a queue that are all in S.
LEMMA SpanFits ==
  ASSUME NEW T, NEW q \in Seq(T), NEW n \in Nat, NEW S
  PROVE  /\ SpanLength(q, n, S) \in 0 .. n /\ SpanLength(q, n, S) \in 0 .. Len(q)
         /\ \A i \in 1 .. SpanLength(q, n, S) : q[i] \in S
  <1> DEFINE I == {i \in 1 .. Len(q) : q[i] \notin S}
             first == First(I)
  <1>1. Len(q) \in Nat /\ I \in SUBSET (1 .. Len(q))
    OBVIOUS
  <1>2. /\ first \in 0 .. Len(q) /\ (first = 0 => I = {})
        /\ (first # 0 => first \in I /\ \A j \in I : first <= j)
    <2> HIDE DEF I
    <2> QED
      BY <1>1, FirstPlace
  <1>3. SpanLength(q, n, S) = Least(IF first = 0 THEN Len(q) ELSE first - 1, n)
    BY Zenon DEF SpanLength, SelectInSeq, First
  <1> HIDE DEF first
  <1>4. CASE first = 0
    BY <1>1, <1>2, <1>3, <1>4 DEF Least
  <1>5. CASE first # 0
    <2>1. first \in 1 .. Len(q) /\ \A i \in 1 .. first - 1 : q[i] \in S
      BY <1>1, <1>2, <1>5
    <2>2. SpanLength(q, n, S) \in 0 .. n /\ SpanLength(q, n, S) <= first - 1
      BY <1>1, <1>3, <1>5, <2>1 DEF Least
    <2> QED
      BY <1>1, <1>3, <1>5, <2>1, <2>2 DEF Least
  <1> QED
    BY <1>4, <1>5

-----------------------------------------------------------------------------
(***************************************************************************)
(* The inductive invariant, of a cache k (its kind) whose upper levels     *)
(* have sent n requests.  The state is a record as inside a cycle.         *)
(***************************************************************************)
UppersOn(k) == 1 .. UppersOf[k]
Ids(k, n) == [upper : UppersOn(k), block : Nat, n : 1 .. n]
Types == {"LOAD", "WRITE", "PREFETCH"}
Queues == {"wq", "rq", "pq"}

\* Requests in the channel of upper level u.
Reqs(k, n, u) ==
  {r \in [addr : Addresses[k], type : Types, ids : SUBSET Ids(k, n),
          wants : BOOLEAN, translated : BOOLEAN, checked : BOOLEAN] :
     /\ \A id \in r.ids : id.upper = u
     /\ ~ r.wants => r.ids = {}}
WriteReqs(k, n, u) == {r \in Reqs(k, n, u) : r.type = "WRITE" /\ r.ids = {}}
ReadReqs(k, n, u) == {r \in Reqs(k, n, u) : r.type # "WRITE"}
ReqsOf(k, n, u, name) == IF name = "wq" THEN WriteReqs(k, n, u) ELSE ReadReqs(k, n, u)

\* Elements of tags, stash and pq.  What waits for a load also tells whom to answer.
Entries(k, n) ==
  {e \in [block : Blocks, type : Types, local : BOOLEAN, skip : BOOLEAN,
          translated : BOOLEAN, issued : BOOLEAN, wait : 0 .. HitLatency,
          ids : SUBSET Ids(k, n), to : SUBSET UppersOn(k)] :
     /\ \A id \in e.ids : id.upper \in e.to
     /\ e.local => e.type = "PREFETCH" /\ e.ids = {} /\ e.translated
     /\ e.type = "WRITE" => e.ids = {}}

\* Elements of mshrs and writes.
Misses(k, n) ==
  {m \in [block : Blocks, type : Types, local : BOOLEAN, wait : {Unknown} \cup 0 .. FillLatency,
          ids : SUBSET Ids(k, n), to : SUBSET UppersOn(k)] :
     /\ \A id \in m.ids : id.upper \in m.to
     /\ m.local => m.type = "PREFETCH"}

Packets == [block : Blocks, wants : BOOLEAN]
LineStates == {l \in [valid : BOOLEAN, block : Nat, dirty : BOOLEAN, prefetch : BOOLEAN] :
                 l.valid => l.block \in Blocks}
SetIds == 0 .. NumSet - 1
Ways == 1 .. NumWay

Having(T, id) == {x \in T : id \in x.ids}
Locals(T) == {x \in T : x.local}
WritesOf(T, b) == {x \in T : x.type = "WRITE" /\ x.block = b}
WritesTo(T, b) == {x \in T : x.type = "WRITE" /\ BlockOf(x.addr) = b}
Wanting(b) == {r \in Packets : r.block = b /\ r.wants}
Awaiting(T, b) == {m \in T : m.block = b /\ m.wait = Unknown}
Prefetched(ls) == {x \in SetIds \X Ways : ls[x[1]][x[2]].valid /\ ls[x[1]][x[2]].prefetch}

Cycles(k) == 0 .. Greatest(UppersOf[k], 2) - 1

IsState(s) ==
  s = [clock |-> s.clock, uppers |-> s.uppers, pq |-> s.pq, tags |-> s.tags,
       stash |-> s.stash, mshrs |-> s.mshrs, writes |-> s.writes, lines |-> s.lines,
       lru |-> s.lru, lower |-> s.lower, tlb |-> s.tlb, stats |-> s.stats, owed |-> s.owed]

ChannelFits(k, n, u, ch) ==
  /\ ch = [wq |-> ch.wq, rq |-> ch.rq, pq |-> ch.pq]
  /\ \A name \in Queues : ch[name] \in Seq(ReqsOf(k, n, u, name)) /\ Len(ch[name]) <= QueueSize

UppersFit(k, n, up) ==
  /\ up = [u \in UppersOn(k) |-> up[u]]
  /\ \A u \in UppersOn(k) : ChannelFits(k, n, u, up[u])

TranslatedFirst(q) == \A i, j \in DOMAIN q : i < j /\ q[j].translated => q[i].translated

QueuesFit(k, n, s) ==
  /\ s.pq \in Seq(Locals(Entries(k, n))) /\ Len(s.pq) <= PqSize
  /\ s.tags \in Seq(Entries(k, n))
  /\ s.stash \in Seq(Entries(k, n) \ Locals(Entries(k, n))) /\ TranslatedFirst(s.stash)

\* Distinct blocks, and those that have returned first, as they become ready.
Ordered(q) ==
  \A i, j \in DOMAIN q :
    i < j => /\ q[i].block # q[j].block
             /\ q[j].wait # Unknown => q[i].wait # Unknown /\ q[i].wait <= q[j].wait

MshrsFit(k, n, q) ==
  /\ q \in Seq(Misses(k, n)) /\ Len(q) <= MshrSize[k] /\ Ordered(q)
  /\ k = "L2C" => \A i \in DOMAIN q : q[i].type # "WRITE"

WritesFit(k, n, q) ==
  /\ q \in Seq(Misses(k, n))
  /\ \A i \in DOMAIN q : q[i].wait # Unknown /\ q[i].type = "WRITE"

LinesFit(ls) == ls \in [SetIds -> [Ways -> LineStates]]

OrderFits(o) == o \in Seq(Ways) /\ \A w \in Ways : \E i \in DOMAIN o : o[i] = w
LruFits(order) == order = [k \in SetIds |-> order[k]] /\ \A k \in SetIds : OrderFits(order[k])

LowerFits(l) ==
  /\ l = [wq |-> l.wq, rq |-> l.rq, pq |-> l.pq, returned |-> l.returned, working |-> l.working]
  /\ l.wq \in Seq([block : Blocks]) /\ Len(l.wq) <= LowerSize
  /\ l.rq \in Seq(Packets) /\ Len(l.rq) <= LowerSize
  /\ l.pq \in Seq(Packets) /\ Len(l.pq) <= LowerSize
  /\ l.returned \in Seq(Blocks)
  /\ l.working \in [Blocks -> Nat]

TlbFits(t) ==
  /\ t = [rq |-> t.rq, returned |-> t.returned]
  /\ t.rq \in Seq(Pages) /\ Len(t.rq) <= TlbSize
  /\ t.returned \in Seq(Pages)

\* How many of the tag checks, of those in the stash and of the prefetches are in S.
Checks(s, S) == CountIn(s.pq, S) + CountIn(s.tags, S) + CountIn(s.stash, S)

LocalSum(k, n, s) ==
  Checks(s, Locals(Entries(k, n))) + CountIn(s.mshrs, Locals(Misses(k, n)))
    + Cardinality(Prefetched(s.lines))

StatsFit(k, n, s) ==
  /\ s.stats \in [issued : Nat, useful : Nat, useless : Nat]
  /\ s.stats.useful + s.stats.useless + LocalSum(k, n, s) <= s.stats.issued

BelowOf(l, b) ==
  CountIn(l.rq, Wanting(b)) + CountIn(l.pq, Wanting(b)) + l.working[b] + CountIn(l.returned, {b})

Balanced(k, n, s) ==
  \A b \in Blocks : BelowOf(s.lower, b) = CountIn(s.mshrs, Awaiting(Misses(k, n), b))

Waiting(k, n, up, id) ==
  LET S == Having(ReadReqs(k, n, id.upper), id)
  IN  CountIn(up[id.upper].rq, S) + CountIn(up[id.upper].pq, S)

PlacesOf(k, n, s, id) ==
  Waiting(k, n, s.uppers, id) + Checks(s, Having(Entries(k, n), id))
    + CountIn(s.mshrs, Having(Misses(k, n), id))

OwedFits(k, n, s) == s.owed \subseteq Ids(k, n) /\ \A id \in s.owed : PlacesOf(k, n, s, id) = 1

Sound(k, n, s) ==
  /\ k \in Kinds /\ n \in Nat
  /\ IsState(s)
  /\ s.clock \in Cycles(k)
  /\ UppersFit(k, n, s.uppers) /\ QueuesFit(k, n, s)
  /\ MshrsFit(k, n, s.mshrs) /\ WritesFit(k, n, s.writes)
  /\ LinesFit(s.lines) /\ LruFits(s.lru)
  /\ LowerFits(s.lower) /\ TlbFits(s.tlb)
  /\ StatsFit(k, n, s) /\ Balanced(k, n, s) /\ OwedFits(k, n, s)

DirtyIn(ls, b) ==
  \E w \in Ways : LET line == ls[SetOf(b)][w] IN line.valid /\ line.dirty /\ line.block = b

\* A write of block b has been kept, or has gone below.
Kept(k, n, s, b) ==
  \/ \E u \in UppersOn(k) : CountIn(s.uppers[u].wq, WritesTo(WriteReqs(k, n, u), b)) > 0
  \/ Checks(s, WritesOf(Entries(k, n), b)) > 0
  \/ CountIn(s.writes, WritesOf(Misses(k, n), b)) > 0
  \/ DirtyIn(s.lines, b)
  \/ CountIn(s.lower.wq, {[block |-> b]}) > 0

AllKept(k, n, s, D) == k = "L2C" => \A b \in D \cap Blocks : Kept(k, n, s, b)

Now ==
  [clock |-> clock, uppers |-> uppers, pq |-> pq, tags |-> tags, stash |-> stash,
   mshrs |-> mshrs, writes |-> writes, lines |-> lines, lru |-> lru,
   lower |-> lower, tlb |-> tlb, stats |-> stats, owed |-> owed]

IInv ==
  /\ Sound(kind, sent, Now)
  /\ Len(tags) <= MaxTag * HitLatency

Fine(k, n, D, s) == Sound(k, n, s) /\ AllKept(k, n, s, D)

-----------------------------------------------------------------------------
(***************************************************************************)
(* Steps that move entries between tags, stash and pq, or change what does *)
(* not tell them apart.                                                    *)
(***************************************************************************)
\* The parameters are numbers (CacheAssumption).
LEMMA Numbers ==
  /\ {BlockSize, PageSize, NumSet, NumWay, QueueSize, LowerSize,
      HitLatency, MaxTag, MaxFill} \subseteq Nat \ {0}
  /\ {PqSize, TlbSize, FillLatency} \subseteq Nat
  /\ \A k \in Kinds : UppersOf[k] \in Nat \ {0} /\ MshrSize[k] \in Nat \ {0}
  BY CacheAssumption

Alike(x, y) == x.block = y.block /\ x.type = y.type /\ x.local = y.local /\ x.ids = y.ids
Closed(T, S) == \A x, y \in T : Alike(x, y) => (x \in S <=> y \in S)

\* What the invariant counts does not tell apart elements that are alike.
LEMMA ClosedSets ==
  ASSUME NEW T
  PROVE  /\ Closed(T, Locals(T))
         /\ \A id : Closed(T, Having(T, id))
         /\ \A b : Closed(T, WritesOf(T, b))
  BY DEF Closed, Alike, Locals, Having, WritesOf

Moved(k, n, s, new) ==
  /\ IsState(new) /\ QueuesFit(k, n, new) /\ TlbFits(new.tlb)
  /\ new.clock = s.clock /\ new.uppers = s.uppers
  /\ new.mshrs = s.mshrs /\ new.writes = s.writes /\ new.lines = s.lines
  /\ new.lru = s.lru /\ new.lower = s.lower /\ new.stats = s.stats /\ new.owed = s.owed
  /\ \A S : Closed(Entries(k, n), S) => Checks(new, S) = Checks(s, S)

\* A step that only moves entries keeps what the invariant says.
LEMMA MovedIsFine ==
  ASSUME NEW k, NEW n, NEW D, NEW s, NEW new, Fine(k, n, D, s), Moved(k, n, s, new)
  PROVE  Fine(k, n, D, new)
  <1> DEFINE T == Entries(k, n)
  <1>1. /\ Checks(new, Locals(T)) = Checks(s, Locals(T))
        /\ \A id : Checks(new, Having(T, id)) = Checks(s, Having(T, id))
        /\ \A b : Checks(new, WritesOf(T, b)) = Checks(s, WritesOf(T, b))
    <2> HIDE DEF T
    <2>1. \A S : Closed(T, S) => Checks(new, S) = Checks(s, S)
      BY DEF Moved, T
    <2> QED
      BY <2>1, ClosedSets
  <1>2. LocalSum(k, n, new) = LocalSum(k, n, s)
    BY <1>1, Zenon DEF LocalSum, Moved
  <1>3. StatsFit(k, n, new)
    BY <1>2, Zenon DEF StatsFit, Fine, Sound, Moved
  <1>4. Balanced(k, n, new)
    BY Zenon DEF Balanced, Fine, Sound, Moved
  <1>5. OwedFits(k, n, new)
    <2>1. \A id : PlacesOf(k, n, new, id) = PlacesOf(k, n, s, id)
      BY <1>1, Zenon DEF PlacesOf, Moved
    <2> QED
      BY <2>1, Zenon DEF OwedFits, Fine, Sound, Moved
  <1>6. Sound(k, n, new)
    BY <1>3, <1>4, <1>5, Zenon DEF Sound, Fine, Moved
  <1>7. \A b : Kept(k, n, s, b) => Kept(k, n, new, b)
    BY <1>1 DEF Kept, Moved
  <1> QED
    BY <1>6, <1>7 DEF Fine, AllKept

\* Moving the first entries of the stash, or of the prefetches, to the tag checks.
LEMMA AgainCount ==
  ASSUME NEW T, NEW q \in Seq(T), NEW m \in 0 .. Len(q), NEW S, NEW p \in Seq(T),
         Len(p) = m, Closed(T, S), \A i \in 1 .. m : Alike(p[i], q[i])
  PROVE  CountIn(p, S) + CountIn(From(q, m + 1), S) = CountIn(q, S)
  <1>1. /\ SubSeq(q, 1, m) \in Seq(T) /\ Len(SubSeq(q, 1, m)) = m
        /\ \A i \in 1 .. m : SubSeq(q, 1, m)[i] = q[i]
    BY Parts
  <1>2. CountIn(p, S) = CountIn(SubSeq(q, 1, m), S)
    <2> DEFINE front == SubSeq(q, 1, m)
    <2> HIDE DEF front
    <2>1. front \in Seq(T) /\ Len(front) = m /\ \A i \in 1 .. m : front[i] = q[i]
      BY <1>1 DEF front
    <2>2. DOMAIN p = DOMAIN front
      BY <2>1
    <2>3. \A i \in 1 .. Len(front) : p[i] \in S <=> front[i] \in S
      <3> TAKE i \in 1 .. Len(front)
      <3>1. p[i] \in T /\ q[i] \in T /\ Alike(p[i], q[i]) /\ front[i] = q[i]
        BY <2>1
      <3> QED
        BY <3>1 DEF Closed
    <2>4. CountIn(p, S) = CountIn(front, S)
      BY <2>1, <2>2, <2>3, CountSame
    <2> QED
      BY <2>4 DEF front
  <1> QED
    BY <1>2, CountParts

\* A sequence whose elements are replaced by elements alike counts the same.
LEMMA MappedCount ==
  ASSUME NEW T, NEW q \in Seq(T), NEW p \in Seq(T), NEW S,
         Len(p) = Len(q), Closed(T, S), \A i \in 1 .. Len(q) : Alike(p[i], q[i])
  PROVE  CountIn(p, S) = CountIn(q, S)
  <1>1. DOMAIN p = DOMAIN q
    OBVIOUS
  <1>2. \A i \in 1 .. Len(q) : p[i] \in S <=> q[i] \in S
    <2> TAKE i \in 1 .. Len(q)
    <2>1. p[i] \in T /\ q[i] \in T /\ Alike(p[i], q[i])
      OBVIOUS
    <2> QED
      BY <2>1 DEF Closed
  <1> QED
    BY <1>1, <1>2, CountSame

\* Checks that wait for a translation go to the stash (cache.cc:494-498).
LEMMA StashMissesIsFine ==
  ASSUME NEW k, NEW n, NEW D, NEW s, Fine(k, n, D, s)
  PROVE  Fine(k, n, D, StashMisses(s)) /\ Len(StashMisses(s).tags) <= Len(s.tags)
  <1> DEFINE T == Entries(k, n)
             K == {e \in ToSet(s.tags) : e.wait = 0 /\ ~ e.translated}
             left == Those(s.tags, ToSet(s.tags) \ K)
             gone == Those(s.tags, K)
             new == StashMisses(s)
  <1>1. /\ IsState(s) /\ QueuesFit(k, n, s) /\ TlbFits(s.tlb)
        /\ s.tags \in Seq(T) /\ s.stash \in Seq(T \ Locals(T)) /\ TranslatedFirst(s.stash)
    BY DEF Fine, Sound, QueuesFit
  <1>2. /\ gone \in Seq(T) /\ left \in Seq(T) /\ Len(gone) + Len(left) = Len(s.tags)
        /\ \A S : CountIn(gone, S) + CountIn(left, S) = CountIn(s.tags, S)
    <2> HIDE DEF T, K
    <2> QED
      BY <1>1, SplitCount
  <1>3. gone \in Seq(T \cap K)
    <2> HIDE DEF T, K
    <2> QED
      BY <1>1, ThoseFit
  <1>4. T \cap K \subseteq T \ Locals(T) /\ \A e \in T \cap K : ~ e.translated
    BY DEF Entries, Locals
  <1>5. /\ new.tags = left /\ new.stash = s.stash \o gone /\ IsState(new)
        /\ new.clock = s.clock /\ new.uppers = s.uppers /\ new.pq = s.pq
        /\ new.mshrs = s.mshrs /\ new.writes = s.writes /\ new.lines = s.lines
        /\ new.lru = s.lru /\ new.lower = s.lower /\ new.tlb = s.tlb
        /\ new.stats = s.stats /\ new.owed = s.owed
    <2>1. new = [s EXCEPT !.tags = left, !.stash = s.stash \o gone]
      BY <1>1 DEF StashMisses, IsState
    <2> DEFINE after == s.stash \o gone
    <2> HIDE DEF left, after, new
    <2> QED
      BY <1>1, <2>1 DEF IsState, after
  <1> HIDE DEF new, left, gone, K, T
  <1>6. gone \in Seq(T \ Locals(T))
    BY <1>3, <1>4
  <1>7. /\ new.stash \in Seq(T \ Locals(T)) /\ TranslatedFirst(new.stash)
    <2>1. Len(s.stash) \in Nat /\ Len(gone) \in Nat /\ \A i \in 1 .. Len(gone) : ~ gone[i].translated
      BY <1>1, <1>3, <1>4
    <2>2. /\ s.stash \o gone \in Seq(T \ Locals(T))
          /\ Len(s.stash \o gone) = Len(s.stash) + Len(gone)
          /\ \A i \in 1 .. Len(s.stash) + Len(gone) :
                (s.stash \o gone)[i] = IF i <= Len(s.stash) THEN s.stash[i] ELSE gone[i - Len(s.stash)]
      BY <1>1, <1>6, ConcatProperties
    <2> DEFINE after == s.stash \o gone
    <2> HIDE DEF after
    <2>3. TranslatedFirst(after)
      <3> SUFFICES ASSUME NEW i \in DOMAIN after, NEW j \in DOMAIN after, i < j, after[j].translated
                   PROVE  after[i].translated
        BY DEF TranslatedFirst
      <3>1. i \in 1 .. Len(s.stash) + Len(gone) /\ j \in 1 .. Len(s.stash) + Len(gone)
        BY <2>2 DEF after
      <3>2. j <= Len(s.stash)
        <4> SUFFICES ASSUME ~ (j <= Len(s.stash)) PROVE FALSE
          OBVIOUS
        <4>1. j - Len(s.stash) \in 1 .. Len(gone) /\ after[j] = gone[j - Len(s.stash)]
          BY <2>1, <2>2, <3>1 DEF after
        <4> QED
          BY <2>1, <4>1
      <3>3. after[i] = s.stash[i] /\ after[j] = s.stash[j]
        BY <2>1, <2>2, <3>1, <3>2 DEF after
      <3>4. i \in DOMAIN s.stash /\ j \in DOMAIN s.stash
        BY <1>1, <2>1, <3>1, <3>2
      <3> QED
        BY <1>1, <3>3, <3>4 DEF TranslatedFirst
    <2> QED
      BY <1>5, <2>2, <2>3 DEF after
  <1>8. ASSUME NEW S PROVE Checks(new, S) = Checks(s, S)
    <2>1. CountIn(s.stash \o gone, S) = CountIn(s.stash, S) + CountIn(gone, S)
      <3>1. s.stash \in Seq(T)
        BY <1>1
      <3> QED
        BY <1>2, <3>1, CountConcat
    <2>2. CountIn(gone, S) + CountIn(left, S) = CountIn(s.tags, S)
      BY <1>2
    <2>3. CountIn(s.stash, S) \in Nat /\ CountIn(gone, S) \in Nat /\ CountIn(left, S) \in Nat
      BY <1>1, <1>2, CountIsNumber
    <2>4. CountIn(s.pq, S) \in Nat
      BY <1>1, CountIsNumber DEF QueuesFit
    <2> QED
      BY <1>5, <2>1, <2>2, <2>3, <2>4 DEF Checks
  <1>9. Moved(k, n, s, new)
    BY <1>1, <1>2, <1>5, <1>7, <1>8 DEF Moved, QueuesFit, T
  <1>10. Len(left) <= Len(s.tags)
    <2>1. Len(left) \in Nat /\ Len(gone) \in Nat
      BY <1>2
    <2> QED
      BY <1>2, <2>1
  <1> QED
    BY <1>5, <1>9, <1>10, MovedIsFine DEF new

\* Taking the first element from a queue.
LEMMA TailCount ==
  ASSUME NEW T, NEW q \in Seq(T), q # <<>>
  PROVE  /\ Len(q) \in Nat \ {0} /\ Head(q) \in T /\ Head(q) = q[1]
         /\ Tail(q) \in Seq(T) /\ Len(Tail(q)) = Len(q) - 1
         /\ \A i \in 1 .. Len(q) - 1 : Tail(q)[i] = q[i + 1]
         /\ \A S : CountIn(Tail(q), S) = CountIn(q, S) - One(q[1] \in S)
  <1>1. /\ Len(q) \in Nat \ {0} /\ Head(q) \in T /\ Head(q) = q[1] /\ 1 \in 1 .. Len(q)
        /\ Tail(q) \in Seq(T) /\ Len(Tail(q)) = Len(q) - 1
        /\ \A i \in 1 .. Len(q) - 1 : Tail(q)[i] = q[i + 1]
    OBVIOUS
  <1> DEFINE p == RemoveAt(q, 1)
  <1>2. /\ p \in Seq(T) /\ Len(p) = Len(q) - 1
        /\ \A i \in 1 .. Len(q) - 1 : p[i] = IF i < 1 THEN q[i] ELSE q[i + 1]
    BY <1>1, CountRemove
  <1>3. \A S : CountIn(p, S) = CountIn(q, S) - One(q[1] \in S)
    BY <1>1, CountRemove
  <1> HIDE DEF p
  <1>4. \A i \in 1 .. Len(q) - 1 : p[i] = Tail(q)[i]
    BY <1>1, <1>2
  <1>5. p = Tail(q)
    BY <1>1, <1>2, <1>4, SeqEqual
  <1> QED
    BY <1>1, <1>3, <1>5

\* A mapped sequence whose elements stay alike.
LEMMA MappedFits ==
  ASSUME NEW T, NEW q \in Seq(T), NEW p \in [DOMAIN q -> T],
         \A i \in 1 .. Len(q) : Alike(p[i], q[i])
  PROVE  /\ p \in Seq(T) /\ Len(p) = Len(q)
         /\ q \in Seq(T \ Locals(T)) => p \in Seq(T \ Locals(T))
         /\ \A S : Closed(T, S) => CountIn(p, S) = CountIn(q, S)
  <1>0. Len(q) \in Nat /\ DOMAIN q = 1 .. Len(q)
    OBVIOUS
  <1>1. p \in Seq(T) /\ Len(p) = Len(q)
    <2> DEFINE m == Len(q)
    <2>1. m \in Nat /\ p \in [1 .. m -> T]
      BY <1>0
    <2> HIDE DEF m
    <2>2. p \in Seq(T) /\ Len(p) = m
      BY <2>1
    <2> QED
      BY <2>2 DEF m
  <1>2. ASSUME q \in Seq(T \ Locals(T)) PROVE p \in Seq(T \ Locals(T))
    <2>1. \A i \in 1 .. Len(q) : p[i] \in T \ Locals(T)
      <3> TAKE i \in 1 .. Len(q)
      <3>1. q[i] \in T \ Locals(T) /\ p[i] \in T
        BY <1>0, <1>2
      <3> QED
        BY <1>0, <3>1 DEF Locals, Alike
    <2> DEFINE U == T \ Locals(T)
    <2>2. \A i \in 1 .. Len(p) : p[i] \in U
      BY <1>1, <2>1
    <2> DEFINE m == Len(q)
    <2>3. m \in Nat /\ p \in [1 .. m -> U]
      BY <1>0, <1>1, <2>2
    <2> HIDE DEF U, m
    <2>4. p \in Seq(U)
      BY <2>3
    <2> QED
      BY <2>4 DEF U
  <1>3. \A S : Closed(T, S) => CountIn(p, S) = CountIn(q, S)
    BY <1>0, <1>1, MappedCount
  <1> QED
    BY <1>1, <1>2, <1>3

\* A tag check that gets its translation stays alike.
LEMMA TranslatedEntry ==
  ASSUME NEW k, NEW n, NEW e \in Entries(k, n)
  PROVE  /\ [e EXCEPT !.translated = TRUE] \in Entries(k, n)
         /\ Alike([e EXCEPT !.translated = TRUE], e)
         /\ [e EXCEPT !.translated = TRUE].translated
  BY DEF Entries, Alike

\* A tag check with a new waiting time stays alike.
LEMMA WaitingEntry ==
  ASSUME NEW k, NEW n, NEW e \in Entries(k, n), NEW w \in 0 .. HitLatency
  PROVE  [e EXCEPT !.wait = w] \in Entries(k, n) /\ Alike([e EXCEPT !.wait = w], e)
  BY DEF Entries, Alike

\* A tag check that asks the TLB stays alike.
LEMMA IssuedEntry ==
  ASSUME NEW k, NEW n, NEW e \in Entries(k, n)
  PROVE  /\ [e EXCEPT !.issued = TRUE] \in Entries(k, n)
         /\ Alike([e EXCEPT !.issued = TRUE], e)
         /\ [e EXCEPT !.issued = TRUE].translated = e.translated
  BY DEF Entries, Alike

\* An answer of the TLB marks entries and moves those of the stash to its front
\* (cache.cc:651-661).
LEMMA FinishTranslationIsFine ==
  ASSUME NEW k, NEW n, NEW D, NEW s, Fine(k, n, D, s), s.tlb.returned # <<>>
  PROVE  /\ Fine(k, n, D, FinishTranslation(s))
         /\ Len(FinishTranslation(s).tags) <= Len(s.tags)
         /\ Len(FinishTranslation(s).tlb.returned) = Len(s.tlb.returned) - 1
  <1> DEFINE T == Entries(k, n)
             page == Head(s.tlb.returned)
             Matches(e) == PageOf(e.block) = page /\ ~ e.translated
             Marked(q) == [i \in DOMAIN q |->
                             IF Matches(q[i]) THEN [q[i] EXCEPT !.translated = TRUE] ELSE q[i]]
             K == {e \in ToSet(s.stash) : e.translated \/ Matches(e)}
             first == Those(s.stash, K)
             last == Those(s.stash, ToSet(s.stash) \ K)
             stash1 == Marked(first) \o last
             tags1 == Marked(s.tags)
             tlb1 == [s.tlb EXCEPT !.returned = Tail(@)]
             new == FinishTranslation(s)
  <1>1. /\ IsState(s) /\ QueuesFit(k, n, s) /\ TlbFits(s.tlb) /\ s.pq \in Seq(Locals(T))
        /\ s.tags \in Seq(T) /\ s.stash \in Seq(T \ Locals(T)) /\ s.stash \in Seq(T)
    BY DEF Fine, Sound, QueuesFit
  <1>2. new = [s EXCEPT !.stash = stash1, !.tags = tags1, !.tlb = tlb1]
    BY Zenon DEF FinishTranslation
  <1>3. /\ Len(s.tlb.returned) \in Nat \ {0} /\ TlbFits(tlb1)
        /\ Len(tlb1.returned) = Len(s.tlb.returned) - 1
    <2>1. s.tlb.returned \in Seq(Pages) /\ s.tlb = [rq |-> s.tlb.rq, returned |-> s.tlb.returned]
      BY <1>1 DEF TlbFits
    <2> DEFINE rest == Tail(s.tlb.returned)
    <2>2. Len(s.tlb.returned) \in Nat \ {0} /\ rest \in Seq(Pages) /\ Len(rest) = Len(s.tlb.returned) - 1
      BY <2>1, TailCount
    <2>3. tlb1 = [rq |-> s.tlb.rq, returned |-> rest]
      BY <2>1
    <2> HIDE DEF rest, tlb1
    <2> QED
      BY <1>1, <2>2, <2>3 DEF TlbFits
  <1> DEFINE Mark(e) == IF Matches(e) THEN [e EXCEPT !.translated = TRUE] ELSE e
  <1>4. ASSUME NEW e \in T
        PROVE  /\ Mark(e) \in T /\ Alike(Mark(e), e)
               /\ e.translated \/ Matches(e) => Mark(e).translated
    <2> DEFINE d == [e EXCEPT !.translated = TRUE]
    <2>1. d \in T /\ Alike(d, e) /\ d.translated
      BY TranslatedEntry
    <2>2. Alike(e, e)
      BY DEF Alike
    <2> HIDE DEF T, d
    <2>3. CASE Matches(e)
      <3>1. Mark(e) = d
        BY <2>3 DEF d
      <3> HIDE DEF Mark
      <3> QED
        BY <2>1, <3>1
    <2>4. CASE ~ Matches(e)
      <3>1. Mark(e) = e
        BY <2>4
      <3> HIDE DEF Mark
      <3> QED
        BY <2>2, <2>4, <3>1
    <2> QED
      BY <2>3, <2>4
  <1>5. /\ tags1 \in Seq(T) /\ Len(tags1) = Len(s.tags)
        /\ \A S : Closed(T, S) => CountIn(tags1, S) = CountIn(s.tags, S)
    <2>2. \A i \in 1 .. Len(s.tags) : tags1[i] = Mark(s.tags[i]) /\ s.tags[i] \in T
      BY <1>1
    <2>0. tags1 = [i \in DOMAIN s.tags |-> Mark(s.tags[i])] /\ DOMAIN s.tags = 1 .. Len(s.tags)
      BY <1>1
    <2> HIDE DEF tags1, Mark, T
    <2>3. \A i \in 1 .. Len(s.tags) : tags1[i] \in T /\ Alike(tags1[i], s.tags[i])
      BY <1>4, <2>2
    <2>1. tags1 \in [DOMAIN s.tags -> T]
      BY <2>0, <2>3
    <2>4. /\ tags1 \in Seq(T) /\ Len(tags1) = Len(s.tags)
          /\ s.tags \in Seq(T \ Locals(T)) => tags1 \in Seq(T \ Locals(T))
          /\ \A S : Closed(T, S) => CountIn(tags1, S) = CountIn(s.tags, S)
      BY <1>1, <2>1, <2>3, MappedFits
    <2> QED
      BY <2>4
  <1>6. /\ first \in Seq(T) /\ last \in Seq(T)
        /\ \A S : CountIn(first, S) + CountIn(last, S) = CountIn(s.stash, S)
    <2>1. s.stash \in Seq(T)
      BY <1>1
    <2> HIDE DEF T, K
    <2> QED
      BY <2>1, SplitCount
  <1>7. /\ first \in Seq((T \ Locals(T)) \cap K)
        /\ last \in Seq((T \ Locals(T)) \cap (ToSet(s.stash) \ K))
    <2> DEFINE L == ToSet(s.stash) \ K
    <2> HIDE DEF T, K, L
    <2> QED
      BY <1>1, ThoseFit DEF L
  <1>8. /\ \A i \in 1 .. Len(first) : first[i] \in T \ Locals(T) /\ first[i] \in K
        /\ \A i \in 1 .. Len(last) : last[i] \in T \ Locals(T) /\ last[i] \notin K
                                     /\ last[i] \in ToSet(s.stash)
    <2> HIDE DEF T, K, first, last
    <2> QED
      BY <1>7
  <1> DEFINE front == Marked(first)
  <1>9. /\ front \in Seq(T) /\ Len(front) = Len(first) /\ front \in Seq(T \ Locals(T))
        /\ \A S : Closed(T, S) => CountIn(front, S) = CountIn(first, S)
    <2>0. front = [i \in DOMAIN first |-> Mark(first[i])]
      OBVIOUS
    <2>2. \A i \in DOMAIN first : front[i] = Mark(first[i])
      OBVIOUS
    <2> HIDE DEF front, first, Mark, T, K
    <2>3. first \in Seq(T \ Locals(T))
      BY <1>7
    <2>4. \A i \in 1 .. Len(first) : front[i] \in T /\ Alike(front[i], first[i])
      <3>1. \A i \in 1 .. Len(first) : first[i] \in T /\ i \in DOMAIN first
        BY <1>6
      <3> QED
        BY <1>4, <2>2, <3>1
    <2>1. front \in [DOMAIN first -> T]
      <3>1. DOMAIN first = 1 .. Len(first)
        BY <1>6
      <3> QED
        BY <2>0, <2>4, <3>1
    <2>5. /\ front \in Seq(T) /\ Len(front) = Len(first)
          /\ first \in Seq(T \ Locals(T)) => front \in Seq(T \ Locals(T))
          /\ \A S : Closed(T, S) => CountIn(front, S) = CountIn(first, S)
      BY <1>6, <2>1, <2>4, MappedFits
    <2> QED
      BY <2>3, <2>5
  <1>10. \A i \in 1 .. Len(first) : front[i].translated
    <2> TAKE i \in 1 .. Len(first)
    <2>1. first[i] \in T /\ (first[i].translated \/ Matches(first[i]))
      BY <1>8
    <2>2. i \in DOMAIN first
      <3> HIDE DEF first
      <3> QED
        BY <1>6
    <2>3. front[i] = Mark(first[i])
      BY <2>2
    <2> HIDE DEF front, first, Mark, Matches, T
    <2> QED
      BY <1>4, <2>1, <2>3
  <1>11. \A i \in 1 .. Len(last) : ~ last[i].translated
    BY <1>8
  <1>12. stash1 = front \o last
    OBVIOUS
  <1> HIDE DEF T, page, Matches, Marked, K, first, last, front, stash1, tags1, tlb1, new
  <1>13. stash1 \in Seq(T \ Locals(T)) /\ TranslatedFirst(stash1)
    <2>1. last \in Seq(T \ Locals(T)) /\ Len(last) \in Nat /\ Len(front) \in Nat
      BY <1>6, <1>8, <1>9
    <2>2. /\ stash1 \in Seq(T \ Locals(T)) /\ Len(stash1) = Len(front) + Len(last)
          /\ \A i \in 1 .. Len(front) + Len(last) :
                stash1[i] = IF i <= Len(front) THEN front[i] ELSE last[i - Len(front)]
      <3> DEFINE X == T \ Locals(T)
      <3>1. front \in Seq(X) /\ last \in Seq(X)
        BY <1>9, <2>1
      <3> HIDE DEF X
      <3>2. /\ front \o last \in Seq(X) /\ Len(front \o last) = Len(front) + Len(last)
            /\ \A i \in 1 .. Len(front) + Len(last) :
                 (front \o last)[i] = IF i <= Len(front) THEN front[i] ELSE last[i - Len(front)]
        BY <3>1, ConcatProperties
      <3> QED
        BY <1>12, <3>2, Zenon DEF X
    <2> SUFFICES ASSUME NEW i \in DOMAIN stash1, NEW j \in DOMAIN stash1, i < j,
                        stash1[j].translated
                 PROVE  stash1[i].translated
      BY <2>2 DEF TranslatedFirst
    <2>3. i \in 1 .. Len(front) + Len(last) /\ j \in 1 .. Len(front) + Len(last)
      BY <2>2
    <2>4. j <= Len(front)
      <3> SUFFICES ASSUME ~ (j <= Len(front)) PROVE FALSE
        OBVIOUS
      <3>1. j - Len(front) \in 1 .. Len(last) /\ stash1[j] = last[j - Len(front)]
        BY <2>1, <2>2, <2>3
      <3> QED
        BY <1>11, <3>1
    <2>5. i \in 1 .. Len(first) /\ stash1[i] = front[i]
      BY <1>9, <2>1, <2>2, <2>3, <2>4
    <2> QED
      BY <1>10, <2>5
  <1>14. /\ IsState(new) /\ new.tags = tags1 /\ new.stash = stash1 /\ new.tlb = tlb1
         /\ new.clock = s.clock /\ new.uppers = s.uppers /\ new.pq = s.pq
         /\ new.mshrs = s.mshrs /\ new.writes = s.writes /\ new.lines = s.lines
         /\ new.lru = s.lru /\ new.lower = s.lower
         /\ new.stats = s.stats /\ new.owed = s.owed
    BY <1>1, <1>2 DEF IsState
  <1>15. ASSUME NEW S, Closed(T, S) PROVE Checks(new, S) = Checks(s, S)
    <2>1. CountIn(stash1, S) = CountIn(front, S) + CountIn(last, S)
      BY <1>6, <1>9, <1>12, CountConcat
    <2>2. CountIn(front, S) = CountIn(first, S) /\ CountIn(tags1, S) = CountIn(s.tags, S)
      BY <1>5, <1>9, <1>15
    <2>3. CountIn(stash1, S) = CountIn(s.stash, S)
      BY <1>6, <2>1, <2>2
    <2> QED
      BY <1>14, <2>2, <2>3, Zenon DEF Checks
  <1>16. Moved(k, n, s, new)
    BY <1>1, <1>3, <1>5, <1>13, <1>14, <1>15 DEF Moved, QueuesFit, T
  <1>17. Len(new.tags) <= Len(s.tags) /\ Len(new.tlb.returned) = Len(s.tlb.returned) - 1
    BY <1>1, <1>3, <1>5, <1>14
  <1> QED
    BY <1>16, <1>17, MovedIsFine DEF new

\* Entries whose tag check begins again stay alike.
LEMMA AgainFits ==
  ASSUME NEW k, NEW n, NEW q \in Seq(Entries(k, n)), NEW m \in 0 .. Len(q)
  PROVE  /\ Again(q, m) \in Seq(Entries(k, n)) /\ Len(Again(q, m)) = m
         /\ \A i \in 1 .. m : Alike(Again(q, m)[i], q[i])
  <1> DEFINE T == Entries(k, n)  p == Again(q, m)
  <1>1. HitLatency \in 0 .. HitLatency /\ Len(q) \in Nat /\ m \in Nat
    BY Numbers
  <1>2. \A e \in T : [e EXCEPT !.wait = HitLatency] \in T /\ Alike([e EXCEPT !.wait = HitLatency], e)
    BY <1>1, WaitingEntry
  <1>3. p = [i \in 1 .. m |-> [q[i] EXCEPT !.wait = HitLatency]]
    BY DEF Again
  <1> HIDE DEF T, p
  <1>4. \A i \in 1 .. m : q[i] \in T
    BY <1>1 DEF T
  <1>5. \A i \in 1 .. m : p[i] = [q[i] EXCEPT !.wait = HitLatency]
    BY <1>3
  <1>6. \A i \in 1 .. m : p[i] \in T /\ Alike(p[i], q[i])
    BY <1>2, <1>4, <1>5
  <1>7. p \in [1 .. m -> T]
    BY <1>3, <1>6
  <1>8. p \in Seq(T) /\ Len(p) = m
    BY <1>1, <1>7
  <1> QED
    BY <1>6, <1>8 DEF T, p

\* The rest of the stash still has the translated ones first.
LEMMA FromStaysTranslated ==
  ASSUME NEW T, NEW q \in Seq(T), NEW m \in 0 .. Len(q), TranslatedFirst(q)
  PROVE  TranslatedFirst(From(q, m + 1))
  <1> DEFINE p == From(q, m + 1)
  <1>1. /\ p \in Seq(T) /\ Len(p) = Len(q) - m /\ \A i \in 1 .. Len(q) - m : p[i] = q[m + i]
    BY Parts
  <1> HIDE DEF p
  <1> SUFFICES ASSUME NEW i \in DOMAIN p, NEW j \in DOMAIN p, i < j, p[j].translated
               PROVE  p[i].translated
    BY DEF TranslatedFirst, p
  <1>2. m + i \in DOMAIN q /\ m + j \in DOMAIN q /\ m + i < m + j
    BY <1>1
  <1>3. p[i] = q[m + i] /\ p[j] = q[m + j]
    BY <1>1
  <1> QED
    BY <1>2, <1>3 DEF TranslatedFirst

\* The first m of the stash begin their tag check again.
LEMMA StashAgain ==
  ASSUME NEW k, NEW n, NEW D, NEW s, Fine(k, n, D, s), NEW m \in 0 .. Len(s.stash)
  PROVE  LET new == BeginStash(s, m) IN Fine(k, n, D, new) /\ Len(new.tags) = Len(s.tags) + m
  <1> DEFINE T == Entries(k, n)
             new == BeginStash(s, m)
             again == Again(s.stash, m)  left == From(s.stash, m + 1)  both == s.tags \o again
  <1>1. /\ IsState(s) /\ QueuesFit(k, n, s) /\ TlbFits(s.tlb)
        /\ s.tags \in Seq(T) /\ s.stash \in Seq(T \ Locals(T)) /\ TranslatedFirst(s.stash)
        /\ s.pq \in Seq(Locals(T)) /\ s.stash \in Seq(T)
    BY DEF Fine, Sound, QueuesFit
  <1>2. new = [s EXCEPT !.tags = both, !.stash = left]
    BY Zenon DEF BeginStash
  <1> HIDE DEF new
  <1>3. /\ again \in Seq(T) /\ Len(again) = m /\ \A i \in 1 .. m : Alike(again[i], s.stash[i])
    BY <1>1, AgainFits
  <1>4. left \in Seq(T \ Locals(T)) /\ TranslatedFirst(left)
    BY <1>1, Parts, FromStaysTranslated
  <1> HIDE DEF T, left, again
  <1>5. both \in Seq(T) /\ Len(both) = Len(s.tags) + m
    <2>1. both \in Seq(T) /\ Len(both) = Len(s.tags) + Len(again)
      BY <1>1, <1>3, ConcatProperties
    <2> HIDE DEF both
    <2> QED
      BY <1>3, <2>1
  <1>6. /\ IsState(new) /\ new.tags = both /\ new.stash = left /\ new.tlb = s.tlb
        /\ new.clock = s.clock /\ new.uppers = s.uppers /\ new.pq = s.pq
        /\ new.mshrs = s.mshrs /\ new.writes = s.writes /\ new.lines = s.lines
        /\ new.lru = s.lru /\ new.lower = s.lower
        /\ new.stats = s.stats /\ new.owed = s.owed
    <2> HIDE DEF both
    <2> QED
      BY <1>1, <1>2 DEF IsState
  <1>7. ASSUME NEW S, Closed(T, S) PROVE Checks(new, S) = Checks(s, S)
    <2>1. CountIn(both, S) = CountIn(s.tags, S) + CountIn(again, S)
      BY <1>1, <1>3, CountConcat
    <2>2. CountIn(again, S) + CountIn(left, S) = CountIn(s.stash, S)
      BY <1>1, <1>3, <1>7, AgainCount DEF left
    <2>3. CountIn(s.tags, S) \in Nat /\ CountIn(again, S) \in Nat /\ CountIn(s.pq, S) \in Nat
      BY <1>1, <1>3, CountIsNumber
    <2>4. CountIn(left, S) \in Nat
      BY <1>4, CountIsNumber
    <2> HIDE DEF both
    <2>5. Checks(new, S) = CountIn(s.pq, S) + CountIn(both, S) + CountIn(left, S)
      BY <1>6, Zenon DEF Checks
    <2> DEFINE a == CountIn(s.pq, S)  b == CountIn(s.tags, S)  c == CountIn(s.stash, S)
               d == CountIn(s.pq, S)  e == CountIn(again, S)  f == CountIn(left, S)
               g == CountIn(both, S)
    <2>6. Checks(new, S) = a + g + f /\ g = b + e /\ Checks(s, S) = d + b + c
      BY <2>1, <2>5, Zenon DEF Checks
    <2>7. a \in Nat /\ b \in Nat /\ c \in Nat /\ d \in Nat /\ e \in Nat /\ f \in Nat
      BY <1>1, <2>3, <2>4, CountIsNumber
    <2>8. e + f = c /\ a = d
      BY <2>2
    <2> HIDE DEF a, b, c, d, e, f, g
    <2> QED
      BY <2>6, <2>7, <2>8
  <1>8. Moved(k, n, s, new)
    <2> HIDE DEF both
    <2> QED
      BY <1>1, <1>4, <1>5, <1>6, <1>7 DEF Moved, QueuesFit, T
  <1> HIDE DEF both
  <1> QED
    BY <1>5, <1>6, <1>8, MovedIsFine DEF new

\* The first m prefetches begin their tag check.
LEMMA PqAgain ==
  ASSUME NEW k, NEW n, NEW D, NEW s, Fine(k, n, D, s), NEW m \in 0 .. Len(s.pq)
  PROVE  LET new == BeginPrefetches(s, m) IN Fine(k, n, D, new) /\ Len(new.tags) = Len(s.tags) + m
  <1> DEFINE T == Entries(k, n)
             new == BeginPrefetches(s, m)
             again == Again(s.pq, m)  left == From(s.pq, m + 1)  both == s.tags \o again
  <1>1. /\ IsState(s) /\ QueuesFit(k, n, s) /\ TlbFits(s.tlb)
        /\ s.tags \in Seq(T) /\ s.stash \in Seq(T \ Locals(T))
        /\ s.pq \in Seq(Locals(T)) /\ Len(s.pq) <= PqSize /\ s.pq \in Seq(T)
    BY DEF Fine, Sound, QueuesFit, Locals
  <1>2. new = [s EXCEPT !.tags = both, !.pq = left]
    BY Zenon DEF BeginPrefetches
  <1> HIDE DEF new
  <1>3. /\ again \in Seq(T) /\ Len(again) = m /\ \A i \in 1 .. m : Alike(again[i], s.pq[i])
    BY <1>1, AgainFits
  <1>4. left \in Seq(Locals(T)) /\ Len(left) <= PqSize
    <2>1. left \in Seq(Locals(T)) /\ Len(left) = Len(s.pq) - m
      <3> DEFINE q == s.pq  X == Locals(T)
      <3>1. q \in Seq(X) /\ m \in 0 .. Len(q)
        BY <1>1
      <3> HIDE DEF q, X
      <3>2. From(q, m + 1) \in Seq(X) /\ Len(From(q, m + 1)) = Len(q) - m
        BY <3>1, Parts
      <3> QED
        BY <3>2 DEF q, X
    <2>2. PqSize \in Nat /\ Len(s.pq) \in Nat
      BY <1>1, Numbers
    <2> HIDE DEF left
    <2> QED
      BY <1>1, <2>1, <2>2
  <1> HIDE DEF T, left, again
  <1>5. both \in Seq(T) /\ Len(both) = Len(s.tags) + m
    <2>1. both \in Seq(T) /\ Len(both) = Len(s.tags) + Len(again)
      BY <1>1, <1>3, ConcatProperties
    <2> HIDE DEF both
    <2> QED
      BY <1>3, <2>1
  <1>6. /\ IsState(new) /\ new.tags = both /\ new.pq = left /\ new.tlb = s.tlb
        /\ new.clock = s.clock /\ new.uppers = s.uppers /\ new.stash = s.stash
        /\ new.mshrs = s.mshrs /\ new.writes = s.writes /\ new.lines = s.lines
        /\ new.lru = s.lru /\ new.lower = s.lower
        /\ new.stats = s.stats /\ new.owed = s.owed
    <2> HIDE DEF both
    <2> QED
      BY <1>1, <1>2 DEF IsState
  <1>7. ASSUME NEW S, Closed(T, S) PROVE Checks(new, S) = Checks(s, S)
    <2>1. CountIn(both, S) = CountIn(s.tags, S) + CountIn(again, S)
      BY <1>1, <1>3, CountConcat
    <2>2. CountIn(again, S) + CountIn(left, S) = CountIn(s.pq, S)
      BY <1>1, <1>3, <1>7, AgainCount DEF left
    <2>3. CountIn(s.tags, S) \in Nat /\ CountIn(again, S) \in Nat /\ CountIn(s.stash, S) \in Nat
      BY <1>1, <1>3, CountIsNumber
    <2>4. CountIn(left, S) \in Nat
      BY <1>4, CountIsNumber
    <2> HIDE DEF both
    <2>5. Checks(new, S) = CountIn(left, S) + CountIn(both, S) + CountIn(s.stash, S)
      BY <1>6, Zenon DEF Checks
    <2> DEFINE a == CountIn(left, S)  b == CountIn(s.tags, S)  c == CountIn(s.stash, S)
               d == CountIn(s.pq, S)  e == CountIn(again, S)  f == CountIn(s.stash, S)
               g == CountIn(both, S)
    <2>6. Checks(new, S) = a + g + f /\ g = b + e /\ Checks(s, S) = d + b + c
      BY <2>1, <2>5, Zenon DEF Checks
    <2>7. a \in Nat /\ b \in Nat /\ c \in Nat /\ d \in Nat /\ e \in Nat /\ f \in Nat
      BY <1>1, <2>3, <2>4, CountIsNumber
    <2>8. e + a = d /\ f = c
      BY <2>2
    <2> HIDE DEF a, b, c, d, e, f, g
    <2> QED
      BY <2>6, <2>7, <2>8
  <1>8. Moved(k, n, s, new)
    <2> HIDE DEF both
    <2> QED
      BY <1>1, <1>4, <1>5, <1>6, <1>7 DEF Moved, QueuesFit, T
  <1> HIDE DEF both
  <1> QED
    BY <1>5, <1>6, <1>8, MovedIsFine DEF new

\* Asking the TLB changes no entry but its mark, and keeps the bound of its queue.
LEMMA IssueIsFine ==
  ASSUME NEW k, NEW n, NEW D, NEW s, Fine(k, n, D, s)
  PROVE  Fine(k, n, D, IssueTranslations(s)) /\ Len(IssueTranslations(s).tags) <= Len(s.tags)
  <1> DEFINE T == Entries(k, n)
             queue == s.tags \o s.stash
             asking == {e \in ToSet(queue) : ~ e.translated /\ ~ e.issued}
             asked == Those(queue, asking)
             m == Least(Len(asked), Greatest(TlbSize - Len(s.tlb.rq), 0))
             Earlier(i) == {j \in 1 .. i - 1 : queue[j] \in asking}
             Asks(i) == queue[i] \in asking /\ Cardinality(Earlier(i)) < m
             Issue(i) == IF queue[i] \in asking /\ Cardinality(Earlier(i)) < m
                         THEN [queue[i] EXCEPT !.issued = TRUE] ELSE queue[i]
             tags1 == [i \in DOMAIN s.tags |-> Issue(i)]
             stash1 == [i \in DOMAIN s.stash |-> Issue(Len(s.tags) + i)]
             pages == [i \in 1 .. m |-> PageOf(asked[i].block)]
             rq1 == s.tlb.rq \o pages
             tlb1 == [s.tlb EXCEPT !.rq = rq1]
             new == IssueTranslations(s)
  <1>1. /\ IsState(s) /\ QueuesFit(k, n, s) /\ TlbFits(s.tlb)
        /\ s.tags \in Seq(T) /\ s.stash \in Seq(T \ Locals(T)) /\ s.stash \in Seq(T)
        /\ TranslatedFirst(s.stash)
    BY DEF Fine, Sound, QueuesFit
  <1>2. new = [s EXCEPT !.tags = tags1, !.stash = stash1, !.tlb = tlb1]
    BY Zenon DEF IssueTranslations
  <1>3. /\ Len(s.tags) \in Nat /\ Len(s.stash) \in Nat
        /\ DOMAIN s.tags = 1 .. Len(s.tags) /\ DOMAIN s.stash = 1 .. Len(s.stash)
    BY <1>1
  <1>4. /\ queue \in Seq(T)
        /\ \A i \in 1 .. Len(s.tags) : queue[i] = s.tags[i]
        /\ \A i \in 1 .. Len(s.stash) : queue[Len(s.tags) + i] = s.stash[i]
    <2>1. /\ queue \in Seq(T) /\ Len(queue) = Len(s.tags) + Len(s.stash)
          /\ \A i \in 1 .. Len(s.tags) + Len(s.stash) :
                queue[i] = IF i <= Len(s.tags) THEN s.tags[i] ELSE s.stash[i - Len(s.tags)]
      BY <1>1, ConcatProperties
    <2> DEFINE a == Len(s.tags)  b == Len(s.stash)
    <2>4. a \in Nat /\ b \in Nat
      BY <1>3
    <2>5. \A i \in 1 .. a + b : queue[i] = IF i <= a THEN s.tags[i] ELSE s.stash[i - a]
      BY <2>1
    <2> HIDE DEF queue, a, b
    <2>2. \A i \in 1 .. a : queue[i] = s.tags[i]
      BY <2>4, <2>5
    <2>3. ASSUME NEW i \in 1 .. b PROVE queue[a + i] = s.stash[i]
      <3>1. a + i \in 1 .. a + b /\ ~ (a + i <= a) /\ (a + i) - a = i
        BY <2>4
      <3> QED
        BY <2>5, <3>1
    <2> QED
      BY <2>1, <2>2, <2>3 DEF a, b
  <1>5. asked \in Seq(T)
    <2>1. asked \in Seq(T \cap asking)
      <3> HIDE DEF T, queue, asking
      <3> QED
        BY <1>4, ThoseFit
    <2> HIDE DEF asked, asking
    <2> QED
      BY <2>1
  <1>6. /\ s.tlb = [rq |-> s.tlb.rq, returned |-> s.tlb.returned]
        /\ s.tlb.rq \in Seq(Pages) /\ Len(s.tlb.rq) <= TlbSize /\ s.tlb.returned \in Seq(Pages)
        /\ Len(s.tlb.rq) \in Nat /\ TlbSize \in Nat
    BY <1>1, Numbers DEF TlbFits
  <1>7. m \in Nat /\ m <= Len(asked) /\ Len(s.tlb.rq) + m <= TlbSize
    <2>1. Len(asked) \in Nat
      <3> HIDE DEF asked
      <3> QED
        BY <1>5
    <2> DEFINE l == Len(asked)  r == Len(s.tlb.rq)
    <2>2. l \in Nat /\ r \in Nat /\ TlbSize \in Nat /\ r <= TlbSize
      BY <1>6, <2>1
    <2> HIDE DEF l, r
    <2>3. Least(l, Greatest(TlbSize - r, 0)) \in Nat /\ Least(l, Greatest(TlbSize - r, 0)) <= l
          /\ r + Least(l, Greatest(TlbSize - r, 0)) <= TlbSize
      BY <2>2 DEF Least, Greatest
    <2> QED
      BY <2>3 DEF l, r
  <1> DEFINE Was(e, f) == f \in T /\ Alike(f, e) /\ f.translated = e.translated
  <1>8. ASSUME NEW i, queue[i] \in T PROVE Was(queue[i], Issue(i))
    <2> DEFINE e == queue[i]
    <2> HIDE DEF e
    <2>1. CASE Asks(i)
      <3>1. Issue(i) = [e EXCEPT !.issued = TRUE]
        BY <2>1, Zenon DEF e
      <3>2. e \in T
        BY <1>8 DEF e
      <3> HIDE DEF Issue
      <3>3. Was(e, Issue(i))
        BY <3>1, <3>2, IssuedEntry
      <3> QED
        BY <3>3 DEF e
    <2>2. CASE ~ Asks(i)
      <3>1. Issue(i) = queue[i]
        BY <2>2, Zenon
      <3> HIDE DEF Issue, T
      <3> QED
        BY <1>8, <3>1 DEF Alike
    <2> HIDE DEF Issue, Was
    <2> QED
      BY <2>1, <2>2
  <1> HIDE DEF Asks
  <1>9. \A i \in 1 .. Len(s.tags) : Was(s.tags[i], tags1[i])
    <2> TAKE i \in 1 .. Len(s.tags)
    <2>1. tags1[i] = Issue(i)
      BY <1>3
    <2> HIDE DEF tags1, Issue, queue, Was, T
    <2>2. queue[i] = s.tags[i] /\ s.tags[i] \in T
      BY <1>1, <1>4
    <2> QED
      BY <1>8, <2>1, <2>2
  <1>10. \A i \in 1 .. Len(s.stash) : Was(s.stash[i], stash1[i])
    <2> TAKE i \in 1 .. Len(s.stash)
    <2>1. stash1[i] = Issue(Len(s.tags) + i)
      BY <1>3
    <2> HIDE DEF stash1, Issue, queue, Was, T
    <2>2. queue[Len(s.tags) + i] = s.stash[i] /\ s.stash[i] \in T
      BY <1>1, <1>4
    <2> QED
      BY <1>8, <2>1, <2>2
  <1>11. /\ tags1 = [i \in DOMAIN s.tags |-> Issue(i)]
         /\ stash1 = [i \in DOMAIN s.stash |-> Issue(Len(s.tags) + i)]
    OBVIOUS
  <1> HIDE DEF Issue, queue, asking, tags1, stash1, T
  <1>12. tags1 \in [DOMAIN s.tags -> T] /\ stash1 \in [DOMAIN s.stash -> T]
    BY <1>3, <1>9, <1>10, <1>11
  <1>13. /\ tags1 \in Seq(T) /\ Len(tags1) = Len(s.tags)
         /\ \A S : Closed(T, S) => CountIn(tags1, S) = CountIn(s.tags, S)
    <2>1. /\ tags1 \in Seq(T) /\ Len(tags1) = Len(s.tags)
          /\ s.tags \in Seq(T \ Locals(T)) => tags1 \in Seq(T \ Locals(T))
          /\ \A S : Closed(T, S) => CountIn(tags1, S) = CountIn(s.tags, S)
      BY <1>1, <1>9, <1>12, MappedFits
    <2> QED
      BY <2>1
  <1>14. /\ stash1 \in Seq(T \ Locals(T)) /\ Len(stash1) = Len(s.stash)
         /\ \A S : Closed(T, S) => CountIn(stash1, S) = CountIn(s.stash, S)
    <2>1. /\ stash1 \in Seq(T) /\ Len(stash1) = Len(s.stash)
          /\ s.stash \in Seq(T \ Locals(T)) => stash1 \in Seq(T \ Locals(T))
          /\ \A S : Closed(T, S) => CountIn(stash1, S) = CountIn(s.stash, S)
      BY <1>1, <1>10, <1>12, MappedFits
    <2> QED
      BY <1>1, <2>1
  <1>15. TranslatedFirst(stash1)
    <2> SUFFICES ASSUME NEW i \in DOMAIN stash1, NEW j \in DOMAIN stash1, i < j,
                        stash1[j].translated
                 PROVE  stash1[i].translated
      BY DEF TranslatedFirst
    <2>1. i \in 1 .. Len(s.stash) /\ j \in 1 .. Len(s.stash)
      BY <1>14
    <2>2. stash1[i].translated = s.stash[i].translated /\ stash1[j].translated = s.stash[j].translated
      BY <1>10, <2>1
    <2> QED
      BY <1>1, <1>3, <2>1, <2>2 DEF TranslatedFirst
  <1>16. TlbFits(tlb1)
    <2>1. pages \in Seq(Pages) /\ Len(pages) = m
      <3>1. \A i \in 1 .. m : PageOf(asked[i].block) \in Pages
        <4> TAKE i \in 1 .. m
        <4>1. Len(asked) \in Nat
          <5> HIDE DEF asked
          <5> QED
            BY <1>5
        <4>2. i \in 1 .. Len(asked)
          <5> HIDE DEF m
          <5> QED
            BY <1>7, <4>1
        <4>3. asked[i] \in T
          <5> HIDE DEF asked
          <5> QED
            BY <1>5, <4>2
        <4>4. asked[i].block \in Blocks
          <5> HIDE DEF asked
          <5> QED
            BY <4>3 DEF T, Entries
        <4> QED
          BY <4>4 DEF Pages
      <3>2. pages = [i \in 1 .. m |-> PageOf(asked[i].block)]
        OBVIOUS
      <3> HIDE DEF pages, m, asked
      <3>3. pages \in [1 .. m -> Pages]
        BY <3>1, <3>2
      <3> QED
        BY <1>7, <3>3
    <2> HIDE DEF pages, m
    <2>2. rq1 \in Seq(Pages) /\ Len(rq1) = Len(s.tlb.rq) + Len(pages)
      BY <1>6, <2>1, ConcatProperties
    <2>3. tlb1 = [s.tlb EXCEPT !.rq = rq1]
      OBVIOUS
    <2> HIDE DEF rq1, tlb1
    <2>4. tlb1 = [rq |-> rq1, returned |-> s.tlb.returned]
      BY <1>6, <2>3
    <2>5. Len(rq1) <= TlbSize
      BY <1>6, <1>7, <2>1, <2>2
    <2> QED
      BY <1>6, <2>2, <2>4, <2>5 DEF TlbFits
  <1> HIDE DEF tlb1, new
  <1>17. /\ IsState(new) /\ new.tags = tags1 /\ new.stash = stash1 /\ new.tlb = tlb1
         /\ new.clock = s.clock /\ new.uppers = s.uppers /\ new.pq = s.pq
         /\ new.mshrs = s.mshrs /\ new.writes = s.writes /\ new.lines = s.lines
         /\ new.lru = s.lru /\ new.lower = s.lower
         /\ new.stats = s.stats /\ new.owed = s.owed
    BY <1>1, <1>2 DEF IsState
  <1>18. ASSUME NEW S, Closed(T, S) PROVE Checks(new, S) = Checks(s, S)
    <2>1. CountIn(tags1, S) = CountIn(s.tags, S) /\ CountIn(stash1, S) = CountIn(s.stash, S)
      BY <1>13, <1>14, <1>18
    <2> QED
      BY <1>17, <2>1, Zenon DEF Checks
  <1>19. Moved(k, n, s, new)
    BY <1>1, <1>13, <1>14, <1>15, <1>16, <1>17, <1>18 DEF Moved, QueuesFit, T
  <1>20. Len(new.tags) <= Len(s.tags)
    BY <1>3, <1>13, <1>17
  <1> QED
    BY <1>19, <1>20, MovedIsFine DEF new

-----------------------------------------------------------------------------
(***************************************************************************)
(* Steps that change the MSHRs but not who waits in them.                  *)
(***************************************************************************)
MissesMoved(k, n, s, new) ==
  /\ IsState(new) /\ new.clock \in Cycles(k)
  /\ MshrsFit(k, n, new.mshrs) /\ WritesFit(k, n, new.writes) /\ LowerFits(new.lower)
  /\ Balanced(k, n, new)
  /\ new.uppers = s.uppers /\ new.pq = s.pq /\ new.tags = s.tags /\ new.stash = s.stash
  /\ new.lines = s.lines /\ new.lru = s.lru /\ new.tlb = s.tlb
  /\ new.stats = s.stats /\ new.owed = s.owed /\ new.lower.wq = s.lower.wq
  /\ \A S : Closed(Misses(k, n), S) =>
              /\ CountIn(new.mshrs, S) = CountIn(s.mshrs, S)
              /\ CountIn(new.writes, S) = CountIn(s.writes, S)

\* A step that only changes the MSHRs, the writes, and the channel below, alike and
\* balanced, keeps what the invariant says.
LEMMA MissesMovedIsFine ==
  ASSUME NEW k, NEW n, NEW D, NEW s, NEW new, Fine(k, n, D, s), MissesMoved(k, n, s, new)
  PROVE  Fine(k, n, D, new)
  <1> DEFINE T == Misses(k, n)
  <1>1. /\ CountIn(new.mshrs, Locals(T)) = CountIn(s.mshrs, Locals(T))
        /\ \A id : CountIn(new.mshrs, Having(T, id)) = CountIn(s.mshrs, Having(T, id))
        /\ \A b : CountIn(new.writes, WritesOf(T, b)) = CountIn(s.writes, WritesOf(T, b))
    <2> HIDE DEF T
    <2>1. \A S : Closed(T, S) => CountIn(new.mshrs, S) = CountIn(s.mshrs, S)
      BY DEF MissesMoved, T
    <2>2. \A S : Closed(T, S) => CountIn(new.writes, S) = CountIn(s.writes, S)
      BY DEF MissesMoved, T
    <2> QED
      BY <2>1, <2>2, ClosedSets
  <1>2. \A S : Checks(new, S) = Checks(s, S)
    BY Zenon DEF Checks, MissesMoved
  <1>3. LocalSum(k, n, new) = LocalSum(k, n, s)
    BY <1>1, <1>2, Zenon DEF LocalSum, MissesMoved
  <1>4. StatsFit(k, n, new)
    BY <1>3, Zenon DEF StatsFit, Fine, Sound, MissesMoved
  <1>5. OwedFits(k, n, new)
    <2>1. \A id : PlacesOf(k, n, new, id) = PlacesOf(k, n, s, id)
      BY <1>1, <1>2, Zenon DEF PlacesOf, MissesMoved
    <2> QED
      BY <2>1, Zenon DEF OwedFits, Fine, Sound, MissesMoved
  <1>6. QueuesFit(k, n, new)
    BY Zenon DEF QueuesFit, Fine, Sound, MissesMoved
  <1>7. Sound(k, n, new)
    BY <1>4, <1>5, <1>6, Zenon DEF Sound, Fine, MissesMoved
  <1>8. \A b : Kept(k, n, s, b) => Kept(k, n, new, b)
    BY <1>1, <1>2 DEF Kept, MissesMoved
  <1> QED
    BY <1>7, <1>8 DEF Fine, AllKept

\* Replacing an element by one alike.
LEMMA CountReplaced ==
  ASSUME NEW T, NEW q \in Seq(T), NEW S, NEW i \in 1 .. Len(q), NEW e \in T,
         Closed(T, S), Alike(e, q[i])
  PROVE  CountIn([q EXCEPT ![i] = e], S) = CountIn(q, S)
  <1>1. CountIn([q EXCEPT ![i] = e], S) = CountIn(q, S) - One(q[i] \in S) + One(e \in S)
    BY CountReplace
  <1>2. q[i] \in T /\ CountIn(q, S) \in Nat
    BY CountIsNumber
  <1>3. e \in S <=> q[i] \in S
    BY <1>2 DEF Closed
  <1>4. One(q[i] \in S) = One(e \in S) /\ One(e \in S) \in Int
    BY <1>3 DEF One
  <1> DEFINE a == One(q[i] \in S)  b == One(e \in S)
  <1> HIDE DEF a, b
  <1>5. CountIn([q EXCEPT ![i] = e], S) = CountIn(q, S) - a + b /\ a = b /\ a \in Int
    BY <1>1, <1>4 DEF a, b
  <1> QED
    BY <1>2, <1>5

\* One of two goes to the place of the other, and what it becomes is alike.
Swapped(q, i, j, e) == [m \in DOMAIN q |-> IF m = j THEN e ELSE IF m = i THEN q[j] ELSE q[m]]

\* Exchanging two elements and replacing one of them by e.
LEMMA SwapCount ==
  ASSUME NEW T, NEW q \in Seq(T), NEW i \in 1 .. Len(q), NEW j \in 1 .. Len(q), NEW e \in T
  PROVE  /\ Swapped(q, i, j, e) \in Seq(T) /\ Len(Swapped(q, i, j, e)) = Len(q)
         /\ \A S : CountIn(Swapped(q, i, j, e), S)
                     = CountIn(q, S) - One(q[i] \in S) + One(e \in S)
  <1> DEFINE p == Swapped(q, i, j, e)
  <1>0. p = [m \in DOMAIN q |-> IF m = j THEN e ELSE IF m = i THEN q[j] ELSE q[m]]
    BY DEF Swapped
  <1> HIDE DEF p
  <1>1. Len(q) \in Nat /\ DOMAIN q = 1 .. Len(q) /\ q[i] \in T /\ q[j] \in T
    OBVIOUS
  <1> DEFINE q1 == [q EXCEPT ![j] = e]  q2 == [q1 EXCEPT ![i] = q[j]]
  <1>2. q1 \in Seq(T) /\ Len(q1) = Len(q)
    BY CountReplace
  <1>3. CASE i = j
    <2>1. p = q1
      BY <1>0, <1>1, <1>3
    <2>2. \A S : CountIn(q1, S) = CountIn(q, S) - One(q[j] \in S) + One(e \in S)
      BY CountReplace
    <2> HIDE DEF q1
    <2> QED
      BY <1>2, <1>3, <2>1, <2>2 DEF p
  <1>4. CASE i # j
    <2>1. p = q2
      BY <1>0, <1>1, <1>4
    <2>2. q1[i] = q[i]
      BY <1>1, <1>4
    <2>3. \A S : CountIn(q1, S) = CountIn(q, S) - One(q[j] \in S) + One(e \in S)
      BY CountReplace
    <2> HIDE DEF q1
    <2>4. q2 \in Seq(T) /\ Len(q2) = Len(q1)
      BY <1>1, <1>2, CountReplace
    <2>5. \A S : CountIn(q2, S) = CountIn(q1, S) - One(q1[i] \in S) + One(q[j] \in S)
      BY <1>1, <1>2, CountReplace
    <2> HIDE DEF q2
    <2>6. ASSUME NEW S PROVE CountIn(q2, S) = CountIn(q, S) - One(q[i] \in S) + One(e \in S)
      <3> DEFINE a == One(q[i] \in S)  b == One(q[j] \in S)  c == One(e \in S)
      <3>1. a \in Int /\ b \in Int /\ c \in Int
        BY DEF One
      <3>2. CountIn(q1, S) = CountIn(q, S) - b + c
        BY <2>3
      <3>3. CountIn(q2, S) = CountIn(q1, S) - a + b
        BY <2>2, <2>5
      <3>4. CountIn(q, S) \in Nat
        BY CountIsNumber
      <3> HIDE DEF a, b, c
      <3>5. CountIn(q2, S) = CountIn(q, S) - a + c
        BY <3>1, <3>2, <3>3, <3>4
      <3> QED
        BY <3>5 DEF a, c
    <2> QED
      BY <1>2, <2>1, <2>4, <2>6 DEF p
  <1> QED
    BY <1>3, <1>4 DEF p

\* The MSHR of a block that the code finds is of that block.
LEMMA MshrIsFirst ==
  ASSUME NEW T, NEW s, s.mshrs \in Seq(T), NEW b
  PROVE  /\ MshrOf(s, b) \in 0 .. Len(s.mshrs)
         /\ MshrOf(s, b) = 0 => \A i \in 1 .. Len(s.mshrs) : s.mshrs[i].block # b
         /\ MshrOf(s, b) # 0 => s.mshrs[MshrOf(s, b)].block = b
  <1> DEFINE I == {i \in 1 .. Len(s.mshrs) : s.mshrs[i].block = b}
  <1>1. MshrOf(s, b) = First(I)
    BY Zenon DEF MshrOf, SelectInSeq, First
  <1>2. Len(s.mshrs) \in Nat /\ I \in SUBSET (1 .. Len(s.mshrs))
    OBVIOUS
  <1> DEFINE f == First(I)
  <1>3. /\ f \in 0 .. Len(s.mshrs) /\ (f = 0 => I = {}) /\ (f # 0 => f \in I)
    <2> HIDE DEF I
    <2> QED
      BY <1>2, FirstPlace
  <1>4. MshrOf(s, b) = f
    BY <1>1
  <1> HIDE DEF f
  <1> QED
    BY <1>3, <1>4

\* An answer from below finds its MSHR, which goes behind those that have returned
\* before: that one has an MSHR is what Balanced is for (cache.cc:610-633).
LEMMA FinishPacketIsFine ==
  ASSUME NEW k, NEW n, NEW D, NEW s, Fine(k, n, D, s), s.lower.returned # <<>>
  PROVE  /\ Fine(k, n, D, FinishPacket(s)) /\ FinishPacket(s).tags = s.tags
         /\ FinishPacket(s).tlb = s.tlb
         /\ Len(FinishPacket(s).lower.returned) = Len(s.lower.returned) - 1
  <1> DEFINE T == Misses(k, n)
             q == s.mshrs
             b == Head(s.lower.returned)
             i == MshrOf(s, b)
             j == SelectInSeq(q, LAMBDA m : m.wait = Unknown)
             done == [q[i] EXCEPT !.wait = FillLatency]
             p == [m \in DOMAIN q |-> IF m = j THEN done ELSE IF m = i THEN q[j] ELSE q[m]]
             lower1 == [s.lower EXCEPT !.returned = Tail(@)]
             new == FinishPacket(s)
  <1>1. /\ IsState(s) /\ MshrsFit(k, n, q) /\ q \in Seq(T) /\ LowerFits(s.lower) /\ Balanced(k, n, s)
        /\ Ordered(q) /\ s.clock \in Cycles(k) /\ WritesFit(k, n, s.writes)
    BY DEF Fine, Sound, MshrsFit
  <1>2. Len(q) \in Nat /\ DOMAIN q = 1 .. Len(q) /\ \A m \in 1 .. Len(q) : q[m] \in T
    BY <1>1
  <1>3. /\ s.lower = [wq |-> s.lower.wq, rq |-> s.lower.rq, pq |-> s.lower.pq,
                      returned |-> s.lower.returned, working |-> s.lower.working]
        /\ s.lower.returned \in Seq(Blocks) /\ s.lower.working \in [Blocks -> Nat]
        /\ s.lower.rq \in Seq(Packets) /\ s.lower.pq \in Seq(Packets)
    BY <1>1 DEF LowerFits
  <1>4. /\ Len(s.lower.returned) \in Nat \ {0} /\ b \in Blocks /\ b = s.lower.returned[1]
        /\ Tail(s.lower.returned) \in Seq(Blocks)
        /\ Len(Tail(s.lower.returned)) = Len(s.lower.returned) - 1
        /\ \A S : CountIn(Tail(s.lower.returned), S)
                    = CountIn(s.lower.returned, S) - One(s.lower.returned[1] \in S)
    BY <1>3, TailCount
  <1>5. /\ lower1 = [wq |-> s.lower.wq, rq |-> s.lower.rq, pq |-> s.lower.pq,
                     returned |-> Tail(s.lower.returned), working |-> s.lower.working]
    <2> DEFINE rest == Tail(s.lower.returned)
    <2>1. lower1 = [s.lower EXCEPT !.returned = rest]
      OBVIOUS
    <2> HIDE DEF rest, lower1
    <2>2. lower1 = [wq |-> s.lower.wq, rq |-> s.lower.rq, pq |-> s.lower.pq,
                    returned |-> rest, working |-> s.lower.working]
      BY <1>3, <2>1
    <2> QED
      BY <2>2 DEF rest
  <1>6. /\ LowerFits(lower1) /\ lower1.wq = s.lower.wq
        /\ Len(lower1.returned) = Len(s.lower.returned) - 1
        /\ \A x : BelowOf(lower1, x) = CountIn(s.lower.rq, Wanting(x)) + CountIn(s.lower.pq, Wanting(x))
                    + s.lower.working[x] + CountIn(Tail(s.lower.returned), {x})
    <2> HIDE DEF lower1
    <2> QED
      BY <1>1, <1>4, <1>5 DEF LowerFits, BelowOf
  <1> HIDE DEF lower1
  <1>7. CountIn(q, Awaiting(T, b)) > 0
    <2>1. BelowOf(s.lower, b) = CountIn(q, Awaiting(T, b))
      BY <1>1, <1>4 DEF Balanced
    <2>2. /\ CountIn(s.lower.rq, Wanting(b)) \in Nat /\ CountIn(s.lower.pq, Wanting(b)) \in Nat
          /\ s.lower.working[b] \in Nat
      BY <1>3, <1>4, CountIsNumber
    <2>3. CountIn(s.lower.returned, {b}) \in Nat /\ CountIn(s.lower.returned, {b}) # 0
      <3>1. 1 \in 1 .. Len(s.lower.returned) /\ s.lower.returned[1] \in {b}
        BY <1>4
      <3> QED
        BY <1>3, <3>1, CountIsNumber
    <2> HIDE DEF q, b
    <2> QED
      BY <2>1, <2>2, <2>3 DEF BelowOf
  <1>8. PICK a \in 1 .. Len(q) : q[a] \in Awaiting(T, b)
    <2> DEFINE S == Awaiting(T, b)
    <2>1. CountIn(q, S) # 0
      BY <1>7
    <2> HIDE DEF S, q, b
    <2>2. ~ \A m \in 1 .. Len(q) : q[m] \notin S
      BY <1>1, <2>1, CountIsNumber
    <2> QED
      BY <2>2 DEF S
  <1>9. i \in 1 .. Len(q) /\ q[i].block = b /\ q[i].wait = Unknown
    <2>1. i \in 0 .. Len(q) /\ (i = 0 => \A m \in 1 .. Len(q) : q[m].block # b)
          /\ (i # 0 => q[i].block = b)
      <3>1. s.mshrs \in Seq(T)
        BY <1>1
      <3> HIDE DEF b, T
      <3> QED
        BY <3>1, MshrIsFirst
    <2> HIDE DEF i, b, q
    <2>2. q[a].block = b /\ q[a].wait = Unknown
      BY <1>8 DEF Awaiting
    <2>3. i \in 1 .. Len(q) /\ q[i].block = b
      BY <2>1, <2>2
    <2>4. i = a
      <3>1. CASE i < a
        BY <1>1, <1>2, <2>2, <2>3, <3>1 DEF Ordered
      <3>2. CASE a < i
        BY <1>1, <1>2, <2>2, <2>3, <3>2 DEF Ordered
      <3> QED
        BY <1>2, <2>3, <3>1, <3>2
    <2> QED
      BY <2>2, <2>3, <2>4
  <1>10. /\ j \in 1 .. i /\ q[j].wait = Unknown
         /\ \A m \in 1 .. j - 1 : q[m].wait # Unknown
    <2> DEFINE I == {m \in 1 .. Len(q) : q[m].wait = Unknown}
    <2>1. j = First(I)
      BY Zenon DEF SelectInSeq, First
    <2>2. I \in SUBSET (1 .. Len(q)) /\ i \in I
      BY <1>9
    <2> HIDE DEF j, i, q
    <2> DEFINE f == First(I)
    <2>3. /\ f \in 0 .. Len(q) /\ (f = 0 => I = {})
          /\ (f # 0 => f \in I /\ \A m \in I : f <= m)
      <3> HIDE DEF I
      <3> QED
        BY <1>2, <2>2, FirstPlace
    <2>4. j = f
      BY <2>1
    <2> HIDE DEF f
    <2>5. j \in I /\ \A m \in I : j <= m
      BY <2>2, <2>3, <2>4
    <2> QED
      BY <1>2, <1>9, <2>2, <2>5
  <1>11. done \in T /\ Alike(done, q[i]) /\ done.wait = FillLatency /\ FillLatency \in Nat
         /\ FillLatency # Unknown
    <2>1. q[i] \in T
      BY <1>2, <1>9
    <2>2. FillLatency \in Nat
      BY Numbers
    <2> DEFINE e == q[i]
    <2> HIDE DEF i, e
    <2>3. \A d \in T : /\ [d EXCEPT !.wait = FillLatency] \in T
                       /\ Alike([d EXCEPT !.wait = FillLatency], d)
                       /\ [d EXCEPT !.wait = FillLatency].wait = FillLatency
      BY <2>2 DEF Misses, Alike
    <2> HIDE DEF T
    <2>4. FillLatency # Unknown
      BY <2>2 DEF Unknown
    <2> QED
      BY <2>1, <2>2, <2>3, <2>4 DEF e
  <1>12. new = [s EXCEPT !.lower = lower1, !.mshrs = p]
    <2>1. i # 0 /\ j # 0
      <3> HIDE DEF i, j
      <3> QED
        BY <1>2, <1>9, <1>10
    <2>2. new = [[s EXCEPT !.lower = lower1] EXCEPT !.mshrs = p]
      BY <2>1, Zenon DEF FinishPacket, lower1
    <2> HIDE DEF p, lower1, new
    <2> QED
      BY <1>1, <2>2 DEF IsState
  <1>13. /\ IsState(new) /\ new.mshrs = p /\ new.lower = lower1
         /\ new.clock = s.clock /\ new.uppers = s.uppers /\ new.pq = s.pq /\ new.tags = s.tags
         /\ new.stash = s.stash /\ new.writes = s.writes /\ new.lines = s.lines
         /\ new.lru = s.lru /\ new.tlb = s.tlb /\ new.stats = s.stats /\ new.owed = s.owed
    <2> HIDE DEF p, lower1, new
    <2> QED
      BY <1>1, <1>12 DEF IsState
  <1>14. p = [m \in DOMAIN q |-> IF m = j THEN done ELSE IF m = i THEN q[j] ELSE q[m]]
    OBVIOUS
  <1> HIDE DEF q, b, i, j, done, p, new
  <1>15. i \in 1 .. Len(q) /\ j \in 1 .. Len(q)
    BY <1>2, <1>9, <1>10
  <1>16. /\ p \in Seq(T) /\ Len(p) = Len(q)
         /\ \A S : CountIn(p, S) = CountIn(q, S) - One(q[i] \in S) + One(done \in S)
    <2> HIDE DEF T
    <2>1. p = Swapped(q, i, j, done)
      BY <1>14 DEF Swapped
    <2> QED
      BY <1>1, <1>11, <1>15, <2>1, SwapCount
  <1>17. DOMAIN p = 1 .. Len(q)
    BY <1>2, <1>14
  <1>18. \A m \in 1 .. Len(q) : p[m] = IF m = j THEN done ELSE IF m = i THEN q[j] ELSE q[m]
    BY <1>2, <1>14
  <1>19. Ordered(p)
    <2>1. \A m \in 1 .. Len(q) : q[m].wait \in {Unknown} \cup 0 .. FillLatency
      BY <1>2 DEF Misses
    <2>2. \A m \in 1 .. Len(q) : j <= m => q[m].wait = Unknown
      BY <1>1, <1>2, <1>10, <1>15 DEF Ordered
    <2>3. \A m \in 1 .. Len(q) : m < j => p[m] = q[m] /\ q[m].wait \in 0 .. FillLatency
      BY <1>2, <1>10, <1>15, <1>18, <2>1
    <2>4. \A m \in 1 .. Len(q) : j < m => p[m].wait = Unknown
      BY <1>2, <1>15, <1>18, <2>2
    <2>5. p[j].wait = FillLatency
      BY <1>11, <1>15, <1>18
    <2>6. \A x, y \in 1 .. Len(q) : x < y /\ p[y].wait # Unknown
                 => p[x].wait # Unknown /\ p[x].wait <= p[y].wait
      <3> SUFFICES ASSUME NEW x \in 1 .. Len(q), NEW y \in 1 .. Len(q), x < y, p[y].wait # Unknown
                   PROVE  p[x].wait # Unknown /\ p[x].wait <= p[y].wait
        OBVIOUS
      <3>1. y <= j
        BY <1>2, <1>15, <2>4
      <3>2. p[x] = q[x] /\ q[x].wait \in 0 .. FillLatency
        BY <1>2, <1>15, <2>3, <3>1
      <3>3. CASE y = j
        BY <1>11, <2>5, <3>2, <3>3 DEF Unknown
      <3>4. CASE y # j
        <4>1. p[y] = q[y]
          BY <1>2, <1>15, <2>3, <3>1, <3>4
        <4> QED
          BY <1>1, <1>2, <3>2, <4>1 DEF Ordered
      <3> QED
        BY <3>3, <3>4
    <2>7. \A x, y \in 1 .. Len(q) : x # y => q[x].block # q[y].block
      <3> SUFFICES ASSUME NEW x \in 1 .. Len(q), NEW y \in 1 .. Len(q), x # y
                   PROVE  q[x].block # q[y].block
        OBVIOUS
      <3>1. x < y \/ y < x
        BY <1>2
      <3> QED
        BY <1>1, <1>2, <3>1 DEF Ordered
    <2>8. done.block = q[i].block
      BY <1>11 DEF Alike
    <2>9. \A x \in 1 .. Len(q) : p[x].block = q[IF x = j THEN i ELSE IF x = i THEN j ELSE x].block
      BY <1>15, <1>18, <2>8
    <2>10. \A x, y \in 1 .. Len(q) : x # y => p[x].block # p[y].block
      BY <1>15, <2>7, <2>9
    <2> QED
      BY <1>2, <1>17, <2>6, <2>10 DEF Ordered
  <1>20. MshrsFit(k, n, p)
    <2>1. Len(p) <= MshrSize[k]
      BY <1>1, <1>16 DEF MshrsFit
    <2>2. k = "L2C" => \A m \in DOMAIN p : p[m].type # "WRITE"
      <3> SUFFICES ASSUME k = "L2C", NEW m \in DOMAIN p PROVE p[m].type # "WRITE"
        OBVIOUS
      <3>1. \A x \in 1 .. Len(q) : q[x].type # "WRITE"
        BY <1>1, <1>2 DEF MshrsFit
      <3>2. done.type = q[i].type
        BY <1>11 DEF Alike
      <3> QED
        BY <1>15, <1>17, <1>18, <3>1, <3>2
    <2> QED
      BY <1>16, <1>19, <2>1, <2>2 DEF MshrsFit, T
  <1>21. ASSUME NEW x \in Blocks PROVE BelowOf(new.lower, x) = CountIn(p, Awaiting(T, x))
    <2> DEFINE S == Awaiting(T, x)
    <2>1. q[i] \in S <=> x = b
      BY <1>2, <1>9 DEF Awaiting
    <2>2. done \notin S
      BY <1>11 DEF Awaiting
    <2>3. b \in {x} <=> x = b
      OBVIOUS
    <2> HIDE DEF S
    <2>4. One(q[i] \in S) = One(x = b) /\ One(done \in S) = 0 /\ One(b \in {x}) = One(x = b)
      BY <2>1, <2>2, <2>3 DEF One
    <2> DEFINE c == One(x = b)  u == CountIn(q, S)  v == CountIn(s.lower.rq, Wanting(x))
               w == CountIn(s.lower.pq, Wanting(x))  y == s.lower.working[x]
               z == CountIn(s.lower.returned, {x})
    <2>5. v \in Nat /\ w \in Nat /\ y \in Nat /\ z \in Nat
      BY <1>3, CountIsNumber
    <2>6. u \in Nat /\ c \in Int
      BY <1>1, CountIsNumber DEF One
    <2>7. v + w + y + z = u
      BY <1>1 DEF Balanced, BelowOf, S, q
    <2>8. CountIn(p, S) = u - c + 0
      BY <1>16, <2>4
    <2>9. CountIn(Tail(s.lower.returned), {x}) = z - c
      BY <1>4, <2>4
    <2>10. BelowOf(lower1, x) = v + w + y + (z - c)
      BY <1>6, <2>9
    <2> HIDE DEF c, u, v, w, y, z
    <2>11. BelowOf(lower1, x) = CountIn(p, S)
      BY <2>5, <2>6, <2>7, <2>8, <2>10
    <2> QED
      BY <1>13, <2>11 DEF S
  <1>22. Balanced(k, n, new)
    BY <1>13, <1>21 DEF Balanced, T
  <1>23. ASSUME NEW S, Closed(T, S) PROVE CountIn(new.mshrs, S) = CountIn(s.mshrs, S)
    <2>1. done \in S <=> q[i] \in S
      BY <1>2, <1>11, <1>15, <1>23 DEF Closed
    <2> DEFINE c == One(q[i] \in S)  u == CountIn(q, S)
    <2>2. One(done \in S) = c /\ c \in Int
      BY <2>1 DEF One
    <2>3. u \in Nat
      BY <1>1, CountIsNumber
    <2>4. CountIn(p, S) = u - c + c
      BY <1>16, <2>2
    <2> HIDE DEF c, u
    <2>5. CountIn(p, S) = u
      BY <2>2, <2>3, <2>4
    <2> QED
      BY <1>13, <2>5 DEF u, q
  <1>24. MissesMoved(k, n, s, new)
    <2>1. \A S : Closed(T, S) => CountIn(new.mshrs, S) = CountIn(s.mshrs, S)
      BY <1>23
    <2> QED
      BY <1>1, <1>6, <1>13, <1>20, <1>22, <2>1, Zenon DEF MissesMoved, T
  <1> QED
    BY <1>6, <1>13, <1>24, MissesMovedIsFine DEF new

TickOf(e) == IF e.wait > 0 THEN [e EXCEPT !.wait = @ - 1] ELSE e

\* A queue of which every element comes one cycle nearer.
LEMMA TickFits ==
  ASSUME NEW T, NEW q \in Seq(T), \A e \in T : TickOf(e) \in T /\ Alike(TickOf(e), e)
  PROVE  /\ Tick(q) \in Seq(T) /\ Len(Tick(q)) = Len(q)
         /\ \A i \in 1 .. Len(q) : Tick(q)[i] = TickOf(q[i])
         /\ \A S : Closed(T, S) => CountIn(Tick(q), S) = CountIn(q, S)
  <1> DEFINE p == Tick(q)
  <1>1. p = [i \in DOMAIN q |-> TickOf(q[i])]
    BY DEF Tick, TickOf
  <1>2. Len(q) \in Nat /\ DOMAIN q = 1 .. Len(q) /\ \A i \in 1 .. Len(q) : q[i] \in T
    OBVIOUS
  <1> HIDE DEF p
  <1>3. \A i \in 1 .. Len(q) : p[i] = TickOf(q[i]) /\ p[i] \in T /\ Alike(p[i], q[i])
    BY <1>1, <1>2
  <1>4. p \in [DOMAIN q -> T]
    BY <1>1, <1>2, <1>3
  <1>5. /\ p \in Seq(T) /\ Len(p) = Len(q)
        /\ q \in Seq(T \ Locals(T)) => p \in Seq(T \ Locals(T))
        /\ \A S : Closed(T, S) => CountIn(p, S) = CountIn(q, S)
    BY <1>3, <1>4, MappedFits
  <1> QED
    BY <1>3, <1>5 DEF p

\* A tag check one cycle nearer stays alike.
LEMMA TickedEntry ==
  ASSUME NEW k, NEW n, NEW e \in Entries(k, n)
  PROVE  TickOf(e) \in Entries(k, n) /\ Alike(TickOf(e), e)
  <1>1. CASE e.wait > 0
    <2>1. e.wait - 1 \in 0 .. HitLatency
      BY <1>1, Numbers DEF Entries
    <2>2. TickOf(e) = [e EXCEPT !.wait = e.wait - 1]
      BY <1>1 DEF TickOf
    <2> QED
      BY <2>1, <2>2, WaitingEntry
  <1>2. CASE ~ (e.wait > 0)
    BY <1>2 DEF TickOf, Alike
  <1> QED
    BY <1>1, <1>2

\* An MSHR one cycle nearer stays alike, and one that awaits its answer does not tick.
LEMMA TickedMiss ==
  ASSUME NEW k, NEW n, NEW m \in Misses(k, n)
  PROVE  /\ TickOf(m) \in Misses(k, n) /\ Alike(TickOf(m), m)
         /\ m.wait \in {Unknown} \cup 0 .. FillLatency
         /\ TickOf(m).wait = IF m.wait > 0 THEN m.wait - 1 ELSE m.wait
  <1>1. m.wait \in {Unknown} \cup 0 .. FillLatency /\ FillLatency \in Nat
    BY Numbers DEF Misses
  <1>2. CASE m.wait > 0
    <2> DEFINE w == m.wait - 1
    <2>1. w \in 0 .. FillLatency
      BY <1>1, <1>2 DEF Unknown
    <2>2. TickOf(m) = [m EXCEPT !.wait = w]
      BY <1>2 DEF TickOf
    <2> HIDE DEF w
    <2>3. [m EXCEPT !.wait = w] \in Misses(k, n) /\ Alike([m EXCEPT !.wait = w], m)
          /\ [m EXCEPT !.wait = w].wait = w
      BY <2>1 DEF Misses, Alike
    <2> QED
      BY <1>1, <1>2, <2>2, <2>3 DEF w
  <1>3. CASE ~ (m.wait > 0)
    BY <1>1, <1>3 DEF TickOf, Alike
  <1> QED
    BY <1>2, <1>3

\* The clock stays below the number of turns.
LEMMA ClockFits ==
  ASSUME kind \in Kinds, clock \in Nat
  PROVE  NextClock \in Cycles(kind)
  <1>1. Turns \in Nat \ {0}
    BY Numbers DEF Turns, Greatest
  <1> HIDE DEF Turns
  <1>2. clock + 1 \in Nat
    OBVIOUS
  <1> DEFINE a == clock + 1
  <1> HIDE DEF a
  <1>3. a % Turns \in 0 .. Turns - 1
    BY <1>1, <1>2 DEF a
  <1> QED
    BY <1>3 DEF a, NextClock, Cycles, Turns

\* A cycle begins with a state as fine as the one before.
LEMMA StateIsFine ==
  ASSUME NEW D, Fine(kind, sent, D, Now)
  PROVE  Fine(kind, sent, D, State) /\ Len(State.tags) = Len(tags)
  <1> DEFINE k == kind  n == sent  T == Entries(k, n)  M == Misses(k, n)
             mid == [Now EXCEPT !.tags = Tick(tags)]
  <1>1. /\ k \in Kinds /\ IsState(Now) /\ QueuesFit(k, n, Now) /\ TlbFits(tlb)
        /\ tags \in Seq(T) /\ MshrsFit(k, n, mshrs) /\ WritesFit(k, n, writes)
        /\ LowerFits(lower) /\ clock \in Nat /\ Balanced(k, n, Now)
    BY DEF Fine, Sound, QueuesFit, Now, Cycles
  <1>2. mshrs \in Seq(M) /\ writes \in Seq(M)
    BY <1>1 DEF MshrsFit, WritesFit
  <1>3. /\ Tick(tags) \in Seq(T) /\ Len(Tick(tags)) = Len(tags)
        /\ \A S : Closed(T, S) => CountIn(Tick(tags), S) = CountIn(tags, S)
    <2>1. \A e \in T : TickOf(e) \in T /\ Alike(TickOf(e), e)
      BY TickedEntry
    <2> HIDE DEF T
    <2> QED
      BY <1>1, <2>1, TickFits
  <1>4. \A e \in M : /\ TickOf(e) \in M /\ Alike(TickOf(e), e)
                     /\ e.wait \in {Unknown} \cup 0 .. FillLatency
                     /\ TickOf(e).wait = IF e.wait > 0 THEN e.wait - 1 ELSE e.wait
    BY TickedMiss
  <1>5. /\ Tick(mshrs) \in Seq(M) /\ Len(Tick(mshrs)) = Len(mshrs)
        /\ \A i \in 1 .. Len(mshrs) : Tick(mshrs)[i] = TickOf(mshrs[i])
        /\ \A S : Closed(M, S) => CountIn(Tick(mshrs), S) = CountIn(mshrs, S)
    <2> HIDE DEF M
    <2> QED
      BY <1>2, <1>4, TickFits
  <1>6. /\ Tick(writes) \in Seq(M) /\ Len(Tick(writes)) = Len(writes)
        /\ \A i \in 1 .. Len(writes) : Tick(writes)[i] = TickOf(writes[i])
        /\ \A S : Closed(M, S) => CountIn(Tick(writes), S) = CountIn(writes, S)
    <2> HIDE DEF M
    <2> QED
      BY <1>2, <1>4, TickFits
  <1> DEFINE t == Tick(tags)  p == Tick(mshrs)  q == Tick(writes)
  <1>7. Moved(k, n, Now, mid)
    <2>1. /\ IsState(mid) /\ mid.tags = t /\ mid.stash = stash /\ mid.tlb = tlb
          /\ mid.clock = clock /\ mid.uppers = uppers /\ mid.pq = pq
          /\ mid.mshrs = mshrs /\ mid.writes = writes /\ mid.lines = lines
          /\ mid.lru = lru /\ mid.lower = lower /\ mid.stats = stats /\ mid.owed = owed
      <3>1. mid = [Now EXCEPT !.tags = t]
        OBVIOUS
      <3> HIDE DEF mid, t
      <3> QED
        BY <3>1 DEF Now, IsState
    <2>2. /\ Now.clock = clock /\ Now.uppers = uppers /\ Now.tags = tags /\ Now.stash = stash
          /\ Now.pq = pq /\ Now.mshrs = mshrs /\ Now.writes = writes /\ Now.lines = lines
          /\ Now.lru = lru /\ Now.lower = lower /\ Now.stats = stats /\ Now.owed = owed
      BY DEF Now
    <2> HIDE DEF mid, t
    <2>3. ASSUME NEW S, Closed(T, S) PROVE Checks(mid, S) = Checks(Now, S)
      <3>1. CountIn(t, S) = CountIn(tags, S)
        BY <1>3, <2>3 DEF t
      <3> QED
        BY <2>1, <2>2, <3>1, Zenon DEF Checks
    <2>4. QueuesFit(k, n, mid)
      BY <1>1, <1>3, <2>1, <2>2 DEF QueuesFit, t
    <2> QED
      BY <1>1, <2>1, <2>2, <2>3, <2>4 DEF Moved, T
  <1>8. Fine(k, n, D, mid)
    <2> HIDE DEF mid
    <2> QED
      BY <1>7, MovedIsFine
  <1>9. /\ IsState(State) /\ State.tags = t /\ State.stash = stash /\ State.tlb = tlb
        /\ State.clock = NextClock /\ State.uppers = uppers /\ State.pq = pq
        /\ State.mshrs = p /\ State.writes = q /\ State.lines = lines
        /\ State.lru = lru /\ State.lower = lower /\ State.stats = stats /\ State.owed = owed
    <2> HIDE DEF t, p, q
    <2> QED
      BY DEF State, IsState, t, p, q
  <1>10. /\ mid.tags = t /\ mid.stash = stash /\ mid.tlb = tlb
         /\ mid.uppers = uppers /\ mid.pq = pq /\ mid.mshrs = mshrs /\ mid.writes = writes
         /\ mid.lines = lines /\ mid.lru = lru /\ mid.lower = lower
         /\ mid.stats = stats /\ mid.owed = owed
    <2> HIDE DEF t
    <2> QED
      BY DEF Now, t
  <1> HIDE DEF t, p, q, mid
  <1>11. DOMAIN p = 1 .. Len(mshrs) /\ DOMAIN mshrs = 1 .. Len(mshrs) /\ Len(mshrs) \in Nat
         /\ \A i \in 1 .. Len(mshrs) : p[i] = TickOf(mshrs[i]) /\ mshrs[i] \in M
    BY <1>2, <1>5 DEF p
  <1>12. Ordered(p)
    <2> SUFFICES ASSUME NEW i \in 1 .. Len(mshrs), NEW j \in 1 .. Len(mshrs), i < j
                 PROVE  /\ p[i].block # p[j].block
                        /\ p[j].wait # Unknown => p[i].wait # Unknown /\ p[i].wait <= p[j].wait
      BY <1>11 DEF Ordered
    <2> DEFINE a == mshrs[i]  c == mshrs[j]
    <2>1. /\ a.block # c.block
          /\ c.wait # Unknown => a.wait # Unknown /\ a.wait <= c.wait
      BY <1>1, <1>11 DEF MshrsFit, Ordered
    <2>2. p[i] = TickOf(a) /\ p[j] = TickOf(c) /\ a \in M /\ c \in M
      BY <1>11
    <2> HIDE DEF a, c, M
    <2>3. p[i].block = a.block /\ p[j].block = c.block
      BY <1>4, <2>2 DEF Alike
    <2>4. /\ a.wait \in {Unknown} \cup 0 .. FillLatency /\ c.wait \in {Unknown} \cup 0 .. FillLatency
          /\ p[i].wait = IF a.wait > 0 THEN a.wait - 1 ELSE a.wait
          /\ p[j].wait = IF c.wait > 0 THEN c.wait - 1 ELSE c.wait
      BY <1>4, <2>2
    <2>5. p[j].wait # Unknown => p[i].wait # Unknown /\ p[i].wait <= p[j].wait
      <3> DEFINE u == a.wait  v == c.wait  x == p[i].wait  y == p[j].wait
      <3>1. FillLatency \in Nat
        BY Numbers
      <3>2. /\ u \in {-1} \cup 0 .. FillLatency /\ v \in {-1} \cup 0 .. FillLatency
            /\ x = (IF u > 0 THEN u - 1 ELSE u) /\ y = (IF v > 0 THEN v - 1 ELSE v)
            /\ (v # -1 => u # -1 /\ u <= v)
        BY <2>1, <2>4 DEF Unknown
      <3> HIDE DEF u, v, x, y
      <3>3. y # -1 => x # -1 /\ x <= y
        <4>1. u \in Int /\ v \in Int
          BY <3>1, <3>2
        <4>2. CASE v = -1
          BY <3>2, <4>2
        <4>3. CASE v # -1
          BY <3>1, <3>2, <4>1, <4>3
        <4> QED
          BY <4>2, <4>3
      <3> QED
        BY <3>3 DEF x, y, Unknown
    <2> QED
      BY <2>1, <2>3, <2>5
  <1>13. MshrsFit(k, n, p)
    <2>1. Len(p) <= MshrSize[k] /\ p \in Seq(M)
      BY <1>1, <1>5 DEF MshrsFit, p
    <2>2. k = "L2C" => \A i \in DOMAIN p : p[i].type # "WRITE"
      <3> SUFFICES ASSUME k = "L2C", NEW i \in 1 .. Len(mshrs) PROVE p[i].type # "WRITE"
        BY <1>11
      <3>1. mshrs[i].type # "WRITE"
        BY <1>1, <1>11 DEF MshrsFit
      <3>2. p[i].type = mshrs[i].type
        BY <1>4, <1>11 DEF Alike
      <3> QED
        BY <3>1, <3>2
    <2> QED
      BY <1>12, <2>1, <2>2 DEF MshrsFit, M
  <1>14. WritesFit(k, n, q)
    <2>1. DOMAIN q = 1 .. Len(writes) /\ DOMAIN writes = 1 .. Len(writes)
          /\ \A i \in 1 .. Len(writes) : q[i] = TickOf(writes[i]) /\ writes[i] \in M
      BY <1>2, <1>6 DEF q
    <2>2. ASSUME NEW i \in DOMAIN q PROVE q[i].wait # Unknown /\ q[i].type = "WRITE"
      <3>1. writes[i].wait # Unknown /\ writes[i].type = "WRITE"
        BY <1>1, <2>1, <2>2 DEF WritesFit
      <3>2. /\ q[i].type = writes[i].type
            /\ writes[i].wait \in {Unknown} \cup 0 .. FillLatency
            /\ q[i].wait = IF writes[i].wait > 0 THEN writes[i].wait - 1 ELSE writes[i].wait
        BY <1>4, <2>1, <2>2 DEF Alike
      <3> QED
        BY <3>1, <3>2, Numbers DEF Unknown
    <2> QED
      BY <1>6, <2>2 DEF WritesFit, M, q
  <1>15. Balanced(k, n, State)
    <2>1. ASSUME NEW b \in Blocks
          PROVE  CountIn(p, Awaiting(M, b)) = CountIn(mshrs, Awaiting(M, b))
      <3> DEFINE S == Awaiting(M, b)
      <3>1. \A i \in 1 .. Len(mshrs) : p[i] \in S <=> mshrs[i] \in S
        <4> TAKE i \in 1 .. Len(mshrs)
        <4> DEFINE a == mshrs[i]
        <4>1. p[i] = TickOf(a) /\ a \in M
          BY <1>11
        <4> HIDE DEF a, M
        <4>2. /\ p[i] \in M /\ p[i].block = a.block
              /\ a.wait \in {Unknown} \cup 0 .. FillLatency
              /\ p[i].wait = IF a.wait > 0 THEN a.wait - 1 ELSE a.wait
          BY <1>4, <4>1 DEF Alike
        <4>3. p[i].wait = Unknown <=> a.wait = Unknown
          BY <4>2, Numbers DEF Unknown
        <4> QED
          BY <4>1, <4>2, <4>3 DEF Awaiting, a
      <3> HIDE DEF S
      <3> QED
        BY <1>2, <1>11, <3>1, CountSame DEF S
    <2>2. \A b \in Blocks : BelowOf(lower, b) = CountIn(mshrs, Awaiting(M, b))
      BY <1>1 DEF Balanced, Now, M
    <2> QED
      BY <1>9, <2>1, <2>2 DEF Balanced, M
  <1>16. MissesMoved(k, n, mid, State)
    <2>1. ASSUME NEW S, Closed(M, S)
          PROVE  CountIn(State.mshrs, S) = CountIn(mid.mshrs, S)
                 /\ CountIn(State.writes, S) = CountIn(mid.writes, S)
      BY <1>5, <1>6, <1>9, <1>10, <2>1 DEF p, q
    <2>2. NextClock \in Cycles(k)
      BY <1>1, ClockFits
    <2> QED
      BY <1>1, <1>9, <1>10, <1>13, <1>14, <1>15, <2>1, <2>2 DEF MissesMoved, M
  <1> QED
    BY <1>3, <1>8, <1>9, <1>16, MissesMovedIsFine DEF t

-----------------------------------------------------------------------------
(***************************************************************************)
(* The lines and their order.                                              *)
(***************************************************************************)
LEMMA PutLineFits ==
  ASSUME NEW ls, LinesFit(ls), NEW set \in SetIds, NEW way \in Ways, NEW line \in LineStates
  PROVE  /\ LinesFit(PutLine(ls, set, way, line))
         /\ PutLine(ls, set, way, line)[set][way] = line
         /\ \A a \in SetIds, w \in Ways : ~ (a = set /\ w = way)
               => PutLine(ls, set, way, line)[a][w] = ls[a][w]
  <1> DEFINE row == [ls[set] EXCEPT ![way] = line]  new == [ls EXCEPT ![set] = row]
  <1>1. ls \in [SetIds -> [Ways -> LineStates]] /\ ls[set] \in [Ways -> LineStates]
    BY DEF LinesFit
  <1>2. PutLine(ls, set, way, line) = new
    BY DEF PutLine
  <1>3. row \in [Ways -> LineStates] /\ row[way] = line /\ \A w \in Ways : w # way => row[w] = ls[set][w]
    BY <1>1
  <1> HIDE DEF row
  <1>4. /\ new \in [SetIds -> [Ways -> LineStates]] /\ new[set] = row
        /\ \A a \in SetIds : a # set => new[a] = ls[a]
    BY <1>1, <1>3
  <1> HIDE DEF new
  <1> QED
    BY <1>2, <1>3, <1>4 DEF LinesFit

PrefetchLineIs(line) == line.valid /\ line.prefetch

\* Putting one line changes the number of prefetched lines by that line.
LEMMA PutLinePrefetched ==
  ASSUME NEW ls, LinesFit(ls), NEW set \in SetIds, NEW way \in Ways, NEW line \in LineStates
  PROVE  /\ Cardinality(Prefetched(ls)) \in Nat
         /\ Cardinality(Prefetched(PutLine(ls, set, way, line))) \in Nat
         /\ Cardinality(Prefetched(PutLine(ls, set, way, line)))
              = Cardinality(Prefetched(ls)) - One(PrefetchLineIs(ls[set][way]))
                  + One(PrefetchLineIs(line))
  <1> DEFINE new == PutLine(ls, set, way, line)
             x == <<set, way>>
             A == Prefetched(ls)
             B == Prefetched(new)
             U == SetIds \X Ways
  <1>1. /\ LinesFit(new) /\ new[set][way] = line
        /\ \A a \in SetIds, w \in Ways : ~ (a = set /\ w = way) => new[a][w] = ls[a][w]
    BY PutLineFits
  <1>2. x \in U /\ x[1] = set /\ x[2] = way
    OBVIOUS
  <1>3. A \in SUBSET U /\ B \in SUBSET U
    BY DEF Prefetched
  <1>4. x \in A <=> PrefetchLineIs(ls[set][way])
    BY <1>2 DEF Prefetched, PrefetchLineIs
  <1>5. x \in B <=> PrefetchLineIs(line)
    BY <1>1, <1>2 DEF Prefetched, PrefetchLineIs
  <1>6. A \ {x} = B \ {x}
    <2>1. \A y \in U : y # x => new[y[1]][y[2]] = ls[y[1]][y[2]]
      <3> TAKE y \in U
      <3>1. y[1] \in SetIds /\ y[2] \in Ways /\ y = <<y[1], y[2]>>
        OBVIOUS
      <3>2. y # x => ~ (y[1] = set /\ y[2] = way)
        BY <3>1
      <3> HIDE DEF new, x
      <3> QED
        BY <1>1, <3>1, <3>2
    <2> HIDE DEF new, x
    <2> QED
      BY <2>1 DEF Prefetched
  <1>7. IsFiniteSet(U)
    <2>1. NumSet \in Nat /\ NumWay \in Nat
      BY Numbers
    <2>2. IsFiniteSet(SetIds) /\ IsFiniteSet(Ways)
      <3>1. 0 \in Int /\ 1 \in Int /\ NumSet - 1 \in Int /\ NumWay \in Int
        BY <2>1
      <3> QED
        BY <3>1, FS_Interval DEF SetIds, Ways
    <2> QED
      BY <2>2, FS_Product
  <1> HIDE DEF A, B, U, x
  <1>8. IsFiniteSet(A) /\ IsFiniteSet(B)
    BY <1>3, <1>7, FS_Subset
  <1>9. /\ Cardinality(A) \in Nat /\ Cardinality(B) \in Nat
        /\ Cardinality(A \ {x}) = IF x \in A THEN Cardinality(A) - 1 ELSE Cardinality(A)
        /\ Cardinality(B \ {x}) = IF x \in B THEN Cardinality(B) - 1 ELSE Cardinality(B)
    BY <1>8, FS_CardinalityType, FS_RemoveElement
  <1> DEFINE a == Cardinality(A)  b == Cardinality(B)
  <1>10. (IF x \in A THEN a - 1 ELSE a) = (IF x \in B THEN b - 1 ELSE b) /\ a \in Nat /\ b \in Nat
    BY <1>6, <1>9
  <1>11. /\ One(PrefetchLineIs(ls[set][way])) = (IF x \in A THEN 1 ELSE 0)
         /\ One(PrefetchLineIs(line)) = (IF x \in B THEN 1 ELSE 0)
    BY <1>4, <1>5 DEF One
  <1> DEFINE c == One(PrefetchLineIs(ls[set][way]))  d == One(PrefetchLineIs(line))
  <1> HIDE DEF a, b
  <1>12. c = (IF x \in A THEN 1 ELSE 0) /\ d = (IF x \in B THEN 1 ELSE 0)
    BY <1>11
  <1> HIDE DEF c, d
  <1>13. b = a - c + d
    BY <1>10, <1>12
  <1> QED
    BY <1>10, <1>13 DEF a, b, c, d, A, B

\* A way that is used stays in the order, as do all others.
LEMMA TouchFits ==
  ASSUME NEW o, OrderFits(o), NEW way \in Ways
  PROVE  OrderFits(Touch(o, way))
  <1> DEFINE i == CHOOSE x \in DOMAIN o : o[x] = way
             p == RemoveAt(o, i)
             q == p \o <<way>>
  <1>1. o \in Seq(Ways) /\ Len(o) \in Nat /\ DOMAIN o = 1 .. Len(o)
        /\ \A w \in Ways : \E x \in DOMAIN o : o[x] = w
    BY DEF OrderFits
  <1>2. i \in 1 .. Len(o) /\ o[i] = way
    <2>1. \E x \in DOMAIN o : o[x] = way
      BY <1>1
    <2>2. i \in DOMAIN o /\ o[i] = way
      BY <2>1, Zenon
    <2> HIDE DEF i
    <2> QED
      BY <1>1, <2>2
  <1>3. Touch(o, way) = q
    BY Zenon DEF Touch
  <1> HIDE DEF i
  <1>4. /\ p \in Seq(Ways) /\ Len(p) = Len(o) - 1
        /\ \A x \in 1 .. Len(o) - 1 : p[x] = IF x < i THEN o[x] ELSE o[x + 1]
    BY <1>1, <1>2, CountRemove
  <1> HIDE DEF p
  <1>5. /\ q \in Seq(Ways) /\ Len(q) = Len(o) /\ q[Len(o)] = way /\ DOMAIN q = 1 .. Len(o)
        /\ \A x \in 1 .. Len(o) - 1 : q[x] = p[x]
    <2>1. q = Append(p, way) /\ Append(p, way) \in Seq(Ways) /\ Len(Append(p, way)) = Len(p) + 1
      BY <1>4, AppendIsConcat
    <2>2. \A x \in 1 .. Len(p) + 1 : Append(p, way)[x] = IF x = Len(p) + 1 THEN way ELSE p[x]
      BY <1>4, AppendProperties
    <2> HIDE DEF q
    <2> DEFINE l == Len(p)
    <2>3. Len(o) = l + 1 /\ l \in Nat
      BY <1>1, <1>2, <1>4
    <2>4. \A x \in 1 .. l + 1 : q[x] = IF x = l + 1 THEN way ELSE p[x]
      BY <2>1, <2>2
    <2>5. q \in Seq(Ways) /\ Len(q) = l + 1
      BY <2>1
    <2> HIDE DEF l
    <2> QED
      BY <2>3, <2>4, <2>5
  <1> HIDE DEF q
  <1>6. ASSUME NEW w \in Ways PROVE \E x \in DOMAIN q : q[x] = w
    <2>1. PICK x \in 1 .. Len(o) : o[x] = w
      BY <1>1
    <2>2. CASE x = i
      <3>1. Len(o) \in DOMAIN q
        BY <1>1, <1>2, <1>5
      <3>2. q[Len(o)] = w
        BY <1>2, <1>5, <2>1, <2>2
      <3> QED
        BY <3>1, <3>2
    <2>3. CASE x < i
      <3>1. x \in 1 .. Len(o) - 1 /\ x \in DOMAIN q
        BY <1>1, <1>2, <1>5, <2>1, <2>3
      <3> QED
        BY <1>4, <1>5, <2>1, <2>3, <3>1
    <2>4. CASE i < x
      <3>1. x - 1 \in 1 .. Len(o) - 1 /\ x - 1 \in DOMAIN q /\ ~ (x - 1 < i) /\ (x - 1) + 1 = x
        BY <1>1, <1>2, <1>5, <2>1, <2>4
      <3> QED
        BY <1>4, <1>5, <2>1, <3>1
    <2> QED
      BY <1>1, <1>2, <2>1, <2>2, <2>3, <2>4
  <1> QED
    BY <1>3, <1>5, <1>6 DEF OrderFits

\* A block is in a set.
LEMMA SetFits ==
  ASSUME NEW b \in Nat
  PROVE  SetOf(b) \in SetIds
  <1>1. NumSet \in Nat \ {0}
    BY Numbers
  <1> QED
    BY <1>1 DEF SetOf, SetIds

\* Blocks are numbers.
LEMMA BlocksAreNumbers ==
  Blocks \subseteq Nat
  <1> SUFFICES ASSUME NEW b \in Blocks PROVE b \in Nat
    OBVIOUS
  <1>1. PICK addr \in UNION {Addresses[k] : k \in Kinds} : b = BlockOf(addr)
    BY DEF Blocks
  <1>2. addr \in Nat /\ BlockSize \in Nat \ {0}
    BY CacheAssumption
  <1> QED
    BY <1>1, <1>2 DEF BlockOf

\* The victim is a way of the set.
LEMMA VictimFits ==
  ASSUME NEW s, LinesFit(s.lines), LruFits(s.lru), NEW set \in SetIds
  PROVE  Victim(s, set) \in Ways
  <1> DEFINE F == FirstInvalid(s.lines[set])
  <1>1. F \subseteq Ways
    <2>1. s.lines[set] \in [Ways -> LineStates]
      BY DEF LinesFit
    <2> QED
      BY <2>1 DEF FirstInvalid
  <1>2. CASE F = {}
    <2>1. Victim(s, set) = Head(s.lru[set])
      BY <1>2 DEF Victim
    <2>2. OrderFits(s.lru[set])
      BY DEF LruFits
    <2>3. 1 \in Ways
      BY Numbers DEF Ways
    <2>4. s.lru[set] \in Seq(Ways) /\ s.lru[set] # <<>>
      BY <2>2, <2>3 DEF OrderFits
    <2> QED
      BY <2>1, <2>4
  <1>3. CASE F # {}
    <2>1. Victim(s, set) = CHOOSE w \in F : TRUE
      BY <1>3, Zenon DEF Victim
    <2> HIDE DEF F
    <2>2. (CHOOSE w \in F : TRUE) \in F
      BY <1>3
    <2> QED
      BY <1>1, <2>1, <2>2
  <1> QED
    BY <1>2, <1>3

\* The number of prefetched lines is a number.
LEMMA PrefetchedIsNumber ==
  ASSUME NEW ls, LinesFit(ls)
  PROVE  Cardinality(Prefetched(ls)) \in Nat
  <1>1. 0 \in SetIds /\ 1 \in Ways
    BY Numbers DEF SetIds, Ways
  <1>2. Invalid \in LineStates
    BY DEF Invalid, LineStates
  <1> QED
    BY <1>1, <1>2, PutLinePrefetched

\* What a fill changes, of a miss that is ready and for which there is room.
FillEffect(k, n, s, m, new) ==
  /\ IsState(new) /\ new.clock = s.clock /\ new.uppers = s.uppers
  /\ new.pq = s.pq /\ new.tags = s.tags /\ new.stash = s.stash
  /\ new.mshrs = s.mshrs /\ new.writes = s.writes /\ new.tlb = s.tlb
  /\ LinesFit(new.lines) /\ LruFits(new.lru) /\ LowerFits(new.lower)
  /\ new.lower.returned = s.lower.returned
  /\ \A b : BelowOf(new.lower, b) = BelowOf(s.lower, b)
  /\ new.stats \in [issued : Nat, useful : Nat, useless : Nat]
  /\ new.stats.issued = s.stats.issued
  /\ new.stats.useful + new.stats.useless + Cardinality(Prefetched(new.lines))
       = s.stats.useful + s.stats.useless + Cardinality(Prefetched(s.lines)) + One(m.local)
  /\ new.owed \subseteq s.owed /\ new.owed \cap m.ids = {}
  /\ \A b \in Blocks : DirtyIn(s.lines, b) =>
        DirtyIn(new.lines, b) \/ CountIn(new.lower.wq, {[block |-> b]}) > 0
  /\ \A b : CountIn(s.lower.wq, {[block |-> b]}) > 0 => CountIn(new.lower.wq, {[block |-> b]}) > 0
  /\ m.type = "WRITE" => DirtyIn(new.lines, m.block)

\* A fill does what FillEffect says (cache.cc:169-248).
LEMMA HandleFillFits ==
  ASSUME NEW k, NEW n, NEW s, Sound(k, n, s), NEW m \in Misses(k, n), CanFill(s, m)
  PROVE  FillEffect(k, n, s, m, HandleFill(s, m))
  <1> DEFINE set == SetOf(m.block)
             way == Victim(s, set)
             old == s.lines[set][way]
             line == FillBlock(m)
             packet == [block |-> old.block]
             wq1 == Append(s.lower.wq, packet)
             lower1 == IF WritesBack(old) THEN [s.lower EXCEPT !.wq = wq1] ELSE s.lower
             useless1 == s.stats.useless + 1
             stats1 == IF old.valid /\ old.prefetch
                       THEN [s.stats EXCEPT !.useless = useless1] ELSE s.stats
             lines1 == PutLine(s.lines, set, way, line)
             lru1 == [s.lru EXCEPT ![set] = Touch(@, way)]
             owed1 == s.owed \ {id \in m.ids : id.upper \in m.to}
             new == HandleFill(s, m)
  <1>1. /\ IsState(s) /\ LinesFit(s.lines) /\ LruFits(s.lru) /\ LowerFits(s.lower)
        /\ s.stats \in [issued : Nat, useful : Nat, useless : Nat]
    BY DEF Sound, StatsFit
  <1>2. /\ m.block \in Blocks /\ m.block \in Nat /\ m.type \in Types /\ m.local \in BOOLEAN
        /\ (m.local => m.type = "PREFETCH") /\ \A id \in m.ids : id.upper \in m.to
    BY BlocksAreNumbers DEF Misses
  <1>3. set \in SetIds /\ way \in Ways
    <2>1. set \in SetIds
      BY <1>2, SetFits
    <2> HIDE DEF set
    <2> QED
      BY <1>1, <2>1, VictimFits
  <1>4. line \in LineStates /\ line.valid /\ line.block = m.block /\ line.dirty = (m.type = "WRITE")
        /\ line.prefetch = m.local
    BY <1>2 DEF FillBlock, LineStates
  <1>5. old \in LineStates
    <2> HIDE DEF set, way
    <2> QED
      BY <1>1, <1>3 DEF LinesFit
  <1>6. CanFill(s, m) <=> (WritesBack(old) => Len(s.lower.wq) < LowerSize)
    BY Zenon DEF CanFill
  <1>7. new = [[s EXCEPT !.lower = lower1, !.stats = stats1, !.lines = lines1, !.lru = lru1]
                  EXCEPT !.owed = @ \ {id \in m.ids : id.upper \in m.to}]
    <2>1. lower1 = (IF WritesBack(old) THEN [s.lower EXCEPT !.wq = Append(@, packet)] ELSE s.lower)
      OBVIOUS
    <2>2. stats1 = (IF old.valid /\ old.prefetch THEN [s.stats EXCEPT !.useless = @ + 1] ELSE s.stats)
      OBVIOUS
    <2> QED
      BY <2>1, <2>2, Zenon DEF HandleFill, Respond
  <1> HIDE DEF set, way, old, lower1, stats1, lines1, lru1, line, new
  <1>8. /\ IsState(new) /\ new.clock = s.clock /\ new.uppers = s.uppers
        /\ new.pq = s.pq /\ new.tags = s.tags /\ new.stash = s.stash
        /\ new.mshrs = s.mshrs /\ new.writes = s.writes /\ new.tlb = s.tlb
        /\ new.lower = lower1 /\ new.stats = stats1 /\ new.lines = lines1 /\ new.lru = lru1
        /\ new.owed = owed1
    BY <1>1, <1>7 DEF IsState
  <1>9. new.owed \subseteq s.owed /\ new.owed \cap m.ids = {}
    BY <1>2, <1>8
  <1>10. /\ LinesFit(lines1) /\ lines1[set][way] = line
         /\ \A a \in SetIds, w \in Ways : ~ (a = set /\ w = way) => lines1[a][w] = s.lines[a][w]
    BY <1>1, <1>3, <1>4, PutLineFits DEF lines1
  <1>11. LruFits(lru1)
    <2>1. s.lru = [x \in SetIds |-> s.lru[x]] /\ \A x \in SetIds : OrderFits(s.lru[x])
      BY <1>1 DEF LruFits
    <2>2. OrderFits(Touch(s.lru[set], way))
      BY <1>3, <2>1, TouchFits
    <2> DEFINE t == Touch(s.lru[set], way)
    <2>3. lru1 = [s.lru EXCEPT ![set] = t]
      BY DEF lru1
    <2> HIDE DEF t
    <2>4. lru1 = [x \in SetIds |-> IF x = set THEN t ELSE s.lru[x]]
      BY <1>3, <2>1, <2>3
    <2>5. OrderFits(t)
      BY <2>2 DEF t
    <2> QED
      BY <2>1, <2>4, <2>5 DEF LruFits
  <1>12. /\ LowerFits(lower1) /\ lower1.returned = s.lower.returned
         /\ lower1.rq = s.lower.rq /\ lower1.pq = s.lower.pq /\ lower1.working = s.lower.working
         /\ WritesBack(old) => lower1.wq = Append(s.lower.wq, packet)
         /\ ~ WritesBack(old) => lower1.wq = s.lower.wq
    <2>1. CASE ~ WritesBack(old)
      BY <1>1, <2>1 DEF lower1
    <2>2. CASE WritesBack(old)
      <3>1. packet \in [block : Blocks]
        BY <1>5, <2>2 DEF WritesBack, LineStates
      <3>2. lower1 = [s.lower EXCEPT !.wq = wq1]
        BY <2>2 DEF lower1
      <3>3. s.lower.wq \in Seq([block : Blocks]) /\ Len(s.lower.wq) < LowerSize /\ LowerSize \in Nat
        BY <1>1, <1>6, <2>2, Numbers DEF LowerFits
      <3> HIDE DEF packet
      <3>4. wq1 \in Seq([block : Blocks]) /\ Len(wq1) <= LowerSize
        BY <3>1, <3>3
      <3>5. wq1 = Append(s.lower.wq, packet)
        OBVIOUS
      <3> HIDE DEF wq1
      <3> QED
        BY <1>1, <2>2, <3>2, <3>4, <3>5 DEF LowerFits
    <2> QED
      BY <2>1, <2>2
  <1>13. \A b : BelowOf(new.lower, b) = BelowOf(s.lower, b)
    BY <1>8, <1>12, Zenon DEF BelowOf
  <1>14. \A b : CountIn(s.lower.wq, {[block |-> b]}) > 0 => CountIn(lower1.wq, {[block |-> b]}) > 0
    <2> TAKE b
    <2> DEFINE S == {[block |-> b]}
    <2>1. CASE ~ WritesBack(old)
      BY <1>12, <2>1
    <2>2. CASE WritesBack(old)
      <3>1. packet \in [block : Blocks] /\ s.lower.wq \in Seq([block : Blocks])
        BY <1>1, <1>5, <2>2 DEF WritesBack, LineStates, LowerFits
      <3>2. CountIn(lower1.wq, S) = CountIn(s.lower.wq, S) + One(packet \in S)
        <4> DEFINE U == [block : Blocks]
        <4>1. packet \in U /\ s.lower.wq \in Seq(U)
          BY <3>1
        <4> HIDE DEF packet, S, U
        <4>2. CountIn(Append(s.lower.wq, packet), S) = CountIn(s.lower.wq, S) + One(packet \in S)
          BY <4>1, CountAppend
        <4>3. lower1.wq = Append(s.lower.wq, packet)
          BY <1>12, <2>2
        <4> QED
          BY <4>2, <4>3, Zenon
      <3>3. CountIn(s.lower.wq, S) \in Nat
        <4> HIDE DEF S
        <4> QED
          BY <3>1, CountIsNumber
      <3> DEFINE o == One(packet \in S)
      <3>4. o \in Nat
        BY DEF One
      <3> HIDE DEF o
      <3>5. CountIn(lower1.wq, S) = CountIn(s.lower.wq, S) + o
        BY <3>2 DEF o
      <3> HIDE DEF S
      <3>6. CountIn(s.lower.wq, S) > 0 => CountIn(lower1.wq, S) > 0
        BY <3>3, <3>4, <3>5
      <3> QED
        BY <3>6 DEF S
    <2> QED
      BY <2>1, <2>2
  <1>15. WritesBack(old) => CountIn(lower1.wq, {[block |-> old.block]}) > 0
    <2> SUFFICES ASSUME WritesBack(old) PROVE CountIn(lower1.wq, {packet}) > 0
      OBVIOUS
    <2> DEFINE U == [block : Blocks]  S == {packet}
    <2>1. packet \in U /\ s.lower.wq \in Seq(U)
      BY <1>1, <1>5 DEF WritesBack, LineStates, LowerFits
    <2>2. CountIn(lower1.wq, S) = CountIn(s.lower.wq, S) + One(packet \in S)
      <3> HIDE DEF packet, U, S
      <3>1. CountIn(Append(s.lower.wq, packet), S) = CountIn(s.lower.wq, S) + One(packet \in S)
        BY <2>1, CountAppend
      <3>2. lower1.wq = Append(s.lower.wq, packet)
        BY <1>12
      <3> QED
        BY <3>1, <3>2, Zenon
    <2> HIDE DEF packet, U
    <2>3. One(packet \in {packet}) = 1
      BY DEF One
    <2>4. CountIn(s.lower.wq, {packet}) \in Nat
      BY <2>1, CountIsNumber
    <2> QED
      BY <2>2, <2>3, <2>4
  <1>16. ASSUME NEW b \in Blocks, DirtyIn(s.lines, b)
         PROVE  DirtyIn(lines1, b) \/ CountIn(lower1.wq, {[block |-> b]}) > 0
    <2>1. PICK w \in Ways : LET l == s.lines[SetOf(b)][w] IN l.valid /\ l.dirty /\ l.block = b
      BY <1>16 DEF DirtyIn
    <2>2. CASE SetOf(b) = set /\ w = way
      <3>1. WritesBack(old) /\ old.block = b
        BY <2>1, <2>2 DEF WritesBack, old
      <3> QED
        BY <1>15, <3>1
    <2>3. CASE ~ (SetOf(b) = set /\ w = way)
      <3>1. SetOf(b) \in SetIds
        BY SetFits, BlocksAreNumbers
      <3>2. lines1[SetOf(b)][w] = s.lines[SetOf(b)][w]
        BY <1>10, <2>3, <3>1
      <3> QED
        BY <2>1, <3>2 DEF DirtyIn
    <2> QED
      BY <2>2, <2>3
  <1>17. m.type = "WRITE" => DirtyIn(lines1, m.block)
    <2>1. lines1[SetOf(m.block)][way] = line
      BY <1>10 DEF set
    <2> QED
      BY <1>3, <1>4, <2>1 DEF DirtyIn
  <1>18. /\ stats1 \in [issued : Nat, useful : Nat, useless : Nat] /\ stats1.issued = s.stats.issued
         /\ stats1.useful = s.stats.useful
         /\ stats1.useless = s.stats.useless + One(PrefetchLineIs(old))
    <2>1. CASE old.valid /\ old.prefetch
      <3>1. stats1 = [s.stats EXCEPT !.useless = useless1] /\ One(PrefetchLineIs(old)) = 1
        BY <2>1 DEF stats1, One, PrefetchLineIs
      <3> QED
        BY <1>1, <3>1
    <2>2. CASE ~ (old.valid /\ old.prefetch)
      <3>1. stats1 = s.stats /\ One(PrefetchLineIs(old)) = 0
        BY <2>2 DEF stats1, One, PrefetchLineIs
      <3> QED
        BY <1>1, <3>1
    <2> QED
      BY <2>1, <2>2
  <1>19. stats1.useful + stats1.useless + Cardinality(Prefetched(lines1))
           = s.stats.useful + s.stats.useless + Cardinality(Prefetched(s.lines)) + One(m.local)
    <2>1. /\ Cardinality(Prefetched(s.lines)) \in Nat /\ Cardinality(Prefetched(lines1)) \in Nat
          /\ Cardinality(Prefetched(lines1))
               = Cardinality(Prefetched(s.lines)) - One(PrefetchLineIs(old)) + One(PrefetchLineIs(line))
      BY <1>1, <1>3, <1>4, PutLinePrefetched DEF lines1, old
    <2>2. PrefetchLineIs(line) = m.local
      BY <1>2, <1>4 DEF PrefetchLineIs
    <2>3. One(PrefetchLineIs(line)) = One(m.local)
      BY <2>2
    <2> DEFINE o == One(PrefetchLineIs(old))  e == One(m.local)
               a == Cardinality(Prefetched(s.lines))  b == Cardinality(Prefetched(lines1))
    <2>4. o \in Nat /\ e \in Nat
      BY DEF One
    <2>5. b = a - o + e /\ a \in Nat /\ b \in Nat /\ stats1.useless = s.stats.useless + o
      BY <1>18, <2>1, <2>3
    <2>6. s.stats.useless \in Nat /\ s.stats.useful \in Nat /\ stats1.useful = s.stats.useful
      BY <1>1, <1>18
    <2> HIDE DEF o, e, a, b
    <2>7. stats1.useful + stats1.useless + b = s.stats.useful + s.stats.useless + a + e
      BY <2>4, <2>5, <2>6
    <2> QED
      BY <2>7 DEF a, b, e
  <1>20. /\ LinesFit(new.lines) /\ LruFits(new.lru) /\ LowerFits(new.lower)
         /\ new.lower.returned = s.lower.returned
         /\ new.stats \in [issued : Nat, useful : Nat, useless : Nat]
         /\ new.stats.issued = s.stats.issued
    BY <1>8, <1>10, <1>11, <1>12, <1>18
  <1>21. new.stats.useful + new.stats.useless + Cardinality(Prefetched(new.lines))
           = s.stats.useful + s.stats.useless + Cardinality(Prefetched(s.lines)) + One(m.local)
    BY <1>8, <1>19, Zenon
  <1>22. /\ \A b \in Blocks : DirtyIn(s.lines, b) =>
              DirtyIn(new.lines, b) \/ CountIn(new.lower.wq, {[block |-> b]}) > 0
         /\ \A b : CountIn(s.lower.wq, {[block |-> b]}) > 0
                     => CountIn(new.lower.wq, {[block |-> b]}) > 0
         /\ m.type = "WRITE" => DirtyIn(new.lines, m.block)
    BY <1>8, <1>14, <1>16, <1>17, Zenon
  <1> QED
    BY <1>8, <1>9, <1>13, <1>20, <1>21, <1>22, Zenon DEF FillEffect, new

\* The MSHRs behind the first fit.
LEMMA MshrsTail ==
  ASSUME NEW k \in Kinds, NEW n, NEW q, MshrsFit(k, n, q), q # <<>>
  PROVE  MshrsFit(k, n, Tail(q))
  <1> DEFINE T == Misses(k, n)  p == Tail(q)
  <1>1. q \in Seq(T) /\ Len(q) <= MshrSize[k] /\ Ordered(q) /\ DOMAIN q = 1 .. Len(q)
    BY DEF MshrsFit
  <1>2. /\ Len(q) \in Nat \ {0} /\ p \in Seq(T) /\ Len(p) = Len(q) - 1
        /\ \A i \in 1 .. Len(q) - 1 : p[i] = q[i + 1]
    <2> HIDE DEF T
    <2> QED
      BY <1>1, TailCount
  <1> HIDE DEF p
  <1>3. DOMAIN p = 1 .. Len(q) - 1
    BY <1>2
  <1>4. \A i \in DOMAIN p : i + 1 \in DOMAIN q /\ p[i] = q[i + 1]
    BY <1>1, <1>2, <1>3
  <1>5. \A i, j \in DOMAIN p : i < j => i + 1 < j + 1
    BY <1>2, <1>3
  <1>6. Ordered(p)
    <2> SUFFICES ASSUME NEW i \in DOMAIN p, NEW j \in DOMAIN p, i < j
                 PROVE  /\ p[i].block # p[j].block
                        /\ p[j].wait # Unknown => p[i].wait # Unknown /\ p[i].wait <= p[j].wait
      BY DEF Ordered
    <2>1. i + 1 \in DOMAIN q /\ j + 1 \in DOMAIN q /\ i + 1 < j + 1
      BY <1>4, <1>5
    <2>2. /\ q[i + 1].block # q[j + 1].block
          /\ q[j + 1].wait # Unknown => q[i + 1].wait # Unknown /\ q[i + 1].wait <= q[j + 1].wait
      BY <1>1, <2>1 DEF Ordered
    <2> QED
      BY <1>4, <2>2
  <1>7. Len(p) <= MshrSize[k]
    <2>1. MshrSize[k] \in Nat
      BY Numbers
    <2> QED
      BY <1>1, <1>2, <2>1
  <1>8. k = "L2C" => \A i \in DOMAIN p : p[i].type # "WRITE"
    BY <1>4 DEF MshrsFit
  <1> QED
    BY <1>2, <1>6, <1>7, <1>8 DEF MshrsFit, p

\* A fill of the first MSHR: who waits in it is answered.
LEMMA FillReadIsFine ==
  ASSUME NEW k, NEW n, NEW D, NEW s, Fine(k, n, D, s)
  PROVE  /\ Fine(k, n, D, FillHead(s, "mshrs"))
         /\ FillHead(s, "mshrs").tags = s.tags
         /\ Len(FillHead(s, "mshrs").mshrs) \in {Len(s.mshrs), Len(s.mshrs) - 1}
  <1> DEFINE T == Misses(k, n)  E == Entries(k, n)
             q == s.mshrs
             m == Head(q)
             rest == Tail(q)
             h == HandleFill(s, m)
             new == [h EXCEPT !.mshrs = rest]
  <1>1. /\ Sound(k, n, s) /\ IsState(s) /\ q \in Seq(T) /\ MshrsFit(k, n, q)
        /\ k = "L2C" => \A i \in DOMAIN q : q[i].type # "WRITE"
    BY DEF Fine, Sound, MshrsFit
  <1>2. CASE ~ (q # <<>> /\ m.wait = 0 /\ CanFill(s, m))
    <2>1. FillHead(s, "mshrs") = s
      <3>1. s["mshrs"] = q
        BY <1>1 DEF IsState
      <3> QED
        BY <1>2, <3>1, Zenon DEF FillHead
    <2> QED
      BY <2>1
  <1>3. CASE q # <<>> /\ m.wait = 0 /\ CanFill(s, m)
    <2>1. /\ Len(q) \in Nat \ {0} /\ m \in T /\ m = q[1]
          /\ rest \in Seq(T) /\ Len(rest) = Len(q) - 1
          /\ \A S : CountIn(rest, S) = CountIn(q, S) - One(q[1] \in S)
      <3> HIDE DEF T
      <3> QED
        BY <1>1, <1>3, TailCount
    <2>2. FillEffect(k, n, s, m, h)
      BY <1>1, <1>3, <2>1, HandleFillFits
    <2>3. FillHead(s, "mshrs") = [h EXCEPT !["mshrs"] = Tail(@)]
      <3>1. s["mshrs"] = q
        BY <1>1 DEF IsState
      <3> QED
        BY <1>3, <3>1, Zenon DEF FillHead
    <2>4. /\ IsState(h) /\ h.mshrs = q /\ h.clock = s.clock /\ h.uppers = s.uppers
          /\ h.pq = s.pq /\ h.tags = s.tags /\ h.stash = s.stash
          /\ h.writes = s.writes /\ h.tlb = s.tlb
      BY <2>2 DEF FillEffect
    <2> HIDE DEF h
    <2>5. FillHead(s, "mshrs") = new
      <3>1. Tail(h["mshrs"]) = rest
        BY <2>4 DEF IsState
      <3> HIDE DEF rest
      <3> QED
        BY <2>3, <3>1
    <2> HIDE DEF rest
    <2>6. /\ IsState(new) /\ new.clock = s.clock /\ new.uppers = s.uppers
          /\ new.pq = s.pq /\ new.tags = s.tags /\ new.stash = s.stash
          /\ new.mshrs = rest /\ new.writes = s.writes /\ new.tlb = s.tlb
          /\ new.lines = h.lines /\ new.lru = h.lru /\ new.lower = h.lower
          /\ new.stats = h.stats /\ new.owed = h.owed
      BY <2>4 DEF IsState
    <2> HIDE DEF new, m
    <2>7. m.wait # Unknown /\ m.local \in BOOLEAN /\ m.block \in Blocks
      BY <1>3, <2>1 DEF Unknown, Misses
    <2>8. MshrsFit(k, n, rest)
      BY <1>1, <1>3, MshrsTail DEF rest, Sound
    <2>9. ASSUME NEW S, m \notin S PROVE CountIn(rest, S) = CountIn(q, S)
      <3> HIDE DEF T
      <3>1. One(q[1] \in S) = 0
        BY <2>1, <2>9 DEF One
      <3>2. CountIn(q, S) \in Nat
        BY <1>1, CountIsNumber
      <3> DEFINE o == One(q[1] \in S)
      <3>3. CountIn(rest, S) = CountIn(q, S) - o /\ o = 0
        BY <2>1, <3>1
      <3> HIDE DEF o, q
      <3> QED
        BY <3>2, <3>3
    <2>10. Balanced(k, n, new)
      <3> SUFFICES ASSUME NEW b \in Blocks
                   PROVE BelowOf(new.lower, b) = CountIn(new.mshrs, Awaiting(T, b))
        BY DEF Balanced
      <3>1. m \notin Awaiting(T, b)
        BY <2>7 DEF Awaiting
      <3>2. CountIn(rest, Awaiting(T, b)) = CountIn(q, Awaiting(T, b))
        BY <2>9, <3>1
      <3>3. BelowOf(s.lower, b) = CountIn(q, Awaiting(T, b))
        BY <1>1 DEF Sound, Balanced
      <3> QED
        BY <2>2, <2>6, <3>2, <3>3, Zenon DEF FillEffect
    <2>11. StatsFit(k, n, new)
      <3> DEFINE S == Locals(T)
                 c == Checks(s, Locals(E))
                 a == CountIn(q, S)  b == CountIn(rest, S)  o == One(m.local)
                 x == Cardinality(Prefetched(s.lines))  y == Cardinality(Prefetched(h.lines))
      <3>1. One(q[1] \in S) = o
        <4>1. (q[1] \in S) = m.local
          BY <2>1, <2>7 DEF Locals
        <4> QED
          BY <4>1
      <3>2. b = a - o
        BY <2>1, <3>1
      <3>3. a \in Nat /\ o \in Nat
        <4>1. a \in Nat
          <5> HIDE DEF T
          <5> QED
            BY <1>1, CountIsNumber
        <4> QED
          BY <4>1 DEF One
      <3>4. c \in Nat
        <4> HIDE DEF E
        <4>1. s.pq \in Seq(E) /\ s.tags \in Seq(E) /\ s.stash \in Seq(E)
          BY <1>1 DEF Sound, QueuesFit, Locals, E
        <4> QED
          BY <4>1, CountIsNumber DEF Checks
      <3>5. x \in Nat /\ y \in Nat
        <4>1. LinesFit(s.lines) /\ LinesFit(h.lines)
          BY <1>1, <2>2 DEF Sound, FillEffect
        <4> QED
          BY <4>1, PrefetchedIsNumber
      <3>6. /\ h.stats \in [issued : Nat, useful : Nat, useless : Nat]
            /\ s.stats \in [issued : Nat, useful : Nat, useless : Nat]
            /\ h.stats.issued = s.stats.issued
            /\ h.stats.useful + h.stats.useless + y = s.stats.useful + s.stats.useless + x + o
            /\ s.stats.useful + s.stats.useless + (c + a + x) <= s.stats.issued
        BY <1>1, <2>2, Zenon DEF FillEffect, Sound, StatsFit, LocalSum
      <3>7. LocalSum(k, n, new) = c + b + y
        BY <2>6, Zenon DEF LocalSum, Checks
      <3> HIDE DEF a, b, c, o, x, y
      <3>8. h.stats.useful + h.stats.useless + (c + b + y) <= h.stats.issued
        BY <3>2, <3>3, <3>4, <3>5, <3>6
      <3> QED
        BY <2>6, <3>6, <3>7, <3>8, Zenon DEF StatsFit
    <2>12. OwedFits(k, n, new)
      <3>1. new.owed \subseteq Ids(k, n) /\ new.owed \subseteq s.owed /\ new.owed \cap m.ids = {}
        BY <1>1, <2>2, <2>6 DEF FillEffect, Sound, OwedFits
      <3> SUFFICES ASSUME NEW id \in new.owed PROVE PlacesOf(k, n, new, id) = 1
        BY <3>1 DEF OwedFits
      <3>2. PlacesOf(k, n, s, id) = 1
        BY <1>1, <3>1 DEF Sound, OwedFits
      <3>3. m \notin Having(T, id)
        BY <3>1 DEF Having
      <3>4. CountIn(rest, Having(T, id)) = CountIn(q, Having(T, id))
        BY <2>9, <3>3
      <3>5. PlacesOf(k, n, new, id) = PlacesOf(k, n, s, id)
        BY <2>6, <3>4, Zenon DEF PlacesOf, Checks
      <3> QED
        BY <3>2, <3>5
    <2>13. QueuesFit(k, n, new)
      BY <1>1, <2>6, Zenon DEF Sound, QueuesFit
    <2>14. Sound(k, n, new)
      BY <1>1, <2>2, <2>6, <2>8, <2>10, <2>11, <2>12, <2>13, Zenon DEF Sound, FillEffect
    <2>15. ASSUME NEW b \in Blocks, Kept(k, n, s, b) PROVE Kept(k, n, new, b)
      <3>1. DirtyIn(s.lines, b) => DirtyIn(new.lines, b) \/ CountIn(new.lower.wq, {[block |-> b]}) > 0
        BY <2>2, <2>6, Zenon DEF FillEffect
      <3>2. CountIn(s.lower.wq, {[block |-> b]}) > 0 => CountIn(new.lower.wq, {[block |-> b]}) > 0
        BY <2>2, <2>6, Zenon DEF FillEffect
      <3>3. Checks(new, WritesOf(E, b)) = Checks(s, WritesOf(E, b))
        BY <2>6, Zenon DEF Checks
      <3> QED
        BY <2>6, <2>15, <3>1, <3>2, <3>3, Zenon DEF Kept
    <2> QED
      BY <2>1, <2>5, <2>6, <2>14, <2>15 DEF Fine, AllKept
  <1> QED
    BY <1>2, <1>3

\* A fill of the first write: its block is dirty.
LEMMA FillWriteIsFine ==
  ASSUME NEW k, NEW n, NEW D, NEW s, Fine(k, n, D, s)
  PROVE  /\ Fine(k, n, D, FillHead(s, "writes"))
         /\ FillHead(s, "writes").tags = s.tags
  <1> DEFINE T == Misses(k, n)  E == Entries(k, n)
             q == s.writes
             m == Head(q)
             rest == Tail(q)
             h == HandleFill(s, m)
             new == [h EXCEPT !.writes = rest]
  <1>1. /\ Sound(k, n, s) /\ IsState(s) /\ q \in Seq(T) /\ WritesFit(k, n, q)
        /\ \A i \in DOMAIN q : q[i].wait # Unknown /\ q[i].type = "WRITE"
        /\ s.mshrs \in Seq(T)
    BY DEF Fine, Sound, WritesFit, MshrsFit
  <1>2. CASE ~ (q # <<>> /\ m.wait = 0 /\ CanFill(s, m))
    <2>1. FillHead(s, "writes") = s
      <3>1. s["writes"] = q
        BY <1>1 DEF IsState
      <3> QED
        BY <1>2, <3>1, Zenon DEF FillHead
    <2> QED
      BY <2>1
  <1>3. CASE q # <<>> /\ m.wait = 0 /\ CanFill(s, m)
    <2>1. /\ Len(q) \in Nat \ {0} /\ m \in T /\ m = q[1]
          /\ rest \in Seq(T) /\ Len(rest) = Len(q) - 1
          /\ \A i \in 1 .. Len(q) - 1 : rest[i] = q[i + 1]
          /\ \A S : CountIn(rest, S) = CountIn(q, S) - One(q[1] \in S)
      <3> HIDE DEF T
      <3> QED
        BY <1>1, <1>3, TailCount
    <2>2. FillEffect(k, n, s, m, h)
      BY <1>1, <1>3, <2>1, HandleFillFits
    <2>3. FillHead(s, "writes") = [h EXCEPT !["writes"] = Tail(@)]
      <3>1. s["writes"] = q
        BY <1>1 DEF IsState
      <3> QED
        BY <1>3, <3>1, Zenon DEF FillHead
    <2>4. /\ IsState(h) /\ h.mshrs = s.mshrs /\ h.clock = s.clock /\ h.uppers = s.uppers
          /\ h.pq = s.pq /\ h.tags = s.tags /\ h.stash = s.stash
          /\ h.writes = q /\ h.tlb = s.tlb
      BY <2>2 DEF FillEffect
    <2> HIDE DEF h
    <2>5. FillHead(s, "writes") = new
      <3>1. Tail(h["writes"]) = rest
        BY <2>4 DEF IsState
      <3> HIDE DEF rest
      <3> QED
        BY <2>3, <3>1
    <2> HIDE DEF rest
    <2>6. /\ IsState(new) /\ new.clock = s.clock /\ new.uppers = s.uppers
          /\ new.pq = s.pq /\ new.tags = s.tags /\ new.stash = s.stash
          /\ new.mshrs = s.mshrs /\ new.writes = rest /\ new.tlb = s.tlb
          /\ new.lines = h.lines /\ new.lru = h.lru /\ new.lower = h.lower
          /\ new.stats = h.stats /\ new.owed = h.owed
      BY <2>4 DEF IsState
    <2> HIDE DEF new, m
    <2>7. m.type = "WRITE" /\ m.local = FALSE /\ m.block \in Blocks
      <3>1. 1 \in DOMAIN q
        BY <1>1, <2>1
      <3>2. m.type = "WRITE"
        BY <1>1, <2>1, <3>1
      <3> QED
        BY <2>1, <3>2 DEF Misses
    <2>8. WritesFit(k, n, rest)
      <3>1. \A i \in DOMAIN rest : i + 1 \in DOMAIN q /\ rest[i] = q[i + 1]
        BY <1>1, <2>1
      <3> QED
        BY <1>1, <2>1, <3>1 DEF WritesFit
    <2>9. ASSUME NEW S, m \notin S PROVE CountIn(rest, S) = CountIn(q, S)
      <3> HIDE DEF T
      <3>1. One(q[1] \in S) = 0
        BY <2>1, <2>9 DEF One
      <3>2. CountIn(q, S) \in Nat
        BY <1>1, CountIsNumber
      <3> DEFINE o == One(q[1] \in S)
      <3>3. CountIn(rest, S) = CountIn(q, S) - o /\ o = 0
        BY <2>1, <3>1
      <3> HIDE DEF o, q
      <3> QED
        BY <3>2, <3>3
    <2>10. Balanced(k, n, new)
      <3>1. \A b : BelowOf(new.lower, b) = BelowOf(s.lower, b)
        BY <2>2, <2>6, Zenon DEF FillEffect
      <3>2. Balanced(k, n, s)
        BY <1>1, Zenon DEF Sound
      <3> QED
        BY <2>6, <3>1, <3>2, Zenon DEF Balanced
    <2>11. StatsFit(k, n, new)
      <3> DEFINE S == Locals(T)
                 c == Checks(s, Locals(E))
                 a == CountIn(s.mshrs, S)  o == One(m.local)
                 x == Cardinality(Prefetched(s.lines))  y == Cardinality(Prefetched(h.lines))
      <3>1. o = 0
        BY <2>7 DEF One
      <3>3. a \in Nat
        <4> HIDE DEF T
        <4> QED
          BY <1>1, CountIsNumber
      <3>4. c \in Nat
        <4> HIDE DEF E
        <4>1. s.pq \in Seq(E) /\ s.tags \in Seq(E) /\ s.stash \in Seq(E)
          BY <1>1 DEF Sound, QueuesFit, Locals, E
        <4> QED
          BY <4>1, CountIsNumber DEF Checks
      <3>5. x \in Nat /\ y \in Nat
        <4>1. LinesFit(s.lines) /\ LinesFit(h.lines)
          BY <1>1, <2>2 DEF Sound, FillEffect
        <4> QED
          BY <4>1, PrefetchedIsNumber
      <3>6. /\ h.stats \in [issued : Nat, useful : Nat, useless : Nat]
            /\ s.stats \in [issued : Nat, useful : Nat, useless : Nat]
            /\ h.stats.issued = s.stats.issued
            /\ h.stats.useful + h.stats.useless + y = s.stats.useful + s.stats.useless + x + o
            /\ s.stats.useful + s.stats.useless + (c + a + x) <= s.stats.issued
        BY <1>1, <2>2, Zenon DEF FillEffect, Sound, StatsFit, LocalSum
      <3>7. LocalSum(k, n, new) = c + a + y
        BY <2>6, Zenon DEF LocalSum, Checks
      <3> HIDE DEF a, c, o, x, y
      <3>8. h.stats.useful + h.stats.useless + (c + a + y) <= h.stats.issued
        BY <3>1, <3>3, <3>4, <3>5, <3>6
      <3> QED
        BY <2>6, <3>6, <3>7, <3>8, Zenon DEF StatsFit
    <2>12. OwedFits(k, n, new)
      <3>1. new.owed \subseteq Ids(k, n) /\ new.owed \subseteq s.owed
        BY <1>1, <2>2, <2>6 DEF FillEffect, Sound, OwedFits
      <3> SUFFICES ASSUME NEW id \in new.owed PROVE PlacesOf(k, n, new, id) = 1
        BY <3>1 DEF OwedFits
      <3>2. PlacesOf(k, n, s, id) = 1
        BY <1>1, <3>1 DEF Sound, OwedFits
      <3>5. PlacesOf(k, n, new, id) = PlacesOf(k, n, s, id)
        BY <2>6, Zenon DEF PlacesOf, Checks
      <3> QED
        BY <3>2, <3>5
    <2>13. QueuesFit(k, n, new)
      BY <1>1, <2>6, Zenon DEF Sound, QueuesFit
    <2>14. Sound(k, n, new)
      BY <1>1, <2>2, <2>6, <2>8, <2>10, <2>11, <2>12, <2>13, Zenon DEF Sound, FillEffect
    <2>15. ASSUME NEW b \in Blocks, Kept(k, n, s, b) PROVE Kept(k, n, new, b)
      <3>1. DirtyIn(s.lines, b) => DirtyIn(new.lines, b) \/ CountIn(new.lower.wq, {[block |-> b]}) > 0
        BY <2>2, <2>6, Zenon DEF FillEffect
      <3>2. CountIn(s.lower.wq, {[block |-> b]}) > 0 => CountIn(new.lower.wq, {[block |-> b]}) > 0
        BY <2>2, <2>6, Zenon DEF FillEffect
      <3>3. Checks(new, WritesOf(E, b)) = Checks(s, WritesOf(E, b))
        BY <2>6, Zenon DEF Checks
      <3>4. m.block = b => DirtyIn(new.lines, b)
        BY <2>2, <2>6, <2>7, Zenon DEF FillEffect
      <3>5. m.block # b => CountIn(rest, WritesOf(T, b)) = CountIn(q, WritesOf(T, b))
        <4>1. m.block # b => m \notin WritesOf(T, b)
          BY DEF WritesOf
        <4> QED
          BY <2>9, <4>1
      <3> QED
        BY <2>6, <2>15, <3>1, <3>2, <3>3, <3>4, <3>5, Zenon DEF Kept
    <2> QED
      BY <2>1, <2>5, <2>6, <2>14, <2>15 DEF Fine, AllKept
  <1> QED
    BY <1>2, <1>3

-----------------------------------------------------------------------------
(***************************************************************************)
(* Loops.  To have one lemma for all, a loop is told by a name and what    *)
(* its turns depend on.                                                    *)
(***************************************************************************)
TurnOf(name, a, x) ==
  IF name = "packet" THEN FinishPacket(x)
  ELSE IF name = "translation" THEN FinishTranslation(x)
  ELSE IF name = "mshrs" THEN FillHead(x, "mshrs")
  ELSE IF name = "writes" THEN FillHead(x, "writes")
  ELSE IF name = "check" THEN CheckNext(x, a[1], a[2])
  ELSE IF name = "initiate" THEN InitiateNext(x, a[1], a[2])
  ELSE IF name = "hit" THEN HitNext(x)
  ELSE MissNext(x)

Turning(name, a, n, start, after) ==
  /\ DOMAIN after = 0 .. n /\ after[0] = start
  /\ \A k \in 1 .. n : after[k] = TurnOf(name, a, after[k - 1])

LoopOf(name, a, n, start) == Repeat(n, start, LAMBDA x : TurnOf(name, a, x))

\* A loop takes its turns.
LEMMA LoopTurns ==
  ASSUME NEW n \in Nat, NEW start, NEW name, NEW a
  PROVE  \E after : /\ Turning(name, a, n, start, after)
                    /\ LoopOf(name, a, n, start) = after[n]
  <1> DEFINE loop[k \in 0 .. n] == IF k = 0 THEN start ELSE TurnOf(name, a, loop[k - 1])
             Body(g) == [k \in 0 .. n |-> IF k = 0 THEN start ELSE TurnOf(name, a, g[k - 1])]
             S == {k \in 0 .. n : \E run : Turning(name, a, k, start, run)}
  <1>1. 0 \in S
    <2> DEFINE run == [i \in 0 .. 0 |-> start]
    <2>1. Turning(name, a, 0, start, run)
      BY DEF Turning
    <2> HIDE DEF run
    <2> QED
      BY <2>1
  <1>2. ASSUME NEW k \in 0 .. n - 1, k \in S PROVE k + 1 \in S
    <2>1. PICK old : Turning(name, a, k, start, old)
      BY <1>2
    <2> DEFINE next == TurnOf(name, a, old[k])
               run == [i \in 0 .. k + 1 |-> IF i = k + 1 THEN next ELSE old[i]]
    <2>2. k + 1 \in 0 .. n /\ k \in Nat /\ k + 1 # 0
      OBVIOUS
    <2>3. DOMAIN run = 0 .. k + 1 /\ run[0] = start
      BY <2>1, <2>2 DEF Turning
    <2>4. ASSUME NEW i \in 1 .. k + 1 PROVE run[i] = TurnOf(name, a, run[i - 1])
      <3>1. i - 1 \in 0 .. k + 1 /\ i - 1 # k + 1 /\ i \in 0 .. k + 1
        BY <2>2
      <3>2. run[i - 1] = old[i - 1]
        <4> HIDE DEF next
        <4> QED
          BY <3>1
      <3>3. CASE i = k + 1
        <4>1. run[i] = next /\ i - 1 = k
          <5> HIDE DEF next
          <5> QED
            BY <3>1, <3>3
        <4> HIDE DEF run
        <4> QED
          BY <3>2, <4>1
      <3>4. CASE i # k + 1
        <4>1. run[i] = old[i] /\ i \in 1 .. k
          <5> HIDE DEF next
          <5> QED
            BY <3>1, <3>4
        <4>2. old[i] = TurnOf(name, a, old[i - 1])
          BY <2>1, <4>1 DEF Turning
        <4> HIDE DEF run
        <4> QED
          BY <3>2, <4>1, <4>2
      <3> QED
        BY <3>3, <3>4
    <2> HIDE DEF run
    <2>5. Turning(name, a, k + 1, start, run)
      BY <2>3, <2>4 DEF Turning
    <2> QED
      BY <2>2, <2>5
  <1>3. n \in S
    <2> HIDE DEF S
    <2>1. 0 .. n \subseteq S
      BY <1>1, <1>2, LoopInduction
    <2> QED
      BY <2>1
  <1>4. PICK run : Turning(name, a, n, start, run)
    BY <1>3
  <1> DEFINE tame == [k \in 0 .. n |-> run[k]]
  <1>5. tame = Body(tame)
    <2>1. \A k \in 0 .. n : tame[k] = run[k]
      OBVIOUS
    <2>2. \A k \in 1 .. n : k - 1 \in 0 .. n /\ k \in 0 .. n
      OBVIOUS
    <2>3. \A k \in 0 .. n : k = 0 \/ k \in 1 .. n
      OBVIOUS
    <2>4. \A k \in 0 .. n : tame[k] = IF k = 0 THEN start ELSE TurnOf(name, a, tame[k - 1])
      <3> HIDE DEF tame
      <3> QED
        BY <1>4, <2>1, <2>2, <2>3 DEF Turning
    <2> QED
      BY <2>4
  <1>6. loop = CHOOSE g : g = Body(g)
    OBVIOUS
  <1> HIDE DEF loop
  <1>7. loop = Body(loop)
    <2> HIDE DEF Body, tame
    <2> QED
      BY <1>5, <1>6
  <1>8. Turning(name, a, n, start, loop)
    <2>1. DOMAIN loop = 0 .. n
      BY <1>7
    <2>2. \A k \in 0 .. n : loop[k] = IF k = 0 THEN start ELSE TurnOf(name, a, loop[k - 1])
      BY <1>7
    <2>3. 0 \in 0 .. n /\ \A k \in 1 .. n : k \in 0 .. n /\ k # 0
      OBVIOUS
    <2> QED
      BY <2>1, <2>2, <2>3 DEF Turning
  <1>9. LoopOf(name, a, n, start) = loop[n]
    BY DEF LoopOf, Repeat, loop
  <1> QED
    BY <1>8, <1>9

\* The turns by their names.
LEMMA TurnsAre ==
  /\ \A a, x : TurnOf("packet", a, x) = FinishPacket(x)
  /\ \A a, x : TurnOf("translation", a, x) = FinishTranslation(x)
  /\ \A a, x : TurnOf("mshrs", a, x) = FillHead(x, "mshrs")
  /\ \A a, x : TurnOf("writes", a, x) = FillHead(x, "writes")
  /\ \A a, x : TurnOf("check", a, x) = CheckNext(x, a[1], a[2])
  /\ \A a, x : TurnOf("initiate", a, x) = InitiateNext(x, a[1], a[2])
  /\ \A a, x : TurnOf("hit", a, x) = HitNext(x)
  /\ \A a, x : TurnOf("miss", a, x) = MissNext(x)
  BY DEF TurnOf

\* The loops by the names of their turns.
LEMMA LoopsAre ==
  ASSUME NEW n, NEW start, NEW p, NEW g
  PROVE  /\ Repeat(n, start, FinishPacket) = LoopOf("packet", 0, n, start)
         /\ Repeat(n, start, FinishTranslation) = LoopOf("translation", 0, n, start)
         /\ Repeat(n, start, LAMBDA x : FillHead(x, "mshrs")) = LoopOf("mshrs", 0, n, start)
         /\ Repeat(n, start, LAMBDA x : FillHead(x, "writes")) = LoopOf("writes", 0, n, start)
         /\ Repeat(n, start, LAMBDA x : CheckNext(x, p, g)) = LoopOf("check", <<p, g>>, n, start)
         /\ Repeat(n, start, LAMBDA x : InitiateNext(x, p, g)) = LoopOf("initiate", <<p, g>>, n, start)
         /\ Repeat(n, start, HitNext) = LoopOf("hit", 0, n, start)
         /\ Repeat(n, start, MissNext) = LoopOf("miss", 0, n, start)
  <1>1. Repeat(n, start, FinishPacket) = LoopOf("packet", 0, n, start)
    <2>1. \A x : TurnOf("packet", 0, x) = FinishPacket(x)
      BY TurnsAre
    <2> QED
      BY <2>1, Zenon DEF Repeat, LoopOf
  <1>2. Repeat(n, start, FinishTranslation) = LoopOf("translation", 0, n, start)
    <2>1. \A x : TurnOf("translation", 0, x) = FinishTranslation(x)
      BY TurnsAre
    <2> QED
      BY <2>1, Zenon DEF Repeat, LoopOf
  <1>3. Repeat(n, start, LAMBDA x : FillHead(x, "mshrs")) = LoopOf("mshrs", 0, n, start)
    <2>1. \A x : TurnOf("mshrs", 0, x) = FillHead(x, "mshrs")
      BY TurnsAre
    <2> QED
      BY <2>1, Zenon DEF Repeat, LoopOf
  <1>4. Repeat(n, start, LAMBDA x : FillHead(x, "writes")) = LoopOf("writes", 0, n, start)
    <2>1. \A x : TurnOf("writes", 0, x) = FillHead(x, "writes")
      BY TurnsAre
    <2> QED
      BY <2>1, Zenon DEF Repeat, LoopOf
  <1>5. Repeat(n, start, LAMBDA x : CheckNext(x, p, g)) = LoopOf("check", <<p, g>>, n, start)
    <2>1. \A x : TurnOf("check", <<p, g>>, x) = CheckNext(x, p, g)
      <3>1. \A x : TurnOf("check", <<p, g>>, x) = CheckNext(x, <<p, g>>[1], <<p, g>>[2])
        BY TurnsAre
      <3>2. <<p, g>>[1] = p /\ <<p, g>>[2] = g
        OBVIOUS
      <3> QED
        BY <3>1, <3>2
    <2> QED
      BY <2>1, Zenon DEF Repeat, LoopOf
  <1>6. Repeat(n, start, LAMBDA x : InitiateNext(x, p, g)) = LoopOf("initiate", <<p, g>>, n, start)
    <2>1. \A x : TurnOf("initiate", <<p, g>>, x) = InitiateNext(x, p, g)
      <3>1. \A x : TurnOf("initiate", <<p, g>>, x) = InitiateNext(x, <<p, g>>[1], <<p, g>>[2])
        BY TurnsAre
      <3>2. <<p, g>>[1] = p /\ <<p, g>>[2] = g
        OBVIOUS
      <3> QED
        BY <3>1, <3>2
    <2> QED
      BY <2>1, Zenon DEF Repeat, LoopOf
  <1>7. Repeat(n, start, HitNext) = LoopOf("hit", 0, n, start)
    <2>1. \A x : TurnOf("hit", 0, x) = HitNext(x)
      BY TurnsAre
    <2> QED
      BY <2>1, Zenon DEF Repeat, LoopOf
  <1>8. Repeat(n, start, MissNext) = LoopOf("miss", 0, n, start)
    <2>1. \A x : TurnOf("miss", 0, x) = MissNext(x)
      BY TurnsAre
    <2> QED
      BY <2>1, Zenon DEF Repeat, LoopOf
  <1> QED
    BY <1>1, <1>2, <1>3, <1>4, <1>5, <1>6, <1>7, <1>8

\* The lengths of the queues are numbers.
LEMMA LengthsAre ==
  ASSUME NEW k, NEW n, NEW D, NEW s, Fine(k, n, D, s)
  PROVE  /\ Len(s.tags) \in Nat /\ Len(s.mshrs) \in Nat
         /\ Len(s.lower.returned) \in Nat /\ Len(s.tlb.returned) \in Nat
  BY DEF Fine, Sound, QueuesFit, MshrsFit, LowerFits, TlbFits

\* The number of requests above that wait for a load is a number.
LEMMA WaitingIsNumber ==
  ASSUME NEW k, NEW n, NEW up, UppersFit(k, n, up), NEW id, id.upper \in UppersOn(k)
  PROVE  Waiting(k, n, up, id) \in Nat
  <1> DEFINE u == id.upper  R == ReadReqs(k, n, u)  S == Having(R, id)
  <1>1. ChannelFits(k, n, u, up[u])
    BY DEF UppersFit
  <1>2. up[u].rq \in Seq(R) /\ up[u].pq \in Seq(R)
    <2>1. up[u] = [wq |-> up[u].wq, rq |-> up[u].rq, pq |-> up[u].pq]
      BY <1>1 DEF ChannelFits
    <2>2. /\ up[u]["rq"] \in Seq(ReqsOf(k, n, u, "rq"))
          /\ up[u]["pq"] \in Seq(ReqsOf(k, n, u, "pq"))
      BY <1>1 DEF ChannelFits, Queues
    <2>3. ReqsOf(k, n, u, "rq") = R /\ ReqsOf(k, n, u, "pq") = R
      BY DEF ReqsOf
    <2> HIDE DEF R
    <2>4. up[u]["rq"] = up[u].rq /\ up[u]["pq"] = up[u].pq
      BY <2>1
    <2> QED
      BY <2>2, <2>3, <2>4
  <1> HIDE DEF R
  <1>3. CountIn(up[u].rq, S) \in Nat /\ CountIn(up[u].pq, S) \in Nat
    BY <1>2, CountIsNumber
  <1> QED
    BY <1>3 DEF Waiting, R

\* All answers from below, and then all of the TLB.
LEMMA FinishReturnsIsFine ==
  ASSUME NEW k, NEW n, NEW D, NEW s, Fine(k, n, D, s)
  PROVE  Fine(k, n, D, FinishReturns(s)) /\ Len(FinishReturns(s).tags) <= Len(s.tags)
  <1> DEFINE x == Len(s.lower.returned)
             mid == LoopOf("packet", 0, x, s)
             y == Len(mid.tlb.returned)
             end == LoopOf("translation", 0, y, mid)
  <1>1. Repeat(x, s, FinishPacket) = mid
    BY LoopsAre
  <1>2. FinishReturns(s) = end
    <2>1. FinishPackets(s) = mid
      BY <1>1 DEF FinishPackets
    <2>2. FinishTranslations(mid) = end
      BY LoopsAre DEF FinishTranslations
    <2> QED
      BY <2>1, <2>2, Zenon DEF FinishReturns
  <1> HIDE DEF mid, end
  <1>3. x \in Nat
    BY DEF Fine, Sound, LowerFits
  <1>4. PICK after : Turning("packet", 0, x, s, after) /\ mid = after[x]
    BY <1>3, LoopTurns DEF mid
  <1>5. Fine(k, n, D, mid) /\ mid.tags = s.tags
    <2> DEFINE S == {j \in 0 .. x : /\ Fine(k, n, D, after[j]) /\ after[j].tags = s.tags
                                    /\ after[j].tlb = s.tlb
                                    /\ Len(after[j].lower.returned) = x - j}
    <2>1. 0 \in S
      BY <1>3, <1>4 DEF Turning
    <2>2. ASSUME NEW j \in 0 .. x - 1, j \in S PROVE j + 1 \in S
      <3>1. j + 1 \in 1 .. x /\ (j + 1) - 1 = j
        BY <1>3
      <3>2. after[j + 1] = FinishPacket(after[j])
        BY <1>4, <3>1, TurnsAre DEF Turning
      <3>3. Len(after[j].lower.returned) = x - j /\ x - j # 0
        BY <1>3, <2>2
      <3>4. after[j].lower.returned # <<>>
        BY <3>3
      <3> DEFINE old == after[j]
      <3>5. Fine(k, n, D, old) /\ old.tlb = s.tlb /\ old.tags = s.tags
        BY <2>2
      <3>6. old.lower.returned # <<>>
        BY <3>4
      <3> HIDE DEF old, x
      <3>7. /\ Fine(k, n, D, FinishPacket(old)) /\ FinishPacket(old).tags = old.tags
            /\ FinishPacket(old).tlb = old.tlb
            /\ Len(FinishPacket(old).lower.returned) = Len(old.lower.returned) - 1
        BY <3>5, <3>6, FinishPacketIsFine
      <3>8. after[j + 1] = FinishPacket(old)
        BY <3>2 DEF old
      <3>9. Len(old.lower.returned) = x - j
        BY <3>3 DEF old
      <3> QED
        BY <1>3, <3>1, <3>5, <3>7, <3>8, <3>9
    <2> HIDE DEF S, x
    <2>3. x \in S
      <3>1. 0 .. x \subseteq S
        BY <1>3, <2>1, <2>2, LoopInduction
      <3> QED
        BY <1>3, <3>1
    <2> QED
      BY <1>4, <2>3 DEF S
  <1>6. y \in Nat
    BY <1>5 DEF Fine, Sound, TlbFits
  <1>7. PICK then : Turning("translation", 0, y, mid, then) /\ end = then[y]
    BY <1>6, LoopTurns DEF end
  <1> DEFINE S == {j \in 0 .. y : /\ Fine(k, n, D, then[j]) /\ Len(then[j].tags) <= Len(s.tags)
                                  /\ Len(then[j].tlb.returned) = y - j}
  <1>8. 0 \in S
    <2>1. Len(s.tags) \in Nat
      BY DEF Fine, Sound, QueuesFit
    <2> QED
      BY <1>5, <1>6, <1>7, <2>1 DEF Turning
  <1>9. ASSUME NEW j \in 0 .. y - 1, j \in S PROVE j + 1 \in S
    <2>1. j + 1 \in 1 .. y /\ (j + 1) - 1 = j
      BY <1>6
    <2>2. then[j + 1] = FinishTranslation(then[j])
      BY <1>7, <2>1, TurnsAre DEF Turning
    <2>3. Len(then[j].tlb.returned) = y - j /\ y - j # 0
      BY <1>6, <1>9
    <2>4. then[j].tlb.returned # <<>>
      BY <2>3
    <2>5. /\ Fine(k, n, D, then[j + 1]) /\ Len(then[j + 1].tags) <= Len(then[j].tags)
          /\ Len(then[j + 1].tlb.returned) = Len(then[j].tlb.returned) - 1
      BY <1>9, <2>2, <2>4, FinishTranslationIsFine
    <2>6. Len(s.tags) \in Nat /\ Len(then[j].tags) \in Nat /\ Len(then[j + 1].tags) \in Nat
      BY <1>9, <2>5, LengthsAre
    <2> HIDE DEF y
    <2> QED
      BY <1>6, <1>9, <2>1, <2>3, <2>5, <2>6
  <1> HIDE DEF S, y
  <1>10. y \in S
    <2>1. 0 .. y \subseteq S
      BY <1>6, <1>8, <1>9, LoopInduction
    <2> QED
      BY <1>6, <2>1
  <1> QED
    BY <1>2, <1>7, <1>10 DEF S

\* The fills of a cycle, of the MSHRs and then of the writes (cache.cc:442-450).
LEMMA PerformFillsIsFine ==
  ASSUME NEW k, NEW n, NEW D, NEW s, Fine(k, n, D, s)
  PROVE  Fine(k, n, D, PerformFills(s)) /\ PerformFills(s).tags = s.tags
  <1> DEFINE reads == LoopOf("mshrs", 0, MaxFill, s)
             y == MaxFill - (Len(s.mshrs) - Len(reads.mshrs))
             end == LoopOf("writes", 0, y, reads)
  <1>1. Repeat(MaxFill, s, LAMBDA x : FillHead(x, "mshrs")) = reads
    BY LoopsAre
  <1>2. PerformFills(s) = end
    <2>1. PerformFills(s) = Repeat(y, reads, LAMBDA x : FillHead(x, "writes"))
      BY <1>1, Zenon DEF PerformFills
    <2>2. Repeat(y, reads, LAMBDA x : FillHead(x, "writes")) = end
      BY LoopsAre
    <2> QED
      BY <2>1, <2>2, Zenon
  <1> HIDE DEF reads, end
  <1>3. MaxFill \in Nat
    BY Numbers
  <1>4. PICK after : Turning("mshrs", 0, MaxFill, s, after) /\ reads = after[MaxFill]
    BY <1>3, LoopTurns DEF reads
  <1>5. /\ Fine(k, n, D, reads) /\ reads.tags = s.tags
        /\ Len(s.mshrs) - Len(reads.mshrs) \in 0 .. MaxFill
    <2> DEFINE S == {j \in 0 .. MaxFill : /\ Fine(k, n, D, after[j]) /\ after[j].tags = s.tags
                                          /\ Len(s.mshrs) - Len(after[j].mshrs) \in 0 .. j}
    <2>1. 0 \in S
      <3>1. Len(s.mshrs) \in Nat
        BY DEF Fine, Sound, MshrsFit
      <3> QED
        BY <1>3, <1>4, <3>1 DEF Turning
    <2>2. ASSUME NEW j \in 0 .. MaxFill - 1, j \in S PROVE j + 1 \in S
      <3>1. j + 1 \in 1 .. MaxFill /\ (j + 1) - 1 = j
        BY <1>3
      <3>2. after[j + 1] = FillHead(after[j], "mshrs")
        BY <1>4, <3>1, TurnsAre DEF Turning
      <3>3. /\ Fine(k, n, D, after[j + 1]) /\ after[j + 1].tags = after[j].tags
            /\ Len(after[j + 1].mshrs) \in {Len(after[j].mshrs), Len(after[j].mshrs) - 1}
        BY <2>2, <3>2, FillReadIsFine
      <3> DEFINE l == Len(s.mshrs)  a == Len(after[j].mshrs)  b == Len(after[j + 1].mshrs)
      <3>4. l \in Nat /\ a \in Nat
        BY <2>2, LengthsAre
      <3>5. l - a \in 0 .. j /\ b \in {a, a - 1}
        BY <2>2, <3>3
      <3> HIDE DEF l, a, b
      <3>6. l - b \in 0 .. j + 1
        BY <1>3, <3>4, <3>5
      <3>7. j + 1 \in 0 .. MaxFill
        BY <1>3
      <3>8. Fine(k, n, D, after[j + 1]) /\ after[j + 1].tags = s.tags
        BY <2>2, <3>3
      <3>9. Len(s.mshrs) - Len(after[j + 1].mshrs) \in 0 .. j + 1
        BY <3>6 DEF l, b
      <3> QED
        BY <3>7, <3>8, <3>9
    <2> HIDE DEF S
    <2>3. MaxFill \in S
      <3>1. 0 .. MaxFill \subseteq S
        BY <1>3, <2>1, <2>2, LoopInduction
      <3> QED
        BY <1>3, <3>1
    <2> QED
      BY <1>4, <2>3 DEF S
  <1>6. y \in Nat
    BY <1>3, <1>5
  <1>7. PICK then : Turning("writes", 0, y, reads, then) /\ end = then[y]
    BY <1>6, LoopTurns DEF end
  <1> DEFINE S == {j \in 0 .. y : Fine(k, n, D, then[j]) /\ then[j].tags = s.tags}
  <1> HIDE DEF y
  <1>8. 0 \in S
    BY <1>5, <1>6, <1>7 DEF Turning
  <1>9. ASSUME NEW j \in 0 .. y - 1, j \in S PROVE j + 1 \in S
    <2>1. j + 1 \in 1 .. y /\ (j + 1) - 1 = j
      BY <1>6
    <2>2. then[j + 1] = FillHead(then[j], "writes")
      BY <1>7, <2>1, TurnsAre DEF Turning
    <2>3. Fine(k, n, D, then[j + 1]) /\ then[j + 1].tags = then[j].tags
      BY <1>9, <2>2, FillWriteIsFine
    <2> QED
      BY <1>6, <1>9, <2>1, <2>3
  <1> HIDE DEF S
  <1>10. y \in S
    <2>1. 0 .. y \subseteq S
      BY <1>6, <1>8, <1>9, LoopInduction
    <2> QED
      BY <1>6, <2>1
  <1> QED
    BY <1>2, <1>7, <1>10 DEF S

-----------------------------------------------------------------------------
(***************************************************************************)
(* Tag checks that are over.  What a tag check stood for goes on in the    *)
(* lines, the MSHRs or the writes, or is answered.                         *)
(***************************************************************************)
TagTaken(k, n, s, i, new) ==
  /\ IsState(new) /\ new.clock = s.clock /\ new.uppers = s.uppers
  /\ new.pq = s.pq /\ new.tags = RemoveAt(s.tags, i) /\ new.stash = s.stash /\ new.tlb = s.tlb
  /\ MshrsFit(k, n, new.mshrs) /\ WritesFit(k, n, new.writes)
  /\ LinesFit(new.lines) /\ LruFits(new.lru) /\ LowerFits(new.lower)
  /\ Balanced(k, n, new)
  /\ new.stats \in [issued : Nat, useful : Nat, useless : Nat]
  /\ new.stats.issued = s.stats.issued /\ new.stats.useless = s.stats.useless
  /\ new.stats.useful + CountIn(new.mshrs, Locals(Misses(k, n))) + Cardinality(Prefetched(new.lines))
       <= s.stats.useful + CountIn(s.mshrs, Locals(Misses(k, n))) + Cardinality(Prefetched(s.lines))
            + One(s.tags[i].local)
  /\ new.owed \subseteq s.owed
  /\ \A id \in new.owed :
        CountIn(new.mshrs, Having(Misses(k, n), id))
          = CountIn(s.mshrs, Having(Misses(k, n), id)) + One(id \in s.tags[i].ids)
  /\ k = "L2C" => \A b \in Blocks :
        \/ s.tags[i].type = "WRITE" /\ s.tags[i].block = b
        \/ CountIn(s.writes, WritesOf(Misses(k, n), b)) > 0
        \/ DirtyIn(s.lines, b)
        \/ CountIn(s.lower.wq, {[block |-> b]}) > 0
        => \/ CountIn(new.writes, WritesOf(Misses(k, n), b)) > 0
           \/ DirtyIn(new.lines, b)
           \/ CountIn(new.lower.wq, {[block |-> b]}) > 0

\* A tag check that leaves, with what it counts for at another place, keeps what
\* the invariant says.
LEMMA TagTakenIsFine ==
  ASSUME NEW k, NEW n, NEW D, NEW s, Fine(k, n, D, s), NEW i \in 1 .. Len(s.tags), NEW new,
         TagTaken(k, n, s, i, new)
  PROVE  Fine(k, n, D, new) /\ Len(new.tags) = Len(s.tags) - 1
  <1> DEFINE T == Misses(k, n)  E == Entries(k, n)
             q == s.tags
             t == q[i]
             rest == RemoveAt(q, i)
  <1>1. /\ Sound(k, n, s) /\ q \in Seq(E) /\ s.pq \in Seq(Locals(E)) /\ s.pq \in Seq(E)
        /\ s.stash \in Seq(E) /\ s.mshrs \in Seq(T)
    BY DEF Fine, Sound, QueuesFit, MshrsFit, Locals
  <1>2. /\ rest \in Seq(E) /\ Len(rest) = Len(q) - 1 /\ t \in E
        /\ \A S : CountIn(rest, S) = CountIn(q, S) - One(t \in S)
    <2> HIDE DEF E
    <2>1. t \in E
      BY <1>1
    <2> QED
      BY <1>1, <2>1, CountRemove
  <1>3. /\ new.tags = rest /\ new.pq = s.pq /\ new.stash = s.stash /\ new.uppers = s.uppers
        /\ TagTaken(k, n, s, i, new)
    BY DEF TagTaken
  <1> HIDE DEF rest
  <1>4. QueuesFit(k, n, new)
    BY <1>1, <1>2, <1>3 DEF QueuesFit, Sound
  <1>5. ASSUME NEW S
        PROVE  /\ Checks(s, S) \in Nat /\ Checks(new, S) \in Nat
               /\ One(t \in S) \in Nat /\ Checks(new, S) + One(t \in S) = Checks(s, S)
    <2> DEFINE a == CountIn(s.pq, S)  b == CountIn(q, S)  c == CountIn(s.stash, S)
               r == CountIn(rest, S)  o == One(t \in S)
    <2>1. a \in Nat /\ b \in Nat /\ c \in Nat /\ r \in Nat
      <3> HIDE DEF E, q
      <3> QED
        BY <1>1, <1>2, CountIsNumber DEF q
    <2>2. o \in Nat
      BY DEF One
    <2>3. r = b - o
      BY <1>2
    <2>4. Checks(s, S) = a + b + c /\ Checks(new, S) = a + r + c
      BY <1>3, Zenon DEF Checks
    <2> HIDE DEF a, b, c, r, o
    <2>5. a + r + c + o = a + b + c
      BY <2>1, <2>2, <2>3
    <2>6. Checks(s, S) \in Nat /\ Checks(new, S) \in Nat /\ Checks(new, S) + o = Checks(s, S)
      BY <2>1, <2>4, <2>5
    <2> QED
      BY <2>2, <2>6 DEF o
  <1>6. StatsFit(k, n, new)
    <2> DEFINE c == Checks(s, Locals(E))  d == Checks(new, Locals(E))  o == One(t.local)
               a == CountIn(s.mshrs, Locals(T))  b == CountIn(new.mshrs, Locals(T))
               x == Cardinality(Prefetched(s.lines))  y == Cardinality(Prefetched(new.lines))
    <2>1. One(t \in Locals(E)) = o
      <3>1. (t \in Locals(E)) = t.local
        BY <1>2 DEF Locals, Entries
      <3> QED
        BY <3>1
    <2>2. c \in Nat /\ d \in Nat /\ o \in Nat /\ d + o = c
      BY <1>5, <2>1
    <2>3. a \in Nat /\ b \in Nat
      <3>1. new.mshrs \in Seq(T)
        BY <1>3 DEF TagTaken, MshrsFit
      <3> HIDE DEF T
      <3> QED
        BY <1>1, <3>1, CountIsNumber
    <2>4. x \in Nat /\ y \in Nat
      <3>1. LinesFit(s.lines) /\ LinesFit(new.lines)
        BY <1>1, <1>3 DEF Sound, TagTaken
      <3> QED
        BY <3>1, PrefetchedIsNumber
    <2>5. /\ new.stats \in [issued : Nat, useful : Nat, useless : Nat]
          /\ s.stats \in [issued : Nat, useful : Nat, useless : Nat]
          /\ new.stats.issued = s.stats.issued /\ new.stats.useless = s.stats.useless
          /\ new.stats.useful + b + y <= s.stats.useful + a + x + o
          /\ s.stats.useful + s.stats.useless + (c + a + x) <= s.stats.issued
      BY <1>1, <1>3, Zenon DEF TagTaken, Sound, StatsFit, LocalSum
    <2>6. LocalSum(k, n, new) = d + b + y
      BY Zenon DEF LocalSum
    <2> DEFINE f == new.stats.useful  g == new.stats.useless  h == new.stats.issued
               l == s.stats.useful  m == s.stats.useless
    <2>7. f \in Nat /\ g \in Nat /\ h \in Nat /\ l \in Nat /\ m \in Nat
      BY <2>5
    <2>8. g = m /\ f + b + y <= l + a + x + o /\ l + m + (c + a + x) <= h
      BY <2>5, Zenon
    <2> HIDE DEF a, b, c, d, o, x, y, f, g, h, l, m
    <2>9. f + g + (d + b + y) <= h
      BY <2>2, <2>3, <2>4, <2>7, <2>8
    <2>10. new.stats.useful + new.stats.useless + (d + b + y) <= new.stats.issued
      BY <2>9 DEF f, g, h
    <2> QED
      BY <2>5, <2>6, <2>10, Zenon DEF StatsFit
  <1>7. OwedFits(k, n, new)
    <2>1. new.owed \subseteq Ids(k, n) /\ new.owed \subseteq s.owed
      BY <1>1, <1>3 DEF TagTaken, Sound, OwedFits
    <2> SUFFICES ASSUME NEW id \in new.owed PROVE PlacesOf(k, n, new, id) = 1
      BY <2>1 DEF OwedFits
    <2> DEFINE w == Waiting(k, n, s.uppers, id)
               c == Checks(s, Having(E, id))  d == Checks(new, Having(E, id))
               a == CountIn(s.mshrs, Having(T, id))  b == CountIn(new.mshrs, Having(T, id))
               o == One(id \in t.ids)
    <2>2. w + c + a = 1
      BY <1>1, <2>1, Zenon DEF Sound, OwedFits, PlacesOf
    <2>3. PlacesOf(k, n, new, id) = w + d + b
      BY <1>3, Zenon DEF PlacesOf
    <2>4. One(t \in Having(E, id)) = o
      <3>1. (t \in Having(E, id)) = (id \in t.ids)
        BY <1>2 DEF Having
      <3> QED
        BY <3>1
    <2>5. c \in Nat /\ d \in Nat /\ o \in Nat /\ d + o = c
      BY <1>5, <2>4
    <2>6. b = a + o
      BY <1>3, Zenon DEF TagTaken
    <2>7. a \in Nat
      <3> HIDE DEF T
      <3> QED
        BY <1>1, CountIsNumber
    <2>8. w \in Nat
      <3>1. id.upper \in UppersOn(k)
        BY <2>1 DEF Ids
      <3> QED
        BY <1>1, <3>1, WaitingIsNumber DEF Sound
    <2> HIDE DEF a, b, c, d, o, w
    <2>9. w + d + b = 1
      BY <2>2, <2>5, <2>6, <2>7, <2>8
    <2> QED
      BY <2>3, <2>9
  <1>8. Sound(k, n, new)
    BY <1>1, <1>3, <1>4, <1>6, <1>7, Zenon DEF Sound, TagTaken
  <1>9. ASSUME NEW b \in Blocks, k = "L2C", Kept(k, n, s, b) PROVE Kept(k, n, new, b)
    <2>1. CASE t.type = "WRITE" /\ t.block = b
      BY <1>3, <1>9, <2>1, Zenon DEF TagTaken, Kept
    <2>2. CASE ~ (t.type = "WRITE" /\ t.block = b)
      <3> DEFINE S == WritesOf(E, b)
      <3>1. One(t \in S) = 0
        BY <2>2 DEF One, WritesOf
      <3>2. Checks(new, S) = Checks(s, S)
        <4> DEFINE o == One(t \in S)
        <4>1. Checks(s, S) \in Nat /\ Checks(new, S) \in Nat /\ Checks(new, S) + o = Checks(s, S)
          BY <1>5
        <4>2. o = 0
          BY <3>1
        <4> HIDE DEF o, S
        <4> QED
          BY <4>1, <4>2
      <3> QED
        BY <1>3, <1>9, <3>2, Zenon DEF TagTaken, Kept
    <2> QED
      BY <2>1, <2>2
  <1>10. AllKept(k, n, new, D)
    BY <1>9 DEF Fine, AllKept
  <1> QED
    BY <1>2, <1>3, <1>8, <1>10 DEF Fine

\* The state without tag check i.
LEMMA WithoutIs ==
  ASSUME NEW s, IsState(s), NEW i
  PROVE  LET r == Without(s, i) IN
         /\ IsState(r) /\ r.clock = s.clock /\ r.uppers = s.uppers
         /\ r.pq = s.pq /\ r.tags = RemoveAt(s.tags, i) /\ r.stash = s.stash
         /\ r.mshrs = s.mshrs /\ r.writes = s.writes /\ r.lines = s.lines /\ r.lru = s.lru
         /\ r.lower = s.lower /\ r.tlb = s.tlb /\ r.stats = s.stats /\ r.owed = s.owed
  <1> DEFINE rest == RemoveAt(s.tags, i)  r == Without(s, i)
  <1>1. r = [s EXCEPT !.tags = rest]
    BY DEF Without
  <1> HIDE DEF rest, r
  <1>2. /\ IsState(r) /\ r.clock = s.clock /\ r.uppers = s.uppers
        /\ r.pq = s.pq /\ r.tags = rest /\ r.stash = s.stash
        /\ r.mshrs = s.mshrs /\ r.writes = s.writes /\ r.lines = s.lines /\ r.lru = s.lru
        /\ r.lower = s.lower /\ r.tlb = s.tlb /\ r.stats = s.stats /\ r.owed = s.owed
    BY <1>1 DEF IsState
  <1> QED
    BY <1>2 DEF r, rest

\* The way that hits.
LEMMA WaysFit ==
  ASSUME NEW s, NEW b, WaysOf(s, b) # {}
  PROVE  LET way == CHOOSE w \in WaysOf(s, b) : \A v \in WaysOf(s, b) : w <= v
         IN  way \in Ways /\ s.lines[SetOf(b)][way].valid /\ s.lines[SetOf(b)][way].block = b
  <1> DEFINE W == WaysOf(s, b)
             way == CHOOSE w \in W : \A v \in W : w <= v
  <1>1. W \subseteq Ways /\ W \in SUBSET Nat
    <2>1. NumWay \in Nat
      BY Numbers
    <2> QED
      BY <2>1 DEF WaysOf, Ways
  <1>2. PICK w \in W : \A v \in W : w <= v
    <2>1. W # {}
      OBVIOUS
    <2> HIDE DEF W
    <2> QED
      BY <1>1, <2>1, LeastNatural
  <1>3. way \in W
    <2> HIDE DEF W
    <2> QED
      BY <1>2, Zenon
  <1> HIDE DEF way
  <1>4. way \in Ways /\ s.lines[SetOf(b)][way].valid /\ s.lines[SetOf(b)][way].block = b
    BY <1>1, <1>3 DEF WaysOf
  <1> QED
    BY <1>4 DEF way

\* A tag check that hits is answered, and a write makes its line dirty (cache.cc:250-294).
LEMMA HitIsFine ==
  ASSUME NEW k, NEW n, NEW D, NEW s, Fine(k, n, D, s), NEW i \in 1 .. Len(s.tags),
         Hits(s, s.tags[i])
  PROVE  LET new == TryHit(Without(s, i), s.tags[i])
         IN  Fine(k, n, D, new) /\ Len(new.tags) = Len(s.tags) - 1
  <1> DEFINE T == Misses(k, n)
             t == s.tags[i]
             r == Without(s, i)
             set == SetOf(t.block)
             way == CHOOSE w \in WaysOf(r, t.block) : \A v \in WaysOf(r, t.block) : w <= v
             line == r.lines[set][way]
             line1 == AfterHit(line, t)
             lines1 == PutLine(r.lines, set, way, line1)
             lru1 == IF t.type = "WRITE" THEN r.lru ELSE [r.lru EXCEPT ![set] = Touch(@, way)]
             useful1 == s.stats.useful + 1
             stats1 == IF line.prefetch /\ ~ t.local
                       THEN [r.stats EXCEPT !.useful = @ + 1] ELSE r.stats
             owed1 == s.owed \ {id \in t.ids : id.upper \in t.to}
             new == TryHit(r, t)
  <1>1. /\ Sound(k, n, s) /\ IsState(s) /\ LinesFit(s.lines) /\ LruFits(s.lru)
        /\ s.stats \in [issued : Nat, useful : Nat, useless : Nat]
        /\ s.mshrs \in Seq(T)
    BY DEF Fine, Sound, StatsFit, MshrsFit
  <1>2. t \in Entries(k, n)
    BY DEF Fine, Sound, QueuesFit
  <1>3. /\ t.block \in Blocks /\ t.block \in Nat /\ t.local \in BOOLEAN
        /\ \A id \in t.ids : id.upper \in t.to
    BY <1>2, BlocksAreNumbers DEF Entries
  <1>4. set \in SetIds /\ way \in Ways /\ line.valid /\ line.block = t.block
    <2>1. set \in SetIds
      BY <1>3, SetFits
    <2>2. WaysOf(r, t.block) # {}
      <3>1. r.lines = s.lines
        BY <1>1, WithoutIs
      <3>2. WaysOf(r, t.block) = WaysOf(s, t.block)
        <4> HIDE DEF r, t
        <4> QED
          BY <3>1, Zenon DEF WaysOf
      <3> QED
        BY <3>2 DEF Hits
    <2> HIDE DEF way, t, r
    <2>3. way \in Ways /\ r.lines[SetOf(t.block)][way].valid /\ r.lines[SetOf(t.block)][way].block = t.block
      BY <2>2, WaysFit DEF way
    <2> QED
      BY <2>1, <2>3
  <1>6. r.lines = s.lines /\ r.lru = s.lru /\ r.stats = s.stats /\ r.owed = s.owed
    BY <1>1, WithoutIs
  <1>7. new = [[r EXCEPT !.lines = lines1, !.lru = lru1, !.stats = stats1]
                  EXCEPT !.owed = @ \ {id \in t.ids : id.upper \in t.to}]
    <2> HIDE DEF r, t
    <2> QED
      BY Zenon DEF TryHit, Respond
  <1>8. line \in LineStates
    <2> HIDE DEF set, way, r
    <2> QED
      BY <1>1, <1>4, <1>6 DEF LinesFit
  <1>9. /\ IsState(r) /\ r.clock = s.clock /\ r.uppers = s.uppers
        /\ r.pq = s.pq /\ r.tags = RemoveAt(s.tags, i) /\ r.stash = s.stash
        /\ r.mshrs = s.mshrs /\ r.writes = s.writes /\ r.lower = s.lower /\ r.tlb = s.tlb
    BY <1>1, WithoutIs
  <1> HIDE DEF set, way, line, stats1, lines1, lru1, new, r, t
  <1>10. /\ line1 \in LineStates /\ line1.valid /\ line1.block = t.block
         /\ line1.dirty = (line.dirty \/ t.type = "WRITE") /\ line1.prefetch = (line.prefetch /\ t.local)
    BY <1>3, <1>4, <1>8 DEF AfterHit, LineStates
  <1> HIDE DEF line1
  <1>11. /\ IsState(new) /\ new.clock = s.clock /\ new.uppers = s.uppers
         /\ new.pq = s.pq /\ new.tags = RemoveAt(s.tags, i) /\ new.stash = s.stash
         /\ new.mshrs = s.mshrs /\ new.writes = s.writes /\ new.tlb = s.tlb
         /\ new.lower = s.lower /\ new.stats = stats1 /\ new.lines = lines1 /\ new.lru = lru1
         /\ new.owed = owed1
    <2> DEFINE tags1 == RemoveAt(s.tags, i)
    <2>1. r.tags = tags1
      BY <1>9
    <2> HIDE DEF tags1
    <2> QED
      BY <1>6, <1>7, <1>9, <2>1 DEF IsState, tags1
  <1>12. new.owed \subseteq s.owed /\ new.owed \cap t.ids = {}
    BY <1>3, <1>11
  <1>13. /\ LinesFit(lines1) /\ lines1[set][way] = line1
         /\ \A a \in SetIds, w \in Ways : ~ (a = set /\ w = way) => lines1[a][w] = s.lines[a][w]
    BY <1>1, <1>4, <1>6, <1>10, PutLineFits DEF lines1
  <1>14. LruFits(lru1)
    <2>1. s.lru = [x \in SetIds |-> s.lru[x]] /\ \A x \in SetIds : OrderFits(s.lru[x])
      BY <1>1 DEF LruFits
    <2>2. OrderFits(Touch(s.lru[set], way))
      BY <1>4, <2>1, TouchFits
    <2> DEFINE o == Touch(s.lru[set], way)
    <2>3. lru1 = s.lru \/ lru1 = [s.lru EXCEPT ![set] = o]
      BY <1>6 DEF lru1
    <2> HIDE DEF o
    <2>4. lru1 = s.lru \/ lru1 = [x \in SetIds |-> IF x = set THEN o ELSE s.lru[x]]
      BY <1>4, <2>1, <2>3
    <2>5. OrderFits(o)
      BY <2>2 DEF o
    <2> QED
      BY <2>1, <2>4, <2>5 DEF LruFits
  <1>15. ASSUME NEW b \in Blocks, DirtyIn(s.lines, b) PROVE DirtyIn(lines1, b)
    <2>1. PICK w \in Ways : LET l == s.lines[SetOf(b)][w] IN l.valid /\ l.dirty /\ l.block = b
      BY <1>15 DEF DirtyIn
    <2>2. SetOf(b) \in SetIds
      BY SetFits, BlocksAreNumbers
    <2>3. CASE SetOf(b) = set /\ w = way
      <3>1. line.dirty /\ line.block = b
        BY <1>6, <2>1, <2>3 DEF line
      <3>2. lines1[SetOf(b)][w] = line1
        BY <1>13, <2>3
      <3> QED
        BY <1>4, <1>10, <3>1, <3>2 DEF DirtyIn
    <2>4. CASE ~ (SetOf(b) = set /\ w = way)
      <3>2. lines1[SetOf(b)][w] = s.lines[SetOf(b)][w]
        BY <1>13, <2>2, <2>4
      <3> QED
        BY <2>1, <3>2 DEF DirtyIn
    <2> QED
      BY <2>3, <2>4
  <1>16. t.type = "WRITE" => DirtyIn(lines1, t.block)
    <2>1. lines1[SetOf(t.block)][way] = line1
      BY <1>13 DEF set
    <2> QED
      BY <1>4, <1>10, <2>1 DEF DirtyIn
  <1>17. /\ stats1 \in [issued : Nat, useful : Nat, useless : Nat] /\ stats1.issued = s.stats.issued
         /\ stats1.useless = s.stats.useless
         /\ stats1.useful + Cardinality(Prefetched(lines1))
              <= s.stats.useful + Cardinality(Prefetched(s.lines))
    <2> DEFINE a == Cardinality(Prefetched(s.lines))  b == Cardinality(Prefetched(lines1))
               o == One(PrefetchLineIs(line))  e == One(PrefetchLineIs(line1))
               f == s.stats.useful
    <2>1. a \in Nat /\ b \in Nat /\ b = a - o + e
      BY <1>1, <1>4, <1>6, <1>10, PutLinePrefetched DEF lines1, line
    <2>2. f \in Nat
      BY <1>1
    <2>3. CASE line.prefetch /\ ~ t.local
      <3>1. stats1 = [s.stats EXCEPT !.useful = useful1]
        BY <1>6, <2>3 DEF stats1
      <3>2. o = 1 /\ e = 0
        BY <1>4, <1>10, <2>3 DEF One, PrefetchLineIs
      <3>3. /\ stats1 \in [issued : Nat, useful : Nat, useless : Nat] /\ stats1.issued = s.stats.issued
            /\ stats1.useless = s.stats.useless /\ stats1.useful = f + 1
        BY <1>1, <3>1
      <3> HIDE DEF a, b, o, e, f
      <3>4. stats1.useful + b <= f + a
        BY <2>1, <2>2, <3>2, <3>3
      <3> QED
        BY <3>3, <3>4 DEF a, b, f
    <2>4. CASE ~ (line.prefetch /\ ~ t.local)
      <3>1. stats1 = s.stats
        BY <1>6, <2>4 DEF stats1
      <3>2. o \in Nat /\ e = o
        <4>1. line1.prefetch = line.prefetch
          BY <1>3, <1>8, <1>10, <2>4 DEF LineStates
        <4> QED
          BY <1>4, <1>10, <4>1 DEF One, PrefetchLineIs
      <3> HIDE DEF a, b, o, e, f
      <3>4. f + b <= f + a
        BY <2>1, <2>2, <3>2
      <3> QED
        BY <1>1, <3>1, <3>4 DEF a, b, f
    <2> QED
      BY <2>3, <2>4
  <1>18. \A id \in new.owed : CountIn(new.mshrs, Having(T, id))
                                = CountIn(s.mshrs, Having(T, id)) + One(id \in t.ids)
    <2> SUFFICES ASSUME NEW id \in new.owed
                 PROVE CountIn(s.mshrs, Having(T, id)) = CountIn(s.mshrs, Having(T, id)) + One(id \in t.ids)
      BY <1>11
    <2>1. One(id \in t.ids) = 0
      BY <1>12 DEF One
    <2>2. CountIn(s.mshrs, Having(T, id)) \in Nat
      <3> HIDE DEF T
      <3> QED
        BY <1>1, CountIsNumber
    <2> DEFINE o == One(id \in t.ids)
    <2>3. o = 0
      BY <2>1
    <2> HIDE DEF o
    <2> QED
      BY <2>2, <2>3 DEF o
  <1>19. new.stats.useful + CountIn(new.mshrs, Locals(T)) + Cardinality(Prefetched(new.lines))
           <= s.stats.useful + CountIn(s.mshrs, Locals(T)) + Cardinality(Prefetched(s.lines))
                + One(t.local)
    <2> DEFINE a == Cardinality(Prefetched(s.lines))  b == Cardinality(Prefetched(lines1))
               c == CountIn(s.mshrs, Locals(T))  o == One(t.local)
               f == stats1.useful  g == s.stats.useful
    <2>1. c \in Nat
      <3> HIDE DEF T
      <3> QED
        BY <1>1, CountIsNumber
    <2>2. o \in Nat
      BY DEF One
    <2>3. a \in Nat /\ b \in Nat
      BY <1>1, <1>13, PrefetchedIsNumber
    <2>4. f \in Nat /\ g \in Nat /\ f + b <= g + a
      BY <1>1, <1>17
    <2> HIDE DEF a, b, c, o, f, g
    <2>5. f + c + b <= g + c + a + o
      BY <2>1, <2>2, <2>3, <2>4
    <2> QED
      BY <1>11, <2>5 DEF a, b, c, o, f, g
  <1>20. Balanced(k, n, new)
    <2>1. Balanced(k, n, s)
      BY <1>1, Zenon DEF Sound
    <2> QED
      BY <1>11, <2>1, Zenon DEF Balanced
  <1>21. \A b \in Blocks :
           /\ t.type = "WRITE" /\ t.block = b => DirtyIn(new.lines, b)
           /\ DirtyIn(s.lines, b) => DirtyIn(new.lines, b)
    BY <1>11, <1>15, <1>16, Zenon
  <1>22. TagTaken(k, n, s, i, new)
    <2>1. MshrsFit(k, n, new.mshrs) /\ WritesFit(k, n, new.writes) /\ LowerFits(new.lower)
      BY <1>1, <1>11, Zenon DEF Sound
    <2>2. LinesFit(new.lines) /\ LruFits(new.lru)
      BY <1>11, <1>13, <1>14, Zenon
    <2>3. /\ new.stats \in [issued : Nat, useful : Nat, useless : Nat]
          /\ new.stats.issued = s.stats.issued /\ new.stats.useless = s.stats.useless
      BY <1>11, <1>17, Zenon
    <2> QED
      BY <1>11, <1>12, <1>18, <1>19, <1>20, <1>21, <2>1, <2>2, <2>3, Zenon DEF TagTaken, t
  <1> QED
    BY <1>22, TagTakenIsFine DEF new, r, t

\* The MSHR made of a tag check counts as the tag check did.
LEMMA MshrTypeFits ==
  ASSUME NEW k, NEW n, NEW t \in Entries(k, n)
  PROVE  /\ MshrType(t) \in Misses(k, n)
         /\ [MshrType(t) EXCEPT !.wait = FillLatency] \in Misses(k, n)
         /\ Alike(MshrType(t), t) /\ Alike([MshrType(t) EXCEPT !.wait = FillLatency], t)
  <1>1. FillLatency \in Nat
    BY Numbers
  <1> QED
    BY <1>1 DEF MshrType, Misses, Entries, Alike

\* A write-back from above that misses.
LEMMA WriteIsFine ==
  ASSUME NEW n, NEW D, NEW s, Fine("L2C", n, D, s), NEW i \in 1 .. Len(s.tags),
         s.tags[i].type = "WRITE"
  PROVE  LET new == HandleWrite(Without(s, i), s.tags[i])
         IN  Fine("L2C", n, D, new) /\ Len(new.tags) = Len(s.tags) - 1
  <1> DEFINE k == "L2C"
             T == Misses(k, n)
             t == s.tags[i]
             r == Without(s, i)
             miss == [MshrType(t) EXCEPT !.wait = FillLatency]
             writes1 == Append(r.writes, miss)
             new == HandleWrite(r, t)
  <1>1. /\ Sound(k, n, s) /\ IsState(s) /\ s.writes \in Seq(T) /\ s.mshrs \in Seq(T)
        /\ s.stats \in [issued : Nat, useful : Nat, useless : Nat]
        /\ \A j \in DOMAIN s.writes : s.writes[j].wait # Unknown /\ s.writes[j].type = "WRITE"
    BY DEF Fine, Sound, WritesFit, MshrsFit, StatsFit
  <1>2. t \in Entries(k, n)
    BY DEF Fine, Sound, QueuesFit
  <1>3. /\ miss \in T /\ miss.type = "WRITE" /\ miss.block = t.block
        /\ miss.wait # Unknown /\ t.ids = {} /\ t.local \in BOOLEAN
    <2>1. miss \in T /\ Alike(miss, t)
      BY <1>2, MshrTypeFits
    <2>2. miss.wait = FillLatency /\ FillLatency \in Nat
      BY Numbers DEF MshrType
    <2> QED
      BY <1>2, <2>1, <2>2 DEF Entries, Alike, Unknown
  <1>4. new = [r EXCEPT !.writes = writes1]
    BY DEF HandleWrite
  <1>5. /\ IsState(r) /\ r.clock = s.clock /\ r.uppers = s.uppers
        /\ r.pq = s.pq /\ r.tags = RemoveAt(s.tags, i) /\ r.stash = s.stash
        /\ r.mshrs = s.mshrs /\ r.writes = s.writes /\ r.lower = s.lower /\ r.tlb = s.tlb
        /\ r.lines = s.lines /\ r.lru = s.lru /\ r.stats = s.stats /\ r.owed = s.owed
    BY <1>1, WithoutIs
  <1> HIDE DEF t, r, new, miss, T
  <1>6. writes1 \in Seq(T) /\ Len(writes1) = Len(s.writes) + 1
        /\ \A S : CountIn(writes1, S) = CountIn(s.writes, S) + One(miss \in S)
    BY <1>1, <1>3, <1>5, CountAppend
  <1>7. WritesFit(k, n, writes1)
    <2>1. \A j \in 1 .. Len(s.writes) + 1 :
            writes1[j] = IF j = Len(s.writes) + 1 THEN miss ELSE s.writes[j]
      BY <1>1, <1>3, <1>5, AppendProperties
    <2>2. DOMAIN writes1 = 1 .. Len(s.writes) + 1
      BY <1>6
    <2>3. Len(s.writes) \in Nat /\ DOMAIN s.writes = 1 .. Len(s.writes)
      BY <1>1
    <2> HIDE DEF writes1
    <2>4. ASSUME NEW j \in DOMAIN writes1 PROVE writes1[j].wait # Unknown /\ writes1[j].type = "WRITE"
      <3>1. CASE j = Len(s.writes) + 1
        BY <1>3, <2>1, <2>2, <3>1
      <3>2. CASE j # Len(s.writes) + 1
        <4>1. j \in DOMAIN s.writes
          BY <2>2, <2>3, <3>2
        <4> QED
          BY <1>1, <2>1, <2>2, <3>2, <4>1
      <3> QED
        BY <3>1, <3>2
    <2> QED
      BY <1>6, <2>4 DEF WritesFit, T
  <1> HIDE DEF writes1
  <1>8. /\ IsState(new) /\ new.clock = s.clock /\ new.uppers = s.uppers
        /\ new.pq = s.pq /\ new.tags = RemoveAt(s.tags, i) /\ new.stash = s.stash
        /\ new.mshrs = s.mshrs /\ new.writes = writes1 /\ new.lower = s.lower /\ new.tlb = s.tlb
        /\ new.lines = s.lines /\ new.lru = s.lru /\ new.stats = s.stats /\ new.owed = s.owed
    <2> DEFINE tags1 == RemoveAt(s.tags, i)
    <2>1. r.tags = tags1
      BY <1>5
    <2> HIDE DEF tags1
    <2> QED
      BY <1>4, <1>5, <2>1 DEF IsState, tags1
  <1>9. ASSUME NEW b \in Blocks
        PROVE  /\ t.type = "WRITE" /\ t.block = b => CountIn(writes1, WritesOf(T, b)) > 0
               /\ CountIn(s.writes, WritesOf(T, b)) > 0 => CountIn(writes1, WritesOf(T, b)) > 0
    <2> DEFINE S == WritesOf(T, b)  o == One(miss \in S)
    <2>1. CountIn(s.writes, S) \in Nat
      BY <1>1, CountIsNumber
    <2>2. o \in Nat /\ (t.block = b => o = 1)
      BY <1>3 DEF One, WritesOf
    <2>3. CountIn(writes1, S) = CountIn(s.writes, S) + o
      BY <1>6
    <2> HIDE DEF o, S
    <2> QED
      BY <2>1, <2>2, <2>3 DEF S
  <1>10. \A id \in new.owed : CountIn(new.mshrs, Having(T, id))
                                = CountIn(s.mshrs, Having(T, id)) + One(id \in t.ids)
    <2> TAKE id \in new.owed
    <2>1. One(id \in t.ids) = 0
      BY <1>3 DEF One
    <2>2. CountIn(s.mshrs, Having(T, id)) \in Nat
      BY <1>1, CountIsNumber
    <2> DEFINE o == One(id \in t.ids)
    <2>3. o = 0
      BY <2>1
    <2> HIDE DEF o
    <2> QED
      BY <1>8, <2>2, <2>3 DEF o
  <1>11. new.stats.useful + CountIn(new.mshrs, Locals(T)) + Cardinality(Prefetched(new.lines))
           <= s.stats.useful + CountIn(s.mshrs, Locals(T)) + Cardinality(Prefetched(s.lines))
                + One(t.local)
    <2> DEFINE a == Cardinality(Prefetched(s.lines))
               c == CountIn(s.mshrs, Locals(T))  o == One(t.local)
               f == s.stats.useful
    <2>1. c \in Nat /\ f \in Nat
      BY <1>1, CountIsNumber
    <2>2. o \in Nat
      BY DEF One
    <2>3. a \in Nat
      BY <1>1, PrefetchedIsNumber DEF Sound
    <2> HIDE DEF a, c, o, f
    <2>4. f + c + a <= f + c + a + o
      BY <2>1, <2>2, <2>3
    <2> QED
      BY <1>8, <2>4 DEF a, c, o, f
  <1>12. Balanced(k, n, new)
    <2>1. Balanced(k, n, s)
      BY <1>1, Zenon DEF Sound
    <2> QED
      BY <1>8, <2>1, Zenon DEF Balanced
  <1>13. TagTaken(k, n, s, i, new)
    <2>1. /\ MshrsFit(k, n, new.mshrs) /\ WritesFit(k, n, new.writes) /\ LowerFits(new.lower)
          /\ LinesFit(new.lines) /\ LruFits(new.lru)
      BY <1>1, <1>7, <1>8, Zenon DEF Sound
    <2>2. /\ new.stats \in [issued : Nat, useful : Nat, useless : Nat]
          /\ new.stats.issued = s.stats.issued /\ new.stats.useless = s.stats.useless
      BY <1>1, <1>8, Zenon
    <2>3. new.owed \subseteq s.owed
      BY <1>8
    <2> HIDE DEF k
    <2> QED
      BY <1>8, <1>9, <1>10, <1>11, <1>12, <2>1, <2>2, <2>3, Zenon DEF TagTaken, t, T
  <1> QED
    BY <1>13, TagTakenIsFine DEF new, r, t

\* A merged MSHR is for the loads of both (cache.cc:107-139).
LEMMA MergeFits ==
  ASSUME NEW k, NEW n, NEW m \in Misses(k, n), NEW t \in Entries(k, n), m.block = t.block
  PROVE  LET x == Merge(m, t) IN
         /\ x \in Misses(k, n) /\ x.block = m.block /\ x.wait = m.wait
         /\ x.ids = m.ids \cup t.ids
         /\ x.type \in {m.type, t.type}
         /\ x.local = (m.local /\ t.type = "PREFETCH")
         /\ MergesUsefully(m, t) <=> m.local /\ t.type # "PREFETCH"
  <1>1. CASE t.type = "PREFETCH"
    BY <1>1 DEF Merge, MergesUsefully, Misses, Entries
  <1>2. CASE t.type # "PREFETCH"
    <2>1. MshrType(t) \in Misses(k, n) /\ Alike(MshrType(t), t) /\ MshrType(t).to = t.to
      BY MshrTypeFits DEF MshrType
    <2>2. t.local = FALSE
      BY <1>2 DEF Entries
    <2> DEFINE y == MshrType(t)
    <2>3. Merge(m, t) = [y EXCEPT !.wait = m.wait, !.ids = m.ids \cup t.ids, !.to = m.to \cup t.to]
      BY <1>2 DEF Merge
    <2> HIDE DEF y
    <2>4. y \in Misses(k, n) /\ Alike(y, t)
      BY <2>1 DEF y
    <2>5. /\ y.block = t.block /\ y.type = t.type /\ y.local = t.local
      BY <2>4, Zenon DEF Alike
    <2> DEFINE x == Merge(m, t)
    <2>6. x \in Misses(k, n)
      BY <2>3, <2>4 DEF Misses, Entries
    <2>7. /\ x.block = y.block /\ x.type = y.type /\ x.local = y.local
          /\ x.wait = m.wait /\ x.ids = m.ids \cup t.ids
      BY <2>3, <2>4 DEF Misses
    <2>8. MergesUsefully(m, t) <=> m.local /\ t.type # "PREFETCH"
      BY <1>2 DEF MergesUsefully, Misses
    <2> HIDE DEF x
    <2>9. /\ x.block = m.block /\ x.type \in {m.type, t.type}
          /\ x.local = (m.local /\ t.type = "PREFETCH")
      BY <1>2, <2>2, <2>5, <2>7
    <2> QED
      BY <2>6, <2>7, <2>8, <2>9, Zenon DEF x
  <1> QED
    BY <1>1, <1>2

\* A miss on a block that has an MSHR.
LEMMA MergeIsFine ==
  ASSUME NEW k, NEW n, NEW D, NEW s, Fine(k, n, D, s), NEW i \in 1 .. Len(s.tags),
         ~ (k = "L2C" /\ s.tags[i].type = "WRITE"), MshrOf(s, s.tags[i].block) # 0
  PROVE  LET new == HandleMiss(Without(s, i), s.tags[i])
         IN  Fine(k, n, D, new) /\ Len(new.tags) = Len(s.tags) - 1
  <1> DEFINE T == Misses(k, n)
             q == s.mshrs
             t == s.tags[i]
             r == Without(s, i)
             j == MshrOf(r, t.block)
             m == q[j]
             x == Merge(m, t)
             mshrs1 == [q EXCEPT ![j] = x]
             useful1 == s.stats.useful + 1
             stats1 == IF MergesUsefully(m, t) THEN [s.stats EXCEPT !.useful = useful1] ELSE s.stats
             new == HandleMiss(r, t)
  <1>1. /\ Sound(k, n, s) /\ IsState(s) /\ MshrsFit(k, n, q) /\ q \in Seq(T) /\ Ordered(q)
        /\ s.stats \in [issued : Nat, useful : Nat, useless : Nat]
        /\ DOMAIN q = 1 .. Len(q)
    BY DEF Fine, Sound, MshrsFit, StatsFit
  <1>2. t \in Entries(k, n)
    BY DEF Fine, Sound, QueuesFit
  <1>3. /\ IsState(r) /\ r.clock = s.clock /\ r.uppers = s.uppers
        /\ r.pq = s.pq /\ r.tags = RemoveAt(s.tags, i) /\ r.stash = s.stash
        /\ r.mshrs = q /\ r.writes = s.writes /\ r.lower = s.lower /\ r.tlb = s.tlb
        /\ r.lines = s.lines /\ r.lru = s.lru /\ r.stats = s.stats /\ r.owed = s.owed
    BY <1>1, WithoutIs
  <1>4. j \in 1 .. Len(q) /\ m.block = t.block /\ m \in T
    <2>1. MshrOf(s, t.block) = MshrOf(r, t.block)
      <3> HIDE DEF r, t
      <3> QED
        BY <1>3, Zenon DEF MshrOf
    <2>2. j # 0
      BY <2>1
    <2>3. r.mshrs \in Seq(T)
      BY <1>1, <1>3
    <2> HIDE DEF r, t, T
    <2>4. j \in 0 .. Len(q) /\ (j # 0 => q[j].block = t.block)
      BY <1>3, <2>3, MshrIsFirst
    <2>5. j \in 1 .. Len(q)
      BY <2>2, <2>4
    <2> HIDE DEF j
    <2> QED
      BY <1>1, <2>2, <2>4, <2>5
  <1>5. new = [r EXCEPT !.mshrs = mshrs1, !.stats = stats1]
    <2>1. mshrs1 = [r.mshrs EXCEPT ![j] = Merge(@, t)]
      BY <1>3
    <2>2. stats1 = IF MergesUsefully(r.mshrs[j], t)
                   THEN [r.stats EXCEPT !.useful = @ + 1] ELSE r.stats
      BY <1>3
    <2>3. j # 0
      BY <1>4
    <2> HIDE DEF r, t, mshrs1, stats1
    <2> QED
      BY <2>1, <2>2, <2>3, Zenon DEF HandleMiss
  <1> HIDE DEF j
  <1>6. /\ x \in T /\ x.block = m.block /\ x.wait = m.wait
        /\ x.ids = m.ids \cup t.ids
        /\ x.type \in {m.type, t.type}
        /\ x.local = (m.local /\ t.type = "PREFETCH")
        /\ MergesUsefully(m, t) <=> m.local /\ t.type # "PREFETCH"
    <2> HIDE DEF m, t
    <2> QED
      BY <1>2, <1>4, MergeFits
  <1> HIDE DEF x, T, r, new
  <1>7. /\ mshrs1 \in Seq(T) /\ Len(mshrs1) = Len(q)
        /\ \A S : CountIn(mshrs1, S) = CountIn(q, S) - One(m \in S) + One(x \in S)
    <2>1. m = q[j] /\ q \in Seq(T) /\ j \in 1 .. Len(q) /\ x \in T
      BY <1>1, <1>4, <1>6
    <2> HIDE DEF q, m
    <2>3. /\ mshrs1 \in Seq(T) /\ Len(mshrs1) = Len(q)
          /\ \A S : CountIn(mshrs1, S) = CountIn(q, S) - One(q[j] \in S) + One(x \in S)
      BY <2>1, CountReplace
    <2> HIDE DEF mshrs1
    <2> QED
      BY <2>1, <2>3, Zenon
  <1>8. \A l \in 1 .. Len(q) : mshrs1[l] = IF l = j THEN x ELSE q[l]
    BY <1>1
  <1> HIDE DEF mshrs1
  <1>9. MshrsFit(k, n, mshrs1)
    <2>1. DOMAIN mshrs1 = DOMAIN q
      BY <1>1, <1>7
    <2>2. \A l \in DOMAIN q : mshrs1[l].block = q[l].block /\ mshrs1[l].wait = q[l].wait
      BY <1>1, <1>4, <1>6, <1>8
    <2>3. Ordered(mshrs1)
      BY <1>1, <2>1, <2>2 DEF Ordered
    <2>4. k = "L2C" => \A l \in DOMAIN mshrs1 : mshrs1[l].type # "WRITE"
      <3> SUFFICES ASSUME k = "L2C", NEW l \in DOMAIN q PROVE mshrs1[l].type # "WRITE"
        BY <2>1
      <3>1. \A y \in DOMAIN q : q[y].type # "WRITE"
        BY <1>1 DEF MshrsFit
      <3>2. t.type # "WRITE" /\ m.type # "WRITE"
        BY <1>1, <1>4, <3>1
      <3> QED
        BY <1>1, <1>6, <1>8, <3>1, <3>2
    <2> QED
      BY <1>1, <1>7, <2>3, <2>4 DEF MshrsFit, T
  <1> HIDE DEF stats1
  <1>10. /\ IsState(new) /\ new.clock = s.clock /\ new.uppers = s.uppers
         /\ new.pq = s.pq /\ new.tags = RemoveAt(s.tags, i) /\ new.stash = s.stash
         /\ new.mshrs = mshrs1 /\ new.writes = s.writes /\ new.lower = s.lower /\ new.tlb = s.tlb
         /\ new.lines = s.lines /\ new.lru = s.lru /\ new.stats = stats1 /\ new.owed = s.owed
    <2> DEFINE tags1 == RemoveAt(s.tags, i)
    <2>1. r.tags = tags1
      BY <1>3
    <2> HIDE DEF tags1
    <2> QED
      BY <1>3, <1>5, <2>1 DEF IsState, tags1
  <1>11. Balanced(k, n, new)
    <2> SUFFICES ASSUME NEW b \in Blocks
                 PROVE BelowOf(new.lower, b) = CountIn(new.mshrs, Awaiting(T, b))
      BY DEF Balanced, T
    <2> DEFINE S == Awaiting(T, b)  o == One(m \in S)  e == One(x \in S)
    <2>1. m \in S <=> x \in S
      BY <1>4, <1>6 DEF Awaiting
    <2>2. o = e /\ o \in Nat
      BY <2>1 DEF One
    <2>3. CountIn(mshrs1, S) = CountIn(q, S) - o + e
      BY <1>7
    <2>4. CountIn(q, S) \in Nat
      BY <1>1, CountIsNumber
    <2>5. BelowOf(s.lower, b) = CountIn(q, S)
      BY <1>1, Zenon DEF Sound, Balanced, T
    <2> HIDE DEF o, e, S
    <2>6. CountIn(mshrs1, S) = CountIn(q, S)
      BY <2>2, <2>3, <2>4
    <2> QED
      BY <1>10, <2>5, <2>6 DEF S
  <1>12. ASSUME NEW id \in new.owed
         PROVE  CountIn(new.mshrs, Having(T, id)) = CountIn(q, Having(T, id)) + One(id \in t.ids)
    <2> DEFINE S == Having(T, id)  R == Having(Entries(k, n), id)
               o == One(m \in S)  e == One(x \in S)  f == One(id \in t.ids)
    <2>1. CountIn(mshrs1, S) = CountIn(q, S) - o + e /\ CountIn(q, S) \in Nat
      BY <1>1, <1>7, CountIsNumber
    <2>2. ~ (id \in m.ids /\ id \in t.ids)
      <3> SUFFICES ASSUME id \in m.ids, id \in t.ids PROVE FALSE
        OBVIOUS
      <3>1. m \in S /\ t \in R
        BY <1>2, <1>4 DEF Having
      <3>2. CountIn(q, S) # 0
        <4> HIDE DEF S
        <4> QED
          BY <1>1, <1>4, <3>1, CountIsNumber
      <3>3. /\ s.pq \in Seq(Entries(k, n)) /\ s.tags \in Seq(Entries(k, n))
            /\ s.stash \in Seq(Entries(k, n))
        BY <1>1 DEF Sound, QueuesFit, Locals
      <3>4. CountIn(s.tags, R) # 0
        <4> HIDE DEF R
        <4> QED
          BY <3>1, <3>3, CountIsNumber
      <3>5. CountIn(s.pq, R) \in Nat /\ CountIn(s.tags, R) \in Nat /\ CountIn(s.stash, R) \in Nat
        BY <3>3, CountIsNumber
      <3>6. id \in s.owed /\ id.upper \in UppersOn(k)
        BY <1>1, <1>10 DEF Sound, OwedFits, Ids
      <3>7. Waiting(k, n, s.uppers, id) \in Nat
        BY <1>1, <3>6, WaitingIsNumber DEF Sound
      <3>8. PlacesOf(k, n, s, id) = 1
        BY <1>1, <3>6 DEF Sound, OwedFits
      <3>9. PlacesOf(k, n, s, id)
              = Waiting(k, n, s.uppers, id) + (CountIn(s.pq, R) + CountIn(s.tags, R) + CountIn(s.stash, R))
                  + CountIn(q, S)
        BY Zenon DEF PlacesOf, Checks, T
      <3> HIDE DEF S, R
      <3> QED
        BY <2>1, <3>2, <3>4, <3>5, <3>7, <3>8, <3>9
    <2>3. (m \in S <=> id \in m.ids) /\ (x \in S <=> id \in m.ids \/ id \in t.ids)
      BY <1>4, <1>6 DEF Having
    <2>4. o \in Nat /\ f \in Nat /\ e = o + f
      BY <2>2, <2>3 DEF One
    <2> HIDE DEF o, e, f, S
    <2>5. CountIn(mshrs1, S) = CountIn(q, S) + f
      BY <2>1, <2>4
    <2> QED
      BY <1>10, <2>5 DEF S, f
  <1>13. /\ stats1 \in [issued : Nat, useful : Nat, useless : Nat] /\ stats1.issued = s.stats.issued
         /\ stats1.useless = s.stats.useless
         /\ stats1.useful + CountIn(mshrs1, Locals(T)) + Cardinality(Prefetched(s.lines))
              <= s.stats.useful + CountIn(q, Locals(T)) + Cardinality(Prefetched(s.lines)) + One(t.local)
    <2> DEFINE S == Locals(T)  a == Cardinality(Prefetched(s.lines))  o == One(m.local)
               e == One(x.local)  g == One(t.local)
               c == CountIn(q, S)  d == CountIn(mshrs1, S)  f == s.stats.useful  h == stats1.useful
    <2>1. One(m \in S) = o /\ One(x \in S) = e
      <3>1. (m \in S <=> m.local) /\ (x \in S <=> x.local)
        BY <1>4, <1>6 DEF Locals
      <3> QED
        BY <3>1 DEF One
    <2>2. c \in Nat /\ d = c - o + e
      <3>1. c \in Nat
        BY <1>1, CountIsNumber
      <3>2. d = c - One(m \in S) + One(x \in S)
        BY <1>7
      <3> QED
        BY <2>1, <3>1, <3>2
    <2>3. f \in Nat /\ s.stats.issued \in Nat /\ s.stats.useless \in Nat
      BY <1>1
    <2>4. a \in Nat
      BY <1>1, PrefetchedIsNumber DEF Sound
    <2>5. o \in Nat /\ e \in Nat /\ g \in Nat
      BY DEF One
    <2>6. CASE MergesUsefully(m, t)
      <3>1. stats1 = [s.stats EXCEPT !.useful = useful1]
        BY <2>6 DEF stats1
      <3>2. o = 1 /\ e = 0
        BY <1>6, <2>6 DEF One
      <3>3. /\ stats1 \in [issued : Nat, useful : Nat, useless : Nat] /\ stats1.issued = s.stats.issued
            /\ stats1.useless = s.stats.useless /\ stats1.useful = s.stats.useful + 1
        BY <1>1, <3>1
      <3>4. h = f + 1
        BY <3>3
      <3> HIDE DEF a, c, d, o, e, f, g, h
      <3>5. h + d + a <= f + c + a + g
        BY <2>2, <2>3, <2>4, <2>5, <3>2, <3>4
      <3> QED
        BY <3>3, <3>5 DEF a, c, d, f, g, h, S
    <2>7. CASE ~ MergesUsefully(m, t)
      <3>1. stats1 = s.stats /\ h = f
        BY <2>7 DEF stats1
      <3>2. e = o
        <4>1. m.local \in BOOLEAN
          BY <1>4 DEF T, Misses
        <4>2. x.local = m.local
          BY <1>6, <2>7, <4>1
        <4> QED
          BY <4>2
      <3> HIDE DEF a, c, d, o, e, f, g, h
      <3>5. h + d + a <= f + c + a + g
        BY <2>2, <2>3, <2>4, <2>5, <3>1, <3>2
      <3> QED
        BY <1>1, <3>1, <3>5 DEF a, c, d, f, g, h, S
    <2> QED
      BY <2>6, <2>7
  <1>14. TagTaken(k, n, s, i, new)
    <2>1. /\ MshrsFit(k, n, new.mshrs) /\ WritesFit(k, n, new.writes) /\ LowerFits(new.lower)
          /\ LinesFit(new.lines) /\ LruFits(new.lru)
      BY <1>1, <1>9, <1>10, Zenon DEF Sound
    <2>2. /\ new.stats \in [issued : Nat, useful : Nat, useless : Nat]
          /\ new.stats.issued = s.stats.issued /\ new.stats.useless = s.stats.useless
      BY <1>10, <1>13, Zenon
    <2>3. new.owed \subseteq s.owed
      BY <1>10
    <2>4. new.stats.useful + CountIn(new.mshrs, Locals(T)) + Cardinality(Prefetched(new.lines))
            <= s.stats.useful + CountIn(q, Locals(T)) + Cardinality(Prefetched(s.lines)) + One(t.local)
      BY <1>10, <1>13
    <2>5. \A id \in new.owed :
            CountIn(new.mshrs, Having(T, id)) = CountIn(q, Having(T, id)) + One(id \in t.ids)
      BY <1>12
    <2>6. k = "L2C" => t.type # "WRITE"
      OBVIOUS
    <2> QED
      BY <1>10, <1>11, <2>1, <2>2, <2>3, <2>4, <2>5, <2>6, Zenon DEF TagTaken, t, T, q
  <1> QED
    BY <1>14, TagTakenIsFine DEF new, r, t

\* One more request to the level below.
Asked(l, name, packet) == [l EXCEPT ![name] = Append(@, packet)]

\* One more request below, which counts if it wants an answer.
LEMMA AskedFits ==
  ASSUME NEW l, LowerFits(l), NEW name \in {"rq", "pq"}, Len(l[name]) < LowerSize,
         NEW packet \in Packets
  PROVE  LET l1 == Asked(l, name, packet) IN
         /\ LowerFits(l1) /\ l1.wq = l.wq
         /\ \A b \in Blocks : BelowOf(l1, b) = BelowOf(l, b) + One(packet \in Wanting(b))
  <1> DEFINE q == l[name]  q1 == Append(q, packet)  l1 == Asked(l, name, packet)
  <1>1. /\ l = [wq |-> l.wq, rq |-> l.rq, pq |-> l.pq, returned |-> l.returned, working |-> l.working]
        /\ l.rq \in Seq(Packets) /\ l.pq \in Seq(Packets) /\ LowerSize \in Nat
        /\ l.returned \in Seq(Blocks) /\ l.working \in [Blocks -> Nat]
    BY Numbers DEF LowerFits
  <1>2. q \in Seq(Packets)
    <2>1. l["rq"] = l.rq /\ l["pq"] = l.pq
      BY <1>1
    <2> QED
      BY <1>1, <2>1
  <1>3. l1 = [l EXCEPT ![name] = q1]
    BY DEF Asked
  <1>4. /\ q1 \in Seq(Packets) /\ Len(q1) = Len(q) + 1 /\ Len(q) \in Nat
        /\ \A S : CountIn(q1, S) = CountIn(q, S) + One(packet \in S)
    <2> HIDE DEF q
    <2> QED
      BY <1>2, CountAppend
  <1>5. Len(q1) <= LowerSize
    <2> HIDE DEF q, q1
    <2>1. Len(q) < LowerSize
      BY DEF q
    <2> QED
      BY <1>1, <1>4, <2>1
  <1> HIDE DEF q1, l1
  <1>6. \/ name = "rq" /\ q = l.rq /\ l1 = [wq |-> l.wq, rq |-> q1, pq |-> l.pq, returned |-> l.returned, working |-> l.working]
        \/ name = "pq" /\ q = l.pq /\ l1 = [wq |-> l.wq, rq |-> l.rq, pq |-> q1, returned |-> l.returned, working |-> l.working]
    BY <1>1, <1>3
  <1> HIDE DEF q
  <1>7. LowerFits(l1) /\ l1.wq = l.wq
    BY <1>1, <1>4, <1>5, <1>6 DEF LowerFits
  <1>8. ASSUME NEW b \in Blocks PROVE BelowOf(l1, b) = BelowOf(l, b) + One(packet \in Wanting(b))
    <2> DEFINE S == Wanting(b)  o == One(packet \in S)
               a == CountIn(l.rq, S)  c == CountIn(l.pq, S)  d == l.working[b]
               e == CountIn(l.returned, {b})  a1 == CountIn(l1.rq, S)  c1 == CountIn(l1.pq, S)
               f == CountIn(q1, S)
    <2>1. a \in Nat /\ c \in Nat /\ d \in Nat /\ e \in Nat /\ o \in Nat
      <3>1. o \in Nat
        BY DEF One
      <3> HIDE DEF o, S
      <3> QED
        BY <1>1, <3>1, CountIsNumber
    <2>2. f = CountIn(q, S) + o
      BY <1>4
    <2>3. l1.working = l.working /\ l1.returned = l.returned
      BY <1>6
    <2>4. BelowOf(l, b) = a + c + d + e /\ BelowOf(l1, b) = a1 + c1 + d + e
      BY <2>3, Zenon DEF BelowOf
    <2>5. \/ a1 = a + o /\ c1 = c
          \/ a1 = a /\ c1 = c + o
      <3>1. CASE name = "rq"
        <4>1. l1.rq = q1 /\ q = l.rq /\ l1.pq = l.pq
          BY <1>6, <3>1
        <4> HIDE DEF o, S
        <4> QED
          BY <2>2, <4>1
      <3>2. CASE name = "pq"
        <4>1. l1.pq = q1 /\ q = l.pq /\ l1.rq = l.rq
          BY <1>6, <3>2
        <4> HIDE DEF o, S
        <4> QED
          BY <2>2, <4>1
      <3> QED
        BY <3>1, <3>2
    <2> HIDE DEF a, c, d, e, o, a1, c1
    <2>6. BelowOf(l1, b) = BelowOf(l, b) + o
      BY <2>1, <2>4, <2>5
    <2> QED
      BY <2>6 DEF o
  <1> QED
    BY <1>7, <1>8 DEF l1

\* One more MSHR, of a block that has none, fits behind the others.
LEMMA MshrsAppend ==
  ASSUME NEW k \in Kinds, NEW n, NEW q, MshrsFit(k, n, q), Len(q) # MshrSize[k],
         NEW x \in Misses(k, n), x.wait = Unknown, k = "L2C" => x.type # "WRITE",
         \A i \in 1 .. Len(q) : q[i].block # x.block
  PROVE  MshrsFit(k, n, Append(q, x))
  <1> DEFINE T == Misses(k, n)  p == Append(q, x)  l == Len(q)
  <1>1. q \in Seq(T) /\ Len(q) <= MshrSize[k] /\ Ordered(q) /\ MshrSize[k] \in Nat /\ l \in Nat
        /\ DOMAIN q = 1 .. l
    BY Numbers DEF MshrsFit
  <1>2. /\ p \in Seq(T) /\ Len(p) = l + 1 /\ DOMAIN p = 1 .. l + 1
        /\ \A i \in 1 .. l + 1 : p[i] = IF i = l + 1 THEN x ELSE q[i]
    BY <1>1, AppendProperties
  <1> HIDE DEF p
  <1>3. Ordered(p)
    <2> SUFFICES ASSUME NEW i \in 1 .. l + 1, NEW j \in 1 .. l + 1, i < j
                 PROVE  /\ p[i].block # p[j].block
                        /\ p[j].wait # Unknown => p[i].wait # Unknown /\ p[i].wait <= p[j].wait
      BY <1>2 DEF Ordered
    <2>1. i \in DOMAIN q /\ p[i] = q[i]
      BY <1>1, <1>2
    <2>2. CASE j = l + 1
      <3>1. p[j] = x
        BY <1>2, <2>2
      <3> QED
        BY <1>1, <2>1, <3>1
    <2>3. CASE j # l + 1
      <3>1. j \in DOMAIN q /\ p[j] = q[j]
        BY <1>1, <1>2, <2>3
      <3> QED
        BY <1>1, <2>1, <3>1 DEF Ordered
    <2> QED
      BY <2>2, <2>3
  <1>4. k = "L2C" => \A i \in 1 .. l + 1 : p[i].type # "WRITE"
    <2> SUFFICES ASSUME k = "L2C", NEW i \in 1 .. l + 1 PROVE p[i].type # "WRITE"
      OBVIOUS
    <2>1. CASE i = l + 1
      BY <1>2, <2>1
    <2>2. CASE i # l + 1
      <3>1. i \in DOMAIN q /\ p[i] = q[i]
        BY <1>1, <1>2, <2>2
      <3> QED
        BY <3>1 DEF MshrsFit
    <2> QED
      BY <2>1, <2>2
  <1>5. Len(p) <= MshrSize[k]
    BY <1>1, <1>2
  <1> QED
    BY <1>2, <1>3, <1>4, <1>5 DEF MshrsFit, p

\* A miss on a block that has no MSHR.
LEMMA NewMissIsFine ==
  ASSUME NEW k, NEW n, NEW D, NEW s, Fine(k, n, D, s), NEW i \in 1 .. Len(s.tags),
         ~ (k = "L2C" /\ s.tags[i].type = "WRITE"), MshrOf(s, s.tags[i].block) = 0,
         Len(s.mshrs) # MshrSize[k], Len(s.lower[LowerQueue(s.tags[i])]) < LowerSize
  PROVE  LET new == HandleMiss(Without(s, i), s.tags[i])
         IN  Fine(k, n, D, new) /\ Len(new.tags) = Len(s.tags) - 1
  <1> DEFINE T == Misses(k, n)
             q == s.mshrs
             t == s.tags[i]
             r == Without(s, i)
             name == LowerQueue(t)
             packet == [block |-> t.block, wants |-> ResponseRequested(t)]
             x == MshrType(t)
             lower1 == Asked(s.lower, name, packet)
             mshrs1 == IF ResponseRequested(t) THEN Append(q, x) ELSE q
             new == HandleMiss(r, t)
  <1>1. /\ Sound(k, n, s) /\ IsState(s) /\ MshrsFit(k, n, q) /\ q \in Seq(T) /\ LowerFits(s.lower)
        /\ s.stats \in [issued : Nat, useful : Nat, useless : Nat] /\ k \in Kinds
    BY DEF Fine, Sound, MshrsFit, StatsFit
  <1>2. t \in Entries(k, n)
    BY DEF Fine, Sound, QueuesFit
  <1>3. /\ IsState(r) /\ r.clock = s.clock /\ r.uppers = s.uppers
        /\ r.pq = s.pq /\ r.tags = RemoveAt(s.tags, i) /\ r.stash = s.stash
        /\ r.mshrs = q /\ r.writes = s.writes /\ r.lower = s.lower /\ r.tlb = s.tlb
        /\ r.lines = s.lines /\ r.lru = s.lru /\ r.stats = s.stats /\ r.owed = s.owed
    BY <1>1, WithoutIs
  <1>4. MshrOf(r, t.block) = 0 /\ \A j \in 1 .. Len(q) : q[j].block # t.block
    <2>1. MshrOf(s, t.block) = MshrOf(r, t.block)
      <3> HIDE DEF r, t
      <3> QED
        BY <1>3, Zenon DEF MshrOf
    <2>2. MshrOf(s, t.block) = 0
      OBVIOUS
    <2> HIDE DEF r, t, T
    <2> QED
      BY <1>1, <2>1, <2>2, MshrIsFirst
  <1>5. new = [r EXCEPT !.lower = lower1, !.mshrs = mshrs1]
    <2>1. lower1 = [r.lower EXCEPT ![name] = Append(@, packet)]
      BY <1>3 DEF Asked
    <2>2. mshrs1 = IF ResponseRequested(t) THEN Append(r.mshrs, MshrType(t)) ELSE r.mshrs
      BY <1>3
    <2> HIDE DEF r, t, mshrs1, lower1
    <2> QED
      BY <1>4, <2>1, <2>2, Zenon DEF HandleMiss
  <1>6. x \in T /\ Alike(x, t) /\ x.wait = Unknown
    BY <1>2, MshrTypeFits DEF MshrType
  <1>7. name \in {"rq", "pq"} /\ packet \in Packets /\ packet.block = t.block
        /\ packet.wants = ResponseRequested(t)
    BY <1>2 DEF LowerQueue, Packets, Entries, ResponseRequested
  <1>8. /\ LowerFits(lower1) /\ lower1.wq = s.lower.wq
        /\ \A b \in Blocks : BelowOf(lower1, b) = BelowOf(s.lower, b) + One(packet \in Wanting(b))
    <2> HIDE DEF packet, name
    <2>1. Len(s.lower[name]) < LowerSize
      BY DEF name
    <2> QED
      BY <1>1, <1>7, <2>1, AskedFits
  <1> HIDE DEF x, T, r, new, lower1, packet
  <1>9. /\ mshrs1 \in Seq(T) /\ MshrsFit(k, n, mshrs1)
        /\ ResponseRequested(t) => \A S : CountIn(mshrs1, S) = CountIn(q, S) + One(x \in S)
        /\ ~ ResponseRequested(t) => mshrs1 = q
    <2>1. CASE ResponseRequested(t)
      <3>1. mshrs1 = Append(q, x)
        BY <2>1
      <3>2. /\ Append(q, x) \in Seq(T) /\ \A S : CountIn(Append(q, x), S) = CountIn(q, S) + One(x \in S)
        <4> HIDE DEF q
        <4> QED
          BY <1>1, <1>6, CountAppend
      <3>3. MshrsFit(k, n, Append(q, x))
        <4>1. x \in Misses(k, n) /\ (k = "L2C" => x.type # "WRITE")
          BY <1>6 DEF T, Alike
        <4>2. \A j \in 1 .. Len(q) : q[j].block # x.block
          BY <1>4, <1>6 DEF Alike
        <4>3. Len(q) # MshrSize[k]
          OBVIOUS
        <4> HIDE DEF q
        <4> QED
          BY <1>1, <1>6, <4>1, <4>2, <4>3, MshrsAppend
      <3> HIDE DEF mshrs1
      <3> QED
        BY <2>1, <3>1, <3>2, <3>3
    <2>2. CASE ~ ResponseRequested(t)
      BY <1>1, <2>2
    <2> QED
      BY <2>1, <2>2
  <1> HIDE DEF mshrs1
  <1>10. /\ IsState(new) /\ new.clock = s.clock /\ new.uppers = s.uppers
         /\ new.pq = s.pq /\ new.tags = RemoveAt(s.tags, i) /\ new.stash = s.stash
         /\ new.mshrs = mshrs1 /\ new.writes = s.writes /\ new.lower = lower1 /\ new.tlb = s.tlb
         /\ new.lines = s.lines /\ new.lru = s.lru /\ new.stats = s.stats /\ new.owed = s.owed
    <2> DEFINE tags1 == RemoveAt(s.tags, i)
    <2>1. r.tags = tags1
      BY <1>3
    <2> HIDE DEF tags1
    <2> QED
      BY <1>3, <1>5, <2>1 DEF IsState, tags1
  <1>11. Balanced(k, n, new)
    <2> SUFFICES ASSUME NEW b \in Blocks
                 PROVE BelowOf(new.lower, b) = CountIn(new.mshrs, Awaiting(T, b))
      BY DEF Balanced, T
    <2> DEFINE S == Awaiting(T, b)  o == One(x \in S)  e == One(packet \in Wanting(b))
    <2>1. BelowOf(s.lower, b) = CountIn(q, S) /\ CountIn(q, S) \in Nat
      <3>1. CountIn(q, S) \in Nat
        BY <1>1, CountIsNumber
      <3> QED
        BY <1>1, <3>1, Zenon DEF Sound, Balanced, T
    <2>2. BelowOf(lower1, b) = BelowOf(s.lower, b) + e
      BY <1>8
    <2>3. CASE ResponseRequested(t)
      <3>1. x \in S <=> packet \in Wanting(b)
        BY <1>6, <1>7, <2>3 DEF Awaiting, Wanting, Alike
      <3>2. o = e
        BY <3>1 DEF One
      <3>3. CountIn(mshrs1, S) = CountIn(q, S) + o
        BY <1>9, <2>3
      <3> HIDE DEF S, o, e
      <3>4. BelowOf(lower1, b) = CountIn(mshrs1, S)
        BY <2>1, <2>2, <3>2, <3>3
      <3> QED
        BY <1>10, <3>4 DEF S
    <2>4. CASE ~ ResponseRequested(t)
      <3>1. e = 0
        BY <1>7, <2>4 DEF Wanting, One
      <3>3. mshrs1 = q
        BY <1>9, <2>4
      <3> HIDE DEF S, o, e
      <3>4. BelowOf(lower1, b) = CountIn(mshrs1, S)
        BY <2>1, <2>2, <3>1, <3>3
      <3> QED
        BY <1>10, <3>4 DEF S
    <2> QED
      BY <2>3, <2>4
  <1>12. ASSUME NEW id \in new.owed
         PROVE  CountIn(new.mshrs, Having(T, id)) = CountIn(q, Having(T, id)) + One(id \in t.ids)
    <2> DEFINE S == Having(T, id)
    <2>1. CASE ResponseRequested(t)
      <3>1. (x \in S) = (id \in t.ids)
        BY <1>6 DEF Having, Alike
      <3>2. One(x \in S) = One(id \in t.ids)
        BY <3>1
      <3> QED
        BY <1>9, <1>10, <2>1, <3>2
    <2>2. CASE ~ ResponseRequested(t)
      <3>1. t.ids = {}
        BY <1>2, <2>2 DEF ResponseRequested, Entries
      <3>2. One(id \in t.ids) = 0
        BY <3>1 DEF One
      <3>3. CountIn(q, S) \in Nat
        BY <1>1, CountIsNumber
      <3> DEFINE o == One(id \in t.ids)
      <3>4. o = 0
        BY <3>2
      <3> HIDE DEF S, o
      <3> QED
        BY <1>9, <1>10, <2>2, <3>3, <3>4 DEF S, o
    <2> QED
      BY <2>1, <2>2
  <1>13. new.stats.useful + CountIn(new.mshrs, Locals(T)) + Cardinality(Prefetched(new.lines))
           <= s.stats.useful + CountIn(q, Locals(T)) + Cardinality(Prefetched(s.lines)) + One(t.local)
    <2> DEFINE S == Locals(T)  a == Cardinality(Prefetched(s.lines))  o == One(t.local)
               c == CountIn(q, S)  d == CountIn(mshrs1, S)  f == s.stats.useful
    <2>1. d = c \/ d = c + o
      <3>1. CASE ResponseRequested(t)
        <4>1. (x \in S) = t.local
          BY <1>2, <1>6 DEF Locals, Alike, Entries
        <4>2. One(x \in S) = o
          BY <4>1
        <4> QED
          BY <1>9, <3>1, <4>2
      <3>2. CASE ~ ResponseRequested(t)
        BY <1>9, <3>2
      <3> QED
        BY <3>1, <3>2
    <2>2. c \in Nat
      BY <1>1, CountIsNumber
    <2>3. f \in Nat
      BY <1>1
    <2>4. a \in Nat
      BY <1>1, PrefetchedIsNumber DEF Sound
    <2>5. o \in Nat
      BY DEF One
    <2> HIDE DEF a, c, d, o, f
    <2>6. f + d + a <= f + c + a + o
      BY <2>1, <2>2, <2>3, <2>4, <2>5
    <2> QED
      BY <1>10, <2>6 DEF a, c, d, f, o, S
  <1>14. TagTaken(k, n, s, i, new)
    <2>1. /\ MshrsFit(k, n, new.mshrs) /\ WritesFit(k, n, new.writes) /\ LowerFits(new.lower)
          /\ LinesFit(new.lines) /\ LruFits(new.lru)
      BY <1>1, <1>8, <1>9, <1>10, Zenon DEF Sound
    <2>2. /\ new.stats \in [issued : Nat, useful : Nat, useless : Nat]
          /\ new.stats.issued = s.stats.issued /\ new.stats.useless = s.stats.useless
      BY <1>1, <1>10, Zenon
    <2>3. new.owed \subseteq s.owed
      BY <1>10
    <2>5. \A id \in new.owed :
            CountIn(new.mshrs, Having(T, id)) = CountIn(q, Having(T, id)) + One(id \in t.ids)
      BY <1>12
    <2>6. k = "L2C" => t.type # "WRITE"
      OBVIOUS
    <2> QED
      BY <1>8, <1>10, <1>11, <1>13, <2>1, <2>2, <2>3, <2>5, <2>6, Zenon DEF TagTaken, t, T, q
  <1> QED
    BY <1>14, TagTakenIsFine DEF new, r, t

\* After j turns of a loop over l tag checks, of which some have left.
TagsAt(n, D, l, j, at) ==
  /\ at = [s |-> at.s, next |-> at.next] /\ Fine(kind, n, D, at.s)
  /\ at.next \in Nat \ {0} /\ at.next + l = j + 1 + Len(at.s.tags) /\ Len(at.s.tags) <= l

\* A turn in which the tag check leaves.
LEMMA TagLeavesTurn ==
  ASSUME NEW n, NEW D, NEW l \in Nat, NEW j \in 0 .. l - 1, NEW at, TagsAt(n, D, l, j, at),
         NEW s1, Fine(kind, n, D, s1), Len(s1.tags) = Len(at.s.tags) - 1
  PROVE  TagsAt(n, D, l, j + 1, [at EXCEPT !.s = s1])
  <1> DEFINE new == [at EXCEPT !.s = s1]
  <1>1. new = [s |-> s1, next |-> at.next]
    BY DEF TagsAt
  <1>2. Len(at.s.tags) \in Nat /\ Len(s1.tags) \in Nat
    BY LengthsAre DEF TagsAt
  <1>3. at.next + l = j + 1 + Len(at.s.tags) /\ Len(at.s.tags) <= l /\ at.next \in Nat \ {0}
    BY DEF TagsAt
  <1> DEFINE a == Len(at.s.tags)  b == Len(s1.tags)  c == at.next
  <1>4. b = a - 1 /\ a \in Nat /\ b \in Nat /\ c + l = j + 1 + a /\ a <= l /\ c \in Nat
    BY <1>2, <1>3
  <1> HIDE DEF new, a, b, c
  <1>5. c + l = (j + 1) + 1 + b /\ b <= l
    BY <1>4
  <1> QED
    BY <1>1, <1>3, <1>5 DEF TagsAt, b, c, new

\* A turn that passes over the tag check.
LEMMA TagStaysTurn ==
  ASSUME NEW n, NEW D, NEW l \in Nat, NEW j \in 0 .. l - 1, NEW at, TagsAt(n, D, l, j, at)
  PROVE  TagsAt(n, D, l, j + 1, [at EXCEPT !.next = @ + 1])
  <1> DEFINE c == at.next  d == c + 1  new == [at EXCEPT !.next = d]
  <1>1. new = [s |-> at.s, next |-> d]
    BY DEF TagsAt
  <1>2. Len(at.s.tags) \in Nat /\ c \in Nat \ {0} /\ c + l = j + 1 + Len(at.s.tags)
        /\ Len(at.s.tags) <= l
    BY LengthsAre DEF TagsAt
  <1>3. d \in Nat \ {0} /\ d + l = (j + 1) + 1 + Len(at.s.tags)
    <2> DEFINE a == Len(at.s.tags)
    <2>1. c \in Nat \ {0} /\ c + l = j + 1 + a /\ a \in Nat
      BY <1>2
    <2> HIDE DEF c, a
    <2>2. d \in Nat \ {0} /\ d + l = (j + 1) + 1 + a
      BY <2>1
    <2> QED
      BY <2>2 DEF a
  <1> HIDE DEF d, new
  <1>4. TagsAt(n, D, l, j + 1, new)
    BY <1>1, <1>2, <1>3 DEF TagsAt
  <1> QED
    BY <1>4 DEF new, d, c

\* The next tag check of the loop is there.
LEMMA TagsAtPlace ==
  ASSUME NEW n, NEW D, NEW l \in Nat, NEW j \in 0 .. l - 1, NEW at, TagsAt(n, D, l, j, at)
  PROVE  at.next \in 1 .. Len(at.s.tags) /\ Fine(kind, n, D, at.s)
  <1>1. Len(at.s.tags) \in Nat /\ at.next \in Nat \ {0} /\ at.next + l = j + 1 + Len(at.s.tags)
    BY LengthsAre DEF TagsAt
  <1> QED
    BY <1>1 DEF TagsAt

\* A turn of the loop over the hits.
LEMMA HitTurn ==
  ASSUME NEW n, NEW D, NEW l \in Nat, NEW j \in 0 .. l - 1, NEW at, TagsAt(n, D, l, j, at)
  PROVE  TagsAt(n, D, l, j + 1, HitNext(at))
  <1> DEFINE t == at.s.tags[at.next]
             s1 == TryHit(Without(at.s, at.next), t)
  <1>1. at.next \in 1 .. Len(at.s.tags) /\ Fine(kind, n, D, at.s)
    BY TagsAtPlace
  <1>2. CASE Hits(at.s, t)
    <2>1. HitNext(at) = [at EXCEPT !.s = s1]
      BY <1>2, Zenon DEF HitNext
    <2>2. Fine(kind, n, D, s1) /\ Len(s1.tags) = Len(at.s.tags) - 1
      BY <1>1, <1>2, HitIsFine
    <2> HIDE DEF s1
    <2> QED
      BY <2>1, <2>2, TagLeavesTurn
  <1>3. CASE ~ Hits(at.s, t)
    <2>1. HitNext(at) = [at EXCEPT !.next = @ + 1]
      BY <1>3, Zenon DEF HitNext
    <2> QED
      BY <2>1, TagStaysTurn
  <1> QED
    BY <1>2, <1>3

\* A turn of the loop over the misses.
LEMMA MissTurn ==
  ASSUME NEW n, NEW D, NEW l \in Nat, NEW j \in 0 .. l - 1, NEW at, TagsAt(n, D, l, j, at)
  PROVE  TagsAt(n, D, l, j + 1, MissNext(at))
  <1> DEFINE t == at.s.tags[at.next]
             s1 == HandleWrite(Without(at.s, at.next), t)
             s2 == HandleMiss(Without(at.s, at.next), t)
  <1>1. at.next \in 1 .. Len(at.s.tags) /\ Fine(kind, n, D, at.s)
    BY TagsAtPlace
  <1>2. kind \in {"L1D", "L2C"}
    BY <1>1, CacheAssumption DEF Fine, Sound
  <1>3. CASE t.type = "WRITE" /\ ~ MatchOffsetBits
    <2>1. MissNext(at) = [at EXCEPT !.s = s1]
      BY <1>3, Zenon DEF MissNext
    <2>2. kind = "L2C"
      BY <1>2, <1>3 DEF MatchOffsetBits
    <2>3. Fine(kind, n, D, s1) /\ Len(s1.tags) = Len(at.s.tags) - 1
      BY <1>1, <1>3, <2>2, WriteIsFine
    <2> HIDE DEF s1
    <2> QED
      BY <2>1, <2>3, TagLeavesTurn
  <1>4. CASE ~ (t.type = "WRITE" /\ ~ MatchOffsetBits) /\ CanHandleMiss(at.s, t)
    <2>1. MissNext(at) = [at EXCEPT !.s = s2]
      BY <1>4, Zenon DEF MissNext
    <2>2. ~ (kind = "L2C" /\ t.type = "WRITE")
      BY <1>4 DEF MatchOffsetBits
    <2>3. Fine(kind, n, D, s2) /\ Len(s2.tags) = Len(at.s.tags) - 1
      <3>1. CASE MshrOf(at.s, t.block) # 0
        BY <1>1, <2>2, <3>1, MergeIsFine
      <3>2. CASE MshrOf(at.s, t.block) = 0
        <4>1. Len(at.s.mshrs) # MshrSize[kind] /\ Len(at.s.lower[LowerQueue(t)]) < LowerSize
          BY <1>4, <3>2 DEF CanHandleMiss
        <4> DEFINE s == at.s  i == at.next
        <4>2. /\ Fine(kind, n, D, s) /\ i \in 1 .. Len(s.tags)
              /\ ~ (kind = "L2C" /\ s.tags[i].type = "WRITE") /\ MshrOf(s, s.tags[i].block) = 0
              /\ Len(s.mshrs) # MshrSize[kind] /\ Len(s.lower[LowerQueue(s.tags[i])]) < LowerSize
              /\ s2 = HandleMiss(Without(s, i), s.tags[i])
          BY <1>1, <2>2, <3>2, <4>1
        <4> HIDE DEF s, i, s2
        <4>3. Fine(kind, n, D, s2) /\ Len(s2.tags) = Len(s.tags) - 1
          BY <4>2, NewMissIsFine, SMTT(30)
        <4> QED
          BY <4>3 DEF s
      <3> QED
        BY <3>1, <3>2
    <2> HIDE DEF s2
    <2> QED
      BY <2>1, <2>3, TagLeavesTurn
  <1>5. CASE ~ (t.type = "WRITE" /\ ~ MatchOffsetBits) /\ ~ CanHandleMiss(at.s, t)
    <2>1. MissNext(at) = [at EXCEPT !.next = @ + 1]
      BY <1>5, Zenon DEF MissNext
    <2> QED
      BY <2>1, TagStaysTurn
  <1> QED
    BY <1>3, <1>4, <1>5

\* A loop over the first m tag checks.
LEMMA TagsLoop ==
  ASSUME NEW n, NEW D, NEW s, Fine(kind, n, D, s), NEW m \in 0 .. Len(s.tags),
         NEW name \in {"hit", "miss"}
  PROVE  TagsAt(n, D, Len(s.tags), m, LoopOf(name, 0, m, [s |-> s, next |-> 1]))
  <1> DEFINE l == Len(s.tags)
             start == [s |-> s, next |-> 1]
  <1>1. l \in Nat
    BY LengthsAre
  <1>2. TagsAt(n, D, l, 0, start)
    <2> DEFINE a == Len(s.tags)
    <2>1. 1 + l = 0 + 1 + a /\ a <= l
      BY <1>1
    <2> HIDE DEF a
    <2> QED
      BY <2>1 DEF TagsAt, a
  <1> HIDE DEF start, l
  <1>3. m \in Nat /\ m <= l
    BY <1>1 DEF l
  <1>4. PICK after : Turning(name, 0, m, start, after) /\ LoopOf(name, 0, m, start) = after[m]
    BY <1>3, LoopTurns
  <1> DEFINE S == {j \in 0 .. m : TagsAt(n, D, l, j, after[j])}
  <1>5. 0 \in S
    BY <1>2, <1>3, <1>4 DEF Turning
  <1>6. ASSUME NEW j \in 0 .. m - 1, j \in S PROVE j + 1 \in S
    <2>1. j + 1 \in 1 .. m /\ (j + 1) - 1 = j /\ j \in 0 .. l - 1 /\ j + 1 \in 0 .. m
      BY <1>1, <1>3
    <2>2. after[j + 1] = TurnOf(name, 0, after[j])
      BY <1>4, <2>1 DEF Turning
    <2>3. TurnOf(name, 0, after[j]) = HitNext(after[j]) \/ TurnOf(name, 0, after[j]) = MissNext(after[j])
      BY TurnsAre
    <2>4. TagsAt(n, D, l, j, after[j])
      BY <1>6
    <2>5. TagsAt(n, D, l, j + 1, HitNext(after[j])) /\ TagsAt(n, D, l, j + 1, MissNext(after[j]))
      BY <1>1, <2>1, <2>4, HitTurn, MissTurn
    <2> QED
      BY <2>1, <2>2, <2>3, <2>5
  <1> HIDE DEF S
  <1>7. m \in S
    <2>1. 0 .. m \subseteq S
      BY <1>3, <1>5, <1>6, LoopInduction
    <2> QED
      BY <1>3, <2>1
  <1> QED
    BY <1>4, <1>7 DEF S, start, l

\* The tag checks that are over: hits, then misses (cache.cc:500-514).
LEMMA CheckTagsIsFine ==
  ASSUME NEW n, NEW D, NEW s, Fine(kind, n, D, s)
  PROVE  Fine(kind, n, D, CheckTags(s)) /\ Len(CheckTags(s).tags) <= Len(s.tags)
  <1> DEFINE K == {t \in ToSet(s.tags) : t.wait = 0 /\ t.translated}
             m == SpanLength(s.tags, MaxTag, K)
             hit == LoopOf("hit", 0, m, [s |-> s, next |-> 1])
             x == hit.next - 1
             end == LoopOf("miss", 0, x, [s |-> hit.s, next |-> 1])
  <1>1. m \in 0 .. Len(s.tags) /\ m \in Nat
    <2>1. s.tags \in Seq(Entries(kind, n)) /\ MaxTag \in Nat
      BY Numbers DEF Fine, Sound, QueuesFit
    <2> HIDE DEF K
    <2> QED
      BY <2>1, SpanFits
  <1>2. CheckHits(s) = hit
    BY LoopsAre DEF CheckHits
  <1> HIDE DEF m
  <1>3. TagsAt(n, D, Len(s.tags), m, hit)
    BY <1>1, TagsLoop
  <1> HIDE DEF hit
  <1>4. /\ Fine(kind, n, D, hit.s) /\ x \in 0 .. Len(hit.s.tags) /\ x \in Nat
        /\ Len(hit.s.tags) <= Len(s.tags)
    <2> DEFINE a == Len(hit.s.tags)  b == Len(s.tags)  c == hit.next
    <2>1. Fine(kind, n, D, hit.s) /\ c \in Nat \ {0} /\ c + b = m + 1 + a /\ a <= b
      BY <1>3 DEF TagsAt
    <2>2. a \in Nat /\ b \in Nat /\ m \in 0 .. b
      BY <1>1, <2>1, LengthsAre
    <2> HIDE DEF a, b, c
    <2>3. c - 1 \in 0 .. a /\ c - 1 \in Nat
      BY <2>1, <2>2
    <2> QED
      BY <2>1, <2>3 DEF a, b, c
  <1>5. CheckMisses(hit.s, x) = end.s
    BY LoopsAre DEF CheckMisses
  <1>6. CheckTags(s) = end.s
    BY <1>2, <1>5, Zenon DEF CheckTags
  <1> HIDE DEF x
  <1>7. TagsAt(n, D, Len(hit.s.tags), x, end)
    BY <1>4, TagsLoop
  <1> HIDE DEF end
  <1>8. Fine(kind, n, D, end.s) /\ Len(end.s.tags) <= Len(hit.s.tags)
    BY <1>7 DEF TagsAt
  <1>9. Len(end.s.tags) \in Nat /\ Len(hit.s.tags) \in Nat /\ Len(s.tags) \in Nat
    BY <1>4, <1>8, LengthsAre
  <1> QED
    BY <1>4, <1>6, <1>8, <1>9

-----------------------------------------------------------------------------
(***************************************************************************)
(* The channels from above.                                                *)
(***************************************************************************)
LEMMA ChannelHas ==
  ASSUME NEW k, NEW n, NEW up, UppersFit(k, n, up), NEW u \in UppersOn(k)
  PROVE  /\ up[u]["wq"] = up[u].wq /\ up[u]["rq"] = up[u].rq /\ up[u]["pq"] = up[u].pq
         /\ up[u].wq \in Seq(WriteReqs(k, n, u)) /\ Len(up[u].wq) <= QueueSize
         /\ up[u].rq \in Seq(ReadReqs(k, n, u)) /\ Len(up[u].rq) <= QueueSize
         /\ up[u].pq \in Seq(ReadReqs(k, n, u)) /\ Len(up[u].pq) <= QueueSize
         /\ \A name \in Queues : up[u][name] \in Seq(ReqsOf(k, n, u, name))
  <1> DEFINE W == WriteReqs(k, n, u)  R == ReadReqs(k, n, u)
  <1>1. up[u] = [wq |-> up[u].wq, rq |-> up[u].rq, pq |-> up[u].pq]
    BY DEF UppersFit, ChannelFits
  <1>2. \A name \in Queues : up[u][name] \in Seq(ReqsOf(k, n, u, name)) /\ Len(up[u][name]) <= QueueSize
    BY DEF UppersFit, ChannelFits
  <1>3. ReqsOf(k, n, u, "wq") = W /\ ReqsOf(k, n, u, "rq") = R /\ ReqsOf(k, n, u, "pq") = R
    BY DEF ReqsOf
  <1> HIDE DEF W, R
  <1>4. up[u]["wq"] = up[u].wq /\ up[u]["rq"] = up[u].rq /\ up[u]["pq"] = up[u].pq
    BY <1>1
  <1>5. "wq" \in Queues /\ "rq" \in Queues /\ "pq" \in Queues
    BY DEF Queues
  <1> QED
    BY <1>2, <1>3, <1>4, <1>5 DEF W, R

\* Putting one queue of one upper level leaves all others.
LEMMA PutQueueFits ==
  ASSUME NEW k, NEW n, NEW up, UppersFit(k, n, up), NEW u \in UppersOn(k), NEW name \in Queues,
         NEW q \in Seq(ReqsOf(k, n, u, name)), Len(q) <= QueueSize
  PROVE  LET new == PutQueue(up, u, name, q) IN
         /\ UppersFit(k, n, new)
         /\ \A v \in UppersOn(k) :
              /\ new[v].wq = IF v = u /\ name = "wq" THEN q ELSE up[v].wq
              /\ new[v].rq = IF v = u /\ name = "rq" THEN q ELSE up[v].rq
              /\ new[v].pq = IF v = u /\ name = "pq" THEN q ELSE up[v].pq
  <1> DEFINE old == up[u]
             ch == [old EXCEPT ![name] = q]
             new == PutQueue(up, u, name, q)
  <1>1. /\ up = [v \in UppersOn(k) |-> up[v]] /\ \A v \in UppersOn(k) : ChannelFits(k, n, v, up[v])
    BY DEF UppersFit
  <1>2. /\ old = [wq |-> old.wq, rq |-> old.rq, pq |-> old.pq] /\ ChannelFits(k, n, u, old)
    BY <1>1 DEF ChannelFits
  <1>3. new = [up EXCEPT ![u] = ch]
    BY DEF PutQueue
  <1>11. ch = [old EXCEPT ![name] = q]
    OBVIOUS
  <1> HIDE DEF old, ch
  <1>12. \/ name = "wq" /\ ch = [wq |-> q, rq |-> old.rq, pq |-> old.pq]
         \/ name = "rq" /\ ch = [wq |-> old.wq, rq |-> q, pq |-> old.pq]
         \/ name = "pq" /\ ch = [wq |-> old.wq, rq |-> old.rq, pq |-> q]
    BY <1>2, <1>11 DEF Queues
  <1>4. ch = [wq |-> IF name = "wq" THEN q ELSE old.wq, rq |-> IF name = "rq" THEN q ELSE old.rq,
              pq |-> IF name = "pq" THEN q ELSE old.pq]
    BY <1>12
  <1>5. \A x \in Queues : ch[x] = IF x = name THEN q ELSE old[x]
    BY <1>2, <1>12 DEF Queues
  <1> HIDE DEF new
  <1>6. ChannelFits(k, n, u, ch)
    <2>1. ch = [wq |-> ch.wq, rq |-> ch.rq, pq |-> ch.pq]
      BY <1>4
    <2>2. ASSUME NEW x \in Queues
          PROVE ch[x] \in Seq(ReqsOf(k, n, u, x)) /\ Len(ch[x]) <= QueueSize
      <3>1. CASE x = name
        BY <1>5, <3>1, Zenon
      <3>2. CASE x # name
        <4>1. ch[x] = old[x]
          BY <1>5, <3>2, Zenon
        <4> QED
          BY <1>2, <4>1, Zenon DEF ChannelFits
      <3> QED
        BY <3>1, <3>2
    <2> QED
      BY <2>1, <2>2 DEF ChannelFits
  <1>7. new = [v \in UppersOn(k) |-> IF v = u THEN ch ELSE up[v]]
    BY <1>1, <1>3
  <1>8. \A v \in UppersOn(k) : new[v] = IF v = u THEN ch ELSE up[v]
    BY <1>7
  <1>9. UppersFit(k, n, new)
    <2>1. new = [v \in UppersOn(k) |-> new[v]]
      BY <1>7
    <2>2. \A v \in UppersOn(k) : ChannelFits(k, n, v, new[v])
      BY <1>1, <1>6, <1>8
    <2> QED
      BY <2>1, <2>2 DEF UppersFit
  <1>10. \A v \in UppersOn(k) :
           /\ new[v].wq = IF v = u /\ name = "wq" THEN q ELSE up[v].wq
           /\ new[v].rq = IF v = u /\ name = "rq" THEN q ELSE up[v].rq
           /\ new[v].pq = IF v = u /\ name = "pq" THEN q ELSE up[v].pq
    <2> TAKE v \in UppersOn(k)
    <2>1. CASE v = u
      <3>1. new[v] = ch /\ up[v] = old
        BY <1>8, <2>1 DEF old
      <3> QED
        BY <1>4, <2>1, <3>1
    <2>2. CASE v # u
      BY <1>8, <2>2
    <2> QED
      BY <2>1, <2>2
  <1> QED
    BY <1>9, <1>10 DEF new

TagIs(k, n, u, r) ==
  LET e == TagOf(r, u) IN
  /\ e \in Entries(k, n) /\ e.local = FALSE /\ e.ids = r.ids /\ e.type = r.type
  /\ e.block = BlockOf(r.addr) /\ \A id \in r.ids : id.upper = u

\* The tag check of a request counts as the request did.
LEMMA TagOfFits ==
  ASSUME NEW k \in Kinds, NEW n, NEW u \in UppersOn(k), NEW r \in Reqs(k, n, u),
         r.type = "WRITE" => r.ids = {}
  PROVE  TagIs(k, n, u, r)
  <1>2. /\ r.addr \in Addresses[k] /\ r.type \in Types /\ r.ids \in SUBSET Ids(k, n)
        /\ r.wants \in BOOLEAN /\ r.translated \in BOOLEAN
        /\ (\A id \in r.ids : id.upper = u) /\ (~ r.wants => r.ids = {})
    BY DEF Reqs
  <1>3. BlockOf(r.addr) \in Blocks
    BY <1>2 DEF Blocks
  <1>4. HitLatency \in 0 .. HitLatency
    BY Numbers
  <1> QED
    BY <1>2, <1>3, <1>4 DEF TagIs, TagOf, Entries

\* The first m requests of a queue begin their tag check.
LEMMA RequestsBegin ==
  ASSUME NEW k, NEW n, NEW D, NEW s, Fine(k, n, D, s), NEW u \in UppersOn(k), NEW name \in Queues,
         NEW m \in 0 .. Len(s.uppers[u][name])
  PROVE  LET new == BeginRequests(s, u, name, m)
         IN  Fine(k, n, D, new) /\ Len(new.tags) = Len(s.tags) + m
  <1> DEFINE E == Entries(k, n)
             q == s.uppers[u][name]
             R == ReqsOf(k, n, u, name)
             b == [i \in 1 .. m |-> TagOf(q[i], u)]
             front == SubSeq(q, 1, m)
             left == From(q, m + 1)
             both == s.tags \o b
             up1 == PutQueue(s.uppers, u, name, left)
             new == BeginRequests(s, u, name, m)
  <1>1. /\ IsState(s) /\ Sound(k, n, s) /\ QueuesFit(k, n, s) /\ UppersFit(k, n, s.uppers) /\ k \in Kinds
        /\ s.tags \in Seq(E) /\ s.pq \in Seq(E) /\ s.stash \in Seq(E)
    BY DEF Fine, Sound, QueuesFit, Locals
  <1>2. q \in Seq(R) /\ Len(q) <= QueueSize /\ QueueSize \in Nat
    <2>1. ChannelFits(k, n, u, s.uppers[u])
      BY <1>1 DEF UppersFit
    <2> QED
      BY <2>1, Numbers DEF ChannelFits
  <1>3. /\ front \in Seq(R) /\ Len(front) = m /\ \A i \in 1 .. m : front[i] = q[i]
        /\ left \in Seq(R) /\ Len(left) = Len(q) - m
        /\ \A S : CountIn(front, S) + CountIn(left, S) = CountIn(q, S)
    <2>1. m \in 0 .. Len(q)
      OBVIOUS
    <2> HIDE DEF R, q
    <2>2. /\ front \in Seq(R) /\ Len(front) = m /\ \A i \in 1 .. m : front[i] = q[i]
          /\ left \in Seq(R) /\ Len(left) = Len(q) - m
      BY <1>2, <2>1, Parts
    <2>3. \A S : CountIn(front, S) + CountIn(left, S) = CountIn(q, S)
      BY <1>2, <2>1, CountParts
    <2> QED
      BY <2>2, <2>3, Zenon
  <1>4. \A i \in 1 .. m : q[i] \in R
    BY <1>2
  <1>5. new = [s EXCEPT !.tags = both, !.uppers = up1]
    BY Zenon DEF BeginRequests
  <1> HIDE DEF new
  <1>0. ASSUME NEW r \in R
        PROVE  /\ TagOf(r, u) \in E /\ TagOf(r, u).local = FALSE /\ TagOf(r, u).ids = r.ids
               /\ TagOf(r, u).type = r.type /\ TagOf(r, u).block = BlockOf(r.addr)
               /\ \A id \in r.ids : id.upper = u
    <2>1. k \in Kinds /\ r \in Reqs(k, n, u) /\ (r.type = "WRITE" => r.ids = {})
      BY <1>1 DEF ReqsOf, WriteReqs, ReadReqs
    <2> HIDE DEF R, q, E, b, front, left, both, up1
    <2>2. TagIs(k, n, u, r)
      BY <2>1, TagOfFits
    <2> QED
      BY <2>2 DEF TagIs, E
  <1>6. /\ b \in Seq(E) /\ Len(b) = m /\ DOMAIN b = 1 .. m
        /\ \A i \in 1 .. m : b[i] = TagOf(front[i], u) /\ front[i] \in R
    <2>1. \A i \in 1 .. m : TagOf(q[i], u) \in E
      <3> TAKE i \in 1 .. m
      <3>1. q[i] \in R
        BY <1>4
      <3> QED
        BY <3>1, <1>0
    <2> HIDE DEF q, E, R, front
    <2>2. m \in Nat
      OBVIOUS
    <2> QED
      BY <1>3, <1>4, <2>1, <2>2
  <1>7. ASSUME NEW S, NEW Q, \A r \in R : TagOf(r, u) \in S <=> r \in Q
        PROVE  CountIn(b, S) = CountIn(front, Q)
    <2>1. DOMAIN front = 1 .. m
      BY <1>3
    <2> HIDE DEF R, front, b
    <2>2. \A i \in 1 .. Len(front) : b[i] \in S <=> front[i] \in Q
      BY <1>3, <1>6, <1>7
    <2> QED
      BY <1>3, <1>6, <2>1, <2>2, CountSame
  <1>8. both \in Seq(E) /\ Len(both) = Len(s.tags) + m
    <2>1. both \in Seq(E) /\ Len(both) = Len(s.tags) + Len(b)
      <3> HIDE DEF E, b
      <3> QED
        BY <1>1, <1>6, ConcatProperties
    <2> HIDE DEF both, b
    <2> QED
      BY <1>6, <2>1
  <1>9. Len(left) <= QueueSize
    <2>1. Len(q) \in Nat /\ Len(left) = Len(q) - m
      BY <1>2, <1>3
    <2> HIDE DEF left
    <2> QED
      BY <1>2, <2>1
  <1>10. /\ UppersFit(k, n, up1)
         /\ \A v \in UppersOn(k) :
              /\ up1[v].wq = IF v = u /\ name = "wq" THEN left ELSE s.uppers[v].wq
              /\ up1[v].rq = IF v = u /\ name = "rq" THEN left ELSE s.uppers[v].rq
              /\ up1[v].pq = IF v = u /\ name = "pq" THEN left ELSE s.uppers[v].pq
    <2>1. UppersFit(k, n, s.uppers) /\ left \in Seq(ReqsOf(k, n, u, name)) /\ Len(left) <= QueueSize
      BY <1>1, <1>3, <1>9
    <2> HIDE DEF left, R
    <2> QED
      BY <2>1, PutQueueFits DEF up1
  <1> HIDE DEF both, up1
  <1>11. /\ IsState(new) /\ new.tags = both /\ new.stash = s.stash /\ new.tlb = s.tlb
         /\ new.clock = s.clock /\ new.uppers = up1 /\ new.pq = s.pq
         /\ new.mshrs = s.mshrs /\ new.writes = s.writes /\ new.lines = s.lines
         /\ new.lru = s.lru /\ new.lower = s.lower
         /\ new.stats = s.stats /\ new.owed = s.owed
    BY <1>1, <1>5 DEF IsState
  <1>12. ASSUME NEW S
         PROVE  /\ Checks(new, S) = Checks(s, S) + CountIn(b, S)
                /\ Checks(s, S) \in Nat /\ CountIn(b, S) \in Nat
    <2> HIDE DEF E, b
    <2> DEFINE a == CountIn(s.pq, S)  c == CountIn(s.tags, S)  d == CountIn(s.stash, S)
               e == CountIn(b, S)  f == CountIn(both, S)
    <2>1. f = c + e
      BY <1>1, <1>6, CountConcat DEF both
    <2>2. a \in Nat /\ c \in Nat /\ d \in Nat /\ e \in Nat
      BY <1>1, <1>6, CountIsNumber
    <2>3. Checks(s, S) = a + c + d /\ Checks(new, S) = a + f + d
      BY <1>11, Zenon DEF Checks
    <2> HIDE DEF a, c, d, e, f
    <2>4. Checks(new, S) = Checks(s, S) + e /\ Checks(s, S) \in Nat
      BY <2>1, <2>2, <2>3
    <2> QED
      BY <2>2, <2>4 DEF e
  <1>13. StatsFit(k, n, new)
    <2> DEFINE S == Locals(E)
    <2>1. CountIn(b, S) = 0
      <3>1. \A i \in 1 .. Len(b) : b[i] \notin S
        <4> TAKE i \in 1 .. Len(b)
        <4>1. b[i] = TagOf(front[i], u) /\ front[i] \in R
          BY <1>6
        <4>2. TagOf(front[i], u).local = FALSE
          <5> HIDE DEF front, b
          <5> QED
            BY <4>1, <1>0
        <4> QED
          BY <4>1, <4>2 DEF Locals
      <3> HIDE DEF E, S, b
      <3> QED
        BY <1>6, <3>1, CountIsNumber
    <2>2. Checks(new, S) = Checks(s, S)
      <3> DEFINE e == CountIn(b, S)
      <3>1. e = 0
        BY <2>1
      <3>2. Checks(new, S) = Checks(s, S) + e /\ Checks(s, S) \in Nat
        BY <1>12
      <3> HIDE DEF e, S
      <3> QED
        BY <3>1, <3>2
    <2>3. LocalSum(k, n, new) = LocalSum(k, n, s)
      BY <1>11, <2>2, Zenon DEF LocalSum
    <2> QED
      BY <1>1, <1>11, <2>3, Zenon DEF StatsFit, Sound
  <1>14. OwedFits(k, n, new)
    <2>1. new.owed = s.owed /\ s.owed \subseteq Ids(k, n)
      BY <1>1, <1>11 DEF Sound, OwedFits
    <2> SUFFICES ASSUME NEW id \in s.owed PROVE PlacesOf(k, n, new, id) = 1
      BY <2>1 DEF OwedFits
    <2>2. id.upper \in UppersOn(k)
      BY <2>1 DEF Ids
    <2> DEFINE v == id.upper
               S == Having(E, id)  Q == Having(ReadReqs(k, n, v), id)
               c == CountIn(b, S)
               w == Waiting(k, n, s.uppers, id)  w1 == Waiting(k, n, up1, id)
    <2>3. /\ s.uppers[v].rq \in Seq(ReadReqs(k, n, v)) /\ s.uppers[v].pq \in Seq(ReadReqs(k, n, v))
          /\ s.uppers[u]["rq"] = s.uppers[u].rq /\ s.uppers[u]["pq"] = s.uppers[u].pq
      BY <1>1, <2>2, ChannelHas
    <2>4. c = 0 \/ (v = u /\ name \in {"rq", "pq"} /\ c = CountIn(front, Q))
      <3>1. CASE v = u /\ name \in {"rq", "pq"}
        <4>1. R = ReadReqs(k, n, v)
          BY <3>1 DEF ReqsOf
        <4>2. \A r \in R : TagOf(r, u) \in S <=> r \in Q
          <5> TAKE r \in R
          <5>1. TagOf(r, u) \in E /\ TagOf(r, u).ids = r.ids
            BY <1>0
          <5> QED
            BY <4>1, <5>1 DEF Having
        <4> HIDE DEF R, S, Q, front, b
        <4>3. c = CountIn(front, Q)
          BY <1>7, <4>2
        <4> QED
          BY <3>1, <4>3
      <3>2. CASE ~ (v = u /\ name \in {"rq", "pq"})
        <4>1. \A i \in 1 .. Len(b) : b[i] \notin S
          <5> TAKE i \in 1 .. Len(b)
          <5>1. b[i] = TagOf(front[i], u) /\ front[i] \in R
            BY <1>6
          <5>2. TagOf(front[i], u).ids = front[i].ids /\ \A x \in front[i].ids : x.upper = u
            <6> HIDE DEF front, b
            <6> QED
              BY <5>1, <1>0
          <5>3. name = "wq" => front[i].ids = {}
            BY <5>1 DEF ReqsOf, WriteReqs
          <5>4. id \notin front[i].ids
            <6>1. name \in {"wq", "rq", "pq"}
              BY DEF Queues
            <6> QED
              BY <3>2, <5>2, <5>3, <6>1
          <5> QED
            BY <5>1, <5>2, <5>4 DEF Having
        <4> HIDE DEF E, S, b
        <4>2. CountIn(b, S) = 0
          BY <1>6, <4>1, CountIsNumber
        <4> QED
          BY <4>2
      <3> QED
        BY <3>1, <3>2
    <2>5. w1 + c = w /\ w1 \in Nat /\ c \in Nat
      <3> DEFINE x == CountIn(s.uppers[v].rq, Q)  y == CountIn(s.uppers[v].pq, Q)
                 x1 == CountIn(up1[v].rq, Q)  y1 == CountIn(up1[v].pq, Q)
                 g == CountIn(left, Q)
      <3>1. w = x + y /\ w1 = x1 + y1
        BY Zenon DEF Waiting
      <3>2. x \in Nat /\ y \in Nat
        <4> HIDE DEF Q, v
        <4> QED
          BY <2>3, CountIsNumber
      <3>3. c \in Nat
        BY <1>12
      <3>4. w1 \in Nat
        BY <1>10, <2>2, WaitingIsNumber
      <3>5. v = u /\ name = "rq" => up1[v].rq = left /\ up1[v].pq = s.uppers[v].pq /\ q = s.uppers[v].rq
        <4>1. v = u /\ name = "rq" => up1[v].rq = left /\ up1[v].pq = s.uppers[v].pq
          BY <1>10, <2>2, Zenon
        <4>2. v = u /\ name = "rq" => q = s.uppers[v].rq
          BY <2>3
        <4> QED
          BY <4>1, <4>2
      <3>6. v = u /\ name = "pq" => up1[v].pq = left /\ up1[v].rq = s.uppers[v].rq /\ q = s.uppers[v].pq
        <4>1. v = u /\ name = "pq" => up1[v].pq = left /\ up1[v].rq = s.uppers[v].rq
          BY <1>10, <2>2, Zenon
        <4>2. v = u /\ name = "pq" => q = s.uppers[v].pq
          BY <2>3
        <4> QED
          BY <4>1, <4>2
      <3>7. ~ (v = u /\ name \in {"rq", "pq"}) => up1[v].pq = s.uppers[v].pq /\ up1[v].rq = s.uppers[v].rq
        BY <1>10, <2>2, Zenon
      <3>8. CountIn(front, Q) + g = CountIn(q, Q)
        BY <1>3
      <3>9. CASE ~ (v = u /\ name \in {"rq", "pq"})
        <4>1. x1 = x /\ y1 = y /\ c = 0
          BY <2>4, <3>7, <3>9
        <4> HIDE DEF x, y, x1, y1, c, w, w1
        <4> QED
          BY <3>1, <3>2, <4>1
      <3>10. CASE v = u /\ name = "rq"
        <4>1. x1 = g /\ y1 = y /\ CountIn(q, Q) = x
          BY <3>5, <3>10
        <4>2. \/ c = 0 /\ CountIn(front, Q) = c
              \/ CountIn(front, Q) = c
          <5>1. R = ReadReqs(k, n, v)
            BY <3>10 DEF ReqsOf
          <5>2. \A r \in R : TagOf(r, u) \in S <=> r \in Q
            <6> TAKE r \in R
            <6>1. TagOf(r, u) \in E /\ TagOf(r, u).ids = r.ids
              BY <1>0
            <6> QED
              BY <5>1, <6>1 DEF Having
          <5> HIDE DEF R, S, Q, front, b
          <5>3. c = CountIn(front, Q)
            BY <1>7, <5>2
          <5> QED
            BY <5>3
        <4>3. c + g = x
          BY <3>8, <4>1, <4>2
        <4>4. g \in Nat
          <5> HIDE DEF R, Q, left
          <5> QED
            BY <1>3, CountIsNumber
        <4> HIDE DEF x, y, x1, y1, c, w, w1, g
        <4> QED
          BY <3>1, <3>2, <3>3, <4>1, <4>3, <4>4
      <3>11. CASE v = u /\ name = "pq"
        <4>1. y1 = g /\ x1 = x /\ CountIn(q, Q) = y
          BY <3>6, <3>11
        <4>2. c = CountIn(front, Q)
          <5>1. R = ReadReqs(k, n, v)
            BY <3>11 DEF ReqsOf
          <5>2. \A r \in R : TagOf(r, u) \in S <=> r \in Q
            <6> TAKE r \in R
            <6>1. TagOf(r, u) \in E /\ TagOf(r, u).ids = r.ids
              BY <1>0
            <6> QED
              BY <5>1, <6>1 DEF Having
          <5> HIDE DEF R, S, Q, front, b
          <5> QED
            BY <1>7, <5>2
        <4>3. c + g = y
          BY <3>8, <4>1, <4>2
        <4>4. g \in Nat
          <5> HIDE DEF R, Q, left
          <5> QED
            BY <1>3, CountIsNumber
        <4> HIDE DEF x, y, x1, y1, c, w, w1, g
        <4> QED
          BY <3>1, <3>2, <3>3, <4>1, <4>3, <4>4
      <3> QED
        BY <3>9, <3>10, <3>11
    <2> DEFINE d == Checks(s, S)  e == Checks(new, S)  f == CountIn(s.mshrs, Having(Misses(k, n), id))
    <2>6. e = d + c /\ d \in Nat
      BY <1>12
    <2>7. w + d + f = 1
      BY <1>1, Zenon DEF Sound, OwedFits, PlacesOf
    <2>8. PlacesOf(k, n, new, id) = w1 + e + f
      BY <1>11, Zenon DEF PlacesOf
    <2>9. f \in Nat
      <3>1. s.mshrs \in Seq(Misses(k, n))
        BY <1>1 DEF Sound, MshrsFit
      <3> QED
        BY <3>1, CountIsNumber
    <2> HIDE DEF w, w1, c, d, e, f
    <2>10. w1 + e + f = 1
      BY <2>5, <2>6, <2>7, <2>9
    <2> QED
      BY <2>8, <2>10
  <1>15. QueuesFit(k, n, new)
    BY <1>1, <1>8, <1>11 DEF QueuesFit
  <1>16. Balanced(k, n, new)
    BY <1>1, <1>11, Zenon DEF Sound, Balanced
  <1>17. Sound(k, n, new)
    BY <1>1, <1>10, <1>11, <1>13, <1>14, <1>15, <1>16, Zenon DEF Sound
  <1>18. ASSUME NEW x \in Blocks, Kept(k, n, s, x) PROVE Kept(k, n, new, x)
    <2> DEFINE S == WritesOf(E, x)
    <2>1. Checks(s, S) > 0 => Checks(new, S) > 0
      <3>1. Checks(new, S) = Checks(s, S) + CountIn(b, S) /\ Checks(s, S) \in Nat /\ CountIn(b, S) \in Nat
        BY <1>12
      <3> DEFINE e == CountIn(b, S)
      <3> HIDE DEF S, e
      <3> QED
        BY <3>1 DEF e
    <2>2. ASSUME NEW v \in UppersOn(k), CountIn(s.uppers[v].wq, WritesTo(WriteReqs(k, n, v), x)) > 0
          PROVE  \/ CountIn(up1[v].wq, WritesTo(WriteReqs(k, n, v), x)) > 0
                 \/ Checks(new, S) > 0
      <3> DEFINE Q == WritesTo(WriteReqs(k, n, v), x)
      <3>1. CASE ~ (v = u /\ name = "wq")
        <4>1. up1[v].wq = s.uppers[v].wq
          BY <1>10, <3>1, Zenon
        <4> QED
          BY <2>2, <4>1
      <3>2. CASE v = u /\ name = "wq"
        <4>1. up1[v].wq = left
          BY <1>10, <3>2, Zenon
        <4>2. q = s.uppers[v].wq
          BY <1>1, <3>2, ChannelHas
        <4>3. R = WriteReqs(k, n, v)
          BY <3>2 DEF ReqsOf
        <4>4. \A r \in R : TagOf(r, u) \in S <=> r \in Q
          <5> TAKE r \in R
          <5>1. TagOf(r, u) \in E /\ TagOf(r, u).type = r.type /\ TagOf(r, u).block = BlockOf(r.addr)
            BY <1>0
          <5> QED
            BY <4>3, <5>1 DEF WritesOf, WritesTo
        <4> DEFINE c == CountIn(b, S)  g == CountIn(left, Q)  f == CountIn(front, Q)
        <4>5. c = f
          <5> HIDE DEF R, S, Q, front, b
          <5> QED
            BY <1>7, <4>4
        <4>6. f + g = CountIn(q, Q) /\ CountIn(q, Q) > 0
          BY <1>3, <2>2, <4>2
        <4>7. c \in Nat /\ Checks(new, S) = Checks(s, S) + c /\ Checks(s, S) \in Nat
          BY <1>12
        <4>8. g \in Nat
          <5> HIDE DEF R, Q, left
          <5> QED
            BY <1>3, CountIsNumber
        <4> HIDE DEF c, f, g, S
        <4>9. g > 0 \/ Checks(new, S) > 0
          BY <4>5, <4>6, <4>7, <4>8
        <4> QED
          BY <4>1, <4>9 DEF g
      <3> QED
        BY <3>1, <3>2
    <2> QED
      BY <1>11, <1>18, <2>1, <2>2, Zenon DEF Kept
  <1>19. AllKept(k, n, s, D)
    BY DEF Fine
  <1>20. AllKept(k, n, new, D)
    BY <1>18, <1>19, Zenon DEF AllKept
  <1> QED
    BY <1>8, <1>11, <1>17, <1>20, Zenon DEF Fine, new

\* The rotation names an upper level and one of its queues.
LEMMA UpperFits ==
  ASSUME kind \in Kinds, NEW cycle \in Nat, NEW i \in Nat \ {0}
  PROVE  UpperAt(cycle, i) \in UppersOn(kind) /\ NameAt(i) \in Queues
  <1> DEFINE a == i - 1  u == UppersOf[kind]  b == (a \div 3) + cycle
  <1>1. a \in Nat /\ u \in Nat \ {0} /\ 3 \in Nat \ {0}
    BY Numbers
  <1>2. a \div 3 \in Nat /\ a % 3 \in 0 .. 2
    <2> HIDE DEF a
    <2> QED
      BY <1>1
  <1>3. b \in Nat
    <2> DEFINE c == a \div 3
    <2>1. c \in Nat
      BY <1>2
    <2> HIDE DEF c
    <2> QED
      BY <2>1
  <1>4. b % u \in 0 .. u - 1
    <2> HIDE DEF b, u
    <2> QED
      BY <1>1, <1>3
  <1>5. UpperAt(cycle, i) = (b % u) + 1
    BY DEF UpperAt
  <1>6. UpperAt(cycle, i) \in 1 .. u
    <2> DEFINE c == b % u
    <2>1. c \in 0 .. u - 1 /\ UpperAt(cycle, i) = c + 1
      BY <1>4, <1>5
    <2> HIDE DEF c, u
    <2> QED
      BY <1>1, <2>1
  <1>7. NameAt(i) = <<"wq", "rq", "pq">>[(a % 3) + 1]
    BY DEF NameAt
  <1>8. NameAt(i) \in Queues
    <2> DEFINE c == a % 3
    <2>1. c = 0 \/ c = 1 \/ c = 2
      <3>1. c \in 0 .. 2
        BY <1>2
      <3> HIDE DEF c
      <3> QED
        BY <3>1
    <2>2. NameAt(i) = <<"wq", "rq", "pq">>[c + 1]
      BY <1>7
    <2> HIDE DEF c
    <2> QED
      BY <2>1, <2>2 DEF Queues
  <1> QED
    BY <1>6, <1>8 DEF UppersOn, u

\* After j turns of the loop over the queues of the upper levels.
AboveAt(n, D, l, j, at) ==
  /\ at = [s |-> at.s, bandwidth |-> at.bandwidth, next |-> at.next] /\ Fine(kind, n, D, at.s)
  /\ at.bandwidth \in Nat /\ at.next = j + 1 /\ Len(at.s.tags) + at.bandwidth = l

\* A turn of the loop over the queues of the upper levels.
LEMMA InitiateTurn ==
  ASSUME NEW n, NEW D, NEW l, NEW j \in Nat, NEW at, AboveAt(n, D, l, j, at),
         NEW share \in Nat, NEW avail
  PROVE  AboveAt(n, D, l, j + 1, InitiateNext(at, share, avail))
  <1> DEFINE u == UpperAt(at.s.clock, at.next)
             name == NameAt(at.next)
             q == at.s.uppers[u][name]
             w == Least(share, at.bandwidth)
             m == Begins(q, w, avail)
             s1 == BeginRequests(at.s, u, name, m)
             new == InitiateNext(at, share, avail)
  <1>1. /\ Fine(kind, n, D, at.s) /\ at.bandwidth \in Nat /\ at.next = j + 1
        /\ Len(at.s.tags) + at.bandwidth = l
    BY DEF AboveAt
  <1>2. Sound(kind, n, at.s) /\ kind \in Kinds /\ at.s.clock \in Nat /\ UppersFit(kind, n, at.s.uppers)
    BY <1>1 DEF Fine, Sound, Cycles
  <1>3. u \in UppersOn(kind) /\ name \in Queues
    <2>1. at.next \in Nat \ {0}
      BY <1>1
    <2> QED
      BY <1>2, <2>1, UpperFits
  <1>4. w \in Nat /\ w <= at.bandwidth
    BY <1>1 DEF Least
  <1> HIDE DEF u, name, w
  <1>5. q \in Seq(ReqsOf(kind, n, u, name))
    BY <1>2, <1>3, ChannelHas
  <1>6. m \in 0 .. w /\ m \in 0 .. Len(q)
    <2> DEFINE K == {e \in ToSet(q) : avail \/ e.translated}
    <2>1. m = SpanLength(q, w, K)
      BY DEF Begins
    <2> HIDE DEF q, K, m
    <2> QED
      BY <1>4, <1>5, <2>1, SpanFits
  <1>7. new = [s |-> s1, bandwidth |-> at.bandwidth - m, next |-> at.next + 1]
    BY Zenon DEF InitiateNext, u, name, w
  <1> HIDE DEF m, new
  <1>8. Fine(kind, n, D, s1) /\ Len(s1.tags) = Len(at.s.tags) + m
    <2> DEFINE c == at.s
    <2>1. m \in 0 .. Len(c.uppers[u][name]) /\ s1 = BeginRequests(c, u, name, m) /\ Fine(kind, n, D, c)
      BY <1>1, <1>6 DEF q
    <2> HIDE DEF s1, q, c
    <2>2. LET x == BeginRequests(c, u, name, m) IN Fine(kind, n, D, x) /\ Len(x.tags) = Len(c.tags) + m
      BY <1>3, <2>1, RequestsBegin
    <2> QED
      BY <2>1, <2>2, Zenon DEF c
  <1>9. Len(at.s.tags) \in Nat
    BY <1>1, LengthsAre
  <1> HIDE DEF s1, q
  <1>10. new.s = s1 /\ new.bandwidth = at.bandwidth - m /\ new.next = at.next + 1
    BY <1>7
  <1>11. new = [s |-> new.s, bandwidth |-> new.bandwidth, next |-> new.next]
    BY <1>7
  <1>12. /\ new.bandwidth \in Nat /\ new.next = (j + 1) + 1
         /\ Len(new.s.tags) + new.bandwidth = l
    <2> DEFINE a == Len(at.s.tags)  b == at.bandwidth  c == Len(s1.tags)
    <2>1. a \in Nat /\ b \in Nat /\ c = a + m /\ a + b = l /\ m \in 0 .. w /\ w <= b /\ w \in Nat
      BY <1>1, <1>4, <1>6, <1>8, <1>9
    <2>2. new.bandwidth = b - m /\ Len(new.s.tags) = c
      BY <1>10
    <2>3. new.next = at.next + 1 /\ at.next = j + 1
      BY <1>1, <1>10
    <2> HIDE DEF a, b, c
    <2>4. new.bandwidth \in Nat /\ c + new.bandwidth = l
      BY <2>1, <2>2
    <2> QED
      BY <2>2, <2>3, <2>4
  <1>13. Fine(kind, n, D, new.s)
    BY <1>8, <1>10
  <1> QED
    BY <1>11, <1>12, <1>13 DEF AboveAt, new

\* The upper levels in turn.
LEMMA InitiateAboveIsFine ==
  ASSUME NEW n, NEW D, NEW s, Fine(kind, n, D, s), NEW bandwidth \in Nat, NEW share \in Nat, NEW avail
  PROVE  LET above == InitiateAbove(s, bandwidth, share, avail) IN
         /\ Fine(kind, n, D, above.s) /\ above.bandwidth \in Nat
         /\ Len(above.s.tags) + above.bandwidth = Len(s.tags) + bandwidth
  <1> DEFINE l == Len(s.tags) + bandwidth
             m == 3 * UppersOf[kind]
             a == <<share, avail>>
             start == [s |-> s, bandwidth |-> bandwidth, next |-> 1]
             above == InitiateAbove(s, bandwidth, share, avail)
  <1>1. m \in Nat
    <2>1. kind \in Kinds
      BY DEF Fine, Sound
    <2> QED
      BY <2>1, Numbers
  <1>2. AboveAt(n, D, l, 0, start)
    BY DEF AboveAt
  <1>3. above = LoopOf("initiate", a, m, start)
    <2>1. above = Repeat(m, start, LAMBDA x : InitiateNext(x, share, avail))
      BY Zenon DEF InitiateAbove
    <2> HIDE DEF above, m, start
    <2> QED
      BY <2>1, LoopsAre
  <1> HIDE DEF start, l, m, above
  <1>4. PICK after : Turning("initiate", a, m, start, after) /\ LoopOf("initiate", a, m, start) = after[m]
    BY <1>1, LoopTurns
  <1> DEFINE S == {j \in 0 .. m : AboveAt(n, D, l, j, after[j])}
  <1>5. 0 \in S
    BY <1>1, <1>2, <1>4 DEF Turning
  <1>6. ASSUME NEW j \in 0 .. m - 1, j \in S PROVE j + 1 \in S
    <2>1. j + 1 \in 1 .. m /\ (j + 1) - 1 = j /\ j \in Nat /\ j + 1 \in 0 .. m
      BY <1>1
    <2>2. after[j + 1] = TurnOf("initiate", a, after[j])
      BY <1>4, <2>1 DEF Turning
    <2>3. TurnOf("initiate", a, after[j]) = InitiateNext(after[j], a[1], a[2])
      BY TurnsAre
    <2>4. a[1] = share /\ a[2] = avail
      OBVIOUS
    <2>5. AboveAt(n, D, l, j, after[j])
      BY <1>6
    <2>6. AboveAt(n, D, l, j + 1, InitiateNext(after[j], share, avail))
      BY <2>1, <2>5, InitiateTurn
    <2> QED
      BY <2>1, <2>2, <2>3, <2>4, <2>6
  <1> HIDE DEF S
  <1>7. m \in S
    <2>1. 0 .. m \subseteq S
      BY <1>1, <1>5, <1>6, LoopInduction
    <2> QED
      BY <1>1, <2>1
  <1>8. AboveAt(n, D, l, m, above)
    BY <1>3, <1>4, <1>7 DEF S
  <1> QED
    BY <1>8 DEF AboveAt, above, l

\* The tag checks that begin in a cycle, and the bound on those in flight
\* (cache.cc:453-488).
LEMMA InitiateTagChecksIsFine ==
  ASSUME NEW n, NEW D, NEW s, Fine(kind, n, D, s), Len(s.tags) <= MaxTag * HitLatency
  PROVE  /\ Fine(kind, n, D, InitiateTagChecks(s))
         /\ Len(InitiateTagChecks(s).tags) <= MaxTag * HitLatency
  <1> DEFINE l == Len(s.tags)
             max == MaxTag * HitLatency
             total == Least(Greatest(MaxTag * HitLatency - Len(s.tags), 0), MaxTag)
             avail == Len(s.stash) < MshrSize[kind]
             m == Begins(s.stash, total, FALSE)
             share == Greatest((total - m) \div UppersOf[kind], 1)
             begun == BeginStash(s, m)
             above == InitiateAbove(begun, total - m, share, avail)
             x == Begins(above.s.pq, above.bandwidth, avail)
             new == BeginPrefetches(above.s, x)
  <1>1. InitiateTagChecks(s) = new
    BY Zenon DEF InitiateTagChecks
  <1>2. l \in Nat /\ max \in Nat /\ MaxTag \in Nat /\ UppersOf[kind] \in Nat \ {0}
    <2>1. kind \in Kinds
      BY DEF Fine, Sound
    <2>2. MaxTag \in Nat /\ HitLatency \in Nat
      BY Numbers
    <2> QED
      BY <2>1, <2>2, Numbers, LengthsAre
  <1>3. total \in Nat /\ l + total <= max
    <2>1. total = Least(Greatest(max - l, 0), MaxTag) /\ l <= max
      OBVIOUS
    <2> HIDE DEF total, l, max
    <2> QED
      BY <1>2, <2>1 DEF Least, Greatest
  <1> HIDE DEF total, avail
  <1>4. m \in 0 .. total /\ m \in 0 .. Len(s.stash)
    <2> DEFINE K == {e \in ToSet(s.stash) : FALSE \/ e.translated}
    <2>1. m = SpanLength(s.stash, total, K)
      BY DEF Begins
    <2>2. s.stash \in Seq(Entries(kind, n) \ Locals(Entries(kind, n)))
      BY DEF Fine, Sound, QueuesFit
    <2> HIDE DEF K, m
    <2> QED
      BY <1>3, <2>1, <2>2, SpanFits
  <1> HIDE DEF m
  <1>5. total - m \in Nat
    BY <1>3, <1>4
  <1>6. share \in Nat
    <2> DEFINE y == total - m  u == UppersOf[kind]  z == y \div u
    <2>1. z \in Nat
      <3> HIDE DEF y, u
      <3> QED
        BY <1>2, <1>5 DEF y, u
    <2> HIDE DEF z
    <2>2. share = Greatest(z, 1)
      BY DEF z
    <2> QED
      BY <2>1, <2>2 DEF Greatest
  <1>7. Fine(kind, n, D, begun) /\ Len(begun.tags) = l + m
    BY <1>4, StashAgain
  <1> HIDE DEF begun, share
  <1>8. /\ Fine(kind, n, D, above.s) /\ above.bandwidth \in Nat
        /\ Len(above.s.tags) + above.bandwidth = Len(begun.tags) + (total - m)
    <2> DEFINE y == total - m
    <2>1. y \in Nat /\ above = InitiateAbove(begun, y, share, avail)
      BY <1>5
    <2> HIDE DEF y, above
    <2>2. /\ Fine(kind, n, D, above.s) /\ above.bandwidth \in Nat
          /\ Len(above.s.tags) + above.bandwidth = Len(begun.tags) + y
      BY <1>6, <1>7, <2>1, InitiateAboveIsFine
    <2> QED
      BY <2>2 DEF y
  <1> HIDE DEF above
  <1>9. x \in 0 .. above.bandwidth /\ x \in 0 .. Len(above.s.pq)
    <2> DEFINE K == {e \in ToSet(above.s.pq) : avail \/ e.translated}
    <2>1. x = SpanLength(above.s.pq, above.bandwidth, K)
      BY DEF Begins
    <2>2. above.s.pq \in Seq(Locals(Entries(kind, n)))
      BY <1>8 DEF Fine, Sound, QueuesFit
    <2> HIDE DEF K, x
    <2> QED
      BY <1>8, <2>1, <2>2, SpanFits
  <1> HIDE DEF x
  <1>10. Fine(kind, n, D, new) /\ Len(new.tags) = Len(above.s.tags) + x
    <2> DEFINE c == above.s
    <2>1. Fine(kind, n, D, c) /\ x \in 0 .. Len(c.pq) /\ new = BeginPrefetches(c, x)
      BY <1>8, <1>9
    <2> HIDE DEF c, new
    <2>2. LET b == BeginPrefetches(c, x) IN Fine(kind, n, D, b) /\ Len(b.tags) = Len(c.tags) + x
      BY <2>1, PqAgain
    <2> QED
      BY <2>1, <2>2, Zenon DEF c
  <1>11. Len(new.tags) <= max
    <2> DEFINE a == Len(new.tags)  b == Len(above.s.tags)  c == above.bandwidth  d == Len(begun.tags)
    <2>1. a = b + x /\ b + c = d + (total - m) /\ d = l + m /\ x \in 0 .. c /\ c \in Nat
      BY <1>7, <1>8, <1>9, <1>10
    <2>2. b \in Nat
      BY <1>8, LengthsAre
    <2> HIDE DEF a, b, c, d, l, max
    <2>3. a <= max
      BY <1>2, <1>3, <1>4, <2>1, <2>2
    <2> QED
      BY <2>3 DEF a
  <1> HIDE DEF new
  <1> QED
    BY <1>1, <1>10, <1>11

-----------------------------------------------------------------------------
(***************************************************************************)
(* check_collision.                                                        *)
(***************************************************************************)
LEMMA CollisionPlace ==
  ASSUME NEW T, NEW q \in Seq(T), NEW r, NEW grain, Collision(q, r, grain) # 0
  PROVE  /\ Collision(q, r, grain) \in 1 .. Len(q)
         /\ SameSlice(q[Collision(q, r, grain)].addr, r.addr, grain)
  <1> DEFINE I == {i \in 1 .. Len(q) : SameSlice(q[i].addr, r.addr, grain)}
             x == SelectInSeq(q, LAMBDA e : SameSlice(e.addr, r.addr, grain))
  <1>1. x = First(I)
    BY Zenon DEF SelectInSeq, First
  <1>2. Len(q) \in Nat /\ I \in SUBSET (1 .. Len(q))
    OBVIOUS
  <1>3. Collision(q, r, grain) = x
    BY DEF Collision
  <1> HIDE DEF x
  <1>4. First(I) # 0 => First(I) \in I
    <2> HIDE DEF I
    <2> QED
      BY <1>2, FirstPlace
  <1>5. x \in I
    BY <1>1, <1>3, <1>4
  <1> QED
    BY <1>3, <1>5

\* Where a queue of requests T, which was q, is after j turns.  Loads of which it had one
\* request are still in it or have been answered, and the blocks that are written are the same.
CheckedAt(T, q, keeps, j, at) ==
  /\ at = [queue |-> at.queue, next |-> at.next, answered |-> at.answered]
  /\ at.queue \in Seq(T) /\ Len(at.queue) <= Len(q)
  /\ at.next \in Nat \ {0} /\ at.next + Len(q) = j + 1 + Len(at.queue)
  /\ \A id : id \notin at.answered /\ CountIn(q, Having(T, id)) <= 1
               => CountIn(at.queue, Having(T, id)) = CountIn(q, Having(T, id))
  /\ keeps => \A b : CountIn(q, WritesTo(T, b)) > 0 => CountIn(at.queue, WritesTo(T, b)) > 0

\* A request merged with another is for the loads of both.
LEMMA MergedFits ==
  ASSUME NEW k, NEW n, NEW u, NEW name \in Queues,
         NEW r \in ReqsOf(k, n, u, name), NEW o \in ReqsOf(k, n, u, name)
  PROVE  LET x == MergedRequest(o, r) IN
         /\ x \in ReqsOf(k, n, u, name) /\ x.ids = o.ids \cup r.ids
         /\ x.type = o.type /\ x.addr = o.addr
  <1> DEFINE x == MergedRequest(o, r)
  <1>1. /\ r \in Reqs(k, n, u) /\ o \in Reqs(k, n, u)
        /\ name = "wq" => r.type = "WRITE" /\ o.type = "WRITE" /\ r.ids = {} /\ o.ids = {}
        /\ name # "wq" => o.type # "WRITE"
    BY DEF ReqsOf, WriteReqs, ReadReqs
  <1>2. /\ x.ids = o.ids \cup r.ids /\ x.type = o.type /\ x.addr = o.addr
        /\ x \in Reqs(k, n, u)
    BY <1>1 DEF Reqs, MergedRequest
  <1> HIDE DEF x
  <1>3. x \in ReqsOf(k, n, u, name)
    BY <1>1, <1>2 DEF ReqsOf, WriteReqs, ReadReqs
  <1> QED
    BY <1>2, <1>3 DEF x

\* A request that has been checked is else the same.
LEMMA CheckedFits ==
  ASSUME NEW k, NEW n, NEW u, NEW name \in Queues, NEW r \in ReqsOf(k, n, u, name)
  PROVE  LET x == [r EXCEPT !.checked = TRUE] IN
         /\ x \in ReqsOf(k, n, u, name) /\ x.ids = r.ids
         /\ x.type = r.type /\ x.addr = r.addr
         /\ r.wants \/ r.ids = {}
  <1> DEFINE x == [r EXCEPT !.checked = TRUE]
  <1>1. /\ r \in Reqs(k, n, u)
        /\ name = "wq" => r.type = "WRITE" /\ r.ids = {}
        /\ name # "wq" => r.type # "WRITE"
    BY DEF ReqsOf, WriteReqs, ReadReqs
  <1>2. /\ x.ids = r.ids /\ x.type = r.type /\ x.addr = r.addr
        /\ x \in Reqs(k, n, u) /\ (r.wants \/ r.ids = {})
    BY <1>1 DEF Reqs
  <1> HIDE DEF x
  <1>3. x \in ReqsOf(k, n, u, name)
    BY <1>1, <1>2 DEF ReqsOf, WriteReqs, ReadReqs
  <1> QED
    BY <1>2, <1>3 DEF x

\* A turn of the loop over a queue: the request leaves, merged or answered, or stays
\* (channel.cc:77-114).
LEMMA CheckTurn ==
  ASSUME NEW k, NEW n, NEW u, NEW name \in Queues,
         NEW q \in Seq(ReqsOf(k, n, u, name)), NEW keeps \in BOOLEAN,
         NEW j \in 0 .. Len(q) - 1, NEW at,
         CheckedAt(ReqsOf(k, n, u, name), q, keeps, j, at),
         NEW wq, NEW grain, keeps => wq = <<>> /\ grain = BlockSize
  PROVE  CheckedAt(ReqsOf(k, n, u, name), q, keeps, j + 1, CheckNext(at, wq, grain))
  <1> DEFINE T == ReqsOf(k, n, u, name)
             p == at.queue
             x == at.next
             r == p[x]
             i == Collision(SubSeq(p, 1, x - 1), r, grain)
             others == RemoveAt(p, x)
             new == CheckNext(at, wq, grain)
  <1>1. /\ at = [queue |-> p, next |-> x, answered |-> at.answered]
        /\ p \in Seq(T) /\ Len(p) <= Len(q)
        /\ x \in Nat \ {0} /\ x + Len(q) = j + 1 + Len(p)
        /\ \A id : id \notin at.answered /\ CountIn(q, Having(T, id)) <= 1
                     => CountIn(p, Having(T, id)) = CountIn(q, Having(T, id))
        /\ keeps => \A b : CountIn(q, WritesTo(T, b)) > 0 => CountIn(p, WritesTo(T, b)) > 0
    BY DEF CheckedAt
  <1>2. q \in Seq(T) /\ Len(q) \in Nat /\ Len(p) \in Nat /\ j \in Nat /\ j < Len(q)
    BY <1>1
  <1>3. x \in 1 .. Len(p) /\ x - 1 \in 0 .. Len(p)
    <2> DEFINE a == Len(p)  b == Len(q)
    <2>1. a \in Nat /\ b \in Nat /\ j \in Nat /\ j < b /\ x + b = j + 1 + a /\ x \in Nat \ {0}
      BY <1>1, <1>2
    <2> HIDE DEF a, b, x
    <2>2. x \in 1 .. a /\ x - 1 \in 0 .. a
      BY <2>1
    <2> QED
      BY <2>2 DEF a
  <1>4. r \in T
    BY <1>1, <1>3
  <1>5. /\ others \in Seq(T) /\ Len(others) = Len(p) - 1
        /\ \A y \in 1 .. Len(p) - 1 : others[y] = IF y < x THEN p[y] ELSE p[y + 1]
        /\ \A S : CountIn(others, S) = CountIn(p, S) - One(r \in S)
    <2> HIDE DEF T, p, x
    <2> QED
      BY <1>1, <1>3, CountRemove
  <1>6. new = IF r.checked THEN [at EXCEPT !.next = x + 1]
              ELSE IF Forwarded(wq, r)
              THEN [at EXCEPT !.queue = others, !.answered = at.answered \cup IF r.wants THEN r.ids ELSE {}]
              ELSE IF i # 0
              THEN [at EXCEPT !.queue = [others EXCEPT ![i] = MergedRequest(p[i], r)]]
              ELSE [at EXCEPT !.queue = [p EXCEPT ![x] = [r EXCEPT !.checked = TRUE]], !.next = x + 1]
    BY Zenon DEF CheckNext
  <1>7. r.wants \/ r.ids = {}
    BY <1>4, CheckedFits
  <1>8. keeps => ~ Forwarded(wq, r)
    <2> SUFFICES ASSUME keeps, Forwarded(wq, r) PROVE FALSE
      OBVIOUS
    <2>1. <<>> \in Seq(T) /\ Len(<<>>) = 0
      OBVIOUS
    <2>2. Collision(<<>>, r, WriteGrain) # 0
      BY Zenon DEF Forwarded
    <2> DEFINE y == Collision(<<>>, r, WriteGrain)
    <2>3. y \in 1 .. Len(<<>>)
      BY <2>1, <2>2, CollisionPlace
    <2> HIDE DEF y
    <2> QED
      BY <2>1, <2>3
  <1> HIDE DEF T, p, x, r, i, others, new
  <1>9. CASE r.checked
    <2>1. new = [queue |-> p, next |-> x + 1, answered |-> at.answered]
      BY <1>1, <1>6, <1>9
    <2>2. new.queue = p /\ new.next = x + 1 /\ new.answered = at.answered
      BY <2>1
    <2>3. x + 1 \in Nat \ {0} /\ (x + 1) + Len(q) = (j + 1) + 1 + Len(p)
      <3> DEFINE a == Len(p)  b == Len(q)
      <3>1. a \in Nat /\ b \in Nat /\ j \in Nat /\ x + b = j + 1 + a /\ x \in Nat \ {0}
        BY <1>1, <1>2
      <3> HIDE DEF a, b
      <3>2. x + 1 \in Nat \ {0} /\ (x + 1) + b = (j + 1) + 1 + a
        BY <3>1
      <3> QED
        BY <3>2 DEF a, b
    <2>4. CheckedAt(T, q, keeps, j + 1, new)
      BY <1>1, <2>1, <2>2, <2>3 DEF CheckedAt
    <2> QED
      BY <2>4 DEF T, new
  <1>10. CASE ~ r.checked /\ Forwarded(wq, r)
    <2> DEFINE ids == IF r.wants THEN r.ids ELSE {}
    <2>1. new = [queue |-> others, next |-> x, answered |-> at.answered \cup ids]
      <3> DEFINE ans == at.answered \cup ids
                 old == at.answered
      <3>3. at = [queue |-> p, next |-> x, answered |-> old]
        BY <1>1
      <3>1. new = [at EXCEPT !.queue = others, !.answered = ans]
        BY <1>6, <1>10, Zenon
      <3> HIDE DEF ans, old
      <3>2. new = [queue |-> others, next |-> x, answered |-> ans]
        BY <3>1, <3>3
      <3> QED
        BY <3>2 DEF ans
    <2>2. ids = r.ids
      BY <1>7
    <2> HIDE DEF ids
    <2>3. new.queue = others /\ new.next = x /\ new.answered = at.answered \cup r.ids
      BY <2>1, <2>2
    <2>4. x + Len(q) = (j + 1) + 1 + Len(others) /\ Len(others) <= Len(q)
      BY <1>1, <1>2, <1>5
    <2>5. ASSUME NEW id, id \notin new.answered, CountIn(q, Having(T, id)) <= 1
          PROVE CountIn(others, Having(T, id)) = CountIn(q, Having(T, id))
      <3> DEFINE S == Having(T, id)  a == CountIn(p, S)  b == CountIn(others, S)  c == CountIn(q, S)
      <3>1. a = c
        BY <1>1, <2>3, <2>5
      <3>2. One(r \in S) = 0
        BY <2>3, <2>5 DEF One, Having
      <3>3. a \in Nat
        BY <1>1, CountIsNumber
      <3>4. b = a - One(r \in S)
        BY <1>5
      <3> HIDE DEF a, b, c, S
      <3>5. b = c
        BY <3>1, <3>2, <3>3, <3>4
      <3> QED
        BY <3>5 DEF b, c, S
    <2>6. new = [queue |-> new.queue, next |-> new.next, answered |-> new.answered]
      BY <2>1
    <2>7. keeps = FALSE
      BY <1>8, <1>10
    <2>8. CheckedAt(T, q, keeps, j + 1, new)
      BY <1>1, <1>5, <2>3, <2>4, <2>5, <2>6, <2>7 DEF CheckedAt
    <2> QED
      BY <2>8 DEF T, new
  <1>11. CASE ~ r.checked /\ ~ Forwarded(wq, r) /\ i # 0
    <2> DEFINE o == p[i]
               m == MergedRequest(o, r)
               p1 == [others EXCEPT ![i] = m]
    <2>1. new = [queue |-> p1, next |-> x, answered |-> at.answered]
      <3>1. new = [at EXCEPT !.queue = p1]
        BY <1>6, <1>11, Zenon
      <3> HIDE DEF p1
      <3> QED
        BY <1>1, <3>1
    <2>2. i \in 1 .. x - 1 /\ SameSlice(o.addr, r.addr, grain)
      <3> DEFINE front == SubSeq(p, 1, x - 1)
      <3>1. front \in Seq(T) /\ Len(front) = x - 1 /\ \A y \in 1 .. x - 1 : front[y] = p[y]
        <4> DEFINE y == x - 1
        <4>1. y \in 0 .. Len(p) /\ p \in Seq(T)
          BY <1>1, <1>3
        <4> HIDE DEF y
        <4>2. /\ SubSeq(p, 1, y) \in Seq(T) /\ Len(SubSeq(p, 1, y)) = y
              /\ \A z \in 1 .. y : SubSeq(p, 1, y)[z] = p[z]
          BY <4>1, Parts
        <4> QED
          BY <4>2 DEF y
      <3>2. i = Collision(front, r, grain)
        BY DEF i
      <3> HIDE DEF front
      <3>3. i \in 1 .. Len(front) /\ SameSlice(front[i].addr, r.addr, grain)
        BY <1>11, <3>1, <3>2, CollisionPlace
      <3> QED
        BY <3>1, <3>3
    <2>3. i \in 1 .. Len(others) /\ i \in 1 .. Len(p) /\ others[i] = o /\ o \in T
      <3>1. i \in 1 .. Len(p) - 1 /\ i \in 1 .. Len(p) /\ i < x
        BY <1>2, <1>3, <2>2
      <3>2. others[i] = p[i]
        BY <1>5, <3>1
      <3> QED
        BY <1>1, <1>5, <3>1, <3>2
    <2> HIDE DEF o, m
    <2>4. m \in T /\ m.ids = o.ids \cup r.ids /\ m.type = o.type /\ m.addr = o.addr
      BY <1>4, <2>3, MergedFits DEF T, m
    <2>5. /\ p1 \in Seq(T) /\ Len(p1) = Len(others)
          /\ \A S : CountIn(p1, S) = CountIn(others, S) - One(o \in S) + One(m \in S)
      BY <1>5, <2>3, <2>4, CountReplace
    <2>6. ASSUME NEW S
          PROVE  /\ CountIn(p1, S) = CountIn(p, S) - One(r \in S) - One(o \in S) + One(m \in S)
                 /\ CountIn(p, S) - One(r \in S) - One(o \in S) \in Nat
                 /\ CountIn(p, S) \in Nat
      <3> DEFINE a == CountIn(p, S)  b == CountIn(others, S)  c == CountIn(p1, S)
                 d == One(r \in S)  e == One(o \in S)  f == One(m \in S)
                 g == Cardinality(PlacesIn(others, S) \ {i})
      <3>1. b = a - d /\ c = b - e + f
        BY <1>5, <2>5
      <3>2. g \in Nat /\ b = g + e
        BY <1>5, <2>3, CountAt
      <3>3. a \in Nat /\ b \in Nat
        BY <1>1, <1>5, CountIsNumber
      <3>4. d \in Nat /\ e \in Nat /\ f \in Nat
        BY DEF One
      <3> HIDE DEF a, b, c, d, e, f, g, p1
      <3>5. c = a - d - e + f /\ a - d - e \in Nat
        BY <3>1, <3>2, <3>3, <3>4
      <3> QED
        BY <3>3, <3>5 DEF a, c, d, e, f
    <2> HIDE DEF p1
    <2>7. new.queue = p1 /\ new.next = x /\ new.answered = at.answered
          /\ new = [queue |-> new.queue, next |-> new.next, answered |-> new.answered]
      BY <2>1
    <2>8. x + Len(q) = (j + 1) + 1 + Len(p1) /\ Len(p1) <= Len(q)
      BY <1>1, <1>2, <1>5, <2>5
    <2>9. ASSUME NEW id, id \notin at.answered, CountIn(q, Having(T, id)) <= 1
          PROVE CountIn(p1, Having(T, id)) = CountIn(q, Having(T, id))
      <3> DEFINE S == Having(T, id)  a == CountIn(p, S)  c == CountIn(p1, S)  z == CountIn(q, S)
                 d == One(r \in S)  e == One(o \in S)  f == One(m \in S)
      <3>1. a = z /\ z <= 1
        BY <1>1, <2>9
      <3>2. c = a - d - e + f /\ a - d - e \in Nat /\ a \in Nat
        BY <2>6
      <3>3. m \in S <=> (o \in S \/ r \in S)
        BY <1>4, <2>3, <2>4 DEF Having
      <3>4. d \in {0, 1} /\ e \in {0, 1} /\ f = IF d = 1 \/ e = 1 THEN 1 ELSE 0
        <4> HIDE DEF S
        <4> QED
          BY <3>3 DEF One
      <3> HIDE DEF a, c, d, e, f, z, S
      <3>5. c = z
        BY <3>1, <3>2, <3>4
      <3> QED
        BY <3>5 DEF c, z, S
    <2>10. ASSUME keeps, NEW b, CountIn(q, WritesTo(T, b)) > 0 PROVE CountIn(p1, WritesTo(T, b)) > 0
      <3> DEFINE S == WritesTo(T, b)  a == CountIn(p, S)  c == CountIn(p1, S)
                 d == One(r \in S)  e == One(o \in S)  f == One(m \in S)
      <3>1. a > 0
        BY <1>1, <2>10
      <3>2. c = a - d - e + f /\ a - d - e \in Nat /\ a \in Nat
        BY <2>6
      <3>3. m \in S <=> o \in S
        BY <2>3, <2>4 DEF WritesTo
      <3>4. r \in S => o \in S
        <4>1. BlockOf(o.addr) = BlockOf(r.addr)
          BY <2>2, <2>10 DEF SameSlice, BlockOf
        <4>2. r.type = "WRITE" => o.type = "WRITE"
          BY <1>4, <2>3 DEF T, ReqsOf, WriteReqs, ReadReqs
        <4> QED
          BY <2>3, <4>1, <4>2 DEF WritesTo
      <3>5. d \in {0, 1} /\ e \in {0, 1} /\ f = e /\ (d = 1 => e = 1)
        <4> HIDE DEF S
        <4> QED
          BY <3>3, <3>4 DEF One
      <3> HIDE DEF a, c, d, e, f, S
      <3>6. c > 0
        BY <3>1, <3>2, <3>5
      <3> QED
        BY <3>6 DEF c, S
    <2>11. CheckedAt(T, q, keeps, j + 1, new)
      BY <1>1, <2>5, <2>7, <2>8, <2>9, <2>10 DEF CheckedAt
    <2> QED
      BY <2>11 DEF T, new
  <1>12. CASE ~ r.checked /\ ~ Forwarded(wq, r) /\ i = 0
    <2> DEFINE m == [r EXCEPT !.checked = TRUE]
               p1 == [p EXCEPT ![x] = m]
    <2>1. new = [queue |-> p1, next |-> x + 1, answered |-> at.answered]
      BY <1>1, <1>6, <1>12
    <2>2. m \in T /\ m.ids = r.ids /\ m.type = r.type /\ m.addr = r.addr
      BY <1>4, CheckedFits DEF T
    <2> HIDE DEF m
    <2>3. /\ p1 \in Seq(T) /\ Len(p1) = Len(p)
          /\ \A S : CountIn(p1, S) = CountIn(p, S) - One(r \in S) + One(m \in S)
      BY <1>1, <1>3, <2>2, CountReplace DEF r
    <2> HIDE DEF p1
    <2>4. ASSUME NEW S, m \in S <=> r \in S PROVE CountIn(p1, S) = CountIn(p, S)
      <3> DEFINE a == CountIn(p, S)  c == CountIn(p1, S)  d == One(r \in S)
      <3>1. c = a - d + d /\ a \in Nat /\ d \in Nat
        <4>1. One(m \in S) = d /\ d \in Nat
          BY <2>4 DEF One
        <4>2. a \in Nat
          BY <1>1, CountIsNumber
        <4> HIDE DEF a, c, d
        <4> QED
          BY <2>3, <4>1, <4>2 DEF a, c, d
      <3> HIDE DEF a, c, d
      <3>2. c = a
        BY <3>1
      <3> QED
        BY <3>2 DEF a, c
    <2>5. \A id : CountIn(p1, Having(T, id)) = CountIn(p, Having(T, id))
      <3> TAKE id
      <3> DEFINE S == Having(T, id)
      <3>1. m \in S <=> r \in S
        BY <1>4, <2>2 DEF Having
      <3> HIDE DEF S
      <3>2. CountIn(p1, S) = CountIn(p, S)
        BY <2>4, <3>1
      <3> QED
        BY <3>2 DEF S
    <2>6. \A b : CountIn(p1, WritesTo(T, b)) = CountIn(p, WritesTo(T, b))
      <3> TAKE b
      <3> DEFINE S == WritesTo(T, b)
      <3>1. m \in S <=> r \in S
        BY <1>4, <2>2 DEF WritesTo
      <3> HIDE DEF S
      <3>2. CountIn(p1, S) = CountIn(p, S)
        BY <2>4, <3>1
      <3> QED
        BY <3>2 DEF S
    <2>7. new.queue = p1 /\ new.next = x + 1 /\ new.answered = at.answered
          /\ new = [queue |-> new.queue, next |-> new.next, answered |-> new.answered]
      BY <2>1
    <2>8. x + 1 \in Nat \ {0} /\ (x + 1) + Len(q) = (j + 1) + 1 + Len(p1) /\ Len(p1) <= Len(q)
      <3> DEFINE a == Len(p)  b == Len(q)  c == Len(p1)
      <3>1. a \in Nat /\ b \in Nat /\ c = a /\ a <= b /\ x \in Nat \ {0} /\ x + b = j + 1 + a
        BY <1>1, <1>2, <2>3
      <3> HIDE DEF a, b, c
      <3>2. x + 1 \in Nat \ {0} /\ (x + 1) + b = (j + 1) + 1 + c /\ c <= b
        BY <1>2, <3>1
      <3> QED
        BY <3>2 DEF b, c
    <2>9. CheckedAt(T, q, keeps, j + 1, new)
      BY <1>1, <2>3, <2>5, <2>6, <2>7, <2>8 DEF CheckedAt
    <2> QED
      BY <2>9 DEF T, new
  <1> QED
    BY <1>9, <1>10, <1>11, <1>12

\* What a queue q of requests T has become.
Checked(T, q, keeps, p, answered) ==
  /\ p \in Seq(T) /\ Len(p) <= Len(q)
  /\ \A id : id \notin answered /\ CountIn(q, Having(T, id)) <= 1
               => CountIn(p, Having(T, id)) = CountIn(q, Having(T, id))
  /\ keeps => \A b : CountIn(q, WritesTo(T, b)) > 0 => CountIn(p, WritesTo(T, b)) > 0

\* All requests of a queue.
LEMMA CheckQueueIsFine ==
  ASSUME NEW k, NEW n, NEW u, NEW name \in Queues,
         NEW q \in Seq(ReqsOf(k, n, u, name)), NEW keeps \in BOOLEAN,
         NEW wq, NEW grain, keeps => wq = <<>> /\ grain = BlockSize
  PROVE  LET c == CheckQueue(q, wq, grain)
         IN  Checked(ReqsOf(k, n, u, name), q, keeps, c.queue, c.answered)
  <1> DEFINE T == ReqsOf(k, n, u, name)
             m == Len(q)
             a == <<wq, grain>>
             start == [queue |-> q, next |-> 1, answered |-> {}]
             c == CheckQueue(q, wq, grain)
  <1>1. m \in Nat
    OBVIOUS
  <1>2. CheckedAt(T, q, keeps, 0, start)
    BY <1>1 DEF CheckedAt
  <1>3. c = LoopOf("check", a, m, start)
    <2>1. c = Repeat(m, start, LAMBDA x : CheckNext(x, wq, grain))
      BY Zenon DEF CheckQueue
    <2> HIDE DEF c, m, start
    <2> QED
      BY <2>1, LoopsAre
  <1> HIDE DEF start, c, m, T
  <1>4. PICK after : Turning("check", a, m, start, after) /\ LoopOf("check", a, m, start) = after[m]
    BY <1>1, LoopTurns
  <1> DEFINE S == {j \in 0 .. m : CheckedAt(T, q, keeps, j, after[j])}
  <1>5. 0 \in S
    BY <1>1, <1>2, <1>4 DEF Turning
  <1>6. ASSUME NEW j \in 0 .. m - 1, j \in S PROVE j + 1 \in S
    <2>1. j + 1 \in 1 .. m /\ (j + 1) - 1 = j /\ j \in 0 .. Len(q) - 1 /\ j + 1 \in 0 .. m
      BY <1>1 DEF m
    <2>2. after[j + 1] = TurnOf("check", a, after[j])
      BY <1>4, <2>1 DEF Turning
    <2>3. TurnOf("check", a, after[j]) = CheckNext(after[j], a[1], a[2])
      BY TurnsAre
    <2>4. a[1] = wq /\ a[2] = grain
      OBVIOUS
    <2>5. CheckedAt(T, q, keeps, j, after[j])
      BY <1>6
    <2>6. CheckedAt(T, q, keeps, j + 1, CheckNext(after[j], wq, grain))
      BY <2>1, <2>5, CheckTurn DEF T
    <2> QED
      BY <2>1, <2>2, <2>3, <2>4, <2>6
  <1> HIDE DEF S
  <1>7. m \in S
    <2>1. 0 .. m \subseteq S
      BY <1>1, <1>5, <1>6, LoopInduction
    <2> QED
      BY <1>1, <2>1
  <1>8. CheckedAt(T, q, keeps, m, c)
    BY <1>3, <1>4, <1>7 DEF S
  <1>9. Checked(T, q, keeps, c.queue, c.answered)
    BY <1>8 DEF CheckedAt, Checked
  <1> QED
    BY <1>9 DEF T, c

\* The three queues of an upper level.
LEMMA CheckChannelIsFine ==
  ASSUME kind \in Kinds, NEW n, NEW u, NEW ch, ChannelFits(kind, n, u, ch)
  PROVE  LET c == CheckChannel(ch)
             new == c.channel
         IN  /\ ChannelFits(kind, n, u, new)
             /\ \E a : Checked(WriteReqs(kind, n, u), ch.wq, kind = "L2C", new.wq, a)
             /\ Checked(ReadReqs(kind, n, u), ch.rq, FALSE, new.rq, c.answered)
             /\ Checked(ReadReqs(kind, n, u), ch.pq, FALSE, new.pq, c.answered)
  <1> DEFINE W == WriteReqs(kind, n, u)  R == ReadReqs(kind, n, u)
             cw == CheckQueue(ch.wq, <<>>, WriteGrain)
             wq == cw.queue
             rq == CheckQueue(ch.rq, wq, BlockSize)
             pref == CheckQueue(ch.pq, wq, BlockSize)
             both == rq.answered \cup pref.answered
             new == [wq |-> wq, rq |-> rq.queue, pq |-> pref.queue]
             c == CheckChannel(ch)
             keeps == kind = "L2C"
  <1>1. /\ ch = [wq |-> ch.wq, rq |-> ch.rq, pq |-> ch.pq] /\ QueueSize \in Nat
        /\ \A name \in Queues : ch[name] \in Seq(ReqsOf(kind, n, u, name)) /\ Len(ch[name]) <= QueueSize
    BY Numbers DEF ChannelFits
  <1>2. "wq" \in Queues /\ "rq" \in Queues /\ "pq" \in Queues
    BY DEF Queues
  <1>3. ReqsOf(kind, n, u, "wq") = W /\ ReqsOf(kind, n, u, "rq") = R /\ ReqsOf(kind, n, u, "pq") = R
    BY DEF ReqsOf
  <1>4. /\ ch.wq \in Seq(W) /\ Len(ch.wq) <= QueueSize
        /\ ch.rq \in Seq(R) /\ Len(ch.rq) <= QueueSize
        /\ ch.pq \in Seq(R) /\ Len(ch.pq) <= QueueSize
    <2> HIDE DEF W, R
    <2>1. ch["wq"] = ch.wq /\ ch["rq"] = ch.rq /\ ch["pq"] = ch.pq
      BY <1>1
    <2> QED
      BY <1>1, <1>2, <1>3, <2>1
  <1>5. c = [channel |-> new, answered |-> both]
    BY Zenon DEF CheckChannel
  <1>6. keeps => WriteGrain = BlockSize
    BY DEF WriteGrain, MatchOffsetBits
  <1>7. keeps \in BOOLEAN
    OBVIOUS
  <1> HIDE DEF W, R, keeps
  <1>8. Checked(W, ch.wq, keeps, wq, cw.answered)
    <2> DEFINE none == <<>>
               grain == WriteGrain
    <2>1. keeps => none = <<>> /\ grain = BlockSize
      BY <1>6
    <2>2. ch.wq \in Seq(ReqsOf(kind, n, u, "wq")) /\ cw = CheckQueue(ch.wq, none, grain)
      BY <1>3, <1>4
    <2> HIDE DEF cw, none, grain
    <2>3. Checked(ReqsOf(kind, n, u, "wq"), ch.wq, keeps, cw.queue, cw.answered)
      BY <1>2, <1>7, <2>1, <2>2, CheckQueueIsFine
    <2> QED
      BY <1>3, <2>3
  <1> HIDE DEF wq
  <1>9. Checked(R, ch.rq, FALSE, rq.queue, rq.answered)
    <2>1. ch.rq \in Seq(ReqsOf(kind, n, u, "rq")) /\ FALSE \in BOOLEAN
      BY <1>3, <1>4
    <2>2. rq = CheckQueue(ch.rq, wq, BlockSize)
      OBVIOUS
    <2> HIDE DEF rq
    <2>3. Checked(ReqsOf(kind, n, u, "rq"), ch.rq, FALSE, rq.queue, rq.answered)
      BY <1>2, <2>1, <2>2, CheckQueueIsFine
    <2> QED
      BY <1>3, <2>3
  <1>10. Checked(R, ch.pq, FALSE, pref.queue, pref.answered)
    <2>1. ch.pq \in Seq(ReqsOf(kind, n, u, "pq")) /\ FALSE \in BOOLEAN
      BY <1>3, <1>4
    <2>2. pref = CheckQueue(ch.pq, wq, BlockSize)
      OBVIOUS
    <2> HIDE DEF pref
    <2>3. Checked(ReqsOf(kind, n, u, "pq"), ch.pq, FALSE, pref.queue, pref.answered)
      BY <1>2, <2>1, <2>2, CheckQueueIsFine
    <2> QED
      BY <1>3, <2>3
  <1> HIDE DEF cw, rq, pref
  <1>11. new.wq = wq /\ new.rq = rq.queue /\ new.pq = pref.queue /\ new = [wq |-> new.wq, rq |-> new.rq, pq |-> new.pq]
    OBVIOUS
  <1>12. c.channel = new /\ c.answered = both
    BY <1>5
  <1> HIDE DEF c
  <1>13. Checked(R, ch.rq, FALSE, rq.queue, both) /\ Checked(R, ch.pq, FALSE, pref.queue, both)
    BY <1>9, <1>10 DEF Checked
  <1>14. ChannelFits(kind, n, u, new)
    <2>1. /\ wq \in Seq(W) /\ Len(wq) <= Len(ch.wq)
          /\ rq.queue \in Seq(R) /\ Len(rq.queue) <= Len(ch.rq)
          /\ pref.queue \in Seq(R) /\ Len(pref.queue) <= Len(ch.pq)
      BY <1>8, <1>9, <1>10 DEF Checked
    <2>2. /\ Len(wq) <= QueueSize /\ Len(rq.queue) <= QueueSize /\ Len(pref.queue) <= QueueSize
      <3>1. /\ Len(wq) \in Nat /\ Len(rq.queue) \in Nat /\ Len(pref.queue) \in Nat
            /\ Len(ch.wq) \in Nat /\ Len(ch.rq) \in Nat /\ Len(ch.pq) \in Nat
        BY <1>4, <2>1
      <3> QED
        BY <1>1, <1>4, <2>1, <3>1
    <2> HIDE DEF new
    <2>3. ASSUME NEW name \in Queues PROVE new[name] \in Seq(ReqsOf(kind, n, u, name)) /\ Len(new[name]) <= QueueSize
      <3>1. new["wq"] = wq /\ new["rq"] = rq.queue /\ new["pq"] = pref.queue
        BY <1>11
      <3>2. name = "wq" \/ name = "rq" \/ name = "pq"
        BY DEF Queues
      <3> QED
        BY <1>3, <2>1, <2>2, <3>1, <3>2
    <2> QED
      BY <1>11, <2>3 DEF ChannelFits
  <1> HIDE DEF new
  <1> QED
    BY <1>8, <1>11, <1>12, <1>13, <1>14 DEF c, W, R, keeps

\* All upper levels: what is answered is owed no more, what is merged is owed by
\* the other request.
LEMMA CheckCollisionsIsFine ==
  ASSUME NEW n, NEW D, NEW s, Fine(kind, n, D, s)
  PROVE  Fine(kind, n, D, CheckCollisions(s)) /\ CheckCollisions(s).tags = s.tags
  <1> DEFINE k == kind
             checked == [u \in Uppers |-> CheckChannel(s.uppers[u])]
             up1 == [u \in Uppers |-> checked[u].channel]
             gone == UNION {checked[u].answered : u \in Uppers}
             left == s.owed \ gone
             new == CheckCollisions(s)
  <1>1. /\ IsState(s) /\ Sound(k, n, s) /\ QueuesFit(k, n, s) /\ UppersFit(k, n, s.uppers) /\ k \in Kinds
        /\ AllKept(k, n, s, D)
    BY DEF Fine, Sound
  <1>2. Uppers = UppersOn(k)
    BY DEF Uppers, UppersOn
  <1>3. new = [s EXCEPT !.uppers = up1, !.owed = left]
    BY Zenon DEF CheckCollisions
  <1>4. ASSUME NEW u \in UppersOn(k)
        PROVE  /\ ChannelFits(k, n, u, up1[u])
               /\ \E a : Checked(WriteReqs(k, n, u), s.uppers[u].wq, k = "L2C", up1[u].wq, a)
               /\ Checked(ReadReqs(k, n, u), s.uppers[u].rq, FALSE, up1[u].rq, gone)
               /\ Checked(ReadReqs(k, n, u), s.uppers[u].pq, FALSE, up1[u].pq, gone)
    <2> DEFINE ch == s.uppers[u]
               c == CheckChannel(ch)
    <2>1. ChannelFits(k, n, u, ch)
      BY <1>1 DEF UppersFit
    <2>2. checked[u] = c /\ up1[u] = c.channel
      BY <1>2
    <2>3. c.answered \subseteq gone
      BY <1>2, <2>2
    <2> HIDE DEF ch, c, checked, up1, gone
    <2>4. /\ ChannelFits(k, n, u, c.channel)
          /\ \E a : Checked(WriteReqs(k, n, u), ch.wq, k = "L2C", c.channel.wq, a)
          /\ Checked(ReadReqs(k, n, u), ch.rq, FALSE, c.channel.rq, c.answered)
          /\ Checked(ReadReqs(k, n, u), ch.pq, FALSE, c.channel.pq, c.answered)
      BY <1>1, <2>1, CheckChannelIsFine DEF c
    <2>5. /\ Checked(ReadReqs(k, n, u), ch.rq, FALSE, c.channel.rq, gone)
          /\ Checked(ReadReqs(k, n, u), ch.pq, FALSE, c.channel.pq, gone)
      BY <2>3, <2>4 DEF Checked
    <2> QED
      BY <2>2, <2>4, <2>5 DEF ch
  <1>5. up1 = [u \in UppersOn(k) |-> up1[u]]
    BY <1>2
  <1> HIDE DEF up1, left, new, checked
  <1>6. /\ IsState(new) /\ new.tags = s.tags /\ new.stash = s.stash /\ new.tlb = s.tlb
        /\ new.clock = s.clock /\ new.uppers = up1 /\ new.pq = s.pq
        /\ new.mshrs = s.mshrs /\ new.writes = s.writes /\ new.lines = s.lines
        /\ new.lru = s.lru /\ new.lower = s.lower
        /\ new.stats = s.stats /\ new.owed = left
    BY <1>1, <1>3 DEF IsState
  <1>7. \A S : Checks(new, S) = Checks(s, S)
    BY <1>6, Zenon DEF Checks
  <1>8. UppersFit(k, n, new.uppers)
    BY <1>4, <1>5, <1>6 DEF UppersFit
  <1>9. StatsFit(k, n, new)
    <2>1. LocalSum(k, n, new) = LocalSum(k, n, s)
      BY <1>6, <1>7, Zenon DEF LocalSum
    <2> QED
      BY <1>1, <1>6, <2>1, Zenon DEF StatsFit, Sound
  <1>10. OwedFits(k, n, new)
    <2>1. new.owed = left /\ left \subseteq s.owed /\ s.owed \subseteq Ids(k, n)
      BY <1>1, <1>6 DEF Sound, OwedFits, left
    <2> SUFFICES ASSUME NEW id \in left PROVE PlacesOf(k, n, new, id) = 1
      BY <2>1 DEF OwedFits
    <2>2. id \in s.owed /\ id \notin gone /\ id.upper \in UppersOn(k)
      BY <2>1 DEF Ids, left
    <2> HIDE DEF gone
    <2> DEFINE v == id.upper
               S == Having(ReadReqs(k, n, v), id)
               x == CountIn(s.uppers[v].rq, S)  y == CountIn(s.uppers[v].pq, S)
               x1 == CountIn(up1[v].rq, S)  y1 == CountIn(up1[v].pq, S)
               d == Checks(s, Having(Entries(k, n), id))
               f == CountIn(s.mshrs, Having(Misses(k, n), id))
    <2>3. /\ s.uppers[v].rq \in Seq(ReadReqs(k, n, v)) /\ s.uppers[v].pq \in Seq(ReadReqs(k, n, v))
      BY <1>1, <2>2, ChannelHas
    <2>4. x \in Nat /\ y \in Nat
      <3> HIDE DEF S, v
      <3> QED
        BY <2>3, CountIsNumber
    <2>5. d \in Nat /\ f \in Nat
      <3>1. s.mshrs \in Seq(Misses(k, n))
        BY <1>1 DEF Sound, MshrsFit
      <3>2. s.tags \in Seq(Entries(k, n)) /\ s.pq \in Seq(Entries(k, n)) /\ s.stash \in Seq(Entries(k, n))
        BY <1>1 DEF QueuesFit, Locals
      <3> DEFINE H == Having(Entries(k, n), id)
                 e1 == CountIn(s.pq, H)  e2 == CountIn(s.tags, H)  e3 == CountIn(s.stash, H)
      <3>3. d = e1 + e2 + e3
        BY Zenon DEF Checks
      <3>4. e1 \in Nat /\ e2 \in Nat /\ e3 \in Nat
        <4> HIDE DEF H
        <4> QED
          BY <3>2, CountIsNumber
      <3>5. f \in Nat
        BY <3>1, CountIsNumber
      <3> HIDE DEF d, e1, e2, e3, f
      <3> QED
        BY <3>3, <3>4, <3>5
    <2>6. x + y + d + f = 1
      <3>1. PlacesOf(k, n, s, id) = 1
        BY <1>1, <2>2 DEF Sound, OwedFits
      <3>2. PlacesOf(k, n, s, id) = (x + y) + d + f
        BY Zenon DEF PlacesOf, Waiting
      <3> HIDE DEF x, y, d, f
      <3> QED
        BY <2>4, <2>5, <3>1, <3>2
    <2>7. PlacesOf(k, n, new, id) = (x1 + y1) + d + f
      BY <1>6, <1>7, Zenon DEF PlacesOf, Waiting
    <2>8. x <= 1 /\ y <= 1
      <3> HIDE DEF x, y, d, f
      <3> QED
        BY <2>4, <2>5, <2>6
    <2>9. x1 = x /\ y1 = y
      <3>1. /\ Checked(ReadReqs(k, n, v), s.uppers[v].rq, FALSE, up1[v].rq, gone)
            /\ Checked(ReadReqs(k, n, v), s.uppers[v].pq, FALSE, up1[v].pq, gone)
        BY <1>4, <2>2
      <3> HIDE DEF v
      <3> QED
        BY <2>2, <2>8, <3>1 DEF Checked
    <2> HIDE DEF x, y, x1, y1, d, f
    <2>10. (x1 + y1) + d + f = 1
      BY <2>4, <2>5, <2>6, <2>9
    <2> QED
      BY <2>7, <2>10
  <1>11. QueuesFit(k, n, new)
    BY <1>1, <1>6 DEF QueuesFit
  <1>12. Balanced(k, n, new)
    BY <1>1, <1>6, Zenon DEF Sound, Balanced
  <1>13. Sound(k, n, new)
    BY <1>1, <1>6, <1>8, <1>9, <1>10, <1>11, <1>12, Zenon DEF Sound
  <1>14. ASSUME k = "L2C", NEW b \in Blocks, Kept(k, n, s, b) PROVE Kept(k, n, new, b)
    <2>1. ASSUME NEW u \in UppersOn(k), CountIn(s.uppers[u].wq, WritesTo(WriteReqs(k, n, u), b)) > 0
          PROVE CountIn(up1[u].wq, WritesTo(WriteReqs(k, n, u), b)) > 0
      <3> DEFINE keeps == k = "L2C"
      <3>1. PICK a : Checked(WriteReqs(k, n, u), s.uppers[u].wq, keeps, up1[u].wq, a)
        BY <1>4
      <3>2. keeps
        BY <1>14
      <3> HIDE DEF keeps
      <3> QED
        BY <2>1, <3>1, <3>2 DEF Checked
    <2>2. \A S : Checks(new, S) = Checks(s, S)
      BY <1>7
    <2> QED
      BY <1>6, <1>14, <2>1, <2>2, Zenon DEF Kept
  <1>15. AllKept(k, n, new, D)
    BY <1>1, <1>14, Zenon DEF AllKept
  <1> QED
    BY <1>6, <1>13, <1>15, Zenon DEF Fine, new

-----------------------------------------------------------------------------
(***************************************************************************)
(* A cycle.                                                                *)
(***************************************************************************)
LEMMA CycleIsFine ==
  ASSUME NEW D, Fine(kind, sent, D, Now), Len(tags) <= MaxTag * HitLatency
  PROVE  Fine(kind, sent, D, Cycle(State)) /\ Len(Cycle(State).tags) <= MaxTag * HitLatency
  <1> DEFINE n == sent
             max == MaxTag * HitLatency
             a == State
             b == CheckCollisions(a)
             c == FinishReturns(b)
             d == PerformFills(c)
             e == InitiateTagChecks(d)
             f == IssueTranslations(e)
             g == StashMisses(f)
             h == CheckTags(g)
  <1>1. Cycle(a) = h
    BY Zenon DEF Cycle
  <1>2. max \in Nat
    BY Numbers
  <1>3. Fine(kind, n, D, a) /\ Len(a.tags) <= max
    BY StateIsFine
  <1> HIDE DEF n, max, a
  <1>4. Fine(kind, n, D, b) /\ Len(b.tags) <= max
    BY <1>3, CheckCollisionsIsFine
  <1> HIDE DEF b
  <1>5. Fine(kind, n, D, c) /\ Len(c.tags) <= max
    <2>1. Fine(kind, n, D, c) /\ Len(c.tags) <= Len(b.tags)
      BY <1>4, FinishReturnsIsFine
    <2>2. Len(c.tags) \in Nat /\ Len(b.tags) \in Nat
      BY <1>4, <2>1, LengthsAre
    <2> HIDE DEF c
    <2> QED
      BY <1>2, <1>4, <2>1, <2>2
  <1> HIDE DEF c
  <1>6. Fine(kind, n, D, d) /\ Len(d.tags) <= max
    BY <1>5, PerformFillsIsFine
  <1> HIDE DEF d
  <1>7. Fine(kind, n, D, e) /\ Len(e.tags) <= max
    BY <1>6, InitiateTagChecksIsFine DEF max
  <1> HIDE DEF e
  <1>8. Fine(kind, n, D, f) /\ Len(f.tags) <= max
    <2>1. Fine(kind, n, D, f) /\ Len(f.tags) <= Len(e.tags)
      BY <1>7, IssueIsFine
    <2>2. Len(f.tags) \in Nat /\ Len(e.tags) \in Nat
      BY <1>7, <2>1, LengthsAre
    <2> HIDE DEF f
    <2> QED
      BY <1>2, <1>7, <2>1, <2>2
  <1> HIDE DEF f
  <1>9. Fine(kind, n, D, g) /\ Len(g.tags) <= max
    <2>1. Fine(kind, n, D, g) /\ Len(g.tags) <= Len(f.tags)
      BY <1>8, StashMissesIsFine
    <2>2. Len(g.tags) \in Nat /\ Len(f.tags) \in Nat
      BY <1>8, <2>1, LengthsAre
    <2> HIDE DEF g
    <2> QED
      BY <1>2, <1>8, <2>1, <2>2
  <1> HIDE DEF g
  <1>10. Fine(kind, n, D, h) /\ Len(h.tags) <= max
    <2>1. Fine(kind, n, D, h) /\ Len(h.tags) <= Len(g.tags)
      BY <1>9, CheckTagsIsFine
    <2>2. Len(h.tags) \in Nat /\ Len(g.tags) \in Nat
      BY <1>9, <2>1, LengthsAre
    <2> HIDE DEF h
    <2> QED
      BY <1>2, <1>9, <2>1, <2>2
  <1> HIDE DEF h
  <1>11. Fine(kind, n, D, Cycle(a)) /\ Len(Cycle(a).tags) <= max
    BY <1>1, <1>10
  <1> QED
    BY <1>11 DEF a, n, max

-----------------------------------------------------------------------------
(***************************************************************************)
(* One more request.                                                       *)
(***************************************************************************)
LEMMA SetsGrow ==
  ASSUME NEW k, NEW n \in Nat
  PROVE  /\ Ids(k, n) \subseteq Ids(k, n + 1)
         /\ Entries(k, n) \subseteq Entries(k, n + 1)
         /\ Misses(k, n) \subseteq Misses(k, n + 1)
         /\ \A u : /\ WriteReqs(k, n, u) \subseteq WriteReqs(k, n + 1, u)
                   /\ ReadReqs(k, n, u) \subseteq ReadReqs(k, n + 1, u)
                   /\ \A name : ReqsOf(k, n, u, name) \subseteq ReqsOf(k, n + 1, u, name)
  <1> DEFINE I == Ids(k, n)  J == Ids(k, n + 1)
  <1>1. I \subseteq J
    BY DEF Ids
  <1>2. \A x : x \in SUBSET I => x \in SUBSET J
    BY <1>1
  <1> HIDE DEF I, J
  <1>3. Entries(k, n) \subseteq Entries(k, n + 1)
    <2> SUFFICES ASSUME NEW e \in Entries(k, n) PROVE e \in Entries(k, n + 1)
      OBVIOUS
    <2>1. e \in {x \in [block : Blocks, type : Types, local : BOOLEAN, skip : BOOLEAN,
                        translated : BOOLEAN, issued : BOOLEAN, wait : 0 .. HitLatency,
                        ids : SUBSET I, to : SUBSET UppersOn(k)] :
                   /\ \A id \in x.ids : id.upper \in x.to
                   /\ x.local => x.type = "PREFETCH" /\ x.ids = {} /\ x.translated
                   /\ x.type = "WRITE" => x.ids = {}}
      BY Zenon DEF Entries, I
    <2>2. e.ids \in SUBSET J
      BY <1>2, <2>1
    <2>3. e \in {x \in [block : Blocks, type : Types, local : BOOLEAN, skip : BOOLEAN,
                        translated : BOOLEAN, issued : BOOLEAN, wait : 0 .. HitLatency,
                        ids : SUBSET J, to : SUBSET UppersOn(k)] :
                   /\ \A id \in x.ids : id.upper \in x.to
                   /\ x.local => x.type = "PREFETCH" /\ x.ids = {} /\ x.translated
                   /\ x.type = "WRITE" => x.ids = {}}
      BY <2>1, <2>2
    <2> QED
      BY <2>3, Zenon DEF Entries, J
  <1>4. Misses(k, n) \subseteq Misses(k, n + 1)
    <2> SUFFICES ASSUME NEW e \in Misses(k, n) PROVE e \in Misses(k, n + 1)
      OBVIOUS
    <2>1. e \in {m \in [block : Blocks, type : Types, local : BOOLEAN, wait : {Unknown} \cup 0 .. FillLatency,
                        ids : SUBSET I, to : SUBSET UppersOn(k)] :
                   /\ \A id \in m.ids : id.upper \in m.to
                   /\ m.local => m.type = "PREFETCH"}
      BY Zenon DEF Misses, I
    <2>2. e.ids \in SUBSET J
      BY <1>2, <2>1
    <2>3. e \in {m \in [block : Blocks, type : Types, local : BOOLEAN, wait : {Unknown} \cup 0 .. FillLatency,
                        ids : SUBSET J, to : SUBSET UppersOn(k)] :
                   /\ \A id \in m.ids : id.upper \in m.to
                   /\ m.local => m.type = "PREFETCH"}
      BY <2>1, <2>2
    <2> QED
      BY <2>3, Zenon DEF Misses, J
  <1>5. ASSUME NEW u, NEW r \in Reqs(k, n, u) PROVE r \in Reqs(k, n + 1, u)
    <2>1. r \in {x \in [addr : Addresses[k], type : Types, ids : SUBSET I,
                        wants : BOOLEAN, translated : BOOLEAN, checked : BOOLEAN] :
                   /\ \A id \in x.ids : id.upper = u
                   /\ ~ x.wants => x.ids = {}}
      BY <1>5, Zenon DEF Reqs, I
    <2>2. r.ids \in SUBSET J
      BY <1>2, <2>1
    <2>3. r \in {x \in [addr : Addresses[k], type : Types, ids : SUBSET J,
                        wants : BOOLEAN, translated : BOOLEAN, checked : BOOLEAN] :
                   /\ \A id \in x.ids : id.upper = u
                   /\ ~ x.wants => x.ids = {}}
      BY <2>1, <2>2
    <2> QED
      BY <2>3, Zenon DEF Reqs, J
  <1>6. \A u : /\ WriteReqs(k, n, u) \subseteq WriteReqs(k, n + 1, u)
               /\ ReadReqs(k, n, u) \subseteq ReadReqs(k, n + 1, u)
    BY <1>5 DEF WriteReqs, ReadReqs
  <1>7. \A u, name : ReqsOf(k, n, u, name) \subseteq ReqsOf(k, n + 1, u, name)
    BY <1>6 DEF ReqsOf
  <1> QED
    BY <1>1, <1>3, <1>4, <1>6, <1>7 DEF I, J

\* A queue of elements of T among those of a larger set.
CountsAgree(T, U, q) ==
  /\ q \in Seq(U)
  /\ CountIn(q, Locals(U)) = CountIn(q, Locals(T))
  /\ \A id : CountIn(q, Having(U, id)) = CountIn(q, Having(T, id))
  /\ \A b : CountIn(q, WritesOf(U, b)) = CountIn(q, WritesOf(T, b))
  /\ \A b : CountIn(q, WritesTo(U, b)) = CountIn(q, WritesTo(T, b))
  /\ \A b : CountIn(q, Awaiting(U, b)) = CountIn(q, Awaiting(T, b))

\* A queue counts the same in the larger sets.
LEMMA QueueGrows ==
  ASSUME NEW T, NEW U, T \subseteq U, NEW q \in Seq(T)
  PROVE  CountsAgree(T, U, q)
  <1>1. /\ Len(q) \in Nat /\ DOMAIN q = 1 .. Len(q) /\ \A i \in 1 .. Len(q) : q[i] \in T /\ q[i] \in U
    OBVIOUS
  <1>2. q \in Seq(U)
    OBVIOUS
  <1>3. CountIn(q, Locals(U)) = CountIn(q, Locals(T))
    <2>1. PlacesIn(q, Locals(U)) = PlacesIn(q, Locals(T))
      BY <1>1 DEF PlacesIn, Locals
    <2> QED
      BY <2>1, Zenon DEF CountIn
  <1>4. ASSUME NEW id PROVE CountIn(q, Having(U, id)) = CountIn(q, Having(T, id))
    <2>1. PlacesIn(q, Having(U, id)) = PlacesIn(q, Having(T, id))
      BY <1>1 DEF PlacesIn, Having
    <2> QED
      BY <2>1, Zenon DEF CountIn
  <1>5. ASSUME NEW b
        PROVE  /\ CountIn(q, WritesOf(U, b)) = CountIn(q, WritesOf(T, b))
               /\ CountIn(q, WritesTo(U, b)) = CountIn(q, WritesTo(T, b))
               /\ CountIn(q, Awaiting(U, b)) = CountIn(q, Awaiting(T, b))
    <2>1. PlacesIn(q, WritesOf(U, b)) = PlacesIn(q, WritesOf(T, b))
      BY <1>1 DEF PlacesIn, WritesOf
    <2>2. PlacesIn(q, WritesTo(U, b)) = PlacesIn(q, WritesTo(T, b))
      BY <1>1 DEF PlacesIn, WritesTo
    <2>3. PlacesIn(q, Awaiting(U, b)) = PlacesIn(q, Awaiting(T, b))
      BY <1>1 DEF PlacesIn, Awaiting
    <2> QED
      BY <2>1, <2>2, <2>3, Zenon DEF CountIn
  <1> QED
    BY <1>2, <1>3, <1>4, <1>5 DEF CountsAgree

\* The state is as fine when one more request has been sent.
LEMMA GrowsIsFine ==
  ASSUME NEW k, NEW n \in Nat, NEW D, NEW s, Fine(k, n, D, s)
  PROVE  /\ Fine(k, n + 1, D, s)
         /\ \A id \in Ids(k, n + 1) : PlacesOf(k, n + 1, s, id) = PlacesOf(k, n, s, id)
  <1> DEFINE m == n + 1
             E == Entries(k, n)  F == Entries(k, m)  M == Misses(k, n)  N == Misses(k, m)
  <1>1. /\ m \in Nat /\ Ids(k, n) \subseteq Ids(k, m) /\ E \subseteq F /\ M \subseteq N
        /\ \A u : /\ WriteReqs(k, n, u) \subseteq WriteReqs(k, m, u)
                  /\ ReadReqs(k, n, u) \subseteq ReadReqs(k, m, u)
                  /\ \A name : ReqsOf(k, n, u, name) \subseteq ReqsOf(k, m, u, name)
    BY SetsGrow
  <1> HIDE DEF m
  <1>2. /\ Sound(k, n, s) /\ QueuesFit(k, n, s) /\ MshrsFit(k, n, s.mshrs) /\ WritesFit(k, n, s.writes)
        /\ UppersFit(k, n, s.uppers) /\ AllKept(k, n, s, D)
        /\ s.pq \in Seq(Locals(E)) /\ Len(s.pq) <= PqSize /\ s.pq \in Seq(E)
        /\ s.tags \in Seq(E) /\ s.stash \in Seq(E \ Locals(E)) /\ s.stash \in Seq(E)
        /\ TranslatedFirst(s.stash) /\ s.mshrs \in Seq(M) /\ s.writes \in Seq(M)
    BY DEF Fine, Sound, QueuesFit, MshrsFit, WritesFit, Locals
  <1>3. Locals(E) \subseteq Locals(F) /\ (E \ Locals(E)) \subseteq (F \ Locals(F))
    BY <1>1 DEF Locals
  <1> HIDE DEF E, F, M, N
  <1>4. /\ s.pq \in Seq(F) /\ s.tags \in Seq(F) /\ s.stash \in Seq(F)
        /\ Checks(s, Locals(F)) = Checks(s, Locals(E))
        /\ \A id : Checks(s, Having(F, id)) = Checks(s, Having(E, id))
        /\ \A b : Checks(s, WritesOf(F, b)) = Checks(s, WritesOf(E, b))
    <2>1. /\ s.pq \in Seq(F)
          /\ CountIn(s.pq, Locals(F)) = CountIn(s.pq, Locals(E))
          /\ \A id : CountIn(s.pq, Having(F, id)) = CountIn(s.pq, Having(E, id))
          /\ \A b : CountIn(s.pq, WritesOf(F, b)) = CountIn(s.pq, WritesOf(E, b))
      <3>1. CountsAgree(E, F, s.pq)
        BY <1>1, <1>2, QueueGrows
      <3> QED
        BY <3>1, Zenon DEF CountsAgree
    <2>2. /\ s.tags \in Seq(F)
          /\ CountIn(s.tags, Locals(F)) = CountIn(s.tags, Locals(E))
          /\ \A id : CountIn(s.tags, Having(F, id)) = CountIn(s.tags, Having(E, id))
          /\ \A b : CountIn(s.tags, WritesOf(F, b)) = CountIn(s.tags, WritesOf(E, b))
      <3>1. CountsAgree(E, F, s.tags)
        BY <1>1, <1>2, QueueGrows
      <3> QED
        BY <3>1, Zenon DEF CountsAgree
    <2>3. /\ s.stash \in Seq(F)
          /\ CountIn(s.stash, Locals(F)) = CountIn(s.stash, Locals(E))
          /\ \A id : CountIn(s.stash, Having(F, id)) = CountIn(s.stash, Having(E, id))
          /\ \A b : CountIn(s.stash, WritesOf(F, b)) = CountIn(s.stash, WritesOf(E, b))
      <3>1. CountsAgree(E, F, s.stash)
        BY <1>1, <1>2, QueueGrows
      <3> QED
        BY <3>1, Zenon DEF CountsAgree
    <2> QED
      BY <2>1, <2>2, <2>3, Zenon DEF Checks
  <1>5. /\ s.mshrs \in Seq(N) /\ s.writes \in Seq(N)
        /\ CountIn(s.mshrs, Locals(N)) = CountIn(s.mshrs, Locals(M))
        /\ \A id : CountIn(s.mshrs, Having(N, id)) = CountIn(s.mshrs, Having(M, id))
        /\ \A b : CountIn(s.mshrs, Awaiting(N, b)) = CountIn(s.mshrs, Awaiting(M, b))
        /\ \A b : CountIn(s.writes, WritesOf(N, b)) = CountIn(s.writes, WritesOf(M, b))
    <2>1. /\ s.mshrs \in Seq(N)
          /\ CountIn(s.mshrs, Locals(N)) = CountIn(s.mshrs, Locals(M))
          /\ \A id : CountIn(s.mshrs, Having(N, id)) = CountIn(s.mshrs, Having(M, id))
          /\ \A b : CountIn(s.mshrs, Awaiting(N, b)) = CountIn(s.mshrs, Awaiting(M, b))
      <3>1. CountsAgree(M, N, s.mshrs)
        BY <1>1, <1>2, QueueGrows
      <3> QED
        BY <3>1, Zenon DEF CountsAgree
    <2>2. s.writes \in Seq(N) /\ \A b : CountIn(s.writes, WritesOf(N, b)) = CountIn(s.writes, WritesOf(M, b))
      <3>1. CountsAgree(M, N, s.writes)
        BY <1>1, <1>2, QueueGrows
      <3> QED
        BY <3>1, Zenon DEF CountsAgree
    <2> QED
      BY <2>1, <2>2
  <1>6. ASSUME NEW u \in UppersOn(k)
        PROVE  /\ ChannelFits(k, m, u, s.uppers[u])
               /\ \A id : LET R == ReadReqs(k, n, u)  Q == ReadReqs(k, m, u) IN
                    /\ CountIn(s.uppers[u].rq, Having(Q, id)) = CountIn(s.uppers[u].rq, Having(R, id))
                    /\ CountIn(s.uppers[u].pq, Having(Q, id)) = CountIn(s.uppers[u].pq, Having(R, id))
               /\ \A b : CountIn(s.uppers[u].wq, WritesTo(WriteReqs(k, m, u), b))
                           = CountIn(s.uppers[u].wq, WritesTo(WriteReqs(k, n, u), b))
    <2> DEFINE ch == s.uppers[u]
               R == ReadReqs(k, n, u)  Q == ReadReqs(k, m, u)
               W == WriteReqs(k, n, u)  V == WriteReqs(k, m, u)
    <2>1. /\ ch = [wq |-> ch.wq, rq |-> ch.rq, pq |-> ch.pq]
          /\ \A name \in Queues : ch[name] \in Seq(ReqsOf(k, n, u, name)) /\ Len(ch[name]) <= QueueSize
      BY <1>2 DEF UppersFit, ChannelFits
    <2>2. ch.wq \in Seq(W) /\ ch.rq \in Seq(R) /\ ch.pq \in Seq(R)
      BY <1>2, ChannelHas
    <2>3. R \subseteq Q /\ W \subseteq V
      BY <1>1
    <2> HIDE DEF R, Q, W, V, ch
    <2>4. \A id : CountIn(ch.rq, Having(Q, id)) = CountIn(ch.rq, Having(R, id))
      <3>1. CountsAgree(R, Q, ch.rq)
        BY <2>2, <2>3, QueueGrows
      <3> QED
        BY <3>1, Zenon DEF CountsAgree
    <2>5. \A id : CountIn(ch.pq, Having(Q, id)) = CountIn(ch.pq, Having(R, id))
      <3>1. CountsAgree(R, Q, ch.pq)
        BY <2>2, <2>3, QueueGrows
      <3> QED
        BY <3>1, Zenon DEF CountsAgree
    <2>6. \A b : CountIn(ch.wq, WritesTo(V, b)) = CountIn(ch.wq, WritesTo(W, b))
      <3>1. CountsAgree(W, V, ch.wq)
        BY <2>2, <2>3, QueueGrows
      <3> QED
        BY <3>1, Zenon DEF CountsAgree
    <2>7. ASSUME NEW name \in Queues PROVE ch[name] \in Seq(ReqsOf(k, m, u, name)) /\ Len(ch[name]) <= QueueSize
      <3> DEFINE A == ReqsOf(k, n, u, name)  B == ReqsOf(k, m, u, name)
      <3>1. A \subseteq B /\ ch[name] \in Seq(A) /\ Len(ch[name]) <= QueueSize
        BY <1>1, <2>1
      <3> HIDE DEF A, B
      <3>2. ch[name] \in Seq(B)
        BY <3>1, QueueGrows DEF CountsAgree
      <3> QED
        BY <3>1, <3>2 DEF B
    <2>8. ChannelFits(k, m, u, ch)
      BY <2>1, <2>7 DEF ChannelFits
    <2> QED
      BY <2>4, <2>5, <2>6, <2>8 DEF ch, R, Q, W, V
  <1>7. UppersFit(k, m, s.uppers)
    BY <1>2, <1>6 DEF UppersFit
  <1>8. ASSUME NEW id, id.upper \in UppersOn(k)
        PROVE PlacesOf(k, m, s, id) = PlacesOf(k, n, s, id)
    <2>1. Waiting(k, m, s.uppers, id) = Waiting(k, n, s.uppers, id)
      <3> DEFINE u == id.upper
      <3>1. /\ CountIn(s.uppers[u].rq, Having(ReadReqs(k, m, u), id)) = CountIn(s.uppers[u].rq, Having(ReadReqs(k, n, u), id))
            /\ CountIn(s.uppers[u].pq, Having(ReadReqs(k, m, u), id)) = CountIn(s.uppers[u].pq, Having(ReadReqs(k, n, u), id))
        BY <1>6, <1>8
      <3> QED
        BY <3>1, Zenon DEF Waiting
    <2> QED
      BY <1>4, <1>5, <2>1, Zenon DEF PlacesOf, E, F, M, N
  <1>9. QueuesFit(k, m, s)
    <2>1. s.pq \in Seq(Locals(F)) /\ s.stash \in Seq(F \ Locals(F))
      BY <1>2, <1>3, QueueGrows DEF CountsAgree
    <2> QED
      BY <1>2, <1>4, <2>1 DEF QueuesFit, F
  <1>10. MshrsFit(k, m, s.mshrs) /\ WritesFit(k, m, s.writes)
    BY <1>2, <1>5 DEF MshrsFit, WritesFit, N
  <1>11. StatsFit(k, m, s)
    <2>1. LocalSum(k, m, s) = LocalSum(k, n, s)
      BY <1>4, <1>5, Zenon DEF LocalSum, E, F, M, N
    <2> QED
      BY <1>2, <2>1, Zenon DEF Sound, StatsFit
  <1>12. Balanced(k, m, s)
    BY <1>2, <1>5, Zenon DEF Sound, Balanced, M, N
  <1>13. OwedFits(k, m, s)
    <2>1. s.owed \subseteq Ids(k, n) /\ \A id \in s.owed : PlacesOf(k, n, s, id) = 1
      BY <1>2 DEF Sound, OwedFits
    <2>2. ASSUME NEW id \in s.owed PROVE PlacesOf(k, m, s, id) = 1
      <3>1. id.upper \in UppersOn(k)
        BY <2>1 DEF Ids
      <3> QED
        BY <1>8, <2>1, <3>1
    <2> QED
      BY <1>1, <2>1, <2>2 DEF OwedFits
  <1>14. Sound(k, m, s)
    BY <1>1, <1>2, <1>7, <1>9, <1>10, <1>11, <1>12, <1>13, Zenon DEF Sound
  <1>15. ASSUME NEW b \in Blocks, Kept(k, n, s, b) PROVE Kept(k, m, s, b)
    BY <1>4, <1>5, <1>6, <1>15, Zenon DEF Kept, E, F, M, N
  <1>16. AllKept(k, m, s, D)
    BY <1>2, <1>15, Zenon DEF AllKept
  <1>17. \A id \in Ids(k, m) : id.upper \in UppersOn(k)
    BY DEF Ids
  <1>18. \A id \in Ids(k, m) : PlacesOf(k, m, s, id) = PlacesOf(k, n, s, id)
    BY <1>8, <1>17
  <1> QED
    BY <1>14, <1>16, <1>18 DEF Fine, m

\* No request of a load that has yet to come.
LEMMA NowhereYet ==
  ASSUME NEW k, NEW n, NEW D, NEW s, Fine(k, n, D, s), NEW id, id \notin Ids(k, n), id.upper \in UppersOn(k)
  PROVE  PlacesOf(k, n, s, id) = 0
  <1> DEFINE E == Entries(k, n)  M == Misses(k, n)  R == ReadReqs(k, n, id.upper)
  <1>1. /\ \A e \in E : id \notin e.ids
        /\ \A e \in M : id \notin e.ids
        /\ \A e \in R : id \notin e.ids
    BY DEF Entries, Misses, ReadReqs, Reqs
  <1>2. /\ s.pq \in Seq(E) /\ s.tags \in Seq(E) /\ s.stash \in Seq(E) /\ s.mshrs \in Seq(M)
    BY DEF Fine, Sound, QueuesFit, MshrsFit, Locals
  <1>3. s.uppers[id.upper].rq \in Seq(R) /\ s.uppers[id.upper].pq \in Seq(R)
    BY ChannelHas DEF Fine, Sound
  <1> HIDE DEF E, M, R
  <1>4. Having(E, id) = {} /\ Having(M, id) = {} /\ Having(R, id) = {}
    BY <1>1 DEF Having
  <1>5. \A T, q : q \in Seq(T) => CountIn(q, {}) = 0
    <2> TAKE T, q
    <2> HAVE q \in Seq(T)
    <2> DEFINE S == {}
    <2>1. \A i \in 1 .. Len(q) : q[i] \notin S
      OBVIOUS
    <2> HIDE DEF S
    <2>2. CountIn(q, S) = 0
      BY <2>1, CountIsNumber
    <2> QED
      BY <2>2 DEF S
  <1> DEFINE a == CountIn(s.pq, Having(E, id))  b == CountIn(s.tags, Having(E, id))
             c == CountIn(s.stash, Having(E, id))  d == CountIn(s.mshrs, Having(M, id))
             e == CountIn(s.uppers[id.upper].rq, Having(R, id))
             f == CountIn(s.uppers[id.upper].pq, Having(R, id))
  <1>6. a = 0 /\ b = 0 /\ c = 0 /\ d = 0 /\ e = 0 /\ f = 0
    BY <1>2, <1>3, <1>4, <1>5
  <1>7. PlacesOf(k, n, s, id) = (e + f) + (a + b + c) + d
    BY Zenon DEF PlacesOf, Waiting, Checks, E, M, R
  <1> HIDE DEF a, b, c, d, e, f
  <1> QED
    BY <1>6, <1>7

\* A request of upper level u, with the loads that it is for.
LEMMA AddedIsFine ==
  ASSUME NEW k, NEW n \in Nat, NEW D, NEW s, Fine(k, n, D, s), NEW u \in UppersOn(k),
         NEW name \in Queues, NEW r \in ReqsOf(k, n + 1, u, name),
         Len(s.uppers[u][name]) < QueueSize, r.ids \cap Ids(k, n) = {},
         NEW new,
         /\ IsState(new) /\ new.tags = s.tags /\ new.stash = s.stash /\ new.tlb = s.tlb
         /\ new.clock = s.clock /\ new.pq = s.pq
         /\ new.mshrs = s.mshrs /\ new.writes = s.writes /\ new.lines = s.lines
         /\ new.lru = s.lru /\ new.lower = s.lower /\ new.stats = s.stats,
         new.owed = s.owed \cup r.ids,
         new.uppers = PutQueue(s.uppers, u, name, Append(s.uppers[u][name], r))
  PROVE  Fine(k, n + 1, D, new)
  <1> DEFINE m == n + 1
             T == ReqsOf(k, m, u, name)
             q == s.uppers[u][name]
             p == Append(q, r)
             up1 == PutQueue(s.uppers, u, name, p)
  <1>1. /\ Fine(k, m, D, s)
        /\ \A id \in Ids(k, m) : PlacesOf(k, m, s, id) = PlacesOf(k, n, s, id)
    BY GrowsIsFine
  <1>2. /\ m \in Nat /\ Ids(k, n) \subseteq Ids(k, m)
    BY SetsGrow
  <1>3. r \in T
    OBVIOUS
  <1> HIDE DEF m
  <1>4. /\ Sound(k, m, s) /\ QueuesFit(k, m, s) /\ UppersFit(k, m, s.uppers)
        /\ AllKept(k, m, s, D) /\ s.mshrs \in Seq(Misses(k, m))
        /\ s.tags \in Seq(Entries(k, m)) /\ s.pq \in Seq(Entries(k, m)) /\ s.stash \in Seq(Entries(k, m))
    BY <1>1 DEF Fine, Sound, QueuesFit, MshrsFit, Locals
  <1>5. q \in Seq(T)
    BY <1>4, ChannelHas
  <1>6. /\ p \in Seq(T) /\ Len(p) = Len(q) + 1 /\ Len(q) \in Nat
        /\ \A S : CountIn(p, S) = CountIn(q, S) + One(r \in S)
    <2> HIDE DEF T, q
    <2> QED
      BY <1>3, <1>5, CountAppend
  <1>7. Len(p) <= QueueSize
    <2>1. Len(q) < QueueSize /\ QueueSize \in Nat
      BY Numbers
    <2> HIDE DEF p, q
    <2> QED
      BY <1>6, <2>1
  <1>8. new.uppers = up1
    OBVIOUS
  <1>9. r \in Reqs(k, m, u) /\ (\A id \in r.ids : id.upper = u) /\ r.ids \subseteq Ids(k, m)
        /\ (name = "wq" => r.ids = {})
    BY <1>3 DEF ReqsOf, WriteReqs, ReadReqs, Reqs
  <1> HIDE DEF p
  <1>10. /\ UppersFit(k, m, up1)
         /\ \A v \in UppersOn(k) :
              /\ up1[v].wq = IF v = u /\ name = "wq" THEN p ELSE s.uppers[v].wq
              /\ up1[v].rq = IF v = u /\ name = "rq" THEN p ELSE s.uppers[v].rq
              /\ up1[v].pq = IF v = u /\ name = "pq" THEN p ELSE s.uppers[v].pq
    <2>1. UppersFit(k, m, s.uppers) /\ p \in Seq(ReqsOf(k, m, u, name)) /\ Len(p) <= QueueSize
      BY <1>4, <1>6, <1>7
    <2> HIDE DEF q, T
    <2> QED
      BY <2>1, PutQueueFits DEF up1
  <1> HIDE DEF up1, q
  <1>11. \A S : Checks(new, S) = Checks(s, S)
    BY Zenon DEF Checks
  <1>12. StatsFit(k, m, new)
    <2>1. LocalSum(k, m, new) = LocalSum(k, m, s)
      BY <1>11, Zenon DEF LocalSum
    <2> QED
      BY <1>4, <2>1, Zenon DEF StatsFit, Sound
  <1>13. ASSUME NEW id \in Ids(k, m)
         PROVE  PlacesOf(k, m, new, id) = PlacesOf(k, m, s, id) + One(id \in r.ids)
    <2>1. id.upper \in UppersOn(k)
      BY DEF Ids
    <2> DEFINE v == id.upper
               S == Having(ReadReqs(k, m, v), id)
               x == CountIn(s.uppers[v].rq, S)  y == CountIn(s.uppers[v].pq, S)
               x1 == CountIn(up1[v].rq, S)  y1 == CountIn(up1[v].pq, S)
               d == Checks(s, Having(Entries(k, m), id))
               f == CountIn(s.mshrs, Having(Misses(k, m), id))
               o == One(id \in r.ids)
    <2>2. s.uppers[v].rq \in Seq(ReadReqs(k, m, v)) /\ s.uppers[v].pq \in Seq(ReadReqs(k, m, v))
      BY <1>4, <2>1, ChannelHas
    <2>3. x \in Nat /\ y \in Nat
      <3> HIDE DEF S, v
      <3> QED
        BY <2>2, CountIsNumber
    <2>4. d \in Nat /\ f \in Nat
      <3> DEFINE H == Having(Entries(k, m), id)
                 e1 == CountIn(s.pq, H)  e2 == CountIn(s.tags, H)  e3 == CountIn(s.stash, H)
      <3>1. d = e1 + e2 + e3
        BY Zenon DEF Checks
      <3>2. e1 \in Nat /\ e2 \in Nat /\ e3 \in Nat
        <4> HIDE DEF H
        <4> QED
          BY <1>4, CountIsNumber
      <3>3. f \in Nat
        BY <1>4, CountIsNumber
      <3> HIDE DEF d, e1, e2, e3, f
      <3> QED
        BY <3>1, <3>2, <3>3
    <2>5. PlacesOf(k, m, s, id) = (x + y) + d + f /\ PlacesOf(k, m, new, id) = (x1 + y1) + d + f
      BY <1>8, <1>11, Zenon DEF PlacesOf, Waiting
    <2>6. s.uppers[u]["rq"] = s.uppers[u].rq /\ s.uppers[u]["pq"] = s.uppers[u].pq
      BY <1>4, ChannelHas
    <2>7. v = u /\ name # "wq" => (r \in S <=> id \in r.ids)
      BY <1>3 DEF ReqsOf, Having
    <2>8. (v # u \/ name = "wq") => o = 0
      BY <1>9 DEF One
    <2>9. name = "wq" \/ name = "rq" \/ name = "pq"
      BY DEF Queues
    <2>10. o \in Nat
      BY DEF One
    <2>11. CASE v # u \/ name = "wq"
      <3>1. x1 = x /\ y1 = y /\ o = 0
        BY <1>10, <2>1, <2>8, <2>11
      <3> HIDE DEF x, y, x1, y1, d, f, o
      <3>2. PlacesOf(k, m, new, id) = PlacesOf(k, m, s, id) + o
        BY <2>3, <2>4, <2>5, <3>1
      <3> QED
        BY <3>2 DEF o
    <2>12. CASE v = u /\ name = "rq"
      <3>1. up1[v].rq = p /\ up1[v].pq = s.uppers[v].pq /\ q = s.uppers[v].rq
        <4>1. up1[v].rq = p /\ up1[v].pq = s.uppers[v].pq
          BY <1>10, <2>1, <2>12, Zenon
        <4>2. q = s.uppers[v].rq
          BY <2>6, <2>12 DEF q
        <4> QED
          BY <4>1, <4>2
      <3>2. One(r \in S) = o
        BY <2>7, <2>12 DEF One
      <3>3. CountIn(p, S) = CountIn(q, S) + One(r \in S)
        BY <1>6
      <3>4. x1 = x + o /\ y1 = y
        BY <3>1, <3>2, <3>3
      <3> HIDE DEF x, y, x1, y1, d, f, o
      <3>5. PlacesOf(k, m, new, id) = PlacesOf(k, m, s, id) + o
        BY <2>3, <2>4, <2>5, <2>10, <3>4
      <3> QED
        BY <3>5 DEF o
    <2>13. CASE v = u /\ name = "pq"
      <3>1. up1[v].pq = p /\ up1[v].rq = s.uppers[v].rq /\ q = s.uppers[v].pq
        <4>1. up1[v].pq = p /\ up1[v].rq = s.uppers[v].rq
          BY <1>10, <2>1, <2>13, Zenon
        <4>2. q = s.uppers[v].pq
          BY <2>6, <2>13 DEF q
        <4> QED
          BY <4>1, <4>2
      <3>2. One(r \in S) = o
        BY <2>7, <2>13 DEF One
      <3>3. CountIn(p, S) = CountIn(q, S) + One(r \in S)
        BY <1>6
      <3>4. y1 = y + o /\ x1 = x
        BY <3>1, <3>2, <3>3
      <3> HIDE DEF x, y, x1, y1, d, f, o
      <3>5. PlacesOf(k, m, new, id) = PlacesOf(k, m, s, id) + o
        BY <2>3, <2>4, <2>5, <2>10, <3>4
      <3> QED
        BY <3>5 DEF o
    <2> QED
      BY <2>9, <2>11, <2>12, <2>13
  <1>14. OwedFits(k, m, new)
    <2>1. /\ s.owed \subseteq Ids(k, n) /\ s.owed \subseteq Ids(k, m)
          /\ \A id \in s.owed : PlacesOf(k, m, s, id) = 1
      BY <1>2, <1>4 DEF Fine, Sound, OwedFits
    <2>2. ASSUME NEW id \in new.owed PROVE id \in Ids(k, m) /\ PlacesOf(k, m, new, id) = 1
      <3>1. CASE id \in r.ids
        <4>1. id \in Ids(k, m) /\ id \notin Ids(k, n) /\ id.upper \in UppersOn(k)
          BY <1>9, <3>1 DEF Ids
        <4>2. PlacesOf(k, n, s, id) = 0
          BY <4>1, NowhereYet
        <4>3. PlacesOf(k, m, s, id) = 0
          BY <1>1, <4>1, <4>2
        <4>4. PlacesOf(k, m, new, id) = PlacesOf(k, m, s, id) + One(id \in r.ids)
          BY <1>13, <4>1
        <4>5. One(id \in r.ids) = 1
          BY <3>1 DEF One
        <4> QED
          BY <4>1, <4>3, <4>4, <4>5
      <3>2. CASE id \notin r.ids
        <4>1. id \in s.owed
          BY <2>2, <3>2
        <4>2. PlacesOf(k, m, s, id) = 1 /\ id \in Ids(k, m)
          BY <2>1, <4>1
        <4>3. PlacesOf(k, m, new, id) = PlacesOf(k, m, s, id) + One(id \in r.ids)
          BY <1>13, <4>2
        <4>4. One(id \in r.ids) = 0
          BY <3>2 DEF One
        <4> QED
          BY <4>2, <4>3, <4>4
      <3> QED
        BY <3>1, <3>2
    <2> QED
      BY <2>2 DEF OwedFits
  <1>15. QueuesFit(k, m, new)
    BY <1>4 DEF QueuesFit
  <1>16. Balanced(k, m, new)
    BY <1>4, Zenon DEF Sound, Balanced
  <1>17. Sound(k, m, new)
    BY <1>4, <1>8, <1>10, <1>12, <1>14, <1>15, <1>16, Zenon DEF Sound
  <1>18. ASSUME NEW b \in Blocks, Kept(k, m, s, b) PROVE Kept(k, m, new, b)
    <2>1. ASSUME NEW v \in UppersOn(k), CountIn(s.uppers[v].wq, WritesTo(WriteReqs(k, m, v), b)) > 0
          PROVE CountIn(up1[v].wq, WritesTo(WriteReqs(k, m, v), b)) > 0
      <3> DEFINE S == WritesTo(WriteReqs(k, m, v), b)
      <3>1. CASE ~ (v = u /\ name = "wq")
        <4>1. up1[v].wq = s.uppers[v].wq
          BY <1>10, <3>1, Zenon
        <4> QED
          BY <2>1, <4>1
      <3>2. CASE v = u /\ name = "wq"
        <4>1. up1[v].wq = p
          BY <1>10, <3>2, Zenon
        <4>2. q = s.uppers[v].wq
          BY <1>4, <3>2, ChannelHas DEF q
        <4>3. s.uppers[v].wq \in Seq(WriteReqs(k, m, v))
          BY <1>4, ChannelHas
        <4> DEFINE a == CountIn(q, S)  c == CountIn(p, S)  o == One(r \in S)
        <4>4. a \in Nat
          <5> HIDE DEF S
          <5> QED
            BY <4>2, <4>3, CountIsNumber
        <4>5. c = a + o /\ a > 0 /\ o \in Nat
          <5>1. c = a + o
            BY <1>6
          <5>2. a > 0
            BY <2>1, <4>2
          <5>3. o \in Nat
            BY DEF One
          <5> QED
            BY <5>1, <5>2, <5>3
        <4> HIDE DEF a, c, o, S
        <4>6. c > 0
          BY <4>4, <4>5
        <4> QED
          BY <4>1, <4>6 DEF c, S
      <3> QED
        BY <3>1, <3>2
    <2> QED
      BY <1>8, <1>11, <1>18, <2>1, Zenon DEF Kept
  <1>19. AllKept(k, m, new, D)
    BY <1>4, <1>18, Zenon DEF AllKept
  <1> QED
    BY <1>17, <1>19 DEF Fine, m

-----------------------------------------------------------------------------
(***************************************************************************)
(* The steps.                                                              *)
(***************************************************************************)
StepKeeps(D) == Fine(kind', sent', D, Now') /\ Len(tags') <= MaxTag * HitLatency

\* The fields of the state.
LEMMA NowHas ==
  /\ IsState(Now)
  /\ Now.clock = clock /\ Now.uppers = uppers /\ Now.pq = pq /\ Now.tags = tags
  /\ Now.stash = stash /\ Now.mshrs = mshrs /\ Now.writes = writes /\ Now.lines = lines
  /\ Now.lru = lru /\ Now.lower = lower /\ Now.tlb = tlb /\ Now.stats = stats /\ Now.owed = owed
  BY DEF Now, IsState

\* The fields of the next state.
LEMMA NextNowHas ==
  /\ IsState(Now')
  /\ Now'.clock = clock' /\ Now'.uppers = uppers' /\ Now'.pq = pq' /\ Now'.tags = tags'
  /\ Now'.stash = stash' /\ Now'.mshrs = mshrs' /\ Now'.writes = writes' /\ Now'.lines = lines'
  /\ Now'.lru = lru' /\ Now'.lower = lower' /\ Now'.tlb = tlb' /\ Now'.stats = stats' /\ Now'.owed = owed'
  BY DEF Now, IsState

\* A request from above, with the loads that it is for.
LEMMA AddQueueKeeps ==
  ASSUME NEW D, Fine(kind, sent, D, Now), Len(tags) <= MaxTag * HitLatency,
         NEW u \in UppersOn(kind), NEW name \in Queues,
         NEW r \in ReqsOf(kind, sent + 1, u, name), r.ids \cap Ids(kind, sent) = {},
         AddQueue(u, name, r), owed' = owed \cup r.ids
  PROVE  StepKeeps(D)
  <1> DEFINE k == kind  n == sent  s == Now  new == Now'
  <1>1. n \in Nat
    BY DEF Fine, Sound
  <1>2. /\ IsState(new) /\ new.tags = s.tags /\ new.stash = s.stash /\ new.tlb = s.tlb
        /\ new.clock = s.clock /\ new.pq = s.pq
        /\ new.mshrs = s.mshrs /\ new.writes = s.writes /\ new.lines = s.lines
        /\ new.lru = s.lru /\ new.lower = s.lower /\ new.stats = s.stats
        /\ new.owed = s.owed \cup r.ids
        /\ new.uppers = PutQueue(s.uppers, u, name, Append(s.uppers[u][name], r))
        /\ Len(s.uppers[u][name]) < QueueSize
    BY NowHas, NextNowHas, Zenon DEF AddQueue
  <1>3. kind' = k /\ sent' = n + 1 /\ tags' = tags
    BY Zenon DEF AddQueue
  <1>4. Fine(k, n, D, s) /\ u \in UppersOn(k) /\ r \in ReqsOf(k, n + 1, u, name) /\ r.ids \cap Ids(k, n) = {}
    OBVIOUS
  <1> HIDE DEF k, n, s, new
  <1>5. Fine(k, n + 1, D, new)
    BY <1>1, <1>2, <1>4, AddedIsFine
  <1> QED
    BY <1>3, <1>5, Zenon DEF StepKeeps, new

\* The load of a request is a new one.
LEMMA IdIsNew ==
  ASSUME kind \in Kinds, sent \in Nat, NEW u \in UppersOn(kind), NEW addr \in Addresses[kind]
  PROVE  /\ Id(u, addr) \in Ids(kind, sent + 1) /\ Id(u, addr) \notin Ids(kind, sent)
         /\ Id(u, addr).upper = u
  <1>1. addr \in Nat /\ BlockSize \in Nat \ {0}
    BY CacheAssumption
  <1>2. BlockOf(addr) \in Nat
    BY <1>1 DEF BlockOf
  <1>3. sent + 1 \in 1 .. sent + 1 /\ sent + 1 \notin 1 .. sent
    OBVIOUS
  <1> QED
    BY <1>2, <1>3 DEF Id, Ids

\* A request of an upper level that waits for the answer.
LEMMA LoadKeeps ==
  ASSUME NEW D, Fine(kind, sent, D, Now), Len(tags) <= MaxTag * HitLatency,
         NEW u \in UppersOn(kind), NEW addr \in Addresses[kind],
         NEW name \in {"rq", "pq"}, NEW type \in {"LOAD", "PREFETCH"},
         AddQueue(u, name, Request(addr, type, {Id(u, addr)}, TRUE)),
         owed' = owed \cup {Id(u, addr)}
  PROVE  StepKeeps(D)
  <1> DEFINE id == Id(u, addr)  r == Request(addr, type, {id}, TRUE)
  <1>1. kind \in Kinds /\ sent \in Nat
    BY DEF Fine, Sound
  <1>2. id \in Ids(kind, sent + 1) /\ id \notin Ids(kind, sent) /\ id.upper = u
    BY <1>1, IdIsNew
  <1>3. AddQueue(u, name, r) /\ owed' = owed \cup {id}
    OBVIOUS
  <1> HIDE DEF id
  <1>4. r.ids = {id} /\ r.type # "WRITE" /\ r \in Reqs(kind, sent + 1, u)
    BY <1>2 DEF Request, Reqs, Types
  <1>5. r \in ReqsOf(kind, sent + 1, u, name) /\ name \in Queues
    BY <1>4 DEF ReqsOf, ReadReqs, Queues
  <1>6. r.ids \cap Ids(kind, sent) = {} /\ owed' = owed \cup r.ids
    BY <1>2, <1>3, <1>4
  <1> HIDE DEF r
  <1> QED
    BY <1>3, <1>5, <1>6, AddQueueKeeps

\* A write, or a prefetch that nobody waits for.
LEMMA UnansweredKeeps ==
  ASSUME NEW D, Fine(kind, sent, D, Now), Len(tags) <= MaxTag * HitLatency,
         NEW u \in UppersOn(kind), NEW addr \in Addresses[kind],
         NEW name, NEW type, (name = "wq" /\ type = "WRITE") \/ (name = "pq" /\ type = "PREFETCH"),
         AddQueue(u, name, Request(addr, type, {}, FALSE)), owed' = owed
  PROVE  StepKeeps(D)
  <1> DEFINE r == Request(addr, type, {}, FALSE)
  <1>1. \/ name = "wq" /\ type = "WRITE"
        \/ name = "pq" /\ type = "PREFETCH"
    OBVIOUS
  <1>2. r.ids = {} /\ r.type = type /\ r \in Reqs(kind, sent + 1, u)
    BY <1>1 DEF Request, Reqs, Types
  <1>3. AddQueue(u, name, r)
    OBVIOUS
  <1>4. r \in ReqsOf(kind, sent + 1, u, name) /\ name \in Queues
    <2>1. CASE name = "wq"
      BY <1>1, <1>2, <2>1 DEF ReqsOf, WriteReqs, Queues
    <2>2. CASE name = "pq"
      BY <1>1, <1>2, <2>2 DEF ReqsOf, ReadReqs, Queues
    <2> QED
      BY <1>1, <2>1, <2>2
  <1>5. r.ids \cap Ids(kind, sent) = {} /\ owed' = owed \cup r.ids
    BY <1>2
  <1> HIDE DEF r
  <1> QED
    BY <1>3, <1>4, <1>5, AddQueueKeeps

\* Any request from above (channel.cc:117-191).
LEMMA FromAboveKeeps ==
  ASSUME NEW D, Fine(kind, sent, D, Now), Len(tags) <= MaxTag * HitLatency, FromAbove
  PROVE  StepKeeps(D)
  <1>1. PICK u \in UppersOn(kind), addr \in Addresses[kind] :
          Load(u, addr) \/ Write(u, addr) \/ Prefetch(u, addr)
    BY DEF FromAbove, Uppers, UppersOn
  <1>2. CASE Load(u, addr)
    <2>1. AddQueue(u, "rq", Request(addr, "LOAD", {Id(u, addr)}, TRUE)) /\ owed' = owed \cup {Id(u, addr)}
      BY <1>2 DEF Load
    <2> QED
      BY <2>1, LoadKeeps
  <1>3. CASE Write(u, addr)
    <2>1. AddQueue(u, "wq", Request(addr, "WRITE", {}, FALSE)) /\ owed' = owed
      BY <1>3 DEF Write
    <2> DEFINE name == "wq"  type == "WRITE"
    <2>2. /\ AddQueue(u, name, Request(addr, type, {}, FALSE))
          /\ (name = "wq" /\ type = "WRITE") \/ (name = "pq" /\ type = "PREFETCH")
      BY <2>1
    <2> HIDE DEF name, type
    <2> QED
      BY <2>1, <2>2, UnansweredKeeps
  <1>4. CASE Prefetch(u, addr)
    <2>1. \/ /\ AddQueue(u, "pq", Request(addr, "PREFETCH", {Id(u, addr)}, TRUE))
             /\ owed' = owed \cup {Id(u, addr)}
          \/ AddQueue(u, "pq", Request(addr, "PREFETCH", {}, FALSE)) /\ owed' = owed
      BY <1>4 DEF Prefetch
    <2> QED
      BY <2>1, LoadKeeps, UnansweredKeeps
  <1> QED
    BY <1>1, <1>2, <1>3, <1>4

\* A line that the prefetcher asks for (cache.cc:576-596).
LEMMA PrefetchLineKeeps ==
  ASSUME NEW D, Fine(kind, sent, D, Now), Len(tags) <= MaxTag * HitLatency,
         NEW block \in Blocks, NEW fillThisLevel \in BOOLEAN, PrefetchLine(block, fillThisLevel)
  PROVE  StepKeeps(D)
  <1> DEFINE k == kind  n == sent  s == Now  new == Now'
             E == Entries(k, n)  M == Misses(k, n)
             e == [block |-> block, type |-> "PREFETCH", local |-> TRUE,
                   skip |-> ~ fillThisLevel, translated |-> TRUE, issued |-> FALSE,
                   wait |-> 0, ids |-> {}, to |-> {}]
             q == Append(s.pq, e)
             stats1 == [s.stats EXCEPT !.issued = @ + 1]
  <1>1. /\ IsState(new) /\ new.tags = s.tags /\ new.stash = s.stash /\ new.tlb = s.tlb
        /\ new.clock = s.clock /\ new.pq = q /\ new.uppers = s.uppers
        /\ new.mshrs = s.mshrs /\ new.writes = s.writes /\ new.lines = s.lines
        /\ new.lru = s.lru /\ new.lower = s.lower /\ new.stats = stats1
        /\ new.owed = s.owed /\ Len(s.pq) < PqSize
    BY NowHas, NextNowHas, Zenon DEF PrefetchLine
  <1>2. kind' = k /\ sent' = n /\ tags' = tags
    BY Zenon DEF PrefetchLine
  <1>3. /\ Sound(k, n, s) /\ AllKept(k, n, s, D) /\ QueuesFit(k, n, s)
        /\ s.pq \in Seq(Locals(E)) /\ Len(s.pq) <= PqSize /\ s.pq \in Seq(E)
        /\ s.tags \in Seq(E) /\ s.stash \in Seq(E) /\ s.mshrs \in Seq(M)
        /\ StatsFit(k, n, s) /\ LinesFit(s.lines)
    BY DEF Fine, Sound, QueuesFit, MshrsFit, Locals
  <1>4. e \in E /\ e.local /\ e.type # "WRITE" /\ e.ids = {} /\ e \in Locals(E)
    <2>1. 0 \in 0 .. HitLatency
      BY Numbers
    <2>2. e.local /\ e.type # "WRITE" /\ e.ids = {}
      OBVIOUS
    <2>3. e \in E
      BY <2>1 DEF Entries, Types
    <2> QED
      BY <2>2, <2>3 DEF Locals
  <1> HIDE DEF k, n, s, new, e, E, M
  <1>5. /\ q \in Seq(Locals(E)) /\ Len(q) = Len(s.pq) + 1 /\ Len(s.pq) \in Nat
        /\ \A S : CountIn(q, S) = CountIn(s.pq, S) + One(e \in S)
    <2> DEFINE T == Locals(E)
    <2> HIDE DEF T
    <2>1. s.pq \in Seq(T) /\ e \in T
      BY <1>3, <1>4 DEF T
    <2>2. /\ q \in Seq(T) /\ Len(q) = Len(s.pq) + 1 /\ Len(s.pq) \in Nat
          /\ \A S : CountIn(q, S) = CountIn(s.pq, S) + One(e \in S)
      BY <2>1, CountAppend
    <2> QED
      BY <2>2 DEF T
  <1>6. Len(q) <= PqSize
    <2> DEFINE a == Len(q)  b == Len(s.pq)
    <2>1. a = b + 1 /\ b \in Nat /\ b < PqSize /\ PqSize \in Nat
      BY <1>1, <1>5, Numbers
    <2> HIDE DEF a, b
    <2>2. a <= PqSize
      BY <2>1
    <2> QED
      BY <2>2 DEF a
  <1> HIDE DEF q, stats1
  <1>7. ASSUME NEW S PROVE /\ Checks(s, S) \in Nat /\ Checks(new, S) = Checks(s, S) + One(e \in S)
    <2> DEFINE a == CountIn(s.pq, S)  b == CountIn(s.tags, S)  c == CountIn(s.stash, S)
               a1 == CountIn(q, S)  o == One(e \in S)
    <2>1. Checks(s, S) = a + b + c /\ Checks(new, S) = a1 + b + c
      BY <1>1, Zenon DEF Checks
    <2>2. a \in Nat /\ b \in Nat /\ c \in Nat
      BY <1>3, CountIsNumber
    <2>3. a1 = a + o /\ o \in Nat
      <3>1. o \in Nat
        BY DEF One
      <3>2. a1 = a + o
        BY <1>5
      <3> QED
        BY <3>1, <3>2
    <2> HIDE DEF a, b, c, a1, o
    <2>4. Checks(s, S) \in Nat /\ Checks(new, S) = Checks(s, S) + o
      BY <2>1, <2>2, <2>3
    <2> QED
      BY <2>4 DEF o
  <1>8. QueuesFit(k, n, new)
    BY <1>1, <1>3, <1>5, <1>6 DEF QueuesFit, E
  <1>9. StatsFit(k, n, new)
    <2> DEFINE L == Locals(E)
               a == Checks(s, L)  a1 == Checks(new, L)
               b == CountIn(s.mshrs, Locals(M))  c == Cardinality(Prefetched(s.lines))
               i == s.stats.issued  u == s.stats.useful  v == s.stats.useless
    <2>1. a \in Nat /\ a1 = a + 1
      <3>1. a \in Nat /\ a1 = a + One(e \in L)
        BY <1>7
      <3>2. One(e \in L) = 1
        BY <1>4 DEF One
      <3> QED
        BY <3>1, <3>2
    <2>2. b \in Nat
      BY <1>3, CountIsNumber
    <2>3. c \in Nat
      BY <1>3, PrefetchedIsNumber
    <2>4. LocalSum(k, n, s) = a + b + c /\ LocalSum(k, n, new) = a1 + b + c
      BY <1>1, Zenon DEF LocalSum, E, M
    <2>5. /\ s.stats \in [issued : Nat, useful : Nat, useless : Nat]
          /\ i \in Nat /\ u \in Nat /\ v \in Nat /\ u + v + LocalSum(k, n, s) <= i
      BY <1>3 DEF StatsFit
    <2>6. /\ stats1 \in [issued : Nat, useful : Nat, useless : Nat]
          /\ stats1.issued = i + 1 /\ stats1.useful = u /\ stats1.useless = v
      BY <2>5 DEF stats1
    <2> DEFINE x == LocalSum(k, n, new)
    <2>7. u + v + x <= i + 1
      <3> DEFINE y == LocalSum(k, n, s)
      <3>1. y = a + b + c /\ x = a1 + b + c /\ u + v + y <= i
        BY <2>4, <2>5
      <3> HIDE DEF x, y, a, a1, b, c, i, u, v
      <3> QED
        BY <2>1, <2>2, <2>3, <2>5, <3>1
    <2> HIDE DEF x, i, u, v
    <2>8. stats1.useful + stats1.useless + x <= stats1.issued
      BY <2>6, <2>7
    <2> QED
      BY <1>1, <2>6, <2>8 DEF StatsFit, x
  <1>10. ASSUME NEW S, e \notin S PROVE Checks(new, S) = Checks(s, S)
    <2>1. One(e \in S) = 0
      BY <1>10 DEF One
    <2> DEFINE a == Checks(s, S)  a1 == Checks(new, S)  o == One(e \in S)
    <2>2. a \in Nat /\ a1 = a + o /\ o = 0
      BY <1>7, <2>1
    <2> HIDE DEF a, a1, o
    <2>3. a1 = a
      BY <2>2
    <2> QED
      BY <2>3 DEF a, a1
  <1>11. OwedFits(k, n, new)
    <2>1. ASSUME NEW id PROVE PlacesOf(k, n, new, id) = PlacesOf(k, n, s, id)
      <3>1. e \notin Having(E, id)
        BY <1>4 DEF Having
      <3>2. Checks(new, Having(E, id)) = Checks(s, Having(E, id))
        BY <1>10, <3>1
      <3> QED
        BY <1>1, <3>2, Zenon DEF PlacesOf, E
    <2> QED
      BY <1>1, <1>3, <2>1, Zenon DEF Sound, OwedFits
  <1>12. Balanced(k, n, new)
    BY <1>1, <1>3, Zenon DEF Sound, Balanced
  <1>13. Sound(k, n, new)
    BY <1>1, <1>3, <1>8, <1>9, <1>11, <1>12, Zenon DEF Sound
  <1>14. ASSUME NEW b \in Blocks, Kept(k, n, s, b) PROVE Kept(k, n, new, b)
    <2>1. e \notin WritesOf(E, b)
      BY <1>4 DEF WritesOf
    <2>2. Checks(new, WritesOf(E, b)) = Checks(s, WritesOf(E, b))
      BY <1>10, <2>1
    <2> QED
      BY <1>1, <1>14, <2>2, Zenon DEF Kept, E
  <1>15. AllKept(k, n, new, D)
    BY <1>3, <1>14, Zenon DEF AllKept
  <1>16. Fine(k, n, D, new)
    BY <1>13, <1>15 DEF Fine
  <1> QED
    BY <1>2, <1>16, Zenon DEF StepKeeps, new

\* What the level below does changes only the channel to it.
LEMMA LowerChangesKeeps ==
  ASSUME Fine(kind, sent, {}, Now), Len(tags) <= MaxTag * HitLatency, LowerChanges,
         LowerFits(lower'), \A b \in Blocks : BelowOf(lower', b) = BelowOf(lower, b)
  PROVE  StepKeeps({})
  <1> DEFINE k == kind  n == sent  s == Now  new == Now'
  <1>1. /\ IsState(new) /\ new.tags = s.tags /\ new.stash = s.stash /\ new.tlb = s.tlb
        /\ new.clock = s.clock /\ new.pq = s.pq /\ new.uppers = s.uppers
        /\ new.mshrs = s.mshrs /\ new.writes = s.writes /\ new.lines = s.lines
        /\ new.lru = s.lru /\ new.stats = s.stats /\ new.owed = s.owed
    BY NowHas, NextNowHas, Zenon DEF LowerChanges
  <1>2. /\ kind' = k /\ sent' = n /\ tags' = tags
        /\ LowerFits(new.lower) /\ \A b \in Blocks : BelowOf(new.lower, b) = BelowOf(s.lower, b)
    BY NowHas, NextNowHas, Zenon DEF LowerChanges
  <1>3. Sound(k, n, s) /\ QueuesFit(k, n, s)
    BY DEF Fine, Sound
  <1> HIDE DEF k, n, s, new
  <1>4. \A S : Checks(new, S) = Checks(s, S)
    BY <1>1, Zenon DEF Checks
  <1>5. StatsFit(k, n, new)
    <2>1. LocalSum(k, n, new) = LocalSum(k, n, s)
      BY <1>1, <1>4, Zenon DEF LocalSum
    <2> QED
      BY <1>1, <1>3, <2>1, Zenon DEF StatsFit, Sound
  <1>6. Balanced(k, n, new)
    BY <1>1, <1>2, <1>3, Zenon DEF Balanced, Sound
  <1>7. OwedFits(k, n, new)
    <2>1. \A id : PlacesOf(k, n, new, id) = PlacesOf(k, n, s, id)
      BY <1>1, <1>4, Zenon DEF PlacesOf
    <2> QED
      BY <1>1, <1>3, <2>1, Zenon DEF OwedFits, Sound
  <1>8. QueuesFit(k, n, new)
    BY <1>1, <1>3, Zenon DEF QueuesFit
  <1>9. Sound(k, n, new)
    BY <1>1, <1>2, <1>3, <1>5, <1>6, <1>7, <1>8, Zenon DEF Sound
  <1>10. AllKept(k, n, new, {})
    BY DEF AllKept
  <1> QED
    BY <1>2, <1>9, <1>10, Zenon DEF StepKeeps, Fine, new

\* The level below takes a request, and works on it if it wants an answer.
LEMMA LowerTakesKeeps ==
  ASSUME Fine(kind, sent, {}, Now), Len(tags) <= MaxTag * HitLatency,
         NEW name \in {"rq", "pq", "wq"}, LowerTakes(name)
  PROVE  StepKeeps({})
  <1> DEFINE l == lower  l1 == lower'  r == Head(lower[name])
             w == l.working
             w1 == [w EXCEPT ![r.block] = IF name # "wq" /\ r.wants THEN @ + 1 ELSE @]
             q == l[name]  q1 == Tail(q)
  <1>1. LowerFits(l)
    BY NowHas, Zenon DEF Fine, Sound
  <1>2. q # <<>> /\ LowerChanges /\ l1 = [[l EXCEPT ![name] = q1] EXCEPT !.working = w1]
    BY <1>1 DEF LowerTakes, LowerFits
  <1>3. /\ l = [wq |-> l.wq, rq |-> l.rq, pq |-> l.pq, returned |-> l.returned, working |-> w]
        /\ l.wq \in Seq([block : Blocks]) /\ Len(l.wq) <= LowerSize
        /\ l.rq \in Seq(Packets) /\ Len(l.rq) <= LowerSize
        /\ l.pq \in Seq(Packets) /\ Len(l.pq) <= LowerSize
        /\ l.returned \in Seq(Blocks)
        /\ w \in [Blocks -> Nat] /\ LowerSize \in Nat
    BY <1>1, Numbers DEF LowerFits
  <1>4. CASE name = "wq"
    <2>1. q = l.wq /\ r = Head(q) /\ r \in [block : Blocks] /\ w1 = w
      <3>1. q = l.wq
        BY <1>3, <1>4
      <3>2. r = Head(q)
        OBVIOUS
      <3>3. r \in [block : Blocks]
        <4> DEFINE T == [block : Blocks]
        <4>1. q \in Seq(T) /\ q # <<>>
          BY <1>2, <1>3, <3>1
        <4> HIDE DEF T, q
        <4>2. Head(q) \in T
          BY <4>1, TailCount
        <4> QED
          BY <3>2, <4>2 DEF T
      <3>4. w1 = w
        BY <1>3, <1>4, <3>3
      <3> QED
        BY <3>1, <3>2, <3>3, <3>4
    <2>2. q1 \in Seq([block : Blocks]) /\ Len(q1) <= LowerSize
      <3> DEFINE T == [block : Blocks]
      <3>1. q \in Seq(T) /\ q # <<>> /\ Len(q) <= LowerSize
        BY <1>2, <1>3, <2>1
      <3> HIDE DEF T, q
      <3>2. q1 \in Seq(T) /\ Len(q1) = Len(q) - 1 /\ Len(q) \in Nat
        BY <3>1, TailCount
      <3> DEFINE a == Len(q)  c == Len(q1)
      <3>3. a \in Nat /\ a <= LowerSize /\ c = a - 1
        BY <3>1, <3>2
      <3> HIDE DEF a, c
      <3>4. c <= LowerSize
        BY <1>3, <3>3
      <3> QED
        BY <3>2, <3>4 DEF T, c
    <2> HIDE DEF q1, w1, w
    <2>3. l1 = [wq |-> q1, rq |-> l.rq, pq |-> l.pq, returned |-> l.returned, working |-> w]
      BY <1>2, <1>3, <1>4, <2>1
    <2>4. LowerFits(l1)
      BY <1>3, <2>2, <2>3 DEF LowerFits
    <2>5. \A b \in Blocks : BelowOf(l1, b) = BelowOf(l, b)
      BY <1>3, <2>3, Zenon DEF BelowOf, w
    <2> QED
      BY <1>2, <2>4, <2>5, LowerChangesKeeps
  <1>5. CASE name # "wq"
    <2>1. name = "rq" \/ name = "pq"
      BY <1>5
    <2>2. q \in Seq(Packets) /\ Len(q) <= LowerSize /\ r = Head(q) /\ r \in Packets
      <3>1. q \in Seq(Packets) /\ Len(q) <= LowerSize
        BY <1>3, <2>1
      <3>2. r = Head(q)
        OBVIOUS
      <3> DEFINE T == Packets
      <3>3. q \in Seq(T) /\ q # <<>>
        BY <1>2, <3>1
      <3> HIDE DEF q, r, T
      <3>4. Head(q) \in T
        BY <3>3, TailCount
      <3> QED
        BY <3>1, <3>2, <3>4 DEF T
    <2>3. /\ q1 \in Seq(Packets) /\ Len(q1) <= LowerSize
          /\ \A S : CountIn(q1, S) = CountIn(q, S) - One(r \in S)
      <3>1. /\ q1 \in Seq(Packets) /\ Len(q1) = Len(q) - 1
            /\ \A S : CountIn(q1, S) = CountIn(q, S) - One(r \in S)
        <4> DEFINE T == Packets
        <4>1. q \in Seq(T) /\ q # <<>> /\ r = Head(q)
          BY <1>2, <2>2
        <4> HIDE DEF q, r, T
        <4>2. /\ q1 \in Seq(T) /\ Len(q1) = Len(q) - 1 /\ Head(q) = q[1]
              /\ \A S : CountIn(q1, S) = CountIn(q, S) - One(q[1] \in S)
          BY <4>1, TailCount
        <4>3. r = q[1]
          BY <4>1, <4>2
        <4> QED
          BY <4>2, <4>3 DEF T
      <3> DEFINE a == Len(q)  b == Len(q1)
      <3>2. a \in Nat /\ a <= LowerSize /\ b = a - 1
        BY <2>2, <3>1
      <3> HIDE DEF a, b
      <3>3. b <= LowerSize
        BY <1>3, <3>2
      <3> QED
        BY <3>1, <3>3 DEF b
    <2>4. /\ w1 \in [Blocks -> Nat]
          /\ \A b \in Blocks : w1[b] = w[b] + One(r \in Wanting(b))
      <3>1. r.block \in Blocks /\ r.wants \in BOOLEAN
        BY <2>2 DEF Packets
      <3>2. w1 = [w EXCEPT ![r.block] = IF r.wants THEN w[r.block] + 1 ELSE w[r.block]]
        BY <1>5, <2>1
      <3> HIDE DEF r, w1, w
      <3>3. w1 \in [Blocks -> Nat]
        BY <1>3, <3>1, <3>2
      <3>4. ASSUME NEW b \in Blocks PROVE w1[b] = w[b] + One(r \in Wanting(b))
        <4>1. r \in Wanting(b) <=> r.block = b /\ r.wants
          BY <2>2 DEF Wanting
        <4> QED
          BY <1>3, <3>1, <3>2, <4>1 DEF One
      <3> QED
        BY <3>3, <3>4
    <2> HIDE DEF q1, w1, r
    <2>5. \/ name = "rq" /\ q = l.rq /\ l1 = [wq |-> l.wq, rq |-> q1, pq |-> l.pq, returned |-> l.returned, working |-> w1]
          \/ name = "pq" /\ q = l.pq /\ l1 = [wq |-> l.wq, rq |-> l.rq, pq |-> q1, returned |-> l.returned, working |-> w1]
      BY <1>2, <1>3, <2>1
    <2> HIDE DEF q, w, l, l1
    <2>6. LowerFits(l1)
      BY <1>3, <2>3, <2>4, <2>5 DEF LowerFits
    <2>7. ASSUME NEW b \in Blocks PROVE BelowOf(l1, b) = BelowOf(l, b)
      <3> DEFINE S == Wanting(b)  o == One(r \in S)
                 a == CountIn(l.rq, S)  c == CountIn(l.pq, S)  d == w[b]
                 e == CountIn(l.returned, {b})  a1 == CountIn(l1.rq, S)  c1 == CountIn(l1.pq, S)
                 d1 == w1[b]
      <3>1. a \in Nat /\ c \in Nat /\ d \in Nat /\ e \in Nat /\ o \in Nat
        <4>1. o \in Nat
          BY DEF One
        <4> HIDE DEF o, S
        <4> QED
          BY <1>3, <4>1, CountIsNumber
      <3>2. d1 = d + o
        BY <2>4
      <3>3. l1.working = w1 /\ l1.returned = l.returned /\ l.working = w
        BY <2>5 DEF w
      <3>4. BelowOf(l, b) = a + c + d + e /\ BelowOf(l1, b) = a1 + c1 + d1 + e
        BY <3>3, Zenon DEF BelowOf
      <3>5. CountIn(q1, S) = CountIn(q, S) - o
        BY <2>3
      <3>6. \/ a1 = a - o /\ c1 = c
            \/ a1 = a /\ c1 = c - o
        <4>1. CASE name = "rq"
          <5>1. l1.rq = q1 /\ q = l.rq /\ l1.pq = l.pq
            BY <2>5, <4>1
          <5> HIDE DEF o, S
          <5> QED
            BY <3>5, <5>1
        <4>2. CASE name = "pq"
          <5>1. l1.pq = q1 /\ q = l.pq /\ l1.rq = l.rq
            BY <2>5, <4>2
          <5> HIDE DEF o, S
          <5> QED
            BY <3>5, <5>1
        <4> QED
          BY <2>1, <4>1, <4>2
      <3> HIDE DEF a, c, d, e, o, a1, c1, d1
      <3> QED
        BY <3>1, <3>2, <3>4, <3>6
    <2> QED
      BY <1>2, <2>6, <2>7, LowerChangesKeeps DEF l, l1
  <1> QED
    BY <1>4, <1>5

\* The level below answers.
LEMMA LowerReturnsKeeps ==
  ASSUME Fine(kind, sent, {}, Now), Len(tags) <= MaxTag * HitLatency,
         NEW block \in Blocks, LowerReturns(block)
  PROVE  StepKeeps({})
  <1> DEFINE l == lower  l1 == lower'  w == l.working
             w1 == [w EXCEPT ![block] = @ - 1]
             q1 == Append(l.returned, block)
  <1>1. LowerFits(l)
    BY NowHas, Zenon DEF Fine, Sound
  <1>2. w[block] > 0 /\ LowerChanges /\ l1 = [[l EXCEPT !.working = w1] EXCEPT !.returned = q1]
    BY <1>1 DEF LowerReturns, LowerFits
  <1>3. /\ l = [wq |-> l.wq, rq |-> l.rq, pq |-> l.pq, returned |-> l.returned, working |-> w]
        /\ l.rq \in Seq(Packets) /\ l.pq \in Seq(Packets)
        /\ l.returned \in Seq(Blocks) /\ w \in [Blocks -> Nat]
    BY <1>1 DEF LowerFits
  <1>4. /\ q1 \in Seq(Blocks)
        /\ \A S : CountIn(q1, S) = CountIn(l.returned, S) + One(block \in S)
    BY <1>3, CountAppend
  <1>5. /\ w1 \in [Blocks -> Nat]
        /\ \A b \in Blocks : w1[b] = w[b] - One(block \in {b})
    <2>1. w1 \in [Blocks -> Nat]
      BY <1>2, <1>3
    <2>2. \A b \in Blocks : w1[b] = w[b] - One(block \in {b})
      BY <1>2, <1>3 DEF One
    <2> QED
      BY <2>1, <2>2
  <1> HIDE DEF q1, w1
  <1>6. l1 = [wq |-> l.wq, rq |-> l.rq, pq |-> l.pq, returned |-> q1, working |-> w1]
    BY <1>2, <1>3
  <1> HIDE DEF w, l, l1
  <1>7. LowerFits(l1)
    BY <1>1, <1>4, <1>5, <1>6 DEF LowerFits
  <1>8. ASSUME NEW b \in Blocks PROVE BelowOf(l1, b) = BelowOf(l, b)
    <2> DEFINE S == Wanting(b)  o == One(block \in {b})
               a == CountIn(l.rq, S)  c == CountIn(l.pq, S)  d == w[b]  d1 == w1[b]
               e == CountIn(l.returned, {b})  e1 == CountIn(q1, {b})
    <2>1. a \in Nat /\ c \in Nat /\ d \in Nat /\ e \in Nat /\ o \in Nat
      <3>1. o \in Nat
        BY DEF One
      <3> HIDE DEF o, S
      <3> QED
        BY <1>3, <3>1, CountIsNumber
    <2>2. d1 = d - o /\ e1 = e + o
      BY <1>4, <1>5
    <2>3. /\ l1.working = w1 /\ l1.returned = q1 /\ l.working = w
          /\ l1.rq = l.rq /\ l1.pq = l.pq
      BY <1>6 DEF w
    <2>4. BelowOf(l, b) = a + c + d + e /\ BelowOf(l1, b) = a + c + d1 + e1
      BY <2>3, Zenon DEF BelowOf
    <2> HIDE DEF a, c, d, e, o, d1, e1
    <2> QED
      BY <2>1, <2>2, <2>4
  <1> QED
    BY <1>2, <1>7, <1>8, LowerChangesKeeps DEF l, l1

\* The TLB answers.
LEMMA TlbReturnsKeeps ==
  ASSUME NEW D, Fine(kind, sent, D, Now), Len(tags) <= MaxTag * HitLatency,
         NEW page \in Pages, TlbReturns(page)
  PROVE  StepKeeps(D)
  <1> DEFINE k == kind  n == sent  s == Now  new == Now'
  <1>1. /\ IsState(new) /\ new.tags = s.tags /\ new.stash = s.stash
        /\ new.clock = s.clock /\ new.pq = s.pq /\ new.uppers = s.uppers
        /\ new.mshrs = s.mshrs /\ new.writes = s.writes /\ new.lines = s.lines
        /\ new.lru = s.lru /\ new.lower = s.lower /\ new.stats = s.stats /\ new.owed = s.owed
        /\ new.tlb = tlb' /\ s.tlb = tlb
    BY NowHas, NextNowHas, Zenon DEF TlbReturns
  <1>2. kind' = k /\ sent' = n /\ tags' = tags
    BY Zenon DEF TlbReturns
  <1>3. Fine(k, n, D, s) /\ TlbFits(tlb) /\ QueuesFit(k, n, s)
    BY <1>1 DEF Fine, Sound
  <1>4. TlbFits(tlb')
    <2> DEFINE K == Pages \ {page}  q == Those(tlb.rq, K)  p == Append(tlb.returned, page)
    <2>1. tlb' = [rq |-> q, returned |-> p]
      BY Zenon DEF TlbReturns
    <2>2. tlb.rq \in Seq(Pages) /\ Len(tlb.rq) <= TlbSize /\ tlb.returned \in Seq(Pages) /\ TlbSize \in Nat
      BY <1>3, Numbers DEF TlbFits
    <2>3. q \in Seq(Pages \cap K) /\ Len(q) = CountIn(tlb.rq, K)
      BY <2>2, ThoseFit
    <2>4. CountIn(tlb.rq, K) \in Nat /\ CountIn(tlb.rq, K) <= Len(tlb.rq) /\ Len(tlb.rq) \in Nat
      BY <2>2, CountIsNumber
    <2>5. p \in Seq(Pages)
      BY <2>2
    <2> HIDE DEF q, p
    <2>6. q \in Seq(Pages) /\ Len(q) <= TlbSize
      BY <2>2, <2>3, <2>4
    <2> QED
      BY <2>1, <2>5, <2>6 DEF TlbFits
  <1> HIDE DEF k, n, s, new
  <1>5. Moved(k, n, s, new)
    <2>1. QueuesFit(k, n, new)
      BY <1>1, <1>3, Zenon DEF QueuesFit
    <2>2. \A S : Checks(new, S) = Checks(s, S)
      BY <1>1, Zenon DEF Checks
    <2> QED
      BY <1>1, <1>4, <2>1, <2>2, Zenon DEF Moved
  <1>6. Fine(k, n, D, new)
    BY <1>3, <1>5, MovedIsFine
  <1> QED
    BY <1>2, <1>6, Zenon DEF StepKeeps, new

\* A cycle of the cache (cache.cc:415-526).
LEMMA OperateKeeps ==
  ASSUME NEW D, Fine(kind, sent, D, Now), Len(tags) <= MaxTag * HitLatency, Operate
  PROVE  StepKeeps(D)
  <1> DEFINE s == Cycle(State)
  <1>1. Fine(kind, sent, D, s) /\ Len(s.tags) <= MaxTag * HitLatency
    BY CycleIsFine
  <1>2. /\ clock' = s.clock /\ uppers' = s.uppers
        /\ pq' = s.pq /\ tags' = s.tags /\ stash' = s.stash
        /\ mshrs' = s.mshrs /\ writes' = s.writes /\ lines' = s.lines /\ lru' = s.lru
        /\ lower' = s.lower /\ tlb' = s.tlb /\ stats' = s.stats /\ owed' = s.owed
        /\ kind' = kind /\ sent' = sent
    BY Zenon DEF Operate
  <1>3. IsState(s)
    BY <1>1 DEF Fine, Sound
  <1> HIDE DEF s
  <1>4. Now' = s
    BY <1>2, <1>3, Zenon DEF IsState, Now
  <1> QED
    BY <1>1, <1>2, <1>4, Zenon DEF StepKeeps

\* Every step keeps the invariant, and all of them but those of the level below keep the
\* writes of the blocks in D.
LEMMA NextKeeps ==
  ASSUME NEW D, Fine(kind, sent, D, Now), Len(tags) <= MaxTag * HitLatency, [Next]_vars
  PROVE  /\ StepKeeps({})
         /\ StepKeeps(D) \/ LowerChanges
  <1>2. Fine(kind, sent, {}, Now)
    <2>1. AllKept(kind, sent, Now, {})
      BY DEF AllKept
    <2> QED
      BY <2>1 DEF Fine
  <1>3. CASE FromAbove
    BY <1>2, <1>3, FromAboveKeeps
  <1>4. CASE \E b \in Blocks, fill \in BOOLEAN : PrefetchLine(b, fill)
    BY <1>2, <1>4, PrefetchLineKeeps
  <1>5. CASE \E name \in {"rq", "pq", "wq"} : LowerTakes(name)
    <2>1. PICK name \in {"rq", "pq", "wq"} : LowerTakes(name)
      BY <1>5
    <2>2. StepKeeps({})
      BY <1>2, <2>1, LowerTakesKeeps
    <2>3. LowerChanges
      BY <2>1 DEF LowerTakes
    <2> QED
      BY <2>2, <2>3
  <1>6. CASE \E b \in Blocks : LowerReturns(b)
    <2>1. PICK b \in Blocks : LowerReturns(b)
      BY <1>6
    <2>2. StepKeeps({})
      BY <1>2, <2>1, LowerReturnsKeeps
    <2>3. LowerChanges
      BY <2>1 DEF LowerReturns
    <2> QED
      BY <2>2, <2>3
  <1>7. CASE \E p \in Pages : TlbReturns(p)
    BY <1>2, <1>7, TlbReturnsKeeps
  <1>8. CASE Operate
    BY <1>2, <1>8, OperateKeeps
  <1>9. CASE UNCHANGED vars
    <2>1. /\ kind' = kind /\ sent' = sent /\ tags' = tags
          /\ Now' = Now
      BY <1>9 DEF vars, cacheVars, Now
    <2> QED
      BY <1>2, <2>1, Zenon DEF StepKeeps
  <1> QED
    BY <1>3, <1>4, <1>5, <1>6, <1>7, <1>8, <1>9 DEF Next

\* Nothing is in the empty sequence.
LEMMA CountEmpty ==
  ASSUME NEW S
  PROVE  CountIn(<<>>, S) = 0
  <1>1. <<>> \in Seq({}) /\ \A i \in 1 .. Len(<<>>) : <<>>[i] \notin S
    OBVIOUS
  <1> DEFINE q == <<>>
  <1> HIDE DEF q
  <1>2. q \in Seq({}) /\ \A i \in 1 .. Len(q) : q[i] \notin S
    BY <1>1 DEF q
  <1>3. CountIn(q, S) = 0
    BY <1>2, CountIsNumber
  <1> QED
    BY <1>3 DEF q

\* The empty cache.
LEMMA InitIsFine ==
  ASSUME Init
  PROVE  IInv
  <1> DEFINE k == kind  n == sent  s == Now  none == <<>>
  <1>1. /\ k \in Kinds /\ n = 0 /\ s.clock = 0 /\ s.pq = none /\ s.tags = none
        /\ s.stash = none /\ s.mshrs = none /\ s.writes = none /\ s.owed = {} /\ IsState(s)
        /\ s.uppers = [u \in UppersOn(k) |-> [wq |-> none, rq |-> none, pq |-> none]]
        /\ s.lines = [a \in SetIds |-> [w \in Ways |-> Invalid]]
        /\ s.lru = [a \in SetIds |-> [w \in Ways |-> w]]
        /\ s.lower = [wq |-> none, rq |-> none, pq |-> none, returned |-> none,
                      working |-> [b \in Blocks |-> 0]]
        /\ s.tlb = [rq |-> none, returned |-> none]
        /\ s.stats = [issued |-> 0, useful |-> 0, useless |-> 0]
    BY NowHas DEF Init, Uppers, UppersOn, SetIds, Ways
  <1>2. none = tags
    BY DEF Init
  <1>3. /\ \A T : none \in Seq(T)
        /\ Len(none) = 0 /\ DOMAIN none = {}
        /\ \A S : CountIn(none, S) = 0
    BY CountEmpty
  <1>4. /\ UppersOf[k] \in Nat \ {0} /\ MshrSize[k] \in Nat /\ QueueSize \in Nat /\ LowerSize \in Nat
        /\ PqSize \in Nat /\ TlbSize \in Nat /\ NumWay \in Nat /\ MaxTag \in Nat /\ HitLatency \in Nat
    BY <1>1, Numbers
  <1> HIDE DEF k, n, s, none
  <1>5. s.clock \in Cycles(k)
    BY <1>1, <1>4 DEF Cycles, Greatest
  <1>6. UppersFit(k, n, s.uppers)
    <2> DEFINE ch == [wq |-> none, rq |-> none, pq |-> none]
    <2>1. /\ ch = [wq |-> ch.wq, rq |-> ch.rq, pq |-> ch.pq]
          /\ \A name \in Queues : ch[name] = none
      BY DEF Queues
    <2> HIDE DEF ch
    <2>2. \A u \in UppersOn(k) : ChannelFits(k, n, u, ch)
      <3>1. Len(none) <= QueueSize
        BY <1>3, <1>4
      <3>2. \A u, name : none \in Seq(ReqsOf(k, n, u, name))
        BY <1>3
      <3> QED
        BY <2>1, <3>1, <3>2, Zenon DEF ChannelFits
    <2>3. s.uppers = [u \in UppersOn(k) |-> ch]
      BY <1>1 DEF ch
    <2> QED
      BY <2>2, <2>3 DEF UppersFit
  <1>7. QueuesFit(k, n, s)
    BY <1>1, <1>3, <1>4 DEF QueuesFit, TranslatedFirst
  <1>8. MshrsFit(k, n, s.mshrs) /\ WritesFit(k, n, s.writes)
    BY <1>1, <1>3, <1>4 DEF MshrsFit, WritesFit, Ordered
  <1>9. LinesFit(s.lines)
    <2>1. Invalid \in LineStates
      BY DEF Invalid, LineStates
    <2> QED
      BY <1>1, <2>1 DEF LinesFit
  <1>10. LruFits(s.lru)
    <2> DEFINE o == [w \in Ways |-> w]
    <2>1. o \in Seq(Ways) /\ DOMAIN o = Ways /\ \A w \in Ways : o[w] = w
      BY <1>4 DEF Ways
    <2> HIDE DEF o
    <2>2. OrderFits(o)
      BY <2>1 DEF OrderFits
    <2>3. s.lru = [a \in SetIds |-> o]
      BY <1>1 DEF o
    <2> QED
      BY <2>2, <2>3 DEF LruFits
  <1>11. LowerFits(s.lower) /\ TlbFits(s.tlb)
    BY <1>1, <1>3, <1>4 DEF LowerFits, TlbFits
  <1>12. \A S : Checks(s, S) = 0
    BY <1>1, <1>3 DEF Checks
  <1>13. StatsFit(k, n, s)
    <2>1. Prefetched(s.lines) = {}
      BY <1>1 DEF Prefetched, Invalid
    <2>2. Cardinality(Prefetched(s.lines)) = 0
      BY <2>1, FS_EmptySet
    <2>3. LocalSum(k, n, s) = 0
      BY <1>1, <1>3, <1>12, <2>2 DEF LocalSum
    <2> QED
      BY <1>1, <2>3 DEF StatsFit
  <1>14. Balanced(k, n, s)
    <2>1. ASSUME NEW b \in Blocks PROVE BelowOf(s.lower, b) = 0
      BY <1>1, <1>3 DEF BelowOf
    <2>2. \A b : CountIn(s.mshrs, Awaiting(Misses(k, n), b)) = 0
      BY <1>1, <1>3
    <2> QED
      BY <2>1, <2>2 DEF Balanced
  <1>15. OwedFits(k, n, s)
    BY <1>1 DEF OwedFits
  <1>16. Sound(k, n, s)
    BY <1>1, <1>5, <1>6, <1>7, <1>8, <1>9, <1>10, <1>11, <1>13, <1>14, <1>15 DEF Sound
  <1>17. Len(tags) <= MaxTag * HitLatency
    <2> DEFINE max == MaxTag * HitLatency
    <2>1. max \in Nat
      BY Numbers
    <2> HIDE DEF max
    <2>2. Len(tags) <= max
      BY <1>2, <1>3, <2>1
    <2> QED
      BY <2>2 DEF max
  <1> QED
    BY <1>16, <1>17 DEF IInv, k, n, s

-----------------------------------------------------------------------------
(***************************************************************************)
(* The theorems.                                                           *)
(***************************************************************************)
LEMMA InvIsFine ==
  ASSUME IInv
  PROVE  Fine(kind, sent, {}, Now) /\ Len(tags) <= MaxTag * HitLatency
  BY DEF IInv, Fine, AllKept

\* The cache keeps its queues and what their entries say consistent in every state
\* (cache.cc, channel.cc), which all of the following rest on.
THEOREM Invariance == Spec => []IInv
  <1>1. IInv /\ [Next]_vars => IInv'
    <2> SUFFICES ASSUME IInv, [Next]_vars PROVE IInv'
      OBVIOUS
    <2>1. StepKeeps({})
      BY InvIsFine, NextKeeps
    <2> QED
      BY <2>1, Zenon DEF StepKeeps, Fine, IInv
  <1> QED
    BY <1>1, InitIsFine, PTL DEF Spec

\* Every queue keeps its bound, the stash its order, and no prefetch is counted as useful
\* or useless twice (cache.cc:226-228, 287-290, 340-345, 453-455).
THEOREM TypeCorrect == Spec => []TypeOK
  <1>1. IInv => TypeOK
    <2> SUFFICES ASSUME IInv PROVE TypeOK
      OBVIOUS
    <2> DEFINE k == kind  n == sent  E == Entries(k, n)  M == Misses(k, n)
    <2>1. /\ k \in Kinds /\ clock \in Cycles(k) /\ Len(tags) <= MaxTag * HitLatency
          /\ UppersFit(k, n, uppers) /\ QueuesFit(k, n, Now)
          /\ MshrsFit(k, n, mshrs) /\ WritesFit(k, n, writes)
          /\ LinesFit(lines) /\ LruFits(lru)
          /\ LowerFits(lower) /\ TlbFits(tlb) /\ StatsFit(k, n, Now)
      BY NowHas, Zenon DEF IInv, Sound
    <2>2. \A u \in Uppers : \A name \in {"wq", "rq", "pq"} : Len(uppers[u][name]) <= QueueSize
      BY <2>1 DEF UppersFit, ChannelFits, Uppers, UppersOn, Queues
    <2>3. clock \in 0 .. Turns - 1
      BY <2>1 DEF Cycles, Turns
    <2>4. /\ pq \in Seq(Locals(E)) /\ pq \in Seq(E) /\ Len(pq) <= PqSize
          /\ tags \in Seq(E) /\ stash \in Seq(E) /\ TranslatedFirst(stash)
          /\ mshrs \in Seq(M) /\ Len(mshrs) <= MshrSize[k] /\ writes \in Seq(M)
      BY <2>1, NowHas DEF QueuesFit, MshrsFit, WritesFit, Locals
    <2>5. \A t \in ToSet(tags) : t.wait \in 0 .. HitLatency
      <3>1. \A e \in E : e.wait \in 0 .. HitLatency
        BY DEF Entries
      <3> HIDE DEF E
      <3> QED
        BY <2>4, <3>1 DEF ToSet
    <2>6. \A i, j \in DOMAIN stash : i < j /\ stash[j].translated => stash[i].translated
      BY <2>4 DEF TranslatedFirst
    <2>7. /\ \A m \in ToSet(mshrs) : m.wait \in {Unknown} \cup 0 .. FillLatency
          /\ \A m \in ToSet(writes) : m.wait \in 0 .. FillLatency
      <3>1. \A m \in M : m.wait \in {Unknown} \cup 0 .. FillLatency
        BY DEF Misses
      <3>2. \A i \in DOMAIN writes : writes[i].wait # Unknown
        BY <2>1 DEF WritesFit
      <3> HIDE DEF M
      <3> QED
        BY <2>4, <3>1, <3>2 DEF ToSet
    <2>8. \A a \in DOMAIN lru : ToSet(lru[a]) = 1 .. NumWay
      <3>1. DOMAIN lru = SetIds
        BY <2>1 DEF LruFits
      <3>2. ASSUME NEW o, OrderFits(o) PROVE ToSet(o) = Ways
        BY <3>2 DEF OrderFits, ToSet
      <3> QED
        BY <2>1, <3>1, <3>2 DEF LruFits, Ways
    <2>9. /\ Len(lower.rq) <= LowerSize /\ Len(lower.pq) <= LowerSize /\ Len(lower.wq) <= LowerSize
          /\ Len(tlb.rq) <= TlbSize
      BY <2>1 DEF LowerFits, TlbFits
    <2>10. stats.useful + stats.useless + Unsettled <= stats.issued
      <3> DEFINE a == CountIn(pq, Locals(E))  b == CountIn(tags, Locals(E))
                 c == CountIn(stash, Locals(E))  d == CountIn(mshrs, Locals(M))
                 p == Cardinality(Prefetched(lines))
                 x == stats.useful  y == stats.useless  z == stats.issued
      <3>1. Unsettled = a + b + d + p
        <4>1. \A T, q : q \in Seq(T) => {i \in DOMAIN q : q[i].local} = PlacesIn(q, Locals(T))
          BY DEF PlacesIn, Locals
        <4>2. /\ {i \in DOMAIN pq : pq[i].local} = PlacesIn(pq, Locals(E))
              /\ {i \in DOMAIN tags : tags[i].local} = PlacesIn(tags, Locals(E))
              /\ {i \in DOMAIN mshrs : mshrs[i].local} = PlacesIn(mshrs, Locals(M))
          BY <2>4, <4>1
        <4> QED
          BY <4>2 DEF Unsettled, Count, CountIn, Prefetched, SetIds, Ways
      <3>2. a \in Nat /\ b \in Nat /\ c \in Nat /\ d \in Nat
        <4> HIDE DEF E, M
        <4> QED
          BY <2>4, CountIsNumber
      <3>3. p \in Nat
        BY <2>1, PrefetchedIsNumber
      <3>4. /\ x \in Nat /\ y \in Nat /\ z \in Nat
            /\ x + y + ((a + b + c) + d + p) <= z
        <4>1. LocalSum(k, n, Now) = (a + b + c) + d + p
          BY NowHas, Zenon DEF LocalSum, Checks
        <4>2. stats \in [issued : Nat, useful : Nat, useless : Nat] /\ x + y + LocalSum(k, n, Now) <= z
          BY <2>1, NowHas, Zenon DEF StatsFit
        <4> QED
          BY <4>1, <4>2
      <3> HIDE DEF a, b, c, d, p, x, y, z
      <3>5. x + y + (a + b + d + p) <= z
        BY <3>2, <3>3, <3>4
      <3> QED
        BY <3>1, <3>5 DEF x, y, z
    <2> QED
      BY <2>1, <2>2, <2>3, <2>4, <2>5, <2>6, <2>7, <2>8, <2>9, <2>10 DEF TypeOK
  <1> QED
    BY <1>1, Invariance, PTL

\* The MSHRs have distinct blocks, those that have returned come first in the order in
\* which they become ready, and exactly the others have a request or an answer
\* below (cache.cc:610-633).
THEOREM AnswersAreAwaited == Spec => []MshrsAwaitAnswers
  <1>1. IInv => MshrsAwaitAnswers
    <2> SUFFICES ASSUME IInv PROVE MshrsAwaitAnswers
      OBVIOUS
    <2> DEFINE k == kind  n == sent  M == Misses(k, n)
    <2>1. MshrsFit(k, n, mshrs) /\ LowerFits(lower) /\ Balanced(k, n, Now)
      BY NowHas, Zenon DEF IInv, Sound
    <2>2. /\ mshrs \in Seq(M) /\ Ordered(mshrs)
          /\ lower.rq \in Seq(Packets) /\ lower.pq \in Seq(Packets) /\ lower.returned \in Seq(Blocks)
      BY <2>1 DEF MshrsFit, LowerFits
    <2>3. ASSUME NEW b \in Blocks
          PROVE  Below(b) = Count(mshrs, LAMBDA m : m.block = b /\ m.wait = Unknown)
      <3>1. \A q : q \in Seq(Packets) =>
              {i \in DOMAIN q : q[i].block = b /\ q[i].wants} = PlacesIn(q, Wanting(b))
        BY DEF PlacesIn, Wanting
      <3>2. {i \in DOMAIN lower.returned : lower.returned[i] = b} = PlacesIn(lower.returned, {b})
        BY DEF PlacesIn
      <3>3. {i \in DOMAIN mshrs : mshrs[i].block = b /\ mshrs[i].wait = Unknown} =
               PlacesIn(mshrs, Awaiting(M, b))
        BY <2>2 DEF PlacesIn, Awaiting
      <3>4. Below(b) = BelowOf(lower, b)
        BY <2>2, <3>1, <3>2 DEF Below, BelowOf, Count, CountIn
      <3>5. Count(mshrs, LAMBDA m : m.block = b /\ m.wait = Unknown) = CountIn(mshrs, Awaiting(M, b))
        BY <3>3 DEF Count, CountIn
      <3>6. BelowOf(lower, b) = CountIn(mshrs, Awaiting(M, b))
        BY <2>1, NowHas, Zenon DEF Balanced
      <3> QED
        BY <3>4, <3>5, <3>6
    <2> QED
      BY <2>2, <2>3 DEF MshrsAwaitAnswers, Ordered
  <1> QED
    BY <1>1, Invariance, PTL

\* A load that has not been answered is in exactly one place: merging, forwarding, the
\* stash, and failed misses neither lose nor double it (channel.cc:72-114,
\* cache.cc:475-520).
THEOREM LoadsAreOwedOnce == Spec => []OwedOnce
  <1>1. IInv => OwedOnce
    <2> SUFFICES ASSUME IInv, NEW id \in owed PROVE Places(id) = 1
      BY DEF OwedOnce
    <2> DEFINE k == kind  n == sent  E == Entries(k, n)  M == Misses(k, n)
               u == id.upper  R == ReadReqs(k, n, u)
    <2>1. /\ UppersFit(k, n, uppers) /\ QueuesFit(k, n, Now) /\ MshrsFit(k, n, mshrs)
          /\ OwedFits(k, n, Now)
      BY NowHas, Zenon DEF IInv, Sound
    <2>2. id \in Ids(k, n) /\ PlacesOf(k, n, Now, id) = 1
      BY <2>1, NowHas DEF OwedFits
    <2>3. u \in UppersOn(k)
      BY <2>2 DEF Ids
    <2>4. /\ pq \in Seq(Locals(E)) /\ tags \in Seq(E) /\ stash \in Seq(E) /\ mshrs \in Seq(M)
          /\ uppers[u].rq \in Seq(R) /\ uppers[u].pq \in Seq(R)
      BY <2>1, <2>3, NowHas, ChannelHas DEF QueuesFit, MshrsFit
    <2>5. \A r \in R : id \in r.ids => r.wants
      BY DEF ReadReqs, Reqs
    <2>6. /\ \A e \in E : id \in e.ids => id.upper \in e.to
          /\ \A e \in M : id \in e.ids => id.upper \in e.to
          /\ \A e \in Locals(E) : id \notin e.ids
      BY DEF Entries, Misses, Locals
    <2> HIDE DEF E, M, R
    <2>7. /\ {i \in DOMAIN uppers[u].rq : uppers[u].rq[i].wants /\ id \in uppers[u].rq[i].ids}
               = PlacesIn(uppers[u].rq, Having(R, id))
          /\ {i \in DOMAIN uppers[u].pq : uppers[u].pq[i].wants /\ id \in uppers[u].pq[i].ids}
               = PlacesIn(uppers[u].pq, Having(R, id))
      <3>1. ASSUME NEW q \in Seq(R)
            PROVE  {i \in DOMAIN q : q[i].wants /\ id \in q[i].ids} = PlacesIn(q, Having(R, id))
        BY <2>5 DEF PlacesIn, Having
      <3> QED
        BY <2>4, <3>1
    <2>8. /\ {i \in DOMAIN tags : id \in tags[i].ids /\ id.upper \in tags[i].to} = PlacesIn(tags, Having(E, id))
          /\ {i \in DOMAIN stash : id \in stash[i].ids /\ id.upper \in stash[i].to} = PlacesIn(stash, Having(E, id))
          /\ {i \in DOMAIN mshrs : id \in mshrs[i].ids /\ id.upper \in mshrs[i].to} = PlacesIn(mshrs, Having(M, id))
      <3>1. ASSUME NEW T, NEW q \in Seq(T), \A e \in T : id \in e.ids => id.upper \in e.to
            PROVE  {i \in DOMAIN q : id \in q[i].ids /\ id.upper \in q[i].to} = PlacesIn(q, Having(T, id))
        BY <3>1 DEF PlacesIn, Having
      <3> QED
        BY <2>4, <2>6, <3>1
    <2> DEFINE a == CountIn(uppers[u].rq, Having(R, id))  b == CountIn(uppers[u].pq, Having(R, id))
               c == CountIn(tags, Having(E, id))  d == CountIn(stash, Having(E, id))
               f == CountIn(mshrs, Having(M, id))  g == CountIn(pq, Having(E, id))
    <2>9. Places(id) = a + b + c + d + f
      BY <2>7, <2>8 DEF Places, Count, CountIn
    <2>10. (a + b) + (g + c + d) + f = 1
      BY <2>2, NowHas, Zenon DEF PlacesOf, Waiting, Checks, E, M, R
    <2>11. /\ g = 0
           /\ a \in Nat /\ b \in Nat /\ c \in Nat /\ d \in Nat /\ f \in Nat
      <3> DEFINE T == Locals(E)
      <3>1. \A i \in 1 .. Len(pq) : pq[i] \notin Having(E, id)
        BY <2>4, <2>6 DEF Having
      <3>2. pq \in Seq(T)
        BY <2>4
      <3> HIDE DEF T
      <3>3. g = 0
        BY <3>1, <3>2, CountIsNumber
      <3> QED
        BY <2>4, <3>3, CountIsNumber
    <2> HIDE DEF a, b, c, d, f, g
    <2>12. a + b + c + d + f = 1
      BY <2>10, <2>11
    <2> QED
      BY <2>9, <2>12
  <1> QED
    BY <1>1, Invariance, PTL

\* The writes that the cache holds, as the invariant counts them.
KeptIsHeld(b) ==
  Kept(kind, sent, Now, b) <=> HoldsWrite(b) \/ \E r \in ToSet(lower.wq) : r.block = b

\* A write counts in the cache exactly if HoldsWrite finds it.
LEMMA WritesAreCounted ==
  ASSUME Fine(kind, sent, {}, Now), kind = "L2C", NEW b \in Blocks
  PROVE  KeptIsHeld(b)
  <1> DEFINE k == kind  n == sent  E == Entries(k, n)  M == Misses(k, n)
             S == WritesOf(E, b)  X == WritesOf(M, b)
             Held(u) == CountIn(uppers[u].wq, WritesTo(WriteReqs(k, n, u), b))
  <1>1. /\ UppersFit(k, n, uppers) /\ QueuesFit(k, n, Now) /\ MshrsFit(k, n, mshrs)
        /\ WritesFit(k, n, writes) /\ LowerFits(lower)
    BY NowHas, Zenon DEF Fine, Sound
  <1>2. /\ pq \in Seq(Locals(E)) /\ tags \in Seq(E) /\ stash \in Seq(E)
        /\ mshrs \in Seq(M) /\ writes \in Seq(M) /\ \A i \in DOMAIN mshrs : mshrs[i].type # "WRITE"
        /\ lower.wq \in Seq([block : Blocks])
    BY <1>1, NowHas DEF QueuesFit, MshrsFit, WritesFit, LowerFits
  <1>3. \A T, q : q \in Seq(T) =>
          {i \in DOMAIN q : q[i].type = "WRITE" /\ q[i].block = b} = PlacesIn(q, WritesOf(T, b))
    BY DEF PlacesIn, WritesOf
  <1>4. ASSUME NEW u \in UppersOn(k)
        PROVE  {i \in DOMAIN uppers[u].wq : uppers[u].wq[i].type = "WRITE" /\ BlockOf(uppers[u].wq[i].addr) = b}
                  = PlacesIn(uppers[u].wq, WritesTo(WriteReqs(k, n, u), b))
    <2>1. uppers[u].wq \in Seq(WriteReqs(k, n, u))
      BY <1>1, ChannelHas
    <2> DEFINE q == uppers[u].wq  T == WriteReqs(k, n, u)
    <2> HIDE DEF q, T
    <2>2. q \in Seq(T)
      BY <2>1 DEF q, T
    <2>3. {i \in DOMAIN q : q[i].type = "WRITE" /\ BlockOf(q[i].addr) = b} = PlacesIn(q, WritesTo(T, b))
      BY <2>2 DEF PlacesIn, WritesTo
    <2> QED
      BY <2>3 DEF q, T
  <1> DEFINE c == CountIn(tags, S)  d == CountIn(stash, S)  e == CountIn(mshrs, X)
             f == CountIn(writes, X)  g == CountIn(pq, S)
             h == CountIn(lower.wq, {[block |-> b]})
  <1>5. HoldsWrite(b) <=>
          \/ \E u \in UppersOn(k) : Held(u) > 0
          \/ c + d + e + f > 0
          \/ DirtyIn(lines, b)
    <2>1. /\ {i \in DOMAIN tags : tags[i].type = "WRITE" /\ tags[i].block = b} = PlacesIn(tags, S)
          /\ {i \in DOMAIN stash : stash[i].type = "WRITE" /\ stash[i].block = b} = PlacesIn(stash, S)
          /\ {i \in DOMAIN mshrs : mshrs[i].type = "WRITE" /\ mshrs[i].block = b} = PlacesIn(mshrs, X)
          /\ {i \in DOMAIN writes : writes[i].type = "WRITE" /\ writes[i].block = b} = PlacesIn(writes, X)
      BY <1>2, <1>3
    <2> HIDE DEF E, M
    <2> QED
      BY <1>4, <2>1 DEF HoldsWrite, Count, CountIn, DirtyIn, Uppers, UppersOn, Ways
  <1>6. Kept(k, n, Now, b) <=>
          \/ \E u \in UppersOn(k) : Held(u) > 0
          \/ g + c + d > 0
          \/ f > 0
          \/ DirtyIn(lines, b)
          \/ h > 0
    BY NowHas, Zenon DEF Kept, Checks
  <1>7. /\ c \in Nat /\ d \in Nat /\ e \in Nat /\ f \in Nat /\ g = 0 /\ e = 0 /\ h \in Nat
        /\ h = 0 <=> ~ \E r \in ToSet(lower.wq) : r.block = b
    <2> DEFINE T == Locals(E)  L == [block : Blocks]  W == {[block |-> b]}
    <2>1. /\ \A i \in 1 .. Len(pq) : pq[i] \notin S
          /\ \A i \in 1 .. Len(mshrs) : mshrs[i] \notin X
      <3>1. \A x \in Locals(E) : x \notin WritesOf(E, b)
        BY DEF Entries, Locals, WritesOf
      <3> HIDE DEF E, M
      <3> QED
        BY <1>2, <3>1 DEF WritesOf
    <2>2. pq \in Seq(T) /\ lower.wq \in Seq(L)
      BY <1>2
    <2>3. \A x \in L : x \in W <=> x.block = b
      OBVIOUS
    <2> HIDE DEF E, M, T, L, W, S, X
    <2>4. g = 0 /\ e = 0
      BY <1>2, <2>1, <2>2, CountIsNumber
    <2>5. c \in Nat /\ d \in Nat /\ f \in Nat
      BY <1>2, CountIsNumber
    <2>6. h \in Nat /\ (h = 0 <=> \A i \in 1 .. Len(lower.wq) : lower.wq[i] \notin W)
      <3> DEFINE q == lower.wq  y == CountIn(q, W)
      <3>1. y \in Nat /\ (y = 0 <=> \A i \in 1 .. Len(q) : q[i] \notin W)
        BY <2>2, CountIsNumber
      <3> QED
        BY <3>1 DEF W
    <2>7. (\A i \in 1 .. Len(lower.wq) : lower.wq[i] \notin W) <=> ~ \E r \in ToSet(lower.wq) : r.block = b
      BY <2>2, <2>3 DEF ToSet
    <2> QED
      BY <2>4, <2>5, <2>6, <2>7
  <1> HIDE DEF c, d, e, f, g, h, Held
  <1>8. /\ c + d + e + f > 0 <=> (c + d > 0 \/ f > 0)
        /\ g + c + d > 0 <=> c + d > 0
        /\ h > 0 <=> \E r \in ToSet(lower.wq) : r.block = b
    BY <1>7
  <1> QED
    BY <1>5, <1>6, <1>8 DEF KeptIsHeld

\* A write-back from above stays in the cache until it is written back below: no fill,
\* hit, merge, or eviction on the way loses it (cache.cc:107-139, 169-248, 250-294, 374-389).
THEOREM WritesStay == Spec => WritesAreKept
  <1>1. ASSUME NEW b \in Blocks
        PROVE  (Fine(kind, sent, {}, Now) /\ kind = "L2C" => KeptIsHeld(b))'
    <2>1. Fine(kind, sent, {}, Now) /\ kind = "L2C" => KeptIsHeld(b)
      BY WritesAreCounted
    <2> QED
      BY <2>1, PTL
  <1>2. IInv /\ [Next]_vars =>
          [kind = "L2C" =>
             \A b \in Blocks :
               HoldsWrite(b) => HoldsWrite(b)' \/ \E r \in ToSet(lower'.wq) : r.block = b]_vars
    <2> SUFFICES ASSUME IInv, [Next]_vars, kind = "L2C", NEW b \in Blocks, HoldsWrite(b)
                 PROVE  HoldsWrite(b)' \/ \E r \in ToSet(lower'.wq) : r.block = b
      OBVIOUS
    <2>1. Fine(kind, sent, {}, Now) /\ Len(tags) <= MaxTag * HitLatency
      BY InvIsFine
    <2>2. Kept(kind, sent, Now, b)
      BY <2>1, WritesAreCounted, Zenon DEF KeptIsHeld
    <2>3. Fine(kind, sent, {b}, Now)
      BY <2>1, <2>2 DEF Fine, AllKept
    <2>4. StepKeeps({}) /\ (StepKeeps({b}) \/ LowerChanges)
      BY <2>1, <2>3, NextKeeps
    <2>5. kind' = kind
      BY DEF Next, FromAbove, Load, Write, Prefetch, AddQueue, PrefetchLine, LowerTakes, LowerReturns,
             LowerChanges, TlbReturns, Operate, vars
    <2>6. CASE LowerChanges
      <3>1. HoldsWrite(b)' <=> HoldsWrite(b)
        BY <2>6 DEF LowerChanges, HoldsWrite, Count, SetOf, Uppers
      <3> QED
        BY <3>1
    <2>7. CASE StepKeeps({b})
      <3>1. Kept(kind', sent', Now', b)
        BY <2>5, <2>7 DEF StepKeeps, Fine, AllKept
      <3>2. KeptIsHeld(b)'
        BY <1>1, <2>4, <2>5 DEF StepKeeps
      <3> QED
        BY <3>1, <3>2, Zenon DEF KeptIsHeld
    <2> QED
      BY <2>4, <2>6, <2>7
  <1> QED
    BY <1>2, Invariance, PTL DEF Spec, WritesAreKept
=============================================================================
