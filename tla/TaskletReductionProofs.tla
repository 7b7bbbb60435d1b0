------------------------ MODULE TaskletReductionProofs ------------------------
(***************************************************************************)
(* Proofs about TaskletReduction for every number of tasklets, blocks and  *)
(* launches: the kernel has no data race and implements the promise of     *)
(* Reduction, under each of the four strategies.                           *)
(*                                                                         *)
(* Neither is inductive.  The invariant says of every place in the kernel  *)
(* which blocks each partial sum, the register and the accumulator count,  *)
(* as the blocks of a set of tasklets; that all tasklets are in the same   *)
(* stretch between two barriers; and, for the tree of handshakes, that two *)
(* tasklets meet at the same power of two.                                 *)
(***************************************************************************)
EXTENDS TaskletReduction, TLAPS

-----------------------------------------------------------------------------
(***************************************************************************)
(* Numbers.                                                                *)
(***************************************************************************)
\* Division with remainder.
LEMMA Quotient ==
  ASSUME NEW d \in Nat \ {0}, NEW a \in Nat
  PROVE  /\ a \div d \in Nat /\ a % d \in 0 .. d - 1
         /\ a = d * (a \div d) + (a % d)
  OBVIOUS

\* The remainder is determined by the division it belongs to.
LEMMA Remainder ==
  ASSUME NEW d \in Nat \ {0}, NEW k \in Int, NEW r \in 0 .. d - 1, NEW a \in Int,
         a = d * k + r
  PROVE  a % d = r
  <1> DEFINE q == a \div d  s == a % d
  <1>1. a = d * q + s /\ q \in Int /\ s \in 0 .. d - 1
    OBVIOUS
  <1> HIDE DEF q, s
  <1>2. d * (k - q) = s - r
    BY <1>1
  <1>3. k - q < 1
    <2> SUFFICES ASSUME k - q >= 1 PROVE FALSE
      BY <1>1
    <2>1. d * (k - q) >= d
      BY <1>1
    <2> QED
      BY <2>1, <1>1, <1>2
  <1>4. k - q > -1
    <2> SUFFICES ASSUME k - q <= -1 PROVE FALSE
      BY <1>1
    <2>1. d * (k - q) <= -d
      BY <1>1
    <2> QED
      BY <2>1, <1>1, <1>2
  <1>5. k - q = 0
    BY <1>1, <1>3, <1>4
  <1>6. s = r
    BY <1>1, <1>2, <1>5
  <1> QED
    BY <1>6 DEF s

-----------------------------------------------------------------------------
\* The blocks that are dealt out to the tasklets of T, each counted once.
SumOf(n, T) == [b \in BlockIds |-> IF b < n /\ b % NumTasklets \in T THEN 1 ELSE 0]

\* What tasklet t has added when its byte_index is i.
AddedUpTo(n, t, i) ==
  [b \in BlockIds |-> IF b < n /\ b % NumTasklets = t /\ b < i THEN 1 ELSE 0]

\* The smallest set that contains 1 and the double of each of its members.
PowersOfTwo ==
  {s \in Nat : \A S \in SUBSET Nat : 1 \in S /\ (\A x \in S : 2 * x \in S) => s \in S}

\* What the assumption on the constants says of the sets built from them.
LEMMA Sizes ==
  /\ NumTasklets \in Nat /\ NumTasklets > 0
  /\ MaxBlocks \in Nat /\ MaxBlocks > 0
  /\ 0 \in Tasklets /\ Tasklets \subseteq Nat
  /\ BlockIds \subseteq Nat /\ 0 \in BlockIds
  BY TaskletAssumption DEF Tasklets, BlockIds

\* A sum over a set of tasklets counts no block twice.
LEMMA SumsAreSums ==
  ASSUME NEW n, NEW T, NEW t, NEW i
  PROVE  SumOf(n, T) \in Sum /\ AddedUpTo(n, t, i) \in Sum
  BY DEF SumOf, AddedUpTo, Sum

\* Adding the sums of different tasklets gives the sum of both: the += of every
\* strategy.
LEMMA PlusOfDisjoint ==
  ASSUME NEW n, NEW S, NEW T, S \cap T = {}
  PROVE  Plus(SumOf(n, S), SumOf(n, T)) = SumOf(n, S \cup T)
  <1>1. \A b \in BlockIds : SumOf(n, S)[b] + SumOf(n, T)[b] = SumOf(n, S \cup T)[b]
    BY DEF SumOf
  <1> QED
    BY <1>1 DEF Plus, SumOf

\* Only tasklets that exist have blocks: a tree that is wider than the number of
\* tasklets adds nothing.
LEMMA SameTaskletsSameSum ==
  ASSUME NEW n, NEW S, NEW T, S \cap Tasklets = T \cap Tasklets
  PROVE  SumOf(n, S) = SumOf(n, T)
  <1>1. \A b \in BlockIds : b % NumTasklets \in Tasklets
    BY Sizes DEF Tasklets
  <1> QED
    BY <1>1 DEF SumOf

\* Nobody's blocks are none.
LEMMA SumOfNobody == ASSUME NEW n PROVE SumOf(n, {}) = Zero
  BY DEF SumOf, Zero

\* The next block of a tasklet is one round further on; there is none between.
LEMMA NextRound ==
  ASSUME NEW a \in Nat, NEW b \in Nat, NEW n \in Nat \ {0}
  PROVE  /\ (a + n) % n = a % n
         /\ a % n = b % n /\ a <= b /\ b < a + n => a = b
  <1> DEFINE p == a \div n  q == b \div n  r == a % n
  <1>1. a = n * p + r /\ p \in Nat /\ r \in 0 .. n - 1
    BY Quotient
  <1>2. q \in Nat /\ b = n * q + (b % n)
    BY Quotient
  <1> HIDE DEF p, q, r
  <1>3. a + n = n * (p + 1) + r
    BY <1>1
  <1>4. (a + n) % n = r
    BY <1>1, <1>3, Remainder
  <1>5. ASSUME a % n = b % n, a <= b, b < a + n
        PROVE  a = b
    <2>1. b = n * q + r
      BY <1>2, <1>5 DEF r
    <2>2. n * (q - p) = b - a
      BY <2>1, <1>1, <1>2
    <2>3. ASSUME q - p >= 1 PROVE FALSE
      <3>1. n * (q - p) >= n
        BY <2>3, <1>1, <1>2
      <3> QED
        BY <3>1, <2>2, <1>5
    <2>4. ASSUME q - p <= -1 PROVE FALSE
      <3>1. n * (q - p) <= -n
        BY <2>4, <1>1, <1>2
      <3> QED
        BY <3>1, <2>2, <1>5
    <2>5. q = p
      BY <2>3, <2>4, <1>1, <1>2
    <2> QED
      BY <2>1, <2>5, <1>1
  <1> QED
    BY <1>4, <1>5 DEF r

\* Before its first block a tasklet has added nothing.
LEMMA NothingAdded ==
  ASSUME NEW n, NEW t \in Tasklets
  PROVE  AddedUpTo(n, t, t) = Zero
  <1>1. NumTasklets \in Nat \ {0} /\ BlockIds \subseteq Nat /\ t \in Nat
    BY Sizes DEF Tasklets
  <1>2. ASSUME NEW b \in BlockIds, b % NumTasklets = t
        PROVE  b >= t
    <2>1. /\ b \div NumTasklets \in Nat
          /\ b = NumTasklets * (b \div NumTasklets) + (b % NumTasklets)
      BY <1>1, Quotient
    <2>2. NumTasklets * (b \div NumTasklets) >= 0
      BY <1>1, <2>1
    <2> QED
      BY <2>1, <2>2, <1>1, <1>2
  <1> QED
    BY <1>1, <1>2 DEF AddedUpTo, Zero

\* The loop of main_kernel1 over byte_index: it begins at the tasklet's number,
\* adds the tasklet's blocks one by one and misses none.
LEMMA BlockOfTasklet ==
  ASSUME NEW n \in 1 .. MaxBlocks, NEW t \in Tasklets, NEW i \in Nat,
         i % NumTasklets = t
  PROVE  /\ t <= i
         /\ AddedUpTo(n, t, t) = Zero
         /\ i >= n => AddedUpTo(n, t, i) = SumOf(n, {t})
         /\ i < n => Plus(AddedUpTo(n, t, i), JustBlock(i))
                       = AddedUpTo(n, t, i + NumTasklets)
         /\ (i + NumTasklets) % NumTasklets = t
  <1>1. NumTasklets \in Nat \ {0} /\ BlockIds \subseteq Nat /\ t \in 0 .. NumTasklets - 1
    BY Sizes DEF Tasklets
  <1>2. t <= i
    <2>1. /\ i \div NumTasklets \in Nat
          /\ i = NumTasklets * (i \div NumTasklets) + (i % NumTasklets)
      BY <1>1, Quotient
    <2>2. NumTasklets * (i \div NumTasklets) >= 0
      BY <1>1, <2>1
    <2> QED
      BY <2>1, <2>2, <1>1
  <1>4. AddedUpTo(n, t, t) = Zero
    BY NothingAdded
  <1>5. i >= n => AddedUpTo(n, t, i) = SumOf(n, {t})
    BY <1>1 DEF AddedUpTo, SumOf
  <1>6. (i + NumTasklets) % NumTasklets = t
    BY <1>1, NextRound
  <1>7. ASSUME i < n
        PROVE  Plus(AddedUpTo(n, t, i), JustBlock(i)) = AddedUpTo(n, t, i + NumTasklets)
    <2>1. i \in BlockIds /\ n \in Nat
      BY <1>1, <1>7, Sizes DEF BlockIds
    <2>2. \A b \in BlockIds : JustBlock(i)[b] = IF b = i THEN 1 ELSE 0
      BY <2>1 DEF JustBlock, Zero
    <2>3. ASSUME NEW b \in BlockIds
          PROVE  AddedUpTo(n, t, i)[b] + JustBlock(i)[b] = AddedUpTo(n, t, i + NumTasklets)[b]
      <3>1. b \in Nat
        BY <1>1
      <3>2. b % NumTasklets = t /\ i <= b /\ b < i + NumTasklets => b = i
        BY <1>1, <3>1, NextRound
      <3>3. CASE b = i
        BY <2>2, <3>1, <3>3, <1>7, <1>1 DEF AddedUpTo
      <3>4. CASE b # i
        BY <2>2, <3>1, <3>2, <3>4, <1>1 DEF AddedUpTo
      <3> QED
        BY <3>3, <3>4
    <2> QED
      BY <2>3 DEF Plus, AddedUpTo
  <1> QED
    BY <1>2, <1>4, <1>5, <1>6, <1>7

\* Divisibility by a factor.
LEMMA Multiples ==
  ASSUME NEW d \in Nat \ {0}, NEW k \in Nat, NEW a \in Nat
  PROVE  /\ (d * k) % d = 0
         /\ a % (d * k) = 0 /\ k > 0 => a % d = 0
  <1>2. \A m \in Nat : (d * m) % d = 0
    <2> TAKE m \in Nat
    <2>1. d * m \in Nat /\ d * m = d * m + 0
      OBVIOUS
    <2> QED
      BY <2>1, Remainder
  <1>3. ASSUME k > 0, a % (d * k) = 0
        PROVE  a % d = 0
    <2>1. d * k \in Nat \ {0}
      BY <1>3
    <2> DEFINE q == a \div (d * k)
    <2>2. q \in Nat /\ a = (d * k) * q + 0
      BY <2>1, <1>3, Quotient
    <2> HIDE DEF q
    <2>3. a = d * (k * q) + 0 /\ k * q \in Nat
      BY <2>2
    <2>4. PICK m \in Nat : m = k * q /\ a = d * m
      BY <2>3
    <2> QED
      BY <1>2, <2>4, Zenon
  <1> QED
    BY <1>2, <1>3

\* A multiple of 2s is a multiple of s, and its partner s further on is a
\* multiple of s but not of 2s: a tasklet is never merging and partner at once.
LEMMA PartnerNumber ==
  ASSUME NEW t \in Nat, NEW s \in Nat \ {0}, t % (2 * s) = 0
  PROVE  /\ t % s = 0
         /\ (t + s) % s = 0
         /\ (t + s) % (2 * s) # 0
  <1> DEFINE q == t \div (2 * s)
  <1>1. 2 * s \in Nat \ {0}
    OBVIOUS
  <1>2. q \in Nat /\ t = (2 * s) * q + 0
    BY <1>1, Quotient
  <1> HIDE DEF q
  <1>3. t = s * (2 * q) + 0 /\ t + s = s * (2 * q + 1) + 0 /\ t + s = (2 * s) * q + s
    BY <1>2
  <1>4. t % s = 0
    BY <1>2, <1>3, Remainder
  <1>5. (t + s) % s = 0
    BY <1>2, <1>3, Remainder
  <1>6. (t + s) % (2 * s) = s
    BY <1>1, <1>2, <1>3, Remainder
  <1> QED
    BY <1>4, <1>5, <1>6

-----------------------------------------------------------------------------
\* The powers of two are 1 and their doubles ...
LEMMA PowersBegin ==
  /\ 1 \in PowersOfTwo
  /\ \A s \in PowersOfTwo : 2 * s \in PowersOfTwo /\ s \in Nat
  BY DEF PowersOfTwo

\* ... and nothing else.
LEMMA PowersAreHalved ==
  ASSUME NEW s \in PowersOfTwo
  PROVE  s = 1 \/ \E r \in PowersOfTwo : s = 2 * r
  <1> DEFINE S == {x \in Nat : x = 1 \/ \E r \in PowersOfTwo : x = 2 * r}
  <1>1. 1 \in S
    OBVIOUS
  <1>2. ASSUME NEW x \in S
        PROVE  2 * x \in S
    <2>1. x \in PowersOfTwo
      BY PowersBegin
    <2> QED
      BY <2>1
  <1>3. S \in SUBSET Nat
    OBVIOUS
  <1> HIDE DEF S
  <1>4. s \in S
    BY <1>1, <1>2, <1>3 DEF PowersOfTwo
  <1> QED
    BY <1>4 DEF S

\* No stride is zero.
LEMMA PowersArePositive ==
  ASSUME NEW s \in PowersOfTwo
  PROVE  s \in Nat \ {0}
  <1> DEFINE S == Nat \ {0}
  <1>1. 1 \in S /\ S \in SUBSET Nat /\ \A x \in S : 2 * x \in S
    OBVIOUS
  <1> HIDE DEF S
  <1>2. s \in S
    BY <1>1 DEF PowersOfTwo
  <1> QED
    BY <1>2 DEF S

\* Of two powers of two, one divides the other, and the quotient is a power of two.
LEMMA PowersDivide ==
  ASSUME NEW a \in PowersOfTwo, NEW b \in PowersOfTwo
  PROVE  \E q \in PowersOfTwo : b = a * q \/ a = b * q
  <1> DEFINE S == {x \in Nat : \E q \in PowersOfTwo : x = a * q \/ a = x * q}
  <1>1. a \in Nat /\ \A q \in PowersOfTwo : q \in Nat
    BY PowersBegin
  <1>2. 1 \in S
    BY <1>1
  <1>3. ASSUME NEW x \in S
        PROVE  2 * x \in S
    <2>1. PICK q \in PowersOfTwo : x = a * q \/ a = x * q
      OBVIOUS
    <2>2. CASE x = a * q
      <3>1. 2 * x = a * (2 * q)
        BY <2>2, <1>1
      <3> QED
        BY <3>1, PowersBegin
    <2>3. CASE a = x * q /\ q = 1
      <3>1. 2 * x = a * (2 * 1)
        BY <2>3, <1>1
      <3> QED
        BY <3>1, PowersBegin
    <2>4. CASE a = x * q /\ q # 1
      <3>1. PICK r \in PowersOfTwo : q = 2 * r
        BY <2>4, PowersAreHalved
      <3>2. r \in Nat
        BY <1>1
      <3>3. a = (2 * x) * r
        BY <2>4, <3>1, <3>2
      <3> QED
        BY <3>3
    <2> QED
      BY <2>1, <2>2, <2>3, <2>4
  <1>4. S \in SUBSET Nat
    OBVIOUS
  <1> HIDE DEF S
  <1>5. b \in S
    BY <1>2, <1>3, <1>4 DEF PowersOfTwo
  <1> QED
    BY <1>5 DEF S

\* The double of a power of two divides every larger one.
LEMMA SmallerPower ==
  ASSUME NEW a \in PowersOfTwo, NEW b \in PowersOfTwo, a < b
  PROVE  \E k \in Nat \ {0} : b = (2 * a) * k
  <1>1. a \in Nat \ {0} /\ b \in Nat \ {0}
    BY PowersArePositive
  <1>2. PICK q \in PowersOfTwo : b = a * q \/ a = b * q
    BY PowersDivide
  <1>3. q \in Nat \ {0}
    BY PowersArePositive
  <1>4. a # b * q
    <2>1. b * q >= b
      BY <1>1, <1>3
    <2> QED
      BY <2>1, <1>1
  <1>5. q # 1
    BY <1>1, <1>2, <1>4
  <1>6. PICK r \in PowersOfTwo : q = 2 * r
    BY <1>5, PowersAreHalved
  <1>7. r \in Nat \ {0}
    BY PowersArePositive
  <1>8. b = (2 * a) * r
    BY <1>1, <1>2, <1>4, <1>6, <1>7
  <1> QED
    BY <1>7, <1>8

\* Two tasklets that meet in a handshake are at the same stride: the stride at
\* which a tasklet stops merging is determined by its number.
LEMMA PartnerAtSameStride ==
  ASSUME NEW t \in Nat, NEW s \in PowersOfTwo, NEW r \in PowersOfTwo,
         t % (2 * s) = 0,
         (t + s) % r = 0, (t + s) % (2 * r) # 0
  PROVE  r = s
  <1>1. s \in Nat \ {0} /\ r \in Nat \ {0} /\ 2 * s \in Nat \ {0} /\ 2 * r \in Nat \ {0}
    BY PowersArePositive
  <1> DEFINE p == t + s
  <1>2. p % s = 0 /\ p % (2 * s) # 0
    BY <1>1, PartnerNumber, Zenon
  <1> p \in Nat
    BY <1>1
  <1> HIDE DEF p
  <1>3. ASSUME r < s PROVE FALSE
    <2>1. PICK k \in Nat \ {0} : s = (2 * r) * k
      BY <1>3, SmallerPower
    <2> DEFINE d == 2 * r
    <2>2. d \in Nat \ {0} /\ s = d * k /\ p % s = 0 /\ k > 0
      BY <2>1, <1>1, <1>2 DEF p
    <2> HIDE DEF d
    <2>3. p % d = 0
      BY <2>2, Multiples
    <2> QED
      BY <2>3 DEF d, p
  <1>4. ASSUME s < r PROVE FALSE
    <2>1. PICK k \in Nat \ {0} : r = (2 * s) * k
      BY <1>4, SmallerPower
    <2> DEFINE d == 2 * s
    <2>2. d \in Nat \ {0} /\ r = d * k /\ p % r = 0 /\ k > 0
      BY <2>1, <1>1, <1>2 DEF p
    <2> HIDE DEF d
    <2>3. p % d = 0
      BY <2>2, Multiples
    <2> QED
      BY <2>3, <1>2 DEF d
  <1> QED
    BY <1>1, <1>3, <1>4

-----------------------------------------------------------------------------
\* The stretches of the kernel between its barriers.
Early == {"enter", "start_barrier"}
Adding == {"clear", "add"}
Finish == {"return", "write", "done"}
Levels == {"level", "load", "store", "level_barrier"} \cup Finish
Critical == {"load", "store", "unlock"}

\* The barriers keep the tasklets in the same stretch.
InPhase(P) == \A t \in Tasklets : pc[t] \in P

SamePhase ==
  \/ InPhase(Early)
  \/ /\ final = "single"
     /\ \/ InPhase(Adding \cup {"final_barrier"})
        \/ InPhase({"single_barrier"})
        \/ InPhase({"sum", "write", "done"})
  \/ /\ final = "tree_barrier"
     /\ InPhase(Adding \cup {"final_barrier"}) \/ InPhase(Levels)
  \/ /\ final = "tree_handshake"
     /\ InPhase(Adding \cup (Levels \ {"level_barrier"}))
  \/ /\ final = "mutex"
     /\ InPhase(Adding \cup Critical \cup {"lock", "mutex_barrier"}) \/ InPhase(Finish)

\* In the loop over its blocks, a tasklet has added its blocks so far.
Dealing(t) ==
  pc[t] = "add" =>
    /\ loop[t] % NumTasklets = t
    /\ partials[t] = AddedUpTo(numBlocks, t, loop[t])

\* After it, the partial sum is that of its own blocks, until the trees merge.
OwnSum(t) ==
  /\ pc[t] \notin Early \cup Adding
  /\ final \in {"single", "mutex"} \/ pc[t] = "final_barrier"
  => partials[t] = SumOf(numBlocks, {t})

\* Tasklet 0 has added the partial sums of the tasklets before loop.
SingleSum(t) ==
  pc[t] = "sum" =>
    /\ t = 0
    /\ loop[t] < NumTasklets
    /\ register[t] = SumOf(numBlocks, 0 .. loop[t] - 1)

Tree == final \in {"tree_barrier", "tree_handshake"}

\* At stride s, a multiple of s has merged the sums of the s tasklets from itself on.
Merged(t) ==
  IF pc[t] = "level_barrier" /\ Merges(t)
    THEN t .. t + 2 * loop[t] - 1
    ELSE t .. t + loop[t] - 1

TreeSum(t) ==
  Tree =>
    /\ pc[t] = "final_barrier" => loop[t] = 1
    /\ pc[t] \in Levels =>
         /\ loop[t] \in PowersOfTwo
         /\ t % loop[t] = 0 => partials[t] = SumOf(numBlocks, Merged(t))
         /\ pc[t] \in {"load", "store"} => HasPartner(t)
         /\ pc[t] = "store" =>
              register[t] = SumOf(numBlocks, t .. t + 2 * loop[t] - 1)
         /\ t = 0 /\ pc[t] \in Finish => ~ LevelsLeft(t)

\* What tasklet 0 is about to write.
Answer(t) ==
  t = 0 /\ pc[t] = "write" => register[t] = SumOf(numBlocks, Tasklets)

Local(t) ==
  /\ Dealing(t)
  /\ OwnSum(t)
  /\ SingleSum(t)
  /\ TreeSum(t)
  /\ Answer(t)

\* The first block is the input until tasklet 0 has ended.
InputKept ==
  firstBlock = IF pc[0] = "done" THEN SumOf(numBlocks, Tasklets) ELSE JustBlock(0)

\* The tasklets whose sum is in the accumulator.
Stored == {t \in Tasklets : pc[t] \in {"unlock", "mutex_barrier"} \cup Finish}

MutexSum ==
  final = "mutex" =>
    /\ pc[0] # "enter" => accum = SumOf(numBlocks, Stored)
    /\ \A t \in Tasklets : pc[t] \in Critical => lock = t
    /\ \A t \in Tasklets :
         pc[t] = "store" => register[t] = SumOf(numBlocks, Stored \cup {t})

\* Barriers keep all tasklets of the tree at the same stride; handshakes do not,
\* but a partner has left the loop at the stride at which it is merged.
BarrierLevels ==
  final = "tree_barrier" =>
    \A t, u \in Tasklets :
      pc[t] \in Levels /\ pc[u] \in Levels => loop[t] = loop[u]

HandshakeLevel(t) ==
  /\ pc[t] \in Levels => t % loop[t] = 0
  /\ pc[t] \in {"load", "store"} =>
       /\ Partner(t) \in Tasklets \ {t}
       /\ pc[Partner(t)] \in Finish /\ loop[Partner(t)] = loop[t]

HandshakeLevels == final = "tree_handshake" => \A t \in Tasklets : HandshakeLevel(t)

\* The inductive invariant.
IInv ==
  /\ TypeOK
  /\ SamePhase
  /\ \A t \in Tasklets : Local(t)
  /\ InputKept
  /\ MutexSum
  /\ BarrierLevels
  /\ HandshakeLevels

-----------------------------------------------------------------------------
\* A step leaves alone what is said of a tasklet whose variables it leaves alone.
LEMMA Untouched ==
  ASSUME NEW u \in Tasklets, Local(u),
         UNCHANGED build,
         pc'[u] = pc[u], loop'[u] = loop[u],
         register'[u] = register[u], partials'[u] = partials[u]
  PROVE  Local(u)'
  BY DEF Local, Dealing, OwnSum, SingleSum, TreeSum, Answer, Tree, Merged,
     Merges,
         HasPartner, Partner, LevelsLeft, build

\* The steps of one tasklet do not lead out of the phase.
LEMMA PhaseStep ==
  ASSUME TypeOK, SamePhase, NEW t \in Tasklets, Step(t)
  PROVE  SamePhase'
  <1> USE DEF TypeOK, SamePhase, InPhase, Early, Adding, Finish, Levels, Critical, build, Goto
  <1>1. CASE Enter(t)
    BY <1>1 DEF Enter
  <1>2. CASE ClearPartial(t)
    BY <1>2 DEF ClearPartial
  <1>3. CASE AddBlock(t)
    BY <1>3 DEF AddBlock
  <1>4. CASE AllBlocksAdded(t)
    BY <1>4 DEF AllBlocksAdded, FinalizeReduction, Strategies
  <1>5. CASE AddPartial(t)
    BY <1>5 DEF AddPartial
  <1>6. CASE AtLevel(t)
    BY <1>6 DEF AtLevel
  <1>7. CASE Handshake(t)
    BY <1>7 DEF Handshake
  <1>8. CASE LoadPartner(t)
    BY <1>8 DEF LoadPartner
  <1>9. CASE StorePartial(t)
    BY <1>9 DEF StorePartial, NextLevel
  <1>10. CASE Lock(t)
    BY <1>10 DEF Lock
  <1>11. CASE LoadAccum(t)
    BY <1>11 DEF LoadAccum
  <1>12. CASE StoreAccum(t)
    BY <1>12 DEF StoreAccum
  <1>13. CASE Unlock(t)
    BY <1>13 DEF Unlock
  <1>14. CASE Return(t)
    BY <1>14 DEF Return
  <1>15. CASE WriteResult(t)
    BY <1>15 DEF WriteResult
  <1> QED
    BY <1>1, <1>2, <1>3, <1>4, <1>5, <1>6, <1>7, <1>8, <1>9, <1>10, <1>11,
       <1>12, <1>13, <1>14, <1>15 DEF Step

\* A step of tasklet t writes nothing of another tasklet, except that a handshake
\* lets the partner leave its loop.
LEMMA OtherTasklets ==
  ASSUME TypeOK, NEW t \in Tasklets, Step(t), NEW u \in Tasklets, u # t
  PROVE  /\ UNCHANGED <<build, launches>>
         /\ loop'[u] = loop[u] /\ register'[u] = register[u] /\ partials'[u] = partials[u]
         /\ \/ pc'[u] = pc[u]
            \/ Handshake(t) /\ u = Partner(t) /\ pc[u] = "level" /\ pc'[u] = "return"
  BY DEF TypeOK, Step, build, shared, Goto, Enter, ClearPartial, AddBlock,
     AllBlocksAdded,
     AddPartial, AtLevel, Handshake, LoadPartner, StorePartial, Lock, LoadAccum,
     StoreAccum, Unlock, Return, WriteResult

\* Tasklet 0 resets mutex_accum while nobody uses it.
LEMMA EnterStep ==
  ASSUME IInv, NEW t \in Tasklets, Enter(t)
  PROVE  IInv'
  <1> USE DEF Early, Adding, Finish, Levels, Critical
  <1>1. TypeOK'
    BY SumsAreSums, SumOfNobody DEF Enter, TypeOK, IInv, Goto, build, Labels,
       Barriers
  <1>2. SamePhase'
    BY PhaseStep DEF IInv, Step
  <1>3. Local(t)'
    BY DEF Enter, IInv, TypeOK, Goto, build, Local, Dealing, OwnSum,
       SingleSum, TreeSum, Answer, Tree
  <1>4. \A u \in Tasklets : Local(u)'
    BY <1>3, OtherTasklets, Untouched DEF IInv, Step, build, Enter, Goto, TypeOK
  <1>5. InputKept'
    BY Sizes DEF Enter, IInv, InputKept, Goto, build, TypeOK
  <1>6. MutexSum'
    <2>1. ASSUME final = "mutex" PROVE Stored' = {} /\ Stored = {}
      BY <2>1 DEF Stored, Enter, IInv, SamePhase, InPhase, Goto, build, TypeOK
    <2> QED
      BY <2>1, SumOfNobody, Sizes DEF MutexSum, IInv, SamePhase, InPhase,
         Enter, Goto, build, TypeOK
  <1>7. BarrierLevels' /\ HandshakeLevels'
    BY DEF BarrierLevels, HandshakeLevels, HandshakeLevel, IInv, SamePhase,
       InPhase, Enter, Goto, build, TypeOK, Partner
  <1> QED
    BY <1>1, <1>2, <1>4, <1>5, <1>6, <1>7 DEF IInv

\* A tasklet begins with nothing added.
LEMMA ClearPartialStep ==
  ASSUME IInv, NEW t \in Tasklets, ClearPartial(t)
  PROVE  IInv'
  <1> USE DEF Early, Adding, Finish, Levels, Critical
  <1>1. TypeOK'
    BY SumsAreSums, SumOfNobody, Sizes DEF ClearPartial, TypeOK, IInv, Goto,
       build, Labels, Barriers
  <1>2. SamePhase'
    BY PhaseStep DEF IInv, Step
  <1>3. Local(t)'
    <2>1. t % NumTasklets = t
      BY Sizes, Remainder DEF Tasklets
    <2>2. AddedUpTo(numBlocks, t, t) = Zero
      BY NothingAdded
    <2> QED
      BY <2>1, <2>2 DEF ClearPartial, IInv, TypeOK, Goto, build, Local,
         Dealing, OwnSum, SingleSum, TreeSum, Answer, Tree
  <1>4. \A u \in Tasklets : Local(u)'
    BY <1>3, OtherTasklets, Untouched DEF IInv, Step, build, ClearPartial,
       Goto, TypeOK
  <1>5. InputKept'
    BY Sizes DEF ClearPartial, IInv, InputKept, Goto, build, TypeOK
  <1>6. MutexSum'
    <2>1. Stored' = Stored
      BY DEF Stored, ClearPartial, IInv, Goto, build, TypeOK
    <2> QED
      BY <2>1, Sizes DEF MutexSum, IInv, ClearPartial, Goto, build, TypeOK
  <1>7. BarrierLevels' /\ HandshakeLevels'
    BY DEF BarrierLevels, HandshakeLevels, HandshakeLevel, IInv, ClearPartial,
       Goto, build, TypeOK, Partner
  <1> QED
    BY <1>1, <1>2, <1>4, <1>5, <1>6, <1>7 DEF IInv

\* What is said of a tasklet in a handshake is kept by the steps of the others:
\* its partner has left the loop for good.
LEMMA PartnerStays ==
  ASSUME TypeOK, NEW t \in Tasklets, NEW u \in Tasklets, HandshakeLevel(u), u # t,
         \A v \in Tasklets \ {t} : pc'[v] = pc[v] /\ loop'[v] = loop[v],
         pc[t] \in Finish => pc'[t] \in Finish /\ loop'[t] = loop[t]
  PROVE  HandshakeLevel(u)'
  <1>1. pc'[u] = pc[u] /\ loop'[u] = loop[u] /\ Partner(u)' = Partner(u)
    BY DEF Partner
  <1>2. ASSUME pc[u] \in {"load", "store"}
        PROVE  /\ pc'[Partner(u)] \in Finish /\ loop'[Partner(u)] = loop[u]
               /\ Partner(u) \in Tasklets \ {u}
    BY <1>2 DEF HandshakeLevel
  <1> QED
    BY <1>1, <1>2 DEF HandshakeLevel

\* One block more; block 0 is still the input when tasklet 0 adds it.
LEMMA AddBlockStep ==
  ASSUME IInv, NEW t \in Tasklets, AddBlock(t)
  PROVE  IInv'
  <1> USE DEF Early, Adding, Finish, Levels, Critical
  <1>a. /\ partials' = [partials EXCEPT ![t] = AddedUpTo(numBlocks, t, loop'[t])]
        /\ loop' = [loop EXCEPT ![t] = @ + NumTasklets]
        /\ loop'[t] = loop[t] + NumTasklets
        /\ loop'[t] % NumTasklets = t
    <2>1. loop[t] % NumTasklets = t /\ partials[t] = AddedUpTo(numBlocks, t, loop[t])
      BY DEF AddBlock, IInv, Local, Dealing
    <2>2. loop[t] \in Nat /\ numBlocks \in 1 .. MaxBlocks /\ t \in Nat
      BY Sizes DEF IInv, TypeOK
    <2> DEFINE i == loop[t]
    <2>a. /\ t <= i
          /\ i < numBlocks =>
               Plus(AddedUpTo(numBlocks, t, i), JustBlock(i))
                 = AddedUpTo(numBlocks, t, i + NumTasklets)
          /\ (i + NumTasklets) % NumTasklets = t
      <3> HIDE DEF i
      <3>1. i \in Nat /\ i % NumTasklets = t
        BY <2>1, <2>2 DEF i
      <3> QED
        BY <3>1, <2>2, BlockOfTasklet, Zenon
    <2>3. loop[t] = 0 => t = 0
      BY <2>2, <2>a
    <2>4. loop[t] = 0 => firstBlock = JustBlock(loop[t])
      BY <2>3 DEF AddBlock, IInv, InputKept
    <2>5. partials' = [partials EXCEPT ![t] = Plus(@, JustBlock(loop[t]))]
      BY <2>4 DEF AddBlock
    <2> QED
      BY <2>1, <2>2, <2>5, <2>a DEF AddBlock, IInv, TypeOK
  <1>1. TypeOK'
    <2>1. partials' \in [Tasklets -> Sum]
      BY <1>a, SumsAreSums DEF TypeOK, IInv
    <2>2. loop' \in [Tasklets -> Nat]
      BY <1>a, Sizes DEF TypeOK, IInv
    <2> QED
      BY <2>1, <2>2 DEF AddBlock, TypeOK, IInv, build
  <1>2. SamePhase'
    BY PhaseStep DEF IInv, Step
  <1>3. Local(t)'
    BY <1>a DEF AddBlock, IInv, TypeOK, Goto, build, shared, Local, Dealing,
       OwnSum, SingleSum, TreeSum, Answer, Tree
  <1>4. \A u \in Tasklets : Local(u)'
    BY <1>3, OtherTasklets, Untouched DEF IInv, Step, build, AddBlock, Goto,
       TypeOK
  <1>5. InputKept'
    BY Sizes DEF AddBlock, IInv, InputKept, Goto, build, shared, TypeOK
  <1>6. MutexSum'
    <2>1. Stored' = Stored
      BY DEF Stored, AddBlock, IInv, Goto, build, TypeOK
    <2> QED
      BY <2>1, Sizes DEF MutexSum, IInv, AddBlock, Goto, build, shared, TypeOK
  <1>7. BarrierLevels' /\ HandshakeLevels'
    BY DEF BarrierLevels, HandshakeLevels, HandshakeLevel, IInv, AddBlock,
       Goto, build, shared, TypeOK, Partner
  <1> QED
    BY <1>1, <1>2, <1>4, <1>5, <1>6, <1>7 DEF IInv

\* A tasklet leaves the loop with the sum of exactly its blocks.
LEMMA AllBlocksAddedStep ==
  ASSUME IInv, NEW t \in Tasklets, AllBlocksAdded(t)
  PROVE  IInv'
  <1> USE DEF Early, Adding, Finish, Levels, Critical
  <1>1. TypeOK'
    BY Sizes DEF AllBlocksAdded, TypeOK, IInv, Goto, build, shared, Labels,
       Barriers, FinalizeReduction, Strategies
  <1>2. SamePhase'
    BY PhaseStep DEF IInv, Step
  <1>3. Local(t)'
    <2>1. partials[t] = SumOf(numBlocks, {t})
      BY BlockOfTasklet, Sizes DEF AllBlocksAdded, IInv, TypeOK, Local, Dealing
    <2>2. t % 1 = 0 /\ t .. t + 1 - 1 = {t} /\ t \in Nat
      BY Sizes, PartnerNumber
    <2>3. /\ pc'[t] \in {"lock", "level", "final_barrier"} /\ loop'[t] = 1
          /\ partials' = partials /\ UNCHANGED build
      BY DEF AllBlocksAdded, FinalizeReduction, IInv, TypeOK, Goto, build,
         shared, Strategies
    <2> QED
      BY <2>1, <2>2, <2>3, PowersBegin DEF Merged, Local, Dealing, OwnSum,
         SingleSum, TreeSum, Answer, Tree, build
  <1>4. \A u \in Tasklets : Local(u)'
    BY <1>3, OtherTasklets, Untouched DEF IInv, Step, build, AllBlocksAdded,
       Goto, TypeOK
  <1>5. InputKept'
    BY Sizes DEF AllBlocksAdded, FinalizeReduction, Strategies, IInv,
       InputKept, Goto, build, shared, TypeOK
  <1>6. MutexSum'
    <2>1. Stored' = Stored
      BY DEF Stored, AllBlocksAdded, FinalizeReduction, Strategies, IInv,
         Goto, build, TypeOK
    <2> QED
      BY <2>1, Sizes DEF MutexSum, IInv, AllBlocksAdded, FinalizeReduction,
         Goto, build, shared, TypeOK
  <1>7. BarrierLevels' /\ HandshakeLevels'
    <2>1. BarrierLevels'
      BY DEF BarrierLevels, IInv, AllBlocksAdded, FinalizeReduction, Goto,
         build, shared, TypeOK
    <2>2. t % 1 = 0
      BY Sizes, PartnerNumber
    <2>3. HandshakeLevels'
      BY <2>2 DEF HandshakeLevels, HandshakeLevel, IInv, AllBlocksAdded,
         FinalizeReduction, Goto, build, shared, TypeOK, Partner
    <2> QED
      BY <2>1, <2>3
  <1> QED
    BY <1>1, <1>2, <1>4, <1>5, <1>6, <1>7 DEF IInv

\* reduce_single_tasklet: the register holds the sums of the tasklets passed.
LEMMA AddPartialStep ==
  ASSUME IInv, NEW t \in Tasklets, AddPartial(t)
  PROVE  IInv'
  <1> USE DEF Early, Adding, Finish, Levels, Critical
  <1>a. /\ final = "single" /\ t = 0
        /\ register' = [register EXCEPT ![t] = SumOf(numBlocks, 0 .. loop[t])]
        /\ loop[t] \in Tasklets
        /\ ~ loop[t] + 1 < NumTasklets => 0 .. loop[t] = Tasklets
        /\ loop'[t] = loop[t] + 1 /\ 0 .. loop'[t] - 1 = 0 .. loop[t]
    <2>1. t = 0 /\ loop[t] < NumTasklets /\ register[t] = SumOf(numBlocks, 0 .. loop[t] - 1)
      BY DEF AddPartial, IInv, Local, SingleSum
    <2>2. loop[t] \in Nat /\ loop'[t] = loop[t] + 1
      BY Sizes DEF IInv, TypeOK, AddPartial
    <2>3. loop[t] \in Tasklets /\ 0 .. loop'[t] - 1 = 0 .. loop[t]
      BY <2>1, <2>2, Sizes DEF Tasklets
    <2>4. final = "single" /\ pc[loop[t]] \in {"sum", "write", "done"}
      BY <2>3 DEF IInv, SamePhase, InPhase, AddPartial
    <2>5. partials[loop[t]] = SumOf(numBlocks, {loop[t]})
      BY <2>3, <2>4 DEF IInv, Local, OwnSum
    <2>6. /\ 0 .. loop[t] = (0 .. loop[t] - 1) \cup {loop[t]}
          /\ (0 .. loop[t] - 1) \cap {loop[t]} = {}
      BY <2>2
    <2>7. Plus(register[t], partials[loop[t]]) = SumOf(numBlocks, 0 .. loop[t])
      BY <2>1, <2>5, <2>6, PlusOfDisjoint
    <2>8. ~ loop[t] + 1 < NumTasklets => 0 .. loop[t] = Tasklets
      BY <2>1, <2>2, Sizes DEF Tasklets
    <2> QED
      BY <2>1, <2>2, <2>3, <2>4, <2>7, <2>8 DEF AddPartial, IInv, TypeOK
  <1>1. TypeOK'
    BY <1>a, SumsAreSums, Sizes DEF AddPartial, TypeOK, IInv, Goto, build,
       shared, Labels, Barriers
  <1>2. SamePhase'
    BY PhaseStep DEF IInv, Step
  <1>3. Local(t)'
    BY <1>a DEF AddPartial, IInv, TypeOK, Goto, build, shared, Local, Dealing,
       OwnSum, SingleSum, TreeSum, Answer, Tree
  <1>4. \A u \in Tasklets : Local(u)'
    BY <1>3, OtherTasklets, Untouched DEF IInv, Step, build, AddPartial, Goto,
       TypeOK
  <1>5. InputKept'
    BY Sizes DEF AddPartial, IInv, InputKept, Goto, build, shared, TypeOK
  <1>6. MutexSum'
    BY <1>a DEF MutexSum, AddPartial, build
  <1>7. BarrierLevels' /\ HandshakeLevels'
    BY <1>a DEF BarrierLevels, HandshakeLevels, AddPartial, build
  <1> QED
    BY <1>1, <1>2, <1>4, <1>5, <1>6, <1>7 DEF IInv

\* A level without a partner: the tasklet covers the next level already.
LEMMA AtLevelStep ==
  ASSUME IInv, NEW t \in Tasklets, AtLevel(t)
  PROVE  IInv'
  <1> USE DEF Early, Adding, Finish, Levels, Critical
  <1>a. /\ Tree /\ pc[t] = "level"
        /\ loop[t] \in PowersOfTwo
        /\ t % loop[t] = 0 => partials[t] = SumOf(numBlocks, t .. t + loop[t] - 1)
    BY DEF AtLevel, IInv, SamePhase, InPhase, Local, TreeSum, Tree, Merged
  <1>b. ASSUME Merges(t), ~ Partner(t) < NumTasklets
        PROVE  partials[t] = SumOf(numBlocks, t .. t + 2 * loop[t] - 1)
    <2>1. loop[t] \in Nat \ {0} /\ t \in Nat /\ t % (2 * loop[t]) = 0
      BY <1>a, <1>b, PowersArePositive, Sizes DEF Merges
    <2>2. t % loop[t] = 0
      BY <2>1, PartnerNumber
    <2>3. (t .. t + 2 * loop[t] - 1) \cap Tasklets = (t .. t + loop[t] - 1) \cap Tasklets
      BY <1>b, <2>1, Sizes DEF Tasklets, Partner
    <2> QED
      BY <1>a, <2>2, <2>3, SameTaskletsSameSum
  <1>1. TypeOK'
    BY Sizes DEF AtLevel, TypeOK, IInv, Goto, build, shared, Labels, Barriers
  <1>2. SamePhase'
    BY PhaseStep DEF IInv, Step
  <1>3. Local(t)'
    <2>1. loop[t] \in PowersOfTwo /\ loop[t] \in Nat \ {0} /\ t \in Nat
      BY <1>a, PowersArePositive, Sizes
    <2>2. CASE ~ LevelsLeft(t) /\ pc' = [pc EXCEPT ![t] = "return"] /\ UNCHANGED loop
      BY <1>a, <2>1, <2>2 DEF AtLevel, IInv, TypeOK, build, shared,
         LevelsLeft, Merged, Local, Dealing, OwnSum, SingleSum, TreeSum,
         Answer, Tree
    <2>3. CASE /\ LevelsLeft(t) /\ final = "tree_barrier"
               /\ Goto(t, IF HasPartner(t) THEN "load" ELSE "level_barrier")
               /\ UNCHANGED loop
      <3>1. CASE HasPartner(t)
        BY <1>a, <2>1, <2>3, <3>1 DEF AtLevel, IInv, TypeOK, build, shared,
           Goto, Merged, HasPartner, Merges, Partner, Local, Dealing, OwnSum,
           SingleSum, TreeSum, Answer, Tree
      <3>2. CASE ~ HasPartner(t)
        <4>1. Merges(t) => partials[t] = SumOf(numBlocks, t .. t + 2 * loop[t] - 1)
          BY <1>b, <3>2 DEF HasPartner
        <4> QED
          BY <1>a, <2>1, <2>3, <3>2, <4>1 DEF AtLevel, IInv, TypeOK, build,
             shared, Goto, Merged, Merges, Local, Dealing, OwnSum, SingleSum,
             TreeSum, Answer, Tree
      <3> QED
        BY <3>1, <3>2
    <2>4. CASE /\ LevelsLeft(t) /\ final = "tree_handshake"
               /\ Merges(t) /\ ~ HasPartner(t)
               /\ loop' = [loop EXCEPT ![t] = 2 * @] /\ UNCHANGED pc
      <3>1. loop'[t] = 2 * loop[t] /\ loop'[t] \in PowersOfTwo
        BY <2>1, <2>4, PowersBegin DEF IInv, TypeOK
      <3>2. partials[t] = SumOf(numBlocks, t .. t + 2 * loop[t] - 1)
        BY <1>b, <2>4 DEF HasPartner
      <3> QED
        BY <1>a, <2>1, <2>4, <3>1, <3>2 DEF AtLevel, IInv, TypeOK, build,
           shared, Merged, Merges, Local, Dealing, OwnSum, SingleSum, TreeSum,
           Answer, Tree
    <2> QED
      BY <2>2, <2>3, <2>4 DEF AtLevel, Goto
  <1>4. \A u \in Tasklets : Local(u)'
    BY <1>3, OtherTasklets, Untouched DEF IInv, Step, build, AtLevel, Goto,
       TypeOK
  <1>5. InputKept'
    BY Sizes DEF AtLevel, IInv, InputKept, Goto, build, shared, TypeOK
  <1>6. MutexSum'
    BY <1>a DEF MutexSum, AtLevel, build, Tree
  <1>7. BarrierLevels' /\ HandshakeLevels'
    <2>1. BarrierLevels'
      BY <1>a, SMTT(30) DEF BarrierLevels, IInv, AtLevel, Goto, build, shared, TypeOK
    <2>2. HandshakeLevels'
      BY <1>a, PartnerStays, SMTT(30) DEF HandshakeLevels, HandshakeLevel, IInv,
         AtLevel, Goto, build, shared, TypeOK, Merges, Finish
    <2> QED
      BY <2>1, <2>2
  <1> QED
    BY <1>1, <1>2, <1>4, <1>5, <1>6, <1>7 DEF IInv

\* A handshake brings two neighbouring sums of the same width together.
LEMMA HandshakeStep ==
  ASSUME IInv, NEW t \in Tasklets, Handshake(t)
  PROVE  IInv'
  <1> USE DEF Early, Adding, Finish, Levels, Critical
  <1>d. PICK p : p = Partner(t)
    OBVIOUS
  <1>a. /\ p \in Tasklets /\ p # t /\ p # 0
        /\ pc[p] = "level" /\ pc[t] = "level" /\ ~ Merges(p) /\ Merges(t) /\ HasPartner(t)
        /\ loop[t] \in PowersOfTwo /\ loop[p] \in PowersOfTwo
        /\ p % loop[p] = 0
        /\ final = "tree_handshake"
    <2>1. final = "tree_handshake" /\ pc[t] = "level" /\ Merges(t) /\ p < NumTasklets
      BY <1>d DEF Handshake, HasPartner
    <2>2. loop[t] \in PowersOfTwo
      BY <2>1 DEF IInv, Local, TreeSum, Tree
    <2>3. p \in Tasklets /\ p # t /\ p # 0
      BY <1>d, <2>1, <2>2, PowersArePositive, Sizes DEF Partner, Tasklets
    <2>4. pc[p] = "level" /\ ~ Merges(p)
      BY <1>d DEF Handshake
    <2>5. loop[p] \in PowersOfTwo /\ p % loop[p] = 0
      BY <2>1, <2>3, <2>4 DEF IInv, Local, TreeSum, Tree, HandshakeLevels,
         HandshakeLevel
    <2> QED
      BY <1>d, <2>1, <2>2, <2>3, <2>4, <2>5 DEF HasPartner
  <1>b. /\ pc' = [pc EXCEPT ![t] = "load", ![p] = "return"]
        /\ UNCHANGED <<build, loop, register, shared, launches>>
        /\ pc[t] = "level" /\ final = "tree_handshake" /\ HasPartner(t)
        /\ t # p /\ p \in Tasklets
    BY <1>a, <1>d DEF Handshake
  <1>c. loop[p] = loop[t]
    <2> DEFINE s == loop[t]  r == loop[p]
    <2>1. /\ t \in Nat /\ s \in PowersOfTwo /\ r \in PowersOfTwo
          /\ t % (2 * s) = 0 /\ (t + s) % r = 0 /\ (t + s) % (2 * r) # 0
      BY <1>a, <1>d, Sizes DEF Merges, Partner
    <2> HIDE DEF s, r
    <2>2. r = s
      BY <2>1, PartnerAtSameStride, Zenon
    <2> QED
      BY <2>2 DEF r, s
  <1>e. \A u \in Tasklets \ {t, p} : pc'[u] = pc[u]
    BY <1>b DEF IInv, TypeOK
  <1>1. TypeOK'
    BY <1>b DEF TypeOK, IInv, build, shared, Labels, Barriers
  <1>2. SamePhase'
    BY PhaseStep DEF IInv, Step
  <1>3. Local(t)'
    BY <1>b DEF Handshake, IInv, TypeOK, build, shared, Merged, HasPartner,
       Merges, Partner, LevelsLeft, Local, Dealing, OwnSum, SingleSum,
       TreeSum, Answer, Tree
  <1>4. \A u \in Tasklets : Local(u)'
    <2>1. ASSUME NEW u \in Tasklets, u # t, u # p
          PROVE  Local(u)'
      BY <2>1, <1>b, <1>e, Untouched DEF IInv, shared
    <2>2. Local(p)'
      BY <1>a, <1>b DEF IInv, TypeOK, build, shared, Merged, Merges, Local,
         Dealing, OwnSum, SingleSum, TreeSum, Answer, Tree
    <2> QED
      BY <2>1, <2>2, <1>3
  <1>5. InputKept'
    BY <1>a, <1>b, Sizes DEF IInv, InputKept, build, shared, TypeOK
  <1>6. MutexSum'
    BY <1>b DEF MutexSum, build
  <1>7. BarrierLevels' /\ HandshakeLevels'
    <2>1. BarrierLevels'
      BY <1>b DEF BarrierLevels, build
    <2>2. HandshakeLevel(t)'
      BY <1>a, <1>b, <1>c, <1>d DEF HandshakeLevel, HandshakeLevels, IInv,
         TypeOK, Partner
    <2>3. HandshakeLevel(p)'
      BY <1>a, <1>b DEF HandshakeLevel, IInv, TypeOK
    <2>4. ASSUME NEW u \in Tasklets, u # t, u # p
          PROVE  HandshakeLevel(u)'
      <3>1. HandshakeLevel(u) /\ pc'[u] = pc[u] /\ loop' = loop /\ Partner(u)' = Partner(u)
        BY <2>4, <1>b, <1>e DEF IInv, HandshakeLevels, Partner
      <3>2. ASSUME pc[u] \in {"load", "store"}
            PROVE  pc'[Partner(u)] = pc[Partner(u)]
        BY <3>1, <3>2, <1>a, <1>b, <1>e DEF HandshakeLevel
      <3> QED
        BY <3>1, <3>2 DEF HandshakeLevel
    <2> QED
      BY <2>1, <2>2, <2>3, <2>4 DEF HandshakeLevels
  <1> QED
    BY <1>1, <1>2, <1>4, <1>5, <1>6, <1>7 DEF IInv

\* The partner's sum is complete and of the same width when it is read.
LEMMA LoadPartnerStep ==
  ASSUME IInv, NEW t \in Tasklets, LoadPartner(t)
  PROVE  IInv'
  <1> USE DEF Early, Adding, Finish, Levels, Critical
  <1>a. /\ Tree /\ pc[t] = "load"
        /\ loop[t] \in PowersOfTwo
        /\ HasPartner(t)
        /\ t % loop[t] = 0 => partials[t] = SumOf(numBlocks, t .. t + loop[t] - 1)
    BY DEF LoadPartner, IInv, SamePhase, InPhase, Local, TreeSum, Tree, Merged
  <1> DEFINE p == Partner(t)  s == loop[t]
  <1>b. /\ t % s = 0 /\ p % s = 0 /\ ~ p % (2 * s) = 0
        /\ p \in Tasklets /\ s \in Nat \ {0} /\ t \in Nat
    <2>1. s \in Nat \ {0} /\ t \in Nat /\ t % (2 * s) = 0 /\ p = t + s /\ p < NumTasklets
      BY <1>a, PowersArePositive, Sizes DEF HasPartner, Merges, Partner
    <2>2. p \in Tasklets
      BY <2>1, Sizes DEF Tasklets
    <2> QED
      BY <2>1, <2>2, PartnerNumber
  <1>c. register' = [register EXCEPT ![t] = SumOf(numBlocks, t .. t + 2 * s - 1)]
    <2>1. loop[p] = s /\ pc[p] \in Levels
      BY <1>a, <1>b DEF Tree, IInv, SamePhase, InPhase, BarrierLevels,
         HandshakeLevels, HandshakeLevel
    <2>2. ~ (pc[p] = "level_barrier" /\ Merges(p))
      BY <2>1, <1>b DEF Merges
    <2>3. partials[p] = SumOf(numBlocks, p .. p + s - 1)
      BY <2>1, <2>2, <1>a, <1>b DEF IInv, Local, TreeSum, Merged
    <2>4. /\ (t .. t + s - 1) \cap (p .. p + s - 1) = {}
          /\ (t .. t + s - 1) \cup (p .. p + s - 1) = t .. t + 2 * s - 1
      BY <1>b DEF Partner
    <2>5. Plus(partials[t], partials[p]) = SumOf(numBlocks, t .. t + 2 * s - 1)
      <3> DEFINE S == t .. t + s - 1  T == p .. p + s - 1
      <3>1. S \cap T = {} /\ S \cup T = t .. t + 2 * s - 1
        BY <2>4
      <3>2. partials[t] = SumOf(numBlocks, S) /\ partials[p] = SumOf(numBlocks, T)
        BY <1>a, <1>b, <2>3
      <3> HIDE DEF S, T
      <3>3. Plus(partials[t], partials[p]) = SumOf(numBlocks, S \cup T)
        BY <3>1, <3>2, PlusOfDisjoint
      <3> QED
        BY <3>1, <3>3
    <2> QED
      BY <2>5 DEF LoadPartner
  <1>1. TypeOK'
    <2>1. register' \in [Tasklets -> Sum]
      BY <1>c, SumsAreSums DEF TypeOK, IInv
    <2> QED
      BY <2>1 DEF LoadPartner, TypeOK, IInv, Goto, build, shared, Labels,
         Barriers
  <1>2. SamePhase'
    BY PhaseStep DEF IInv, Step
  <1>3. Local(t)'
    BY <1>a, <1>b, <1>c DEF LoadPartner, IInv, TypeOK, Goto, build, shared,
       Merged, HasPartner, Merges, Partner, LevelsLeft, Local, Dealing,
       OwnSum, SingleSum, TreeSum, Answer, Tree
  <1>4. \A u \in Tasklets : Local(u)'
    BY <1>3, OtherTasklets, Untouched DEF IInv, Step, build, LoadPartner,
       Goto, TypeOK
  <1>5. InputKept'
    BY Sizes DEF LoadPartner, IInv, InputKept, Goto, build, shared, TypeOK
  <1>6. MutexSum'
    BY <1>a DEF MutexSum, LoadPartner, build, Tree
  <1>7. BarrierLevels' /\ HandshakeLevels'
    <2>1. BarrierLevels'
      BY <1>a DEF BarrierLevels, IInv, LoadPartner, Goto, build, shared, TypeOK
    <2>2. HandshakeLevels'
      <3>1. \A u \in Tasklets \ {t} : pc'[u] = pc[u]
        BY DEF IInv, TypeOK, LoadPartner, Goto
      <3>2. final = "tree_handshake" => HandshakeLevel(t)'
        BY <1>a, <3>1 DEF HandshakeLevels, HandshakeLevel, IInv, LoadPartner,
           Goto, TypeOK, Partner
      <3> QED
        BY <1>a, <3>1, <3>2, PartnerStays DEF HandshakeLevels, IInv,
           LoadPartner, build
    <2> QED
      BY <2>1, <2>2
  <1> QED
    BY <1>1, <1>2, <1>4, <1>5, <1>6, <1>7 DEF IInv

\* The tasklet covers the next level.
LEMMA StorePartialStep ==
  ASSUME IInv, NEW t \in Tasklets, StorePartial(t)
  PROVE  IInv'
  <1> USE DEF Early, Adding, Finish, Levels, Critical
  <1>a. /\ Tree /\ pc[t] = "store"
        /\ loop[t] \in PowersOfTwo /\ 2 * loop[t] \in PowersOfTwo /\ loop[t] \in Nat
        /\ HasPartner(t)
        /\ register[t] = SumOf(numBlocks, t .. t + 2 * loop[t] - 1)
    BY PowersBegin DEF StorePartial, IInv, SamePhase, InPhase, Local, TreeSum,
       Tree
  <1>b. /\ partials' = [partials EXCEPT ![t] = SumOf(numBlocks, t .. t + 2 * loop[t] - 1)]
        /\ final = "tree_handshake" => loop' = [loop EXCEPT ![t] = 2 * loop[t]]
        /\ final = "tree_barrier" => loop' = loop
    BY <1>a DEF StorePartial, IInv, TypeOK
  <1>1. TypeOK'
    BY <1>a, <1>b, SumsAreSums, Sizes DEF StorePartial, NextLevel, TypeOK,
       IInv, Goto, build, Labels, Barriers, Tree
  <1>2. SamePhase'
    BY PhaseStep DEF IInv, Step
  <1>3. Local(t)'
    BY <1>a, <1>b DEF StorePartial, NextLevel, IInv, TypeOK, Goto, build,
       Merged, HasPartner, Merges, Partner, LevelsLeft, Local, Dealing,
       OwnSum, SingleSum, TreeSum, Answer, Tree
  <1>4. \A u \in Tasklets : Local(u)'
    BY <1>3, OtherTasklets, Untouched DEF IInv, Step, build, StorePartial,
       Goto, TypeOK
  <1>5. InputKept'
    BY Sizes DEF StorePartial, NextLevel, IInv, InputKept, Goto, build, TypeOK
  <1>6. MutexSum'
    BY <1>a DEF MutexSum, StorePartial, build, Tree
  <1>7. BarrierLevels' /\ HandshakeLevels'
    <2>1. BarrierLevels'
      BY <1>a, <1>b DEF BarrierLevels, IInv, StorePartial, NextLevel, Goto,
         build, TypeOK
    <2>2. HandshakeLevels'
      <3>1. \A u \in Tasklets \ {t} : pc'[u] = pc[u] /\ loop'[u] = loop[u]
        BY DEF IInv, TypeOK, StorePartial, Goto
      <3>2. final = "tree_handshake" => HandshakeLevel(t)'
        BY <1>a, <1>b DEF HandshakeLevel, IInv, StorePartial, NextLevel, Goto,
           TypeOK, HasPartner, Merges
      <3> QED
        BY <1>a, <3>1, <3>2, PartnerStays DEF HandshakeLevels, IInv,
           StorePartial, build
    <2> QED
      BY <2>1, <2>2
  <1> QED
    BY <1>1, <1>2, <1>4, <1>5, <1>6, <1>7 DEF IInv

\* The mutex is given to one tasklet.
LEMMA LockStep ==
  ASSUME IInv, NEW t \in Tasklets, Lock(t)
  PROVE  IInv'
  <1> USE DEF Early, Adding, Finish, Levels, Critical
  <1>a. final = "mutex" /\ pc[t] = "lock" /\ lock = Nobody
    BY DEF Lock, IInv, SamePhase, InPhase
  <1>b. \A u \in Tasklets : pc[u] \notin Critical
    BY <1>a, Sizes DEF IInv, MutexSum, Nobody
  <1>1. TypeOK'
    BY Sizes DEF Lock, TypeOK, IInv, Goto, build, shared, Labels, Barriers
  <1>2. SamePhase'
    BY PhaseStep DEF IInv, Step
  <1>3. Local(t)'
    BY <1>a DEF Lock, IInv, TypeOK, Goto, build, Local, Dealing, OwnSum,
       SingleSum, TreeSum, Answer, Tree
  <1>4. \A u \in Tasklets : Local(u)'
    BY <1>3, OtherTasklets, Untouched DEF IInv, Step, build, Lock, Goto, TypeOK
  <1>5. InputKept'
    BY Sizes DEF Lock, IInv, InputKept, Goto, build, shared, TypeOK
  <1>6. MutexSum'
    <2>1. Stored' = Stored
      BY DEF Stored, Lock, IInv, Goto, TypeOK
    <2> QED
      BY <1>b, <2>1, Sizes DEF MutexSum, IInv, Lock, Goto, build, TypeOK
  <1>7. BarrierLevels' /\ HandshakeLevels'
    BY <1>a DEF BarrierLevels, HandshakeLevels, Lock, build
  <1> QED
    BY <1>1, <1>2, <1>4, <1>5, <1>6, <1>7 DEF IInv

\* Under the mutex, the accumulator holds the sums of all that have stored.
LEMMA LoadAccumStep ==
  ASSUME IInv, NEW t \in Tasklets, LoadAccum(t)
  PROVE  IInv'
  <1> USE DEF Early, Adding, Finish, Levels, Critical
  <1>a. /\ Stored' = Stored /\ t \notin Stored /\ pc[0] # "enter"
        /\ \A u \in Tasklets \ {t} : pc[u] \notin Critical
    BY Sizes DEF Stored, LoadAccum, IInv, SamePhase, InPhase, MutexSum, Goto,
       TypeOK
  <1>b. register' = [register EXCEPT ![t] = SumOf(numBlocks, Stored \cup {t})]
    <2>1. accum = SumOf(numBlocks, Stored) /\ partials[t] = SumOf(numBlocks, {t})
      BY <1>a DEF LoadAccum, IInv, MutexSum, Local, OwnSum
    <2>2. Plus(accum, partials[t]) = SumOf(numBlocks, Stored \cup {t})
      BY <1>a, <2>1, PlusOfDisjoint
    <2> QED
      BY <2>2 DEF LoadAccum
  <1>1. TypeOK'
    <2>1. register' \in [Tasklets -> Sum]
      BY <1>b, SumsAreSums DEF TypeOK, IInv
    <2> QED
      BY <2>1 DEF LoadAccum, TypeOK, IInv, Goto, build, shared, Labels, Barriers
  <1>2. SamePhase'
    BY PhaseStep DEF IInv, Step
  <1>3. Local(t)'
    BY <1>b DEF LoadAccum, IInv, TypeOK, Goto, build, shared, Local, Dealing,
       OwnSum, SingleSum, TreeSum, Answer, Tree
  <1>4. \A u \in Tasklets : Local(u)'
    BY <1>3, OtherTasklets, Untouched DEF IInv, Step, build, LoadAccum, Goto,
       TypeOK
  <1>5. InputKept'
    BY Sizes DEF LoadAccum, IInv, InputKept, Goto, build, shared, TypeOK
  <1>6. MutexSum'
    BY <1>a, <1>b, Sizes DEF MutexSum, IInv, LoadAccum, Goto, build, shared,
       TypeOK
  <1>7. BarrierLevels' /\ HandshakeLevels'
    BY DEF BarrierLevels, HandshakeLevels, LoadAccum, build
  <1> QED
    BY <1>1, <1>2, <1>4, <1>5, <1>6, <1>7 DEF IInv

\* One tasklet more has stored its sum.
LEMMA StoreAccumStep ==
  ASSUME IInv, NEW t \in Tasklets, StoreAccum(t)
  PROVE  IInv'
  <1> USE DEF Early, Adding, Finish, Levels, Critical
  <1>a. /\ Stored' = Stored \cup {t} /\ pc[0] # "enter"
        /\ \A u \in Tasklets \ {t} : pc[u] \notin Critical
        /\ accum' = SumOf(numBlocks, Stored \cup {t})
    BY Sizes DEF Stored, StoreAccum, IInv, SamePhase, InPhase, MutexSum, Goto,
       TypeOK
  <1>1. TypeOK'
    BY <1>a, SumsAreSums DEF StoreAccum, TypeOK, IInv, Goto, build, Labels,
       Barriers
  <1>2. SamePhase'
    BY PhaseStep DEF IInv, Step
  <1>3. Local(t)'
    BY DEF StoreAccum, IInv, TypeOK, Goto, build, Local, Dealing, OwnSum,
       SingleSum, TreeSum, Answer, Tree
  <1>4. \A u \in Tasklets : Local(u)'
    BY <1>3, OtherTasklets, Untouched DEF IInv, Step, build, StoreAccum, Goto,
       TypeOK
  <1>5. InputKept'
    BY Sizes DEF StoreAccum, IInv, InputKept, Goto, build, shared, TypeOK
  <1>6. MutexSum'
    BY <1>a, Sizes DEF MutexSum, IInv, StoreAccum, Goto, build, TypeOK
  <1>7. BarrierLevels' /\ HandshakeLevels'
    BY DEF BarrierLevels, HandshakeLevels, StoreAccum, build
  <1> QED
    BY <1>1, <1>2, <1>4, <1>5, <1>6, <1>7 DEF IInv

\* The mutex is released when the sum is stored.
LEMMA UnlockStep ==
  ASSUME IInv, NEW t \in Tasklets, Unlock(t)
  PROVE  IInv'
  <1> USE DEF Early, Adding, Finish, Levels, Critical
  <1>a. final = "mutex" /\ pc[t] = "unlock"
    BY DEF Unlock, IInv, SamePhase, InPhase
  <1>b. \A u \in Tasklets \ {t} : pc[u] \notin Critical
    BY <1>a DEF IInv, MutexSum
  <1>1. TypeOK'
    BY Sizes DEF Unlock, TypeOK, IInv, Goto, build, shared, Labels, Barriers
  <1>2. SamePhase'
    BY PhaseStep DEF IInv, Step
  <1>3. Local(t)'
    BY <1>a DEF Unlock, IInv, TypeOK, Goto, build, Local, Dealing, OwnSum,
       SingleSum, TreeSum, Answer, Tree
  <1>4. \A u \in Tasklets : Local(u)'
    BY <1>3, OtherTasklets, Untouched DEF IInv, Step, build, Unlock, Goto,
       TypeOK
  <1>5. InputKept'
    BY Sizes DEF Unlock, IInv, InputKept, Goto, build, shared, TypeOK
  <1>6. MutexSum'
    <2>1. Stored' = Stored
      BY DEF Stored, Unlock, IInv, Goto, TypeOK
    <2> QED
      BY <1>b, <2>1, Sizes DEF MutexSum, IInv, Unlock, Goto, build, TypeOK
  <1>7. BarrierLevels' /\ HandshakeLevels'
    BY <1>a DEF BarrierLevels, HandshakeLevels, Unlock, build
  <1> QED
    BY <1>1, <1>2, <1>4, <1>5, <1>6, <1>7 DEF IInv

\* Tasklet 0 returns the sum of all tasklets: with the mutex because all have
\* passed the barrier, in the trees because its sum is as wide as the tasklets.
LEMMA ReturnStep ==
  ASSUME IInv, NEW t \in Tasklets, Return(t)
  PROVE  IInv'
  <1> USE DEF Early, Adding, Finish, Levels, Critical
  <1>a. t = 0 => (IF final = "mutex" THEN accum ELSE partials[t])
                   = SumOf(numBlocks, Tasklets)
    <2> SUFFICES ASSUME t = 0
                 PROVE  (IF final = "mutex" THEN accum ELSE partials[t])
                          = SumOf(numBlocks, Tasklets)
      OBVIOUS
    <2>1. CASE final = "mutex"
      <3>1. pc[0] # "enter" /\ Stored = Tasklets
        BY <2>1, Sizes DEF Return, IInv, SamePhase, InPhase, Stored
      <3> QED
        BY <2>1, <3>1 DEF IInv, MutexSum
    <2>2. CASE final # "mutex"
      <3>1. /\ Tree /\ loop[0] \in PowersOfTwo /\ ~ loop[0] < NumTasklets
            /\ 0 % loop[0] = 0 => partials[0] = SumOf(numBlocks, 0 .. 0 + loop[0] - 1)
        BY <2>2, Sizes DEF Return, IInv, SamePhase, InPhase, Tree, Local,
           TreeSum, Merged, LevelsLeft
      <3>2. loop[0] \in Nat \ {0}
        BY <3>1, PowersArePositive
      <3>3. 0 % loop[0] = 0
        BY <3>2, Multiples
      <3>4. (0 .. 0 + loop[0] - 1) \cap Tasklets = Tasklets \cap Tasklets
        BY <3>1, <3>2, Sizes DEF Tasklets
      <3> QED
        BY <2>2, <3>1, <3>3, <3>4, SameTaskletsSameSum
    <2> QED
      BY <2>1, <2>2
  <1>1. TypeOK'
    BY Sizes DEF Return, TypeOK, IInv, Goto, build, shared, Labels, Barriers
  <1>2. SamePhase'
    BY PhaseStep DEF IInv, Step
  <1>3. Local(t)'
    BY <1>a DEF Return, IInv, TypeOK, Goto, build, shared, Merged, Merges,
       HasPartner, Partner, LevelsLeft, Local, Dealing, OwnSum, SingleSum,
       TreeSum, Answer, Tree
  <1>4. \A u \in Tasklets : Local(u)'
    BY <1>3, OtherTasklets, Untouched DEF IInv, Step, build, Return, Goto,
       TypeOK
  <1>5. InputKept'
    BY Sizes DEF Return, IInv, InputKept, Goto, build, shared, TypeOK
  <1>6. MutexSum'
    <2>1. Stored' = Stored
      BY DEF Stored, Return, IInv, Goto, TypeOK
    <2> QED
      BY <2>1, Sizes DEF MutexSum, IInv, Return, Goto, build, shared, TypeOK
  <1>7. BarrierLevels' /\ HandshakeLevels'
    <2>1. BarrierLevels'
      BY DEF BarrierLevels, IInv, Return, Goto, build, shared, TypeOK
    <2>2. HandshakeLevels'
      <3>1. \A u \in Tasklets \ {t} : pc'[u] = pc[u] /\ loop'[u] = loop[u]
        BY DEF IInv, TypeOK, Return, Goto
      <3>2. final = "tree_handshake" => HandshakeLevel(t)'
        BY DEF HandshakeLevels, HandshakeLevel, IInv, Return, Goto, TypeOK
      <3>3. pc'[t] \in Finish /\ loop'[t] = loop[t]
        BY DEF Return, Goto, IInv, TypeOK
      <3> QED
        BY <3>1, <3>2, <3>3, PartnerStays DEF HandshakeLevels, IInv, Return,
           build
    <2> QED
      BY <2>1, <2>2
  <1> QED
    BY <1>1, <1>2, <1>4, <1>5, <1>6, <1>7 DEF IInv

\* Tasklet 0 writes the sum of all tasklets over the input.
LEMMA WriteResultStep ==
  ASSUME IInv, NEW t \in Tasklets, WriteResult(t)
  PROVE  IInv'
  <1> USE DEF Early, Adding, Finish, Levels, Critical
  <1>1. TypeOK'
    BY DEF WriteResult, TypeOK, IInv, Goto, build, Labels, Barriers
  <1>2. SamePhase'
    BY PhaseStep DEF IInv, Step
  <1>3. Local(t)'
    BY DEF WriteResult, IInv, TypeOK, Goto, build, Merged, Merges, HasPartner,
       Partner, LevelsLeft, Local, Dealing, OwnSum, SingleSum, TreeSum,
       Answer, Tree
  <1>4. \A u \in Tasklets : Local(u)'
    BY <1>3, OtherTasklets, Untouched DEF IInv, Step, build, WriteResult,
       Goto, TypeOK
  <1>5. InputKept'
    <2>1. t = 0 => firstBlock' = SumOf(numBlocks, Tasklets)
      BY DEF WriteResult, IInv, Local, Answer
    <2> QED
      BY <2>1, Sizes DEF WriteResult, IInv, InputKept, Goto, build, TypeOK
  <1>6. MutexSum'
    <2>1. final = "mutex" => Stored' = Stored
      BY DEF Stored, WriteResult, IInv, Goto, TypeOK
    <2> QED
      BY <2>1, Sizes DEF MutexSum, IInv, WriteResult, Goto, build, TypeOK
  <1>7. BarrierLevels' /\ HandshakeLevels'
    <2>1. BarrierLevels'
      BY DEF BarrierLevels, IInv, WriteResult, Goto, build, TypeOK
    <2>2. HandshakeLevels'
      <3>1. \A u \in Tasklets \ {t} : pc'[u] = pc[u] /\ loop'[u] = loop[u]
        BY DEF IInv, TypeOK, WriteResult, Goto
      <3>2. final = "tree_handshake" => HandshakeLevel(t)'
        BY DEF HandshakeLevels, HandshakeLevel, IInv, WriteResult, Goto, TypeOK
      <3>3. pc'[t] \in Finish /\ loop'[t] = loop[t]
        BY DEF WriteResult, Goto, IInv, TypeOK
      <3> QED
        BY <3>1, <3>2, <3>3, PartnerStays DEF HandshakeLevels, IInv,
           WriteResult, build
    <2> QED
      BY <2>1, <2>2
  <1> QED
    BY <1>1, <1>2, <1>4, <1>5, <1>6, <1>7 DEF IInv

\* When all tasklets wait, they wait at the same barrier.
LEMMA SameBarrier ==
  ASSUME IInv, \A t \in Tasklets : pc[t] \in Barriers
  PROVE  \/ InPhase({"start_barrier"})
         \/ final = "single" /\ InPhase({"final_barrier"})
         \/ final = "single" /\ InPhase({"single_barrier"})
         \/ final = "tree_barrier" /\ InPhase({"final_barrier"})
         \/ final = "tree_barrier" /\ InPhase({"level_barrier"})
         \/ final = "mutex" /\ InPhase({"mutex_barrier"})
  BY DEF IInv, SamePhase, InPhase, Barriers, Early, Adding, Finish, Levels,
     Critical

\* barrier_wait: all go on to the next phase.
LEMMA OpenBarrierStep ==
  ASSUME IInv, OpenBarrier
  PROVE  IInv'
  <1> USE DEF Early, Adding, Finish, Levels, Critical
  <1>a. /\ \A t \in Tasklets : pc[t] \in Barriers
        /\ UNCHANGED <<build, shared, launches>>
        /\ register' = [t \in Tasklets |-> Zero]
        /\ pc' = [t \in Tasklets |-> AfterBarrier(t)]
        /\ loop' = [t \in Tasklets |->
             CASE pc[t] = "single_barrier" -> 0
               [] pc[t] = "level_barrier" -> 2 * loop[t]
               [] OTHER -> loop[t]]
    BY DEF OpenBarrier
  <1>b. Zero \in Sum /\ 0 \in Tasklets
    BY SumsAreSums, SumOfNobody, Sizes
  <1>1. TypeOK'
    <2>1. pc' \in [Tasklets -> Labels] /\ loop' \in [Tasklets -> Nat]
      BY <1>a DEF TypeOK, IInv, AfterBarrier, Labels, Barriers
    <2>2. register' \in [Tasklets -> Sum]
      BY <1>a, <1>b
    <2> QED
      BY <1>a, <2>1, <2>2 DEF TypeOK, IInv, build, shared
  <1>2. CASE InPhase({"start_barrier"})
    <2>1. \A t \in Tasklets : pc[t] = "start_barrier" /\ pc'[t] = "clear"
      BY <1>2, <1>a DEF InPhase, AfterBarrier
    <2>2. SamePhase'
      BY <2>1, <1>a DEF SamePhase, InPhase, IInv, TypeOK, Strategies, build
    <2>3. \A t \in Tasklets : Local(t)'
      BY <2>1 DEF Local, Dealing, OwnSum, SingleSum, TreeSum, Answer
    <2>4. InputKept'
      BY <2>1, <1>a, <1>b DEF IInv, InputKept, build, shared
    <2>5. MutexSum'
      <3>1. Stored' = {} /\ Stored = {}
        BY <2>1 DEF Stored
      <3> QED
        BY <2>1, <3>1, <1>a, <1>b DEF IInv, MutexSum, build, shared
    <2>6. BarrierLevels' /\ HandshakeLevels'
      BY <2>1 DEF BarrierLevels, HandshakeLevels, HandshakeLevel
    <2> QED
      BY <1>1, <2>2, <2>3, <2>4, <2>5, <2>6 DEF IInv
  <1>3. CASE final = "single" /\ InPhase({"final_barrier"})
    <2>1. \A t \in Tasklets : pc[t] = "final_barrier" /\ pc'[t] = "single_barrier"
      BY <1>3, <1>a DEF InPhase, AfterBarrier
    <2>2. SamePhase'
      BY <2>1, <1>3, <1>a DEF SamePhase, InPhase, build
    <2>3. \A t \in Tasklets : Local(t)'
      BY <2>1, <1>3, <1>a DEF IInv, Local, Dealing, OwnSum, SingleSum,
         TreeSum, Answer, Tree, build, shared
    <2>4. InputKept'
      BY <2>1, <1>a, <1>b DEF IInv, InputKept, build, shared
    <2> QED
      BY <1>1, <1>3, <1>a, <2>2, <2>3, <2>4 DEF IInv, MutexSum, BarrierLevels,
         HandshakeLevels, build
  <1>4. CASE final = "single" /\ InPhase({"single_barrier"})
    <2>1. \A t \in Tasklets :
            /\ pc[t] = "single_barrier" /\ pc'[t] = (IF t = 0 THEN "sum" ELSE "write")
            /\ loop'[t] = 0 /\ register'[t] = Zero
      BY <1>4, <1>a DEF InPhase, AfterBarrier
    <2>2. SamePhase'
      BY <2>1, <1>4, <1>a DEF SamePhase, InPhase, build
    <2>3. \A t \in Tasklets : Local(t)'
      <3>1. SumOf(numBlocks, 0 .. 0 - 1) = Zero
        BY SumOfNobody
      <3>2. ASSUME NEW t \in Tasklets PROVE SingleSum(t)'
        BY <2>1, <3>1, <1>a, Sizes DEF SingleSum, build
      <3> QED
        BY <2>1, <3>2, <1>4, <1>a DEF IInv, Local, Dealing, OwnSum, TreeSum,
           Answer, Tree, build, shared
    <2>4. InputKept'
      BY <2>1, <1>a, <1>b DEF IInv, InputKept, build, shared
    <2> QED
      BY <1>1, <1>4, <1>a, <2>2, <2>3, <2>4 DEF IInv, MutexSum, BarrierLevels,
         HandshakeLevels, build
  <1>5. CASE final = "tree_barrier" /\ InPhase({"final_barrier"})
    <2>1. \A t \in Tasklets :
            pc[t] = "final_barrier" /\ pc'[t] = "level" /\ loop'[t] = loop[t]
      BY <1>5, <1>a DEF InPhase, AfterBarrier
    <2>2. SamePhase'
      BY <2>1, <1>5, <1>a DEF SamePhase, InPhase, build
    <2>3. ASSUME NEW t \in Tasklets
          PROVE  Local(t)' /\ loop'[t] = 1
      <3>1. loop[t] = 1 /\ partials[t] = SumOf(numBlocks, {t})
        BY <2>1, <1>5 DEF IInv, Local, OwnSum, TreeSum, Tree
      <3>2. t .. t + 1 - 1 = {t}
        BY Sizes
      <3> QED
        BY <2>1, <3>1, <3>2, <1>5, <1>a, PowersBegin DEF Local, Dealing,
           OwnSum, SingleSum, TreeSum, Answer, Merged, Tree, build, shared
    <2>4. InputKept'
      BY <2>1, <1>a, <1>b DEF IInv, InputKept, build, shared
    <2>5. BarrierLevels'
      BY <2>3 DEF BarrierLevels
    <2> QED
      BY <1>1, <1>5, <1>a, <2>2, <2>3, <2>4, <2>5 DEF IInv, MutexSum,
         HandshakeLevels, build
  <1>6. CASE final = "tree_barrier" /\ InPhase({"level_barrier"})
    <2>1. \A t \in Tasklets :
            pc[t] = "level_barrier" /\ pc'[t] = "level" /\ loop'[t] = 2 * loop[t]
      BY <1>6, <1>a DEF InPhase, AfterBarrier
    <2>2. SamePhase'
      BY <2>1, <1>6, <1>a DEF SamePhase, InPhase, build
    <2>3. ASSUME NEW t \in Tasklets
          PROVE  Local(t)'
      <3>1. /\ loop[t] \in PowersOfTwo
            /\ t % loop[t] = 0 => partials[t] = SumOf(numBlocks, Merged(t))
        BY <2>1, <1>6 DEF IInv, Local, TreeSum, Tree
      <3>2. 2 * loop[t] \in PowersOfTwo /\ loop[t] \in Nat \ {0} /\ t \in Nat
        BY <3>1, PowersBegin, PowersArePositive, Sizes
      <3>3. t % (2 * loop[t]) = 0 => t % loop[t] = 0
        BY <3>2, PartnerNumber
      <3>4. t % (2 * loop[t]) = 0 => partials[t] = SumOf(numBlocks, t .. t + 2 * loop[t] - 1)
        BY <2>1, <3>1, <3>3 DEF Merged, Merges
      <3> QED
        BY <2>1, <3>2, <3>4, <1>6, <1>a DEF Local, Dealing, OwnSum, SingleSum,
           TreeSum, Answer, Merged, Tree, build, shared
    <2>4. InputKept'
      BY <2>1, <1>a, <1>b DEF IInv, InputKept, build, shared
    <2>5. BarrierLevels'
      BY <2>1, <1>6 DEF IInv, BarrierLevels
    <2> QED
      BY <1>1, <1>6, <1>a, <2>2, <2>3, <2>4, <2>5 DEF IInv, MutexSum,
         HandshakeLevels, build
  <1>7. CASE final = "mutex" /\ InPhase({"mutex_barrier"})
    <2>1. \A t \in Tasklets : pc[t] = "mutex_barrier" /\ pc'[t] = "return"
      BY <1>7, <1>a DEF InPhase, AfterBarrier
    <2>2. SamePhase'
      BY <2>1, <1>7, <1>a DEF SamePhase, InPhase, build
    <2>3. \A t \in Tasklets : Local(t)'
      BY <2>1, <1>7, <1>a DEF IInv, Local, Dealing, OwnSum, SingleSum,
         TreeSum, Answer, Tree, build, shared
    <2>4. InputKept'
      BY <2>1, <1>a, <1>b DEF IInv, InputKept, build, shared
    <2>5. MutexSum'
      <3>1. Stored' = Stored
        BY <2>1 DEF Stored
      <3> QED
        BY <2>1, <3>1, <1>a, <1>b DEF IInv, MutexSum, build, shared
    <2> QED
      BY <1>1, <1>7, <1>a, <2>2, <2>3, <2>4, <2>5 DEF IInv, BarrierLevels,
         HandshakeLevels, build
  <1> QED
    BY <1>a, <1>2, <1>3, <1>4, <1>5, <1>6, <1>7, SameBarrier

\* The input and an empty sum are sums.
LEMMA InputIsSum == Zero \in Sum /\ JustBlock(0) \in Sum
  <1>1. Zero \in [BlockIds -> 0 .. 1]
    BY DEF Zero
  <1>2. 1 \in 0 .. 1
    OBVIOUS
  <1> QED
    BY <1>1, <1>2 DEF Sum, JustBlock

\* The partial sums and the accumulator of the last launch do no harm: nothing is
\* said of them until they have been reset.
LEMMA LaunchStep ==
  ASSUME IInv, Launch
  PROVE  IInv'
  <1>1. /\ \A t \in Tasklets : pc'[t] = "enter"
        /\ UNCHANGED <<build, partials, accum, lock>>
        /\ firstBlock' = JustBlock(0)
        /\ 0 \in Tasklets
    BY Sizes DEF Launch
  <1>2. TypeOK'
    <2>1. Zero \in Sum /\ JustBlock(0) \in Sum
      BY InputIsSum
    <2>2. launches' \in 1 .. MaxLaunches
      BY Sizes, TaskletAssumption DEF Launch, TypeOK, IInv
    <2> QED
      BY <1>1, <2>1, <2>2 DEF Launch, TypeOK, IInv, build, Labels
  <1>3. SamePhase'
    BY <1>1 DEF SamePhase, InPhase, Early
  <1>4. \A t \in Tasklets : Local(t)'
    BY <1>1 DEF Local, Dealing, OwnSum, SingleSum, TreeSum, Answer, Early,
       Levels, Finish
  <1>5. InputKept' /\ MutexSum' /\ BarrierLevels' /\ HandshakeLevels'
    BY <1>1 DEF InputKept, MutexSum, BarrierLevels, HandshakeLevels,
       HandshakeLevel, Critical, Levels, Finish
  <1> QED
    BY <1>2, <1>3, <1>4, <1>5 DEF IInv

\* The first launch.
LEMMA InitInv ==
  ASSUME Init
  PROVE  IInv
  <1>1. Zero \in Sum /\ JustBlock(0) \in Sum
    BY InputIsSum
  <1>2. TypeOK
    BY <1>1, Sizes, TaskletAssumption DEF Init, TypeOK, Labels
  <1>3. SamePhase /\ InputKept /\ MutexSum /\ BarrierLevels /\ HandshakeLevels
    BY Sizes DEF Init, SamePhase, InPhase, Early, InputKept, MutexSum,
       BarrierLevels, HandshakeLevels, HandshakeLevel, Critical, Levels,
       Finish
  <1>4. \A t \in Tasklets : Local(t)
    BY DEF Init, Local, Dealing, OwnSum, SingleSum, TreeSum, Answer, Early,
       Levels, Finish
  <1> QED
    BY <1>2, <1>3, <1>4 DEF IInv

\* Every step preserves the invariant.
LEMMA NextInv ==
  ASSUME IInv, [Next]_vars
  PROVE  IInv'
  <1>1. ASSUME NEW t \in Tasklets, Step(t)
        PROVE  IInv'
    BY <1>1, EnterStep, ClearPartialStep, AddBlockStep, AllBlocksAddedStep,
       AddPartialStep,
       AtLevelStep, HandshakeStep, LoadPartnerStep, StorePartialStep, LockStep,
       LoadAccumStep, StoreAccumStep, UnlockStep, ReturnStep, WriteResultStep DEF Step
  <1>2. CASE UNCHANGED vars
    <2>1. /\ UNCHANGED <<final, numBlocks, pc, loop, register, partials>>
          /\ UNCHANGED <<accum, lock, firstBlock, launches>>
          /\ UNCHANGED build
      BY <1>2 DEF vars, locals, shared, build
    <2>2. \A u \in Tasklets : Local(u)'
      BY <2>1, Untouched DEF IInv
    <2>3. TypeOK' /\ SamePhase' /\ InputKept' /\ BarrierLevels'
      BY <2>1 DEF IInv, TypeOK, SamePhase, InPhase, InputKept, BarrierLevels
    <2>4. MutexSum'
      BY <2>1 DEF IInv, MutexSum, Stored
    <2>5. HandshakeLevels'
      BY <2>1 DEF IInv, HandshakeLevels, HandshakeLevel, Partner
    <2> QED
      BY <2>2, <2>3, <2>4, <2>5 DEF IInv
  <1> QED
    BY <1>1, <1>2, OpenBarrierStep, LaunchStep DEF Next

\* The invariant above holds in every reachable state of the kernel, for every
\* number of tasklets, size of the input and number of launches.
THEOREM Invariance == Spec => []IInv
  BY InitInv, NextInv, PTL DEF Spec

\* Every variable keeps its type; in particular no block is ever counted twice in
\* any partial sum, register, accumulator or result of the kernel.
THEOREM TypeCorrect == Spec => []TypeOK
  <1>1. IInv => TypeOK
    BY DEF IInv
  <1> QED
    BY <1>1, Invariance, PTL

\* Two tasklets that touch the same variable are ordered by a barrier, by a
\* handshake or by the mutex.
LEMMA NoRace == IInv => RaceFree
  <1> SUFFICES ASSUME IInv, NEW t \in Tasklets, NEW u \in Tasklets, t # u
               PROVE  Writes(t) \cap (Reads(u) \cup Writes(u)) = {}
    BY DEF RaceFree
  <1> USE DEF Early, Adding, Finish, Levels, Critical
  <1>1. t \in Nat /\ u \in Nat /\ pc[t] \in Labels
    BY Sizes DEF IInv, TypeOK
  <1>2. CASE pc[t] = "enter"
    <2>1. pc[u] \in Early
      BY <1>2 DEF IInv, SamePhase, InPhase
    <2> QED
      BY <1>2, <2>1 DEF Writes, Reads
  <1>3. CASE pc[t] \in Adding
    <2>1. /\ pc[u] \notin {"sum", "enter"}
          /\ pc[u] = "load" /\ final # "mutex" => Partner(u) # t
      BY <1>3 DEF IInv, SamePhase, InPhase, HandshakeLevels, HandshakeLevel
    <2> QED
      BY <1>3, <2>1 DEF Writes, Reads
  <1>4. CASE pc[t] = "store" /\ final = "mutex"
    <2>1. pc[u] \notin {"load", "store", "return", "enter"}
      BY <1>4 DEF IInv, SamePhase, InPhase, MutexSum
    <2> QED
      BY <1>4, <2>1 DEF Writes, Reads
  <1>5. CASE pc[t] = "store" /\ final # "mutex"
    <2>1. pc[u] \notin {"sum", "enter"} /\ Tree
      BY <1>5 DEF IInv, SamePhase, InPhase, Tree
    <2>2. pc[u] = "load" => Partner(u) # t
      <3> SUFFICES ASSUME pc[u] = "load", Partner(u) = t
                   PROVE  FALSE
        OBVIOUS
      <3>1. CASE final = "tree_handshake"
        BY <1>5, <3>1 DEF IInv, HandshakeLevels, HandshakeLevel
      <3>2. CASE final = "tree_barrier"
        <4>1. loop[u] = loop[t]
          BY <1>5, <3>2 DEF IInv, BarrierLevels
        <4>2. Merges(t) /\ Merges(u) /\ loop[u] \in Nat \ {0}
          BY <1>5, <2>1, PowersArePositive DEF IInv, Local, TreeSum, HasPartner
        <4>3. u % (2 * loop[u]) = 0 /\ (u + loop[u]) % (2 * loop[u]) = 0
          BY <4>1, <4>2 DEF Merges, Partner
        <4> QED
          BY <1>1, <4>2, <4>3, PartnerNumber
      <3> QED
        BY <2>1, <3>1, <3>2 DEF Tree
    <2> QED
      BY <1>5, <2>1, <2>2 DEF Writes, Reads
  <1>6. CASE pc[t] = "write" /\ t = 0
    <2>1. pc[u] = "add" => loop[u] # 0
      <3>1. 0 % NumTasklets = 0
        BY Sizes, Multiples
      <3> QED
        BY <3>1, <1>6 DEF IInv, Local, Dealing
    <2>2. pc[u] # "enter"
      BY <1>6 DEF IInv, SamePhase, InPhase
    <2> QED
      BY <1>6, <2>1, <2>2 DEF Writes, Reads
  <1> QED
    BY <1>2, <1>3, <1>4, <1>5, <1>6 DEF Writes

\* No two tasklets are ever about to access the same partial sum, the accumulator
\* or the first block in MRAM when one of them writes: the kernel of task 4 has no
\* data race, whatever the strategy and the number of tasklets.
THEOREM NoDataRaces == Spec => []RaceFree
  BY NoRace, Invariance, PTL

\* The kernel begins as the abstract reduction does.
LEMMA AbstractInit == Init => Promise!Init
  BY InitInv, Sizes DEF Init, Promise!Init, AllDone, Promise!Zero,
     Promise!BlockIds, Zero, BlockIds

\* The abstract variables, in terms of the kernel's.
abstract == <<numBlocks, ~ AllDone, IF AllDone THEN firstBlock ELSE Zero>>

\* The step that ends the kernel is the abstract End, the launch is the abstract
\* Launch and every other step of the kernel stutters.
LEMMA AbstractStep ==
  IInv /\ IInv' /\ [Next]_vars => [Promise!Next]_abstract
  <1> USE DEF abstract
  <1> SUFFICES ASSUME IInv, IInv', [Next]_vars
               PROVE  [Promise!Next]_abstract
    OBVIOUS
  <1>1. 0 \in Tasklets /\ pc[0] \in Labels
    BY Sizes DEF IInv, TypeOK
  <1>2. Zero = Promise!Zero /\ \A n : SumOf(n, Tasklets) = Promise!Total(n)
    <2>1. \A b \in BlockIds : b % NumTasklets \in Tasklets
      BY Sizes DEF Tasklets
    <2> QED
      BY <2>1 DEF Zero, BlockIds, Promise!Zero, Promise!BlockIds, SumOf,
         Promise!Total
  <1>3. CASE Launch
    <2>1. AllDone /\ ~ AllDone' /\ numBlocks' = numBlocks
      BY <1>1, <1>3 DEF Launch, AllDone, build
    <2> QED
      BY <2>1, <1>2 DEF Promise!Next, Promise!Launch
  <1>4. CASE UNCHANGED vars
    BY <1>4 DEF vars, build, locals, shared, AllDone
  <1>5. CASE OpenBarrier
    <2>1. ~ AllDone /\ ~ AllDone' /\ numBlocks' = numBlocks
      BY <1>1, <1>5 DEF OpenBarrier, AllDone, build, Barriers, AfterBarrier
    <2> QED
      BY <2>1
  <1>6. ASSUME NEW t \in Tasklets, Step(t)
        PROVE  [Promise!Next]_abstract
    <2>1. ~ AllDone
      BY <1>6 DEF AllDone, Step, Enter, ClearPartial, AddBlock, AllBlocksAdded,
        AddPartial, AtLevel, Handshake, LoadPartner, StorePartial, Lock, LoadAccum,
        StoreAccum, Unlock, Return, WriteResult
    <2>2. numBlocks' = numBlocks
      BY <1>6 DEF build, shared, Step, Enter, ClearPartial, AddBlock,
        AllBlocksAdded, AddPartial, AtLevel, Handshake, LoadPartner, StorePartial, Lock, LoadAccum,
        StoreAccum, Unlock, Return, WriteResult
    <2>3. CASE ~ AllDone'
      BY <2>1, <2>2, <2>3
    <2>4. CASE AllDone'
      <3>1. firstBlock' = SumOf(numBlocks', Tasklets)
        BY <1>1, <2>4 DEF AllDone, IInv, InputKept
      <3> QED
        BY <1>2, <2>1, <2>2, <2>4, <3>1 DEF Promise!Next, Promise!End
    <2> QED
      BY <2>3, <2>4
  <1> QED
    BY <1>3, <1>4, <1>5, <1>6 DEF Next

\* When all tasklets have ended, MRAM holds the sum of all blocks, each counted
\* once: the kernel implements the promise to the host under all four strategies,
\* also when the number of tasklets is no power of two, and in every launch.
THEOREM Refinement == Spec => ImplementsReduction
  <1>1. IInv /\ IInv' /\ [Next]_vars =>
          [Promise!Next]_<<numBlocks, ~ AllDone, IF AllDone THEN firstBlock ELSE Zero>>
    BY AbstractStep DEF abstract
  <1> QED
    BY AbstractInit, <1>1, Invariance, PTL DEF Spec, ImplementsReduction, Promise!Spec
=============================================================================
