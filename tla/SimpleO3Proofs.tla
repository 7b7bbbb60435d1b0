---------------------------- MODULE SimpleO3Proofs ----------------------------
(***************************************************************************)
(* Proofs about SimpleO3 for every number of cores, trace, translation and *)
(* size of the window, the set, the MSHRs and the memory that the          *)
(* assumptions allow.                                                      *)
(*                                                                         *)
(* A tick is three loops, over the miss list, the hit list and the cores,  *)
(* and what is shown of each is what every turn keeps: Offers loses no     *)
(* read and doubles none (OffersKeep), Answers forgets no load that an     *)
(* entry it has still to go over will wake (AnswersKeep), and every core   *)
(* leaves cache and windows Sound (CoreTicksKeep).                         *)
(*                                                                         *)
(* The invariant ties four things together: the lines that have not        *)
(* arrived, the MSHRs, the reads under way and the loads that wait.  The   *)
(* point is what a late answer may forget.  A hit in time has its line,    *)
(* which is ready, so its page has no MSHR (HitHasNoMshr) and what it      *)
(* overwrites waits for nothing else; an answer of the memory is the       *)
(* address of an MSHR itself, because the reads under way are exactly the  *)
(* MSHRs', one of each (FetchedOnce).                                      *)
(***************************************************************************)
EXTENDS SimpleO3, FiniteSetTheorems, FunctionTheorems, SequenceTheorems,
        WellFoundedInduction, TLAPS

-----------------------------------------------------------------------------
(***************************************************************************)
(* Numbers and loops. Induction is over sets: to show P of every number up *)
(* to n, take the set of the numbers up to n that satisfy P.               *)
(***************************************************************************)
\* A set of numbers that is not empty has a least member.
LEMMA LeastNatural ==
  ASSUME NEW S \in SUBSET Nat, S # {}
  PROVE  \E n \in S : \A m \in S : n <= m
  <1> DEFINE R == {ss \in Nat \X Nat : ss[1] < ss[2]}
  <1>1. IsWellFoundedOn(R, Nat)
    BY NatLessThanWellFounded DEF OpToRel
  <1>2. PICK n \in S : \A m \in S : ~ (<<m, n>> \in R)
    <2> HIDE DEF R
    <2> QED
      BY <1>1, WFMin
  <1>3. \A m \in S : ~ (m < n)
    BY <1>2
  <1> QED
    BY <1>3

\* A loop from 0 to n: what holds before it and is kept by each turn holds
\* after every turn.
LEMMA LoopInduction ==
  ASSUME NEW n \in Nat, NEW S,
         0 \in S,
         \A i \in 0 .. n - 1 : i \in S => i + 1 \in S
  PROVE  0 .. n \subseteq S
  <1> DEFINE T == {i \in 0 .. n : i \notin S}
  <1> SUFFICES ASSUME T # {} PROVE FALSE
    OBVIOUS
  <1>1. T \in SUBSET Nat
    OBVIOUS
  <1>2. PICK k \in T : \A m \in T : k <= m
    <2> HIDE DEF T
    <2> QED
      BY <1>1, LeastNatural
  <1>3. k \in 1 .. n /\ k - 1 \in 0 .. n - 1 /\ k - 1 \in S
    BY <1>2
  <1> QED
    BY <1>2, <1>3

\* The values of a loop of n turns.
LoopRun(run, n, start, turn) ==
  /\ run[0] = start
  /\ \A i \in 1 .. n : run[i] = turn[i][run[i - 1]]

\* A loop of n turns on values in C has a run, of values in C.
LEMMA LoopRuns ==
  ASSUME NEW n \in Nat, NEW C, NEW start \in C, NEW turn \in [1 .. n -> [C -> C]]
  PROVE  \E run \in [0 .. n -> C] : LoopRun(run, n, start, turn)
  <1> USE DEF LoopRun
  <1> DEFINE Run(k, run) == run \in [0 .. k -> C] /\ LoopRun(run, k, start, turn)
             S == {k \in 0 .. n : \E run : Run(k, run)}
  <1>1. 0 \in S
    <2> DEFINE first == [i \in 0 .. 0 |-> start]
    <2>1. Run(0, first)
      OBVIOUS
    <2> HIDE DEF first
    <2> QED
      BY <2>1
  <1>2. ASSUME NEW k \in 0 .. n - 1, k \in S
        PROVE  k + 1 \in S
    <2>1. PICK old : Run(k, old)
      BY <1>2
    <2> DEFINE new == [i \in 0 .. k + 1 |->
                         IF i = k + 1 THEN turn[k + 1][old[k]] ELSE old[i]]
    <2>2. k + 1 \in 1 .. n /\ k \in 0 .. k /\ 0 \in 0 .. k
      OBVIOUS
    <2>3. turn[k + 1] \in [C -> C] /\ old[k] \in C
      BY <2>1, <2>2
    <2>4. turn[k + 1][old[k]] \in C
      BY <2>3
    <2>5. new \in [0 .. k + 1 -> C] /\ new[0] = start
      BY <2>1, <2>2, <2>4
    <2>6. \A i \in 1 .. k + 1 : new[i] = turn[i][new[i - 1]]
      <3> SUFFICES ASSUME NEW i \in 1 .. k + 1 PROVE new[i] = turn[i][new[i - 1]]
        OBVIOUS
      <3>1. i - 1 \in 0 .. k /\ new[i - 1] = old[i - 1]
        OBVIOUS
      <3>2. CASE i = k + 1
        BY <3>1, <3>2
      <3>3. CASE i # k + 1
        <4>1. i \in 1 .. k /\ i \in 0 .. k + 1 /\ new[i] = old[i]
          BY <3>3
        <4> QED
          BY <2>1, <3>1, <4>1
      <3> QED
        BY <3>2, <3>3
    <2> HIDE DEF new
    <2>7. Run(k + 1, new)
      BY <2>5, <2>6
    <2> QED
      BY <2>2, <2>7
  <1>3. n \in S
    <2> HIDE DEF S
    <2>1. 0 .. n \subseteq S
      BY <1>1, <1>2, LoopInduction
    <2> QED
      BY <2>1
  <1> QED
    BY <1>3

\* The same for turns that keep an invariant, which may differ from turn to turn,
\* and may leave C elsewhere.
LEMMA LoopKeeps ==
  ASSUME NEW n \in Nat, NEW C, NEW I \in [0 .. n -> SUBSET C], NEW start \in I[0], NEW turn,
         \A k \in 1 .. n : \A x \in I[k - 1] : turn[k][x] \in I[k]
  PROVE  \E run \in [0 .. n -> C] :
            /\ LoopRun(run, n, start, turn)
            /\ \A k \in 0 .. n : run[k] \in I[k]
  <1> DEFINE tame == [k \in 1 .. n |-> [x \in C |-> IF turn[k][x] \in C THEN turn[k][x] ELSE x]]
  <1>1. 0 \in 0 .. n /\ \A k \in 0 .. n : I[k] \subseteq C
    OBVIOUS
  <1>2. \A k \in 1 .. n : k - 1 \in 0 .. n /\ k \in 0 .. n
    OBVIOUS
  <1>3. tame \in [1 .. n -> [C -> C]]
    OBVIOUS
  <1>4. \A k \in 1 .. n : \A x \in I[k - 1] : tame[k][x] = turn[k][x]
    BY <1>1, <1>2
  <1> HIDE DEF tame
  <1>5. start \in C
    BY <1>1
  <1>6. PICK run \in [0 .. n -> C] : LoopRun(run, n, start, tame)
    BY <1>3, <1>5, LoopRuns
  <1> DEFINE S == {k \in 0 .. n : run[k] \in I[k]}
  <1>7. 0 \in S
    BY <1>1, <1>6 DEF LoopRun
  <1>8. ASSUME NEW k \in 0 .. n - 1, k \in S
        PROVE  k + 1 \in S
    <2>1. k + 1 \in 1 .. n /\ (k + 1) - 1 = k
      OBVIOUS
    <2>2. run[k + 1] = tame[k + 1][run[k]]
      BY <1>6, <2>1 DEF LoopRun
    <2>3. run[k] \in I[k]
      BY <1>8
    <2> QED
      BY <1>2, <1>4, <2>1, <2>2, <2>3
  <1>9. 0 .. n \subseteq S
    <2> HIDE DEF S
    <2> QED
      BY <1>7, <1>8, LoopInduction
  <1>10. LoopRun(run, n, start, turn)
    BY <1>2, <1>4, <1>6, <1>9 DEF LoopRun
  <1> QED
    BY <1>9, <1>10

-----------------------------------------------------------------------------
(***************************************************************************)
(* The invariant.                                                          *)
(***************************************************************************)
Lines == [page : Pages, offset : Offsets, dirty : BOOLEAN, ready : BOOLEAN]
Requests == [type : {"read", "write"}, source : Cores \cup {0}, addr : Addresses]
Entries == [wait : 1 .. Latency, req : Requests]
Llcs ==
    [lines : Seq(Lines), mshrs : SUBSET Addresses, waiting : [Addresses -> SUBSET Requests],
     missList : Seq(Entries), hitList : Seq(Entries)]
Insts == [ready : BOOLEAN, addr : Addresses \cup {NoAddr}]
CoreStates ==
    [window : Seq(Insts), bubbles : Nat, load : VirtualAddresses \cup {NoAddr},
     store : VirtualAddresses \cup {NoAddr}, next : Nat]
States == [llc : Llcs, core : [Cores -> CoreStates]]
Memories == [reads : Seq(Addresses), writes : Nat]

OnePerPage(lines) ==
    \A i, j \in DOMAIN lines : lines[i].page = lines[j].page => i = j

\* The lines and the MSHRs: those that have not arrived are those of the MSHRs.
Structure(l) ==
    /\ Len(l.lines) <= Associativity
    /\ IsFiniteSet(l.mshrs) /\ Cardinality(l.mshrs) <= NumMshrs
    /\ OnePerPage(l.lines)
    /\ \A m, n \in l.mshrs : m.page = n.page => m = n
    /\ \A m \in l.mshrs : \E x \in Range(l.lines) : x.page = m.page /\ ~ x.ready
    /\ \A x \in Range(l.lines) : ~ x.ready => \E m \in l.mshrs : m.page = x.page

\* A core fits its window and its trace.
CoreFits(k, c) == Len(k.window) <= Depth /\ k.next \in DOMAIN Trace[c]

\* The addresses of the reads in the miss list and in the memory.
ReadsIn(list) == {e.req.addr : e \in {d \in Range(list) : d.req.type = "read"}}
Flying(list, reads) == ReadsIn(list) \cup Range(reads)

\* No page is read twice.
NoneTwice(list, reads) ==
    /\ \A i, j \in DOMAIN list :
          list[i].req.type = "read" /\ list[j].req.type = "read"
             /\ list[i].req.addr.page = list[j].req.addr.page => i = j
    /\ \A i, j \in DOMAIN reads : reads[i].page = reads[j].page => i = j
    /\ \A a \in ReadsIn(list), b \in Range(reads) : a.page # b.page

\* Every MSHR has a read under way.
Fetched(l, reads) ==
    \A m \in l.mshrs : \E a \in Flying(l.missList, reads) : a.page = m.page

\* And the reads under way are those of the MSHRs, one of each.
FetchedOnce(l, reads) ==
    Flying(l.missList, reads) \subseteq l.mshrs /\ NoneTwice(l.missList, reads)

\* A load of core c of address a waits in the MSHR of its line or in the hit list.
Wakes(r, c, a) == r.source = c /\ r.addr = a
AwaitedBy(l, c, a) ==
    \/ \E m \in l.mshrs : m.page = a.page /\ \E r \in l.waiting[m] : Wakes(r, c, a)
    \/ \E e \in Range(l.hitList) : Wakes(e.req, c, a)

WindowAwaited(l, window, c) ==
    \A x \in Range(window) : x.ready \/ AwaitedBy(l, c, x.addr)
AllAwaited(s) == \A c \in Cores : WindowAwaited(s.llc, s.core[c].window, c)

\* The line of a page is dirty or a write of it is in the miss list.
DirtyAt(l, page) ==
    \/ \E x \in Range(l.lines) : x.page = page /\ x.dirty
    \/ \E e \in Range(l.missList) : e.req.type = "write" /\ e.req.addr.page = page

\* What every operation keeps, when the memory has the given reads, late tells that
\* a hit was answered after its line had gone, and the stores to D must not be lost.
Sound(s, reads, late, D) ==
    /\ s \in States
    /\ \A c \in Cores : CoreFits(s.core[c], c)
    /\ Structure(s.llc) /\ Fetched(s.llc, reads)
    /\ ~ late => FetchedOnce(s.llc, reads) /\ AllAwaited(s)
    /\ \A page \in D : DirtyAt(s.llc, page)

MemoryFits(m) == m \in Memories /\ Len(m.reads) <= ReadRoom /\ m.writes <= WriteRoom

Now == [llc |-> llc, core |-> core]

IInv ==
    /\ Sound(Now, memory.reads, overtaken, {})
    /\ MemoryFits(memory)
    /\ pageOf \in Translations
    /\ clk \in 0 .. 1 /\ overtaken \in BOOLEAN

-----------------------------------------------------------------------------
(***************************************************************************)
(* Sequences.                                                              *)
(***************************************************************************)

\* RemoveAt takes out one element and keeps the order of the others.
LEMMA RemoveProperties ==
  ASSUME NEW T, NEW s \in Seq(T), NEW i \in 1 .. Len(s)
  PROVE  /\ RemoveAt(s, i) \in Seq(T)
         /\ Len(RemoveAt(s, i)) = Len(s) - 1
         /\ \A k \in 1 .. Len(s) - 1 :
               RemoveAt(s, i)[k] = IF k < i THEN s[k] ELSE s[k + 1]
  <1> DEFINE front == SubSeq(s, 1, i - 1)  back == SubSeq(s, i + 1, Len(s))
  <1>1. Len(s) \in Nat /\ i \in 1 .. Len(s)
    OBVIOUS
  <1>2. \A k \in 1 .. Len(s) : s[k] \in T
    OBVIOUS
  <1>3. /\ front \in Seq(T) /\ Len(front) = i - 1
        /\ \A k \in 1 .. i - 1 : front[k] = s[k]
    <2>1. \A k \in 1 .. i - 1 : s[k] \in T
      BY <1>1, <1>2
    <2>2. /\ front \in Seq(T) /\ Len(front) = IF 1 <= i - 1 THEN i - 1 - 1 + 1 ELSE 0
          /\ \A k \in 1 .. i - 1 - 1 + 1 : front[k] = s[1 + k - 1]
      BY <1>1, <2>1, SubSeqProperties
    <2> HIDE DEF front
    <2> QED
      BY <1>1, <2>2
  <1>4. /\ back \in Seq(T) /\ Len(back) = Len(s) - i
        /\ \A k \in 1 .. Len(s) - i : back[k] = s[i + k]
    <2>1. \A k \in i + 1 .. Len(s) : s[k] \in T
      BY <1>1, <1>2
    <2>2. /\ back \in Seq(T)
          /\ Len(back) = IF i + 1 <= Len(s) THEN Len(s) - (i + 1) + 1 ELSE 0
          /\ \A k \in 1 .. Len(s) - (i + 1) + 1 : back[k] = s[i + 1 + k - 1]
      BY <1>1, <2>1, SubSeqProperties
    <2> HIDE DEF back
    <2> QED
      BY <1>1, <2>2
  <1>5. RemoveAt(s, i) = front \o back
    BY DEF RemoveAt
  <1> HIDE DEF front, back
  <1>6. /\ front \o back \in Seq(T)
        /\ Len(front \o back) = Len(front) + Len(back)
        /\ \A k \in 1 .. Len(front) + Len(back) :
              (front \o back)[k] = IF k <= Len(front) THEN front[k] ELSE back[k - Len(front)]
    BY <1>3, <1>4, ConcatProperties
  <1>7. ASSUME NEW k \in 1 .. Len(s) - 1
        PROVE  (front \o back)[k] = IF k < i THEN s[k] ELSE s[k + 1]
    <2>1. CASE k < i
      BY <1>1, <1>3, <1>4, <1>6, <2>1
    <2>2. CASE ~ (k < i)
      <3>1. (front \o back)[k] = back[k - (i - 1)]
        BY <1>1, <1>3, <1>4, <1>6, <2>2
      <3>2. k - (i - 1) \in 1 .. Len(s) - i
        BY <1>1, <2>2
      <3>3. back[k - (i - 1)] = s[i + (k - (i - 1))]
        BY <3>2, <1>4
      <3>4. i + (k - (i - 1)) = k + 1
        BY <1>1
      <3> QED
        BY <2>2, <3>1, <3>3, <3>4
    <2> QED
      BY <2>1, <2>2
  <1> QED
    BY <1>1, <1>3, <1>4, <1>5, <1>6, <1>7


\* The elements of a sequence, by their places.
LEMMA RangeOfPlaces ==
  ASSUME NEW T, NEW s \in Seq(T)
  PROVE  /\ DOMAIN s = 1 .. Len(s) /\ Len(s) \in Nat
         /\ Range(s) \subseteq T
         /\ \A x : x \in Range(s) <=> \E k \in 1 .. Len(s) : s[k] = x
  BY DEF Range

\* Appending adds an element.
LEMMA AppendRange ==
  ASSUME NEW T, NEW s \in Seq(T), NEW x \in T
  PROVE  /\ Append(s, x) \in Seq(T)
         /\ Len(Append(s, x)) = Len(s) + 1
         /\ Range(Append(s, x)) = Range(s) \cup {x}
         /\ \A k \in 1 .. Len(s) : Append(s, x)[k] = s[k]
         /\ Append(s, x)[Len(s) + 1] = x
  <1>1. /\ Append(s, x) \in Seq(T)
        /\ Len(Append(s, x)) = Len(s) + 1
        /\ \A k \in 1 .. Len(s) : Append(s, x)[k] = s[k]
        /\ Append(s, x)[Len(s) + 1] = x
    OBVIOUS
  <1>2. DOMAIN Append(s, x) = 1 .. Len(s) + 1 /\ DOMAIN s = 1 .. Len(s) /\ Len(s) \in Nat
    BY <1>1
  <1>3. ASSUME NEW y
        PROVE  y \in Range(Append(s, x)) <=> y \in Range(s) \cup {x}
    <2>1. y \in Range(Append(s, x)) <=> \E k \in 1 .. Len(s) + 1 : Append(s, x)[k] = y
      BY <1>2 DEF Range
    <2>2. y \in Range(s) <=> \E k \in 1 .. Len(s) : s[k] = y
      BY <1>2 DEF Range
    <2>3. \A k \in 1 .. Len(s) + 1 : k \in 1 .. Len(s) \/ k = Len(s) + 1
      BY <1>2
    <2>4. 1 .. Len(s) \subseteq 1 .. Len(s) + 1 /\ Len(s) + 1 \in 1 .. Len(s) + 1
      BY <1>2
    <2> QED
      BY <1>1, <2>1, <2>2, <2>3, <2>4
  <1> QED
    BY <1>1, <1>3

\* Removing an element of a sequence whose elements differ in their page.
LEMMA RemoveLine ==
  ASSUME NEW lines \in Seq(Lines), OnePerPage(lines), NEW i \in DOMAIN lines
  PROVE  /\ RemoveAt(lines, i) \in Seq(Lines)
         /\ Len(RemoveAt(lines, i)) = Len(lines) - 1
         /\ OnePerPage(RemoveAt(lines, i))
         /\ Range(RemoveAt(lines, i)) = Range(lines) \ {lines[i]}
  <1> DEFINE left == RemoveAt(lines, i)  n == Len(lines)
  <1>1. n \in Nat /\ DOMAIN lines = 1 .. n /\ i \in 1 .. n
    OBVIOUS
  <1>2. /\ left \in Seq(Lines) /\ Len(left) = n - 1
        /\ \A k \in 1 .. n - 1 : left[k] = IF k < i THEN lines[k] ELSE lines[k + 1]
    BY <1>1, RemoveProperties
  <1> HIDE DEF left
  <1>3. DOMAIN left = 1 .. n - 1
    BY <1>1, <1>2
  <1> HIDE DEF n
  <1> DEFINE Old(k) == IF k < i THEN k ELSE k + 1
  <1>4. \A k \in 1 .. n - 1 : Old(k) \in (1 .. n) \ {i} /\ left[k] = lines[Old(k)]
    BY <1>1, <1>2
  <1>5. \A k, l \in 1 .. n - 1 : Old(k) = Old(l) => k = l
    BY <1>1
  <1>6. \A j \in (1 .. n) \ {i} : \E k \in 1 .. n - 1 : Old(k) = j
    <2> TAKE j \in (1 .. n) \ {i}
    <2>1. CASE j < i
      <3>1. j \in 1 .. n - 1 /\ Old(j) = j
        BY <1>1, <2>1
      <3> QED
        BY <3>1
    <2>2. CASE ~ (j < i)
      <3>1. j - 1 \in 1 .. n - 1 /\ Old(j - 1) = j
        BY <1>1, <2>2
      <3> QED
        BY <3>1
    <2> QED
      BY <2>1, <2>2
  <1> HIDE DEF Old
  <1>7. OnePerPage(left)
    BY <1>1, <1>3, <1>4, <1>5 DEF OnePerPage
  <1>8. ASSUME NEW x
        PROVE  x \in Range(left) <=> x \in Range(lines) /\ x # lines[i]
    <2>1. x \in Range(left) <=> \E k \in 1 .. n - 1 : left[k] = x
      BY <1>3 DEF Range
    <2>2. x \in Range(lines) <=> \E k \in 1 .. n : lines[k] = x
      BY <1>1 DEF Range
    <2>3. \A k \in (1 .. n) \ {i} : lines[k] # lines[i]
      BY <1>1 DEF OnePerPage
    <2> QED
      BY <1>1, <1>4, <1>6, <2>1, <2>2, <2>3
  <1> QED
    BY <1>2, <1>7, <1>8 DEF left, n

\* Appending a line of a page that has none.
LEMMA AppendLine ==
  ASSUME NEW lines \in Seq(Lines), OnePerPage(lines), NEW x \in Lines,
         \A y \in Range(lines) : y.page # x.page
  PROVE  /\ Append(lines, x) \in Seq(Lines)
         /\ Len(Append(lines, x)) = Len(lines) + 1
         /\ OnePerPage(Append(lines, x))
         /\ Range(Append(lines, x)) = Range(lines) \cup {x}
  <1>1. /\ Append(lines, x) \in Seq(Lines)
        /\ Len(Append(lines, x)) = Len(lines) + 1
        /\ Range(Append(lines, x)) = Range(lines) \cup {x}
        /\ \A k \in 1 .. Len(lines) : Append(lines, x)[k] = lines[k]
        /\ Append(lines, x)[Len(lines) + 1] = x
    BY AppendRange
  <1>2. Len(lines) \in Nat /\ DOMAIN lines = 1 .. Len(lines)
        /\ DOMAIN Append(lines, x) = 1 .. Len(lines) + 1
    BY <1>1
  <1>3. \A k \in 1 .. Len(lines) : lines[k].page # x.page
    BY <1>2 DEF Range
  <1>4. OnePerPage(Append(lines, x))
    <2> SUFFICES ASSUME NEW k \in 1 .. Len(lines) + 1, NEW j \in 1 .. Len(lines) + 1,
                        Append(lines, x)[k].page = Append(lines, x)[j].page
                 PROVE  k = j
      BY <1>2 DEF OnePerPage
    <2>1. \A i \in 1 .. Len(lines) + 1 : i \in 1 .. Len(lines) \/ i = Len(lines) + 1
      BY <1>2
    <2>2. CASE k \in 1 .. Len(lines) /\ j \in 1 .. Len(lines)
      BY <1>1, <1>2, <2>2 DEF OnePerPage
    <2> QED
      BY <1>1, <1>3, <2>1, <2>2
  <1> QED
    BY <1>1, <1>4

\* Lines whose pages stay as they are.
LEMMA SamePages ==
  ASSUME NEW lines \in Seq(Lines), OnePerPage(lines),
         NEW f \in [Lines -> Lines], \A x \in Lines : f[x].page = x.page,
         NEW new, new = [i \in DOMAIN lines |-> f[lines[i]]]
  PROVE  /\ new \in Seq(Lines) /\ Len(new) = Len(lines)
         /\ OnePerPage(new)
         /\ Range(new) = {f[x] : x \in Range(lines)}
  <1>1. Len(lines) \in Nat /\ DOMAIN lines = 1 .. Len(lines)
        /\ \A i \in 1 .. Len(lines) : lines[i] \in Lines
    OBVIOUS
  <1>2. new = [i \in 1 .. Len(lines) |-> f[lines[i]]]
    BY <1>1
  <1>3. new \in Seq(Lines) /\ Len(new) = Len(lines) /\ DOMAIN new = 1 .. Len(lines)
    BY <1>1, <1>2
  <1>4. OnePerPage(new)
    BY <1>1, <1>2, <1>3 DEF OnePerPage
  <1>5. Range(new) = {f[x] : x \in Range(lines)}
    BY <1>1, <1>2, <1>3 DEF Range
  <1> QED
    BY <1>3, <1>4, <1>5

-----------------------------------------------------------------------------
(***************************************************************************)
(* send.                                                                   *)
(***************************************************************************)
SendKeeps(l, new, req) ==
    /\ new \in Llcs /\ Structure(new)
    /\ \A p \in Pages : DirtyAt(l, p) => DirtyAt(new, p)
    /\ \A c \in Cores, a \in Addresses \cup {NoAddr} : AwaitedBy(l, c, a) => AwaitedBy(new, c, a)
    /\ AwaitedBy(new, req.source, req.addr)
    /\ \A reads \in Seq(Addresses) :
          /\ Fetched(l, reads) => Fetched(new, reads)
          /\ FetchedOnce(l, reads) => FetchedOnce(new, reads)

\* The line of a page is the one that CHOOSE finds.
LEMMA LineIsFound ==
  ASSUME NEW lines \in Seq(Lines), OnePerPage(lines), NEW page, IsHit(lines, page),
         NEW i, i = CHOOSE j \in LinesOf(lines, page) : TRUE
  PROVE  /\ i \in DOMAIN lines /\ lines[i].page = page /\ lines[i].ready
         /\ lines[i] \in Range(lines) /\ lines[i] \in Lines
         /\ \A x \in Range(lines) : x.page = page => x = lines[i]
  <1>1. PICK h \in LinesOf(lines, page) : lines[h].ready
    BY DEF IsHit
  <1>2. i \in LinesOf(lines, page)
    BY <1>1
  <1>3. i = h
    BY <1>1, <1>2 DEF OnePerPage, LinesOf
  <1>4. i \in DOMAIN lines /\ lines[i].page = page /\ lines[i].ready
    BY <1>1, <1>2, <1>3 DEF LinesOf
  <1>5. lines[i] \in Range(lines) /\ lines[i] \in Lines
    <2>1. lines[i] \in Range(lines)
      BY <1>4 DEF Range
    <2> QED
      BY <2>1, RangeOfPlaces
  <1>6. \A x \in Range(lines) : x.page = page => x = lines[i]
    BY <1>4 DEF Range, OnePerPage
  <1> QED
    BY <1>4, <1>5, <1>6

\* What a request adds to the hit list, and that it is an entry.
LEMMA LaterIsEntry ==
  ASSUME NEW req \in Requests
  PROVE  Later(req) \in Entries /\ Later(req).req = req
  BY FrontendAssumption DEF Later, Entries

\* A hit: the line moves to the end of the set, and is dirty if it was or is stored to.
LEMMA SendHitKeeps ==
  ASSUME NEW l \in Llcs, Structure(l), NEW req \in Requests, IsHit(l.lines, req.addr.page)
  PROVE  SendKeeps(l, SendHit(l, req), req)
  <1> DEFINE i == CHOOSE j \in LinesOf(l.lines, req.addr.page) : TRUE
             line == [l.lines[i] EXCEPT !.offset = req.addr.offset,
                                        !.dirty = @ \/ req.type = "write"]
             new == SendHit(l, req)
             x == l.lines[i]
  <1>0. i = CHOOSE j \in LinesOf(l.lines, req.addr.page) : TRUE
    OBVIOUS
  <1>1. /\ l.lines \in Seq(Lines) /\ OnePerPage(l.lines) /\ l.hitList \in Seq(Entries)
        /\ req.addr.page \in Pages /\ req.addr.offset \in Offsets
    BY DEF Llcs, Structure, Requests, Addresses
  <1>2. /\ i \in DOMAIN l.lines /\ x.page = req.addr.page /\ x.ready
        /\ x \in Range(l.lines) /\ x \in Lines
        /\ \A y \in Range(l.lines) : y.page = req.addr.page => y = x
    <2> HIDE DEF i
    <2> QED
      BY <1>0, <1>1, LineIsFound
  <1>3. /\ new.lines = Append(RemoveAt(l.lines, i), line)
        /\ new.hitList = Append(l.hitList, Later(req))
        /\ new.mshrs = l.mshrs /\ new.waiting = l.waiting /\ new.missList = l.missList
        /\ new = [l EXCEPT !.lines = new.lines, !.hitList = new.hitList]
    BY DEF SendHit, Llcs
  <1> HIDE DEF i, new
  <1>4. /\ line \in Lines /\ line.page = req.addr.page /\ line.ready
        /\ x.dirty => line.dirty
    BY <1>1, <1>2 DEF Lines
  <1> HIDE DEF line
  <1>5. /\ RemoveAt(l.lines, i) \in Seq(Lines)
        /\ Len(RemoveAt(l.lines, i)) = Len(l.lines) - 1
        /\ OnePerPage(RemoveAt(l.lines, i))
        /\ Range(RemoveAt(l.lines, i)) = Range(l.lines) \ {x}
    BY <1>1, <1>2, RemoveLine
  <1> HIDE DEF x
  <1>6. /\ new.lines \in Seq(Lines) /\ Len(new.lines) = Len(l.lines)
        /\ OnePerPage(new.lines)
        /\ Range(new.lines) = (Range(l.lines) \ {x}) \cup {line}
    <2>1. \A y \in Range(RemoveAt(l.lines, i)) : y.page # line.page
      BY <1>2, <1>4, <1>5
    <2>2. Len(l.lines) \in Nat
      BY <1>1
    <2> QED
      BY <1>3, <1>4, <1>5, <2>1, <2>2, AppendLine
  <1>7. /\ new.hitList \in Seq(Entries)
        /\ Range(new.hitList) = Range(l.hitList) \cup {Later(req)}
    BY <1>1, <1>3, LaterIsEntry, AppendRange
  <1>8. new \in Llcs
    BY <1>3, <1>6, <1>7 DEF Llcs
  <1>9. Structure(new)
    <2>1. \A m \in l.mshrs : \E y \in Range(new.lines) : y.page = m.page /\ ~ y.ready
      <3> TAKE m \in l.mshrs
      <3>1. PICK y \in Range(l.lines) : y.page = m.page /\ ~ y.ready
        BY DEF Structure
      <3> QED
        BY <1>2, <1>6, <3>1
    <2>2. \A y \in Range(new.lines) : ~ y.ready => \E m \in l.mshrs : m.page = y.page
      BY <1>4, <1>6 DEF Structure
    <2> QED
      BY <1>3, <1>6, <2>1, <2>2 DEF Structure
  <1>10. \A p \in Pages : DirtyAt(l, p) => DirtyAt(new, p)
    BY <1>2, <1>3, <1>4, <1>6 DEF DirtyAt
  <1>11. /\ \A c \in Cores, a \in Addresses \cup {NoAddr} :
              AwaitedBy(l, c, a) => AwaitedBy(new, c, a)
         /\ AwaitedBy(new, req.source, req.addr)
    BY <1>3, <1>7, LaterIsEntry DEF AwaitedBy, Wakes
  <1>12. \A reads \in Seq(Addresses) :
            /\ Fetched(l, reads) => Fetched(new, reads)
            /\ FetchedOnce(l, reads) => FetchedOnce(new, reads)
    BY <1>3 DEF Fetched, FetchedOnce
  <1> QED
    BY <1>8, <1>9, <1>10, <1>11, <1>12 DEF SendKeeps, new

\* A merged miss: the request waits with those of the MSHR of its line.
LEMMA SendMergedKeeps ==
  ASSUME NEW l \in Llcs, Structure(l), NEW req \in Requests, Merges(l, req)
  PROVE  SendKeeps(l, SendMerged(l, req), req)
  <1> DEFINE m == CHOOSE a \in MshrsOf(l.mshrs, req.addr.page) : TRUE
             read == [req EXCEPT !.type = "read"]
             f == [x \in Lines |-> IF x.page = req.addr.page
                                   THEN [x EXCEPT !.dirty = @ \/ req.type = "write"] ELSE x]
             new == SendMerged(l, req)
  <1>1. /\ l.lines \in Seq(Lines) /\ OnePerPage(l.lines)
        /\ l.waiting \in [Addresses -> SUBSET Requests]
        /\ l.mshrs \subseteq Addresses
    BY DEF Llcs, Structure
  <1>2. m \in l.mshrs /\ m.page = req.addr.page
    BY DEF Merges, MshrsOf
  <1>3. read \in Requests /\ read.source = req.source /\ read.addr = req.addr
    BY DEF Requests
  <1>4. /\ new.lines = Stored(l.lines, req)
        /\ new.waiting = [l.waiting EXCEPT ![m] = @ \cup {read}]
        /\ new.mshrs = l.mshrs /\ new.hitList = l.hitList /\ new.missList = l.missList
        /\ new = [l EXCEPT !.waiting = new.waiting, !.lines = new.lines]
    BY DEF SendMerged, Llcs
  <1> HIDE DEF m, read, new
  <1>5. /\ f \in [Lines -> Lines]
        /\ \A x \in Lines : f[x].page = x.page /\ f[x].ready = x.ready
        /\ \A x \in Lines : x.dirty => f[x].dirty
    BY DEF Lines
  <1>6. new.lines = [i \in DOMAIN l.lines |-> f[l.lines[i]]]
    <2>1. \A i \in DOMAIN l.lines : l.lines[i] \in Lines
      BY <1>1
    <2> QED
      BY <1>4, <2>1 DEF Stored
  <1> HIDE DEF f
  <1>7. /\ new.lines \in Seq(Lines) /\ Len(new.lines) = Len(l.lines)
        /\ OnePerPage(new.lines)
        /\ Range(new.lines) = {f[x] : x \in Range(l.lines)}
    BY <1>1, <1>5, <1>6, SamePages
  <1>7a. Range(l.lines) \subseteq Lines
    BY <1>1, RangeOfPlaces
  <1>8. /\ new.waiting \in [Addresses -> SUBSET Requests]
        /\ new.waiting[m] = l.waiting[m] \cup {read}
        /\ \A a \in Addresses : l.waiting[a] \subseteq new.waiting[a]
    BY <1>1, <1>2, <1>3, <1>4
  <1>9. new \in Llcs
    BY <1>4, <1>7, <1>8 DEF Llcs
  <1>10. Structure(new)
    BY <1>4, <1>5, <1>7, <1>7a DEF Structure
  <1>11. \A p \in Pages : DirtyAt(l, p) => DirtyAt(new, p)
    BY <1>4, <1>5, <1>7, <1>7a DEF DirtyAt
  <1>12. /\ \A c \in Cores, a \in Addresses \cup {NoAddr} :
              AwaitedBy(l, c, a) => AwaitedBy(new, c, a)
         /\ AwaitedBy(new, req.source, req.addr)
    BY <1>1, <1>2, <1>3, <1>4, <1>8 DEF AwaitedBy, Wakes
  <1>13. \A reads \in Seq(Addresses) :
            /\ Fetched(l, reads) => Fetched(new, reads)
            /\ FetchedOnce(l, reads) => FetchedOnce(new, reads)
    BY <1>4 DEF Fetched, FetchedOnce
  <1> QED
    BY <1>9, <1>10, <1>11, <1>12, <1>13 DEF SendKeeps, new

\* Making room: the line that goes has arrived, and if it is dirty, its write-back is in
\* the miss list.
RoomMade(l, new) ==
    /\ new \in Llcs /\ Structure(new) /\ Len(new.lines) < Associativity
    /\ new.mshrs = l.mshrs /\ new.waiting = l.waiting /\ new.hitList = l.hitList
    /\ Range(new.lines) \subseteq Range(l.lines)
    /\ \A p \in Pages : DirtyAt(l, p) => DirtyAt(new, p)
    /\ ReadsIn(new.missList) = ReadsIn(l.missList)
    /\ \A reads \in Seq(Addresses) : NoneTwice(l.missList, reads) => NoneTwice(new.missList, reads)

\* An entry that is not a read.
LEMMA AppendWrite ==
  ASSUME NEW list \in Seq(Entries), NEW e \in Entries, e.req.type = "write"
  PROVE  /\ ReadsIn(Append(list, e)) = ReadsIn(list)
         /\ \A reads \in Seq(Addresses) :
               NoneTwice(list, reads) => NoneTwice(Append(list, e), reads)
  <1> DEFINE new == Append(list, e)
  <1>1. /\ new \in Seq(Entries) /\ Range(new) = Range(list) \cup {e}
        /\ Len(new) = Len(list) + 1
        /\ \A k \in 1 .. Len(list) : new[k] = list[k]
        /\ new[Len(list) + 1] = e
    BY AppendRange
  <1> HIDE DEF new
  <1>2. Len(list) \in Nat /\ DOMAIN list = 1 .. Len(list) /\ DOMAIN new = 1 .. Len(list) + 1
    BY <1>1
  <1>3. ReadsIn(new) = ReadsIn(list)
    BY <1>1 DEF ReadsIn
  <1>4. ASSUME NEW reads \in Seq(Addresses), NoneTwice(list, reads)
        PROVE  NoneTwice(new, reads)
    <2>1. \A k \in DOMAIN new : new[k].req.type = "read" => k \in DOMAIN list /\ new[k] = list[k]
      BY <1>1, <1>2
    <2> QED
      BY <1>3, <1>4, <2>1 DEF NoneTwice
  <1> QED
    BY <1>3, <1>4 DEF new

\* A read of a page that has none under way.
LEMMA AppendRead ==
  ASSUME NEW list \in Seq(Entries), NEW e \in Entries, e.req.type = "read"
  PROVE  /\ ReadsIn(Append(list, e)) = ReadsIn(list) \cup {e.req.addr}
         /\ \A reads \in Seq(Addresses) :
               NoneTwice(list, reads) /\ (\A a \in Flying(list, reads) : a.page # e.req.addr.page)
                  => NoneTwice(Append(list, e), reads)
  <1> DEFINE new == Append(list, e)
  <1>1. /\ new \in Seq(Entries) /\ Range(new) = Range(list) \cup {e}
        /\ Len(new) = Len(list) + 1
        /\ \A k \in 1 .. Len(list) : new[k] = list[k]
        /\ new[Len(list) + 1] = e
    BY AppendRange
  <1> HIDE DEF new
  <1>2. Len(list) \in Nat /\ DOMAIN list = 1 .. Len(list) /\ DOMAIN new = 1 .. Len(list) + 1
    BY <1>1
  <1>3. ReadsIn(new) = ReadsIn(list) \cup {e.req.addr}
    BY <1>1 DEF ReadsIn
  <1>4. ASSUME NEW reads \in Seq(Addresses), NoneTwice(list, reads),
               \A a \in Flying(list, reads) : a.page # e.req.addr.page
        PROVE  NoneTwice(new, reads)
    <2>1. \A k \in DOMAIN new :
             (k \in DOMAIN list /\ new[k] = list[k]) \/ (k = Len(list) + 1 /\ new[k] = e)
      BY <1>1, <1>2
    <2>2. \A k \in DOMAIN list :
             list[k].req.type = "read" => list[k].req.addr.page # e.req.addr.page
      BY <1>4 DEF Flying, ReadsIn, Range
    <2>3. \A a \in ReadsIn(new), b \in Range(reads) : a.page # b.page
      BY <1>3, <1>4 DEF NoneTwice, Flying
    <2>4. \A i, j \in DOMAIN new :
             new[i].req.type = "read" /\ new[j].req.type = "read"
                /\ new[i].req.addr.page = new[j].req.addr.page => i = j
      BY <1>4, <2>1, <2>2 DEF NoneTwice
    <2> QED
      BY <1>4, <2>3, <2>4 DEF NoneTwice
  <1> QED
    BY <1>3, <1>4 DEF new

\* What is evicted has arrived, so that no MSHR loses its line, and is written back if
\* it is dirty.
LEMMA EvictedMakesRoom ==
  ASSUME NEW l \in Llcs, Structure(l),
         Len(l.lines) < Associativity \/ HasVictim(l.lines)
  PROVE  RoomMade(l, Evicted(l))
  <1>1. l.lines \in Seq(Lines) /\ OnePerPage(l.lines) /\ Len(l.lines) \in Nat
        /\ DOMAIN l.lines = 1 .. Len(l.lines) /\ l.missList \in Seq(Entries)
    BY DEF Llcs, Structure
  <1>2. CASE Len(l.lines) < Associativity
    BY <1>2 DEF Evicted, RoomMade
  <1>3. CASE ~ (Len(l.lines) < Associativity)
    <2> DEFINE v == Victim(l.lines)  x == l.lines[v]  new == Evicted(l)
               e == Later(WriteBack(x))
    <2>1. v \in DOMAIN l.lines /\ x.ready
      <3> DEFINE S == {i \in DOMAIN l.lines : l.lines[i].ready}
      <3>1. S \in SUBSET Nat /\ S # {}
        BY <1>1, <1>3 DEF HasVictim
      <3>2. PICK n \in S : \A k \in S : n <= k
        <4> HIDE DEF S
        <4> QED
          BY <3>1, LeastNatural
      <3>3. n \in DOMAIN l.lines /\ l.lines[n].ready /\ \A j \in 1 .. n - 1 : ~ l.lines[j].ready
        <4>1. \A j \in 1 .. n - 1 : j \in DOMAIN l.lines /\ ~ (n <= j)
          BY <1>1, <3>2
        <4> QED
          BY <3>2, <4>1
      <3> QED
        BY <3>3 DEF Victim
    <2>2. x \in Lines /\ x \in Range(l.lines)
      BY <1>1, <2>1 DEF Range
    <2>3. /\ new.lines = RemoveAt(l.lines, v)
          /\ new.missList = IF x.dirty THEN Append(l.missList, e) ELSE l.missList
          /\ new.mshrs = l.mshrs /\ new.waiting = l.waiting /\ new.hitList = l.hitList
          /\ new = [l EXCEPT !.lines = new.lines, !.missList = new.missList]
      BY <1>3 DEF Evicted, Llcs
    <2> HIDE DEF v, new
    <2>4. /\ new.lines \in Seq(Lines) /\ Len(new.lines) = Len(l.lines) - 1
          /\ OnePerPage(new.lines) /\ Range(new.lines) = Range(l.lines) \ {x}
      BY <1>1, <2>1, <2>3, RemoveLine, SMTT(30)
    <2>5. e \in Entries /\ e.req.type = "write" /\ e.req.addr.page = x.page
      <3>1. WriteBack(x) \in Requests
        BY <2>2 DEF WriteBack, Requests, Lines, Addresses
      <3> QED
        BY <3>1, LaterIsEntry DEF WriteBack
    <2> HIDE DEF e, x
    <2>6. /\ new.missList \in Seq(Entries)
          /\ Range(l.missList) \subseteq Range(new.missList)
          /\ x.dirty => e \in Range(new.missList)
          /\ ReadsIn(new.missList) = ReadsIn(l.missList)
          /\ \A reads \in Seq(Addresses) :
                NoneTwice(l.missList, reads) => NoneTwice(new.missList, reads)
      <3>1. CASE x.dirty
        BY <1>1, <2>3, <2>5, <3>1, AppendRange, AppendWrite
      <3>2. CASE ~ x.dirty
        BY <1>1, <2>3, <3>2
      <3> QED
        BY <3>1, <3>2
    <2>7. new \in Llcs
      BY <2>3, <2>4, <2>6 DEF Llcs
    <2>8. Len(new.lines) < Associativity
      BY <1>1, <2>4, FrontendAssumption DEF Structure
    <2>9. Structure(new)
      <3>1. \A m \in l.mshrs : \E y \in Range(new.lines) : y.page = m.page /\ ~ y.ready
        BY <2>1, <2>4 DEF Structure, x
      <3>2. Len(new.lines) <= Associativity
        BY <2>4, <2>8, FrontendAssumption
      <3> QED
        BY <2>3, <2>4, <3>1, <3>2 DEF Structure
    <2>10. \A p \in Pages : DirtyAt(l, p) => DirtyAt(new, p)
      BY <2>4, <2>5, <2>6 DEF DirtyAt
    <2> QED
      BY <2>3, <2>4, <2>6, <2>7, <2>8, <2>9, <2>10 DEF RoomMade, new
  <1> QED
    BY <1>2, <1>3

\* A miss: the page, which has neither line nor MSHR, gets both, and one read.
LEMMA SendMissKeeps ==
  ASSUME NEW l \in Llcs, Structure(l), NEW req \in Requests,
         ~ IsHit(l.lines, req.addr.page), ~ Merges(l, req), CanMiss(l)
  PROVE  SendKeeps(l, SendMiss(l, req), req)
  <1> DEFINE room == Evicted(l)
             read == [req EXCEPT !.type = "read"]
             e == Later(read)
             line == [page |-> req.addr.page, offset |-> req.addr.offset,
                      dirty |-> req.type = "write", ready |-> FALSE]
             new == SendMiss(l, req)
  <1>1. RoomMade(l, room)
    BY EvictedMakesRoom DEF CanMiss
  <1>2. /\ new.lines = Append(room.lines, line)
        /\ new.mshrs = room.mshrs \cup {req.addr}
        /\ new.waiting = [room.waiting EXCEPT ![req.addr] = {read}]
        /\ new.missList = Append(room.missList, e)
        /\ new.hitList = room.hitList
        /\ new = [room EXCEPT !.lines = new.lines, !.mshrs = new.mshrs,
                              !.waiting = new.waiting, !.missList = new.missList]
    BY <1>1 DEF SendMiss, Allocated, RoomMade, Llcs
  <1>3. /\ read \in Requests /\ read.source = req.source /\ read.addr = req.addr
        /\ read.type = "read" /\ req.addr \in Addresses
    BY DEF Requests
  <1>4. e \in Entries /\ e.req = read
    BY <1>3, LaterIsEntry
  <1>5. line \in Lines /\ line.page = req.addr.page /\ ~ line.ready
    BY <1>3 DEF Lines, Addresses
  <1> HIDE DEF room, read, e, line, new
  <1>6. /\ room \in Llcs /\ Structure(room)
        /\ room.lines \in Seq(Lines) /\ room.mshrs \subseteq Addresses
        /\ room.waiting \in [Addresses -> SUBSET Requests] /\ room.missList \in Seq(Entries)
    BY <1>1 DEF RoomMade, Llcs
  <1>7. \A m \in l.mshrs : m.page # req.addr.page
    BY DEF Merges, MshrsOf
  <1>8. \A y \in Range(l.lines) : y.page # req.addr.page
    <2>1. \A y \in Range(l.lines) : y.page = req.addr.page => ~ y.ready
      BY DEF IsHit, LinesOf, Range
    <2> QED
      BY <1>7, <2>1 DEF Structure
  <1>9. /\ new.lines \in Seq(Lines) /\ Len(new.lines) = Len(room.lines) + 1
        /\ OnePerPage(new.lines) /\ Range(new.lines) = Range(room.lines) \cup {line}
    <2>1. \A y \in Range(room.lines) : y.page # line.page
      BY <1>1, <1>5, <1>8 DEF RoomMade
    <2> QED
      BY <1>2, <1>5, <1>6, <2>1, AppendLine DEF Structure
  <1>10. /\ new.missList \in Seq(Entries)
         /\ Range(new.missList) = Range(room.missList) \cup {e}
         /\ ReadsIn(new.missList) = ReadsIn(room.missList) \cup {req.addr}
         /\ \A reads \in Seq(Addresses) :
               NoneTwice(room.missList, reads)
                  /\ (\A a \in Flying(room.missList, reads) : a.page # req.addr.page)
               => NoneTwice(new.missList, reads)
    BY <1>2, <1>3, <1>4, <1>6, AppendRange, AppendRead
  <1>11. /\ new.waiting \in [Addresses -> SUBSET Requests]
         /\ new.waiting[req.addr] = {read}
         /\ \A m \in l.mshrs : new.waiting[m] = l.waiting[m]
    BY <1>1, <1>2, <1>3, <1>6, <1>7 DEF RoomMade
  <1>12. new \in Llcs
    BY <1>2, <1>3, <1>6, <1>9, <1>10, <1>11 DEF Llcs
  <1>13. IsFiniteSet(new.mshrs) /\ Cardinality(new.mshrs) <= NumMshrs
    <2>1. IsFiniteSet(room.mshrs) /\ room.mshrs = l.mshrs
      BY <1>1, <1>6 DEF Structure, RoomMade
    <2>2. req.addr \notin room.mshrs
      BY <1>7, <2>1
    <2>3. /\ IsFiniteSet(new.mshrs) /\ Cardinality(new.mshrs) = Cardinality(room.mshrs) + 1
          /\ Cardinality(room.mshrs) \in Nat
      BY <1>2, <2>1, <2>2, FS_AddElement, FS_CardinalityType
    <2>4. Cardinality(l.mshrs) < NumMshrs /\ NumMshrs \in Nat
      BY FrontendAssumption DEF CanMiss, NumMshrs
    <2> QED
      BY <2>1, <2>3, <2>4
  <1>14. Structure(new)
    <2>1. Len(new.lines) <= Associativity
      BY <1>1, <1>6, <1>9, FrontendAssumption DEF RoomMade
    <2>2. \A m, n \in new.mshrs : m.page = n.page => m = n
      BY <1>1, <1>2, <1>6, <1>7 DEF Structure, RoomMade
    <2>3. \A m \in new.mshrs : \E y \in Range(new.lines) : y.page = m.page /\ ~ y.ready
      BY <1>2, <1>5, <1>6, <1>9 DEF Structure
    <2>4. \A y \in Range(new.lines) : ~ y.ready => \E m \in new.mshrs : m.page = y.page
      BY <1>2, <1>5, <1>6, <1>9 DEF Structure
    <2> QED
      BY <1>9, <1>13, <2>1, <2>2, <2>3, <2>4 DEF Structure
  <1>15. \A p \in Pages : DirtyAt(l, p) => DirtyAt(new, p)
    <2>1. \A p \in Pages : DirtyAt(room, p) => DirtyAt(new, p)
      BY <1>9, <1>10 DEF DirtyAt
    <2> QED
      BY <1>1, <2>1 DEF RoomMade
  <1>16. /\ \A c \in Cores, a \in Addresses \cup {NoAddr} :
              AwaitedBy(l, c, a) => AwaitedBy(new, c, a)
         /\ AwaitedBy(new, req.source, req.addr)
    BY <1>1, <1>2, <1>3, <1>11 DEF AwaitedBy, Wakes, RoomMade
  <1>17. ASSUME NEW reads \in Seq(Addresses)
         PROVE  /\ Fetched(l, reads) => Fetched(new, reads)
                /\ FetchedOnce(l, reads) => FetchedOnce(new, reads)
    <2>1. /\ Flying(room.missList, reads) = Flying(l.missList, reads)
          /\ Flying(new.missList, reads) = Flying(l.missList, reads) \cup {req.addr}
      BY <1>1, <1>10 DEF Flying, RoomMade
    <2>2. new.mshrs = l.mshrs \cup {req.addr}
      BY <1>1, <1>2 DEF RoomMade
    <2>3. Fetched(l, reads) => Fetched(new, reads)
      BY <2>1, <2>2 DEF Fetched
    <2>4. FetchedOnce(l, reads) => FetchedOnce(new, reads)
      BY <1>1, <1>7, <1>10, <2>1, <2>2 DEF FetchedOnce, RoomMade
    <2> QED
      BY <2>3, <2>4
  <1> QED
    BY <1>12, <1>14, <1>15, <1>16, <1>17 DEF SendKeeps, new

\* send, if it accepts the request.
LEMMA SendSound ==
  ASSUME NEW l \in Llcs, Structure(l), NEW req \in Requests, Accepts(l, req)
  PROVE  SendKeeps(l, Send(l, req), req)
  <1>1. CASE IsHit(l.lines, req.addr.page)
    <2>1. Send(l, req) = SendHit(l, req)
      BY <1>1 DEF Send
    <2> QED
      BY <1>1, <2>1, SendHitKeeps
  <1>2. CASE ~ IsHit(l.lines, req.addr.page) /\ Merges(l, req)
    <2>1. Send(l, req) = SendMerged(l, req)
      BY <1>2 DEF Send
    <2> QED
      BY <1>2, <2>1, SendMergedKeeps
  <1>3. CASE ~ IsHit(l.lines, req.addr.page) /\ ~ Merges(l, req)
    <2>1. Send(l, req) = SendMiss(l, req)
      BY <1>3 DEF Send
    <2> QED
      BY <1>3, <2>1, SendMissKeeps DEF Accepts
  <1> QED
    BY <1>1, <1>2, <1>3

-----------------------------------------------------------------------------
(***************************************************************************)
(* receive, for an answer of the memory and for a hit.                     *)
(***************************************************************************)

\* A page that is hit has no MSHR.
LEMMA HitHasNoMshr ==
  ASSUME NEW l \in Llcs, Structure(l), NEW page, IsHit(l.lines, page)
  PROVE  MshrsOf(l.mshrs, page) = {}
  <1>1. \A x, y \in Range(l.lines) : x.page = y.page => x = y
    BY DEF Structure, OnePerPage, Range
  <1>2. \E x \in Range(l.lines) : x.page = page /\ x.ready
    BY DEF IsHit, LinesOf, Range
  <1> QED
    BY <1>1, <1>2 DEF Structure, MshrsOf

\* An answer frees the MSHR of the page and makes its line ready, dirty or not.
LEMMA ArrivedKeeps ==
  ASSUME NEW l \in Llcs, Structure(l), NEW addr \in Addresses, NEW new, new = Arrived(l, addr)
  PROVE  /\ new \in Llcs /\ Structure(new)
         /\ new.missList = l.missList /\ new.hitList = l.hitList
         /\ new.mshrs = l.mshrs \ MshrsOf(l.mshrs, addr.page)
         /\ \A m \in Addresses \ {addr} : new.waiting[m] = l.waiting[m]
         /\ \A p \in Pages : DirtyAt(l, p) => DirtyAt(new, p)
         /\ \A p : IsHit(l.lines, p) => IsHit(new.lines, p)
  <1> DEFINE mine == MshrsOf(l.mshrs, addr.page)
             f == [x \in Lines |-> IF x.page = addr.page /\ mine # {}
                                   THEN [x EXCEPT !.ready = TRUE] ELSE x]
  <1>1. /\ l.lines \in Seq(Lines) /\ OnePerPage(l.lines)
        /\ l.waiting \in [Addresses -> SUBSET Requests]
        /\ l.mshrs \subseteq Addresses
    BY DEF Llcs, Structure
  <1>2. /\ new.lines = [i \in DOMAIN l.lines |->
                          IF l.lines[i].page = addr.page /\ mine # {}
                          THEN [l.lines[i] EXCEPT !.ready = TRUE] ELSE l.lines[i]]
        /\ new.mshrs = l.mshrs \ mine
        /\ new.waiting = [l.waiting EXCEPT ![addr] = {}]
        /\ new.missList = l.missList /\ new.hitList = l.hitList
        /\ new = [l EXCEPT !.lines = new.lines, !.mshrs = new.mshrs, !.waiting = new.waiting]
    BY DEF Arrived, Llcs
  <1>3. /\ f \in [Lines -> Lines]
        /\ \A x \in Lines : /\ f[x].page = x.page
                            /\ (x.dirty => f[x].dirty) /\ (x.ready => f[x].ready)
        /\ \A x \in Lines : x.page # addr.page => f[x] = x
        /\ \A x \in Lines : ~ f[x].ready => ~ x.ready /\ (x.page # addr.page \/ mine = {})
    BY DEF Lines
  <1>4. new.lines = [i \in DOMAIN l.lines |-> f[l.lines[i]]]
    <2>1. \A i \in DOMAIN l.lines : l.lines[i] \in Lines
      BY <1>1
    <2> QED
      BY <1>2, <2>1
  <1> HIDE DEF f
  <1>5. /\ new.lines \in Seq(Lines) /\ Len(new.lines) = Len(l.lines)
        /\ OnePerPage(new.lines)
        /\ Range(new.lines) = {f[x] : x \in Range(l.lines)}
    <2>1. f \in [Lines -> Lines] /\ \A x \in Lines : f[x].page = x.page
      BY <1>3
    <2> QED
      BY <1>1, <1>4, <2>1, SamePages, SMTT(30)
  <1>6. Range(l.lines) \subseteq Lines
    BY <1>1, RangeOfPlaces
  <1>7. /\ \A m \in mine : m.page = addr.page /\ m \in l.mshrs
        /\ \A m \in l.mshrs : m.page = addr.page => m \in mine
    BY DEF MshrsOf
  <1> HIDE DEF mine
  <1>8. /\ new.waiting \in [Addresses -> SUBSET Requests]
        /\ \A m \in Addresses \ {addr} : new.waiting[m] = l.waiting[m]
    BY <1>1, <1>2
  <1>9. new \in Llcs
    BY <1>1, <1>2, <1>5, <1>8 DEF Llcs
  <1>10. Structure(new)
    <2>1. IsFiniteSet(new.mshrs) /\ Cardinality(new.mshrs) <= NumMshrs
      <3>1. IsFiniteSet(l.mshrs) /\ new.mshrs \subseteq l.mshrs
        BY <1>2 DEF Structure
      <3>2. IsFiniteSet(new.mshrs) /\ Cardinality(new.mshrs) <= Cardinality(l.mshrs)
        BY <3>1, FS_Subset
      <3>3. Cardinality(l.mshrs) \in Nat /\ Cardinality(new.mshrs) \in Nat /\ NumMshrs \in Nat
        BY <3>1, <3>2, FS_CardinalityType, FrontendAssumption DEF NumMshrs
      <3> QED
        BY <3>2, <3>3 DEF Structure
    <2>2. \A m \in new.mshrs : \E y \in Range(new.lines) : y.page = m.page /\ ~ y.ready
      <3> TAKE m \in new.mshrs
      <3>1. m \in l.mshrs /\ m.page # addr.page
        BY <1>2, <1>7
      <3>2. PICK x \in Range(l.lines) : x.page = m.page /\ ~ x.ready
        BY <3>1 DEF Structure
      <3>3. f[x] = x /\ f[x] \in Range(new.lines)
        BY <1>3, <1>5, <1>6, <3>1, <3>2
      <3> QED
        BY <3>2, <3>3
    <2>3. ASSUME NEW y \in Range(new.lines), ~ y.ready
          PROVE  \E m \in new.mshrs : m.page = y.page
      <3>1. PICK x \in Range(l.lines) : y = f[x]
        BY <1>5
      <3>2. ~ x.ready /\ y.page = x.page /\ (x.page # addr.page \/ mine = {})
        BY <1>3, <1>6, <2>3, <3>1
      <3>3. PICK m \in l.mshrs : m.page = x.page
        BY <3>2 DEF Structure
      <3> QED
        BY <1>2, <1>7, <3>2, <3>3
    <2> QED
      BY <1>2, <1>5, <2>1, <2>2, <2>3 DEF Structure
  <1>11. \A p \in Pages : DirtyAt(l, p) => DirtyAt(new, p)
    <2>1. \A x \in Range(l.lines) : /\ f[x] \in Range(new.lines) /\ f[x].page = x.page
                                     /\ (x.dirty => f[x].dirty)
      BY <1>3, <1>5, <1>6
    <2> SUFFICES ASSUME NEW p \in Pages, DirtyAt(l, p) PROVE DirtyAt(new, p)
      OBVIOUS
    <2>2. CASE \E x \in Range(l.lines) : x.page = p /\ x.dirty
      <3>1. PICK x \in Range(l.lines) : x.page = p /\ x.dirty
        BY <2>2
      <3>2. f[x] \in Range(new.lines) /\ f[x].page = p /\ f[x].dirty
        BY <2>1, <3>1
      <3> QED
        BY <3>2 DEF DirtyAt
    <2> QED
      BY <1>2, <2>2 DEF DirtyAt
  <1>12. ASSUME NEW p, IsHit(l.lines, p) PROVE IsHit(new.lines, p)
    <2>1. PICK i \in DOMAIN l.lines : l.lines[i].page = p /\ l.lines[i].ready
      BY <1>12 DEF IsHit, LinesOf
    <2>2. i \in DOMAIN new.lines /\ new.lines[i] = f[l.lines[i]] /\ l.lines[i] \in Lines
      BY <1>1, <1>4
    <2> QED
      BY <1>3, <2>1, <2>2 DEF IsHit, LinesOf
  <1> QED
    BY <1>2, <1>8, <1>9, <1>10, <1>11, <1>12 DEF mine

\* A load that is still not ready is one that none of the answered requests wakes.
LEMMA WokenKeeps ==
  ASSUME NEW k \in CoreStates, NEW c \in Cores, CoreFits(k, c), NEW answered,
         NEW new, new = Woken(k, c, answered)
  PROVE  /\ new \in CoreStates /\ CoreFits(new, c)
         /\ \A x \in Range(new.window) :
               \/ x.ready
               \/ /\ \E y \in Range(k.window) : y.addr = x.addr /\ ~ y.ready
                  /\ \A r \in answered : ~ Wakes(r, c, x.addr)
  <1> DEFINE w == k.window
             Hit(i) == \E r \in answered : r.source = c /\ r.addr = w[i].addr
  <1>1. w \in Seq(Insts) /\ Len(w) \in Nat /\ DOMAIN w = 1 .. Len(w)
        /\ \A i \in 1 .. Len(w) : w[i] \in Insts
    BY DEF CoreStates
  <1>2. /\ new.window = [i \in 1 .. Len(w) |->
                           IF Hit(i) THEN [w[i] EXCEPT !.ready = TRUE] ELSE w[i]]
        /\ new.next = k.next
        /\ new = [k EXCEPT !.window = new.window]
    BY <1>1 DEF Woken, CoreStates
  <1> HIDE DEF Hit, w
  <1>3. \A i \in 1 .. Len(w) : new.window[i] \in Insts /\ new.window[i].addr = w[i].addr
                               /\ (~ new.window[i].ready => ~ w[i].ready /\ ~ Hit(i))
    <2> TAKE i \in 1 .. Len(w)
    <2>1. new.window[i] = IF Hit(i) THEN [w[i] EXCEPT !.ready = TRUE] ELSE w[i]
      BY <1>2
    <2> QED
      BY <1>1, <2>1 DEF Insts
  <1>4. new.window \in Seq(Insts) /\ Len(new.window) = Len(w) /\ DOMAIN new.window = 1 .. Len(w)
    <2>1. new.window \in [1 .. Len(w) -> Insts]
      BY <1>2, <1>3
    <2> QED
      BY <1>1, <2>1
  <1>5. new \in CoreStates
    BY <1>2, <1>4 DEF CoreStates
  <1>6. CoreFits(new, c)
    BY <1>2, <1>4 DEF CoreFits, w
  <1>7. ASSUME NEW x \in Range(new.window), ~ x.ready
        PROVE  /\ \E y \in Range(w) : y.addr = x.addr /\ ~ y.ready
               /\ \A r \in answered : ~ Wakes(r, c, x.addr)
    <2>1. PICK i \in 1 .. Len(w) : new.window[i] = x
      BY <1>4 DEF Range
    <2>2. w[i].addr = x.addr /\ ~ w[i].ready /\ ~ Hit(i) /\ w[i] \in Range(w)
      BY <1>1, <1>3, <1>7, <2>1 DEF Range
    <2> QED
      BY <2>2 DEF Hit, Wakes
  <1> QED
    BY <1>5, <1>6, <1>7 DEF w

\* What receive does to cache and cores.
ReceiveKeepsAll(s, addr, new) ==
    /\ new \in States /\ \A c \in Cores : CoreFits(new.core[c], c)
    /\ Structure(new.llc)
    /\ new.llc.missList = s.llc.missList /\ new.llc.hitList = s.llc.hitList
    /\ new.llc.mshrs = s.llc.mshrs \ MshrsOf(s.llc.mshrs, addr.page)
    /\ \A m \in Addresses \ {addr} : new.llc.waiting[m] = s.llc.waiting[m]
    /\ \A p \in Pages : DirtyAt(s.llc, p) => DirtyAt(new.llc, p)
    /\ \A p : IsHit(s.llc.lines, p) => IsHit(new.llc.lines, p)
    /\ \A c \in Cores : \A x \in Range(new.core[c].window) :
          \/ x.ready
          \/ /\ \E y \in Range(s.core[c].window) : y.addr = x.addr /\ ~ y.ready
             /\ \A r \in s.llc.waiting[addr] : ~ Wakes(r, c, x.addr)

\* receive keeps cache and cores as they must be.
LEMMA ReceiveKeeps ==
  ASSUME NEW s \in States, \A c \in Cores : CoreFits(s.core[c], c), Structure(s.llc),
         NEW addr \in Addresses
  PROVE  ReceiveKeepsAll(s, addr, Receive(s, addr))
  <1> DEFINE new == Receive(s, addr)
  <1>1. s.llc \in Llcs /\ s.core \in [Cores -> CoreStates]
    BY DEF States
  <1>2. /\ new.llc = Arrived(s.llc, addr)
        /\ new.core = [c \in Cores |-> Woken(s.core[c], c, s.llc.waiting[addr])]
        /\ new = [llc |-> new.llc, core |-> new.core]
    BY DEF Receive
  <1> HIDE DEF new
  <1>3. /\ new.llc \in Llcs /\ Structure(new.llc)
        /\ new.llc.missList = s.llc.missList /\ new.llc.hitList = s.llc.hitList
        /\ new.llc.mshrs = s.llc.mshrs \ MshrsOf(s.llc.mshrs, addr.page)
        /\ \A m \in Addresses \ {addr} : new.llc.waiting[m] = s.llc.waiting[m]
        /\ \A p \in Pages : DirtyAt(s.llc, p) => DirtyAt(new.llc, p)
        /\ \A p : IsHit(s.llc.lines, p) => IsHit(new.llc.lines, p)
    BY <1>1, <1>2, ArrivedKeeps
  <1>4. ASSUME NEW c \in Cores
        PROVE  /\ new.core[c] \in CoreStates /\ CoreFits(new.core[c], c)
               /\ \A x \in Range(new.core[c].window) :
                     \/ x.ready
                     \/ /\ \E y \in Range(s.core[c].window) : y.addr = x.addr /\ ~ y.ready
                        /\ \A r \in s.llc.waiting[addr] : ~ Wakes(r, c, x.addr)
    <2>1. new.core[c] = Woken(s.core[c], c, s.llc.waiting[addr]) /\ s.core[c] \in CoreStates
      BY <1>1, <1>2
    <2> QED
      BY <2>1, WokenKeeps
  <1>5. new.core \in [Cores -> CoreStates]
    BY <1>2, <1>4
  <1>6. new \in States
    BY <1>2, <1>3, <1>5 DEF States
  <1> QED
    BY <1>3, <1>4, <1>6 DEF ReceiveKeepsAll, new

-----------------------------------------------------------------------------
(***************************************************************************)
(* The loop over the hit list.                                             *)
(***************************************************************************)

\* The loop has still to go over the entries R.
Answering(s, reads, late, D, R) ==
    /\ s \in States /\ R \subseteq Entries
    /\ \A c \in Cores : CoreFits(s.core[c], c)
    /\ Structure(s.llc) /\ Fetched(s.llc, reads)
    /\ ~ late =>
          /\ FetchedOnce(s.llc, reads)
          /\ \A e \in R : e.wait = 1 => IsHit(s.llc.lines, e.req.addr.page)
          /\ \A c \in Cores : \A x \in Range(s.core[c].window) :
                \/ x.ready \/ AwaitedBy(s.llc, c, x.addr)
                \/ \E e \in R : Wakes(e.req, c, x.addr)
    /\ \A page \in D : DirtyAt(s.llc, page)

\* A hit whose time has come.
LEMMA AnswerHitStep ==
  ASSUME NEW s, NEW reads, NEW late \in BOOLEAN, NEW D \in SUBSET Pages, NEW R, NEW e \in Entries,
         Answering(s, reads, late, D, R \cup {e}), e.wait = 1
  PROVE  Answering(AnswerHit(s, e.req), reads, late, D, R)
  <1> DEFINE addr == e.req.addr
             set == [llc |-> [s.llc EXCEPT !.waiting[addr] = {e.req}], core |-> s.core]
             new == AnswerHit(s, e.req)
  <1>1. /\ s \in States /\ s.llc \in Llcs /\ Structure(s.llc) /\ Fetched(s.llc, reads)
        /\ \A c \in Cores : CoreFits(s.core[c], c)
        /\ \A page \in D : DirtyAt(s.llc, page)
        /\ R \subseteq Entries
    BY DEF Answering, States
  <1>2. addr \in Addresses /\ e.req \in Requests
    BY DEF Entries, Requests
  <1>3. /\ set.core = s.core
        /\ set.llc.lines = s.llc.lines /\ set.llc.mshrs = s.llc.mshrs
        /\ set.llc.missList = s.llc.missList /\ set.llc.hitList = s.llc.hitList
        /\ set.llc.waiting = [s.llc.waiting EXCEPT ![addr] = {e.req}]
        /\ set.llc = [s.llc EXCEPT !.waiting = set.llc.waiting]
        /\ set = [llc |-> set.llc, core |-> set.core]
    BY <1>1 DEF Llcs
  <1>4. new = Receive(set, addr)
    BY DEF AnswerHit
  <1> HIDE DEF addr, set, new
  <1>5. /\ set.llc.waiting \in [Addresses -> SUBSET Requests]
        /\ set.llc.waiting[addr] = {e.req}
        /\ \A m \in Addresses \ {addr} : set.llc.waiting[m] = s.llc.waiting[m]
    <2>1. s.llc.waiting \in [Addresses -> SUBSET Requests]
      BY <1>1 DEF Llcs
    <2> QED
      BY <1>2, <1>3, <2>1
  <1>6. set.llc \in Llcs
    BY <1>1, <1>3, <1>5 DEF Llcs
  <1>7. set \in States
    BY <1>1, <1>3, <1>6 DEF States
  <1>8. Structure(set.llc)
    BY <1>1, <1>3 DEF Structure
  <1>9. ReceiveKeepsAll(set, addr, new)
    BY <1>1, <1>2, <1>3, <1>4, <1>7, <1>8, ReceiveKeeps
  <1>10. /\ new \in States /\ \A c \in Cores : CoreFits(new.core[c], c)
         /\ Structure(new.llc)
         /\ new.llc.missList = s.llc.missList /\ new.llc.hitList = s.llc.hitList
         /\ new.llc.mshrs = s.llc.mshrs \ MshrsOf(s.llc.mshrs, addr.page)
         /\ \A m \in Addresses \ {addr} : new.llc.waiting[m] = s.llc.waiting[m]
         /\ \A p : IsHit(s.llc.lines, p) => IsHit(new.llc.lines, p)
    BY <1>3, <1>5, <1>9 DEF ReceiveKeepsAll
  <1>11. \A p \in D : DirtyAt(new.llc, p)
    <2>1. \A p \in D : DirtyAt(set.llc, p)
      BY <1>1, <1>3 DEF DirtyAt
    <2> QED
      BY <1>9, <2>1 DEF ReceiveKeepsAll
  <1>12. Fetched(new.llc, reads)
    BY <1>1, <1>10 DEF Fetched
  <1>13. ASSUME ~ late
         PROVE  /\ FetchedOnce(new.llc, reads)
                /\ \A d \in R : d.wait = 1 => IsHit(new.llc.lines, d.req.addr.page)
                /\ \A c \in Cores : \A x \in Range(new.core[c].window) :
                      \/ x.ready \/ AwaitedBy(new.llc, c, x.addr)
                      \/ \E d \in R : Wakes(d.req, c, x.addr)
    <2>1. /\ FetchedOnce(s.llc, reads)
          /\ \A d \in R \cup {e} : d.wait = 1 => IsHit(s.llc.lines, d.req.addr.page)
          /\ \A c \in Cores : \A x \in Range(s.core[c].window) :
                \/ x.ready \/ AwaitedBy(s.llc, c, x.addr)
                \/ \E d \in R \cup {e} : Wakes(d.req, c, x.addr)
      BY <1>13 DEF Answering
    <2>2. MshrsOf(s.llc.mshrs, addr.page) = {}
      BY <1>1, <2>1, HitHasNoMshr DEF addr
    <2>3. new.llc.mshrs = s.llc.mshrs
      BY <1>10, <2>2
    <2>4. FetchedOnce(new.llc, reads)
      BY <1>10, <2>1, <2>3 DEF FetchedOnce
    <2>5. \A c, a : AwaitedBy(s.llc, c, a) => AwaitedBy(new.llc, c, a)
      <3>1. s.llc.mshrs \subseteq Addresses /\ addr \notin s.llc.mshrs
        BY <1>1, <2>2 DEF Llcs, MshrsOf
      <3>2. \A m \in s.llc.mshrs : new.llc.waiting[m] = s.llc.waiting[m]
        BY <1>10, <3>1
      <3> QED
        BY <1>10, <2>3, <3>2 DEF AwaitedBy
    <2>6. ASSUME NEW c \in Cores, NEW x \in Range(new.core[c].window), ~ x.ready
          PROVE  AwaitedBy(new.llc, c, x.addr) \/ \E d \in R : Wakes(d.req, c, x.addr)
      <3>1. /\ \E y \in Range(s.core[c].window) : y.addr = x.addr /\ ~ y.ready
            /\ ~ Wakes(e.req, c, x.addr)
        BY <1>3, <1>5, <1>9, <2>6 DEF ReceiveKeepsAll
      <3> QED
        BY <2>1, <2>5, <3>1
    <2> QED
      BY <1>10, <2>1, <2>4, <2>6
  <1> QED
    BY <1>1, <1>10, <1>11, <1>12, <1>13 DEF Answering, new

\* One whose time has not come.
LEMMA KeepHitStep ==
  ASSUME NEW s, NEW reads, NEW late \in BOOLEAN, NEW D \in SUBSET Pages, NEW R, NEW e \in Entries,
         Answering(s, reads, late, D, R \cup {e}),
         NEW new, new = [llc |-> [s.llc EXCEPT !.hitList = Append(@, Aged(e))], core |-> s.core]
  PROVE  Answering(new, reads, late, D, R)
  <1>1. /\ s \in States /\ s.llc \in Llcs /\ s.llc.hitList \in Seq(Entries)
    BY DEF Answering, States, Llcs
  <1>2. /\ new.core = s.core
        /\ new.llc.lines = s.llc.lines /\ new.llc.mshrs = s.llc.mshrs
        /\ new.llc.missList = s.llc.missList /\ new.llc.waiting = s.llc.waiting
        /\ new.llc.hitList = Append(s.llc.hitList, Aged(e))
        /\ new.llc = [s.llc EXCEPT !.hitList = new.llc.hitList]
        /\ new = [llc |-> new.llc, core |-> new.core]
    BY <1>1 DEF Llcs
  <1>3. Aged(e) \in Entries /\ Aged(e).req = e.req
    BY FrontendAssumption DEF Aged, Entries
  <1>4. /\ new.llc.hitList \in Seq(Entries)
        /\ Range(new.llc.hitList) = Range(s.llc.hitList) \cup {Aged(e)}
    <2>1. s.llc.hitList \in Seq(Entries) /\ Aged(e) \in Entries
      BY <1>1, <1>3
    <2>2. /\ Append(s.llc.hitList, Aged(e)) \in Seq(Entries)
          /\ Range(Append(s.llc.hitList, Aged(e))) = Range(s.llc.hitList) \cup {Aged(e)}
      BY <2>1, AppendRange
    <2> QED
      BY <1>2, <2>2
  <1>5. new \in States
    <2>1. new.llc \in Llcs
      BY <1>1, <1>2, <1>4 DEF Llcs
    <2> QED
      BY <1>1, <1>2, <2>1 DEF States
  <1>6. \A c, a : AwaitedBy(s.llc, c, a) \/ Wakes(e.req, c, a) => AwaitedBy(new.llc, c, a)
    BY <1>2, <1>3, <1>4 DEF AwaitedBy
  <1>7. /\ Structure(new.llc) /\ Fetched(new.llc, reads) /\ \A page \in D : DirtyAt(new.llc, page)
        /\ \A c \in Cores : CoreFits(new.core[c], c)
        /\ R \subseteq Entries
    <2>1. /\ Structure(s.llc) /\ Fetched(s.llc, reads) /\ \A page \in D : DirtyAt(s.llc, page)
          /\ \A c \in Cores : CoreFits(s.core[c], c)
          /\ R \subseteq Entries
      BY DEF Answering
    <2>2. Structure(new.llc)
      BY <1>2, <2>1, ZenonT(30) DEF Structure
    <2>3. Fetched(new.llc, reads) /\ \A page \in D : DirtyAt(new.llc, page)
      BY <1>2, <2>1, ZenonT(30) DEF Fetched, DirtyAt
    <2> QED
      BY <1>2, <2>1, <2>2, <2>3
  <1>8. ASSUME ~ late
        PROVE  /\ FetchedOnce(new.llc, reads)
               /\ \A d \in R : d.wait = 1 => IsHit(new.llc.lines, d.req.addr.page)
               /\ \A c \in Cores : \A x \in Range(new.core[c].window) :
                     \/ x.ready \/ AwaitedBy(new.llc, c, x.addr)
                     \/ \E d \in R : Wakes(d.req, c, x.addr)
    <2>1. /\ FetchedOnce(s.llc, reads)
          /\ \A d \in R \cup {e} : d.wait = 1 => IsHit(s.llc.lines, d.req.addr.page)
          /\ \A c \in Cores : \A x \in Range(s.core[c].window) :
                \/ x.ready \/ AwaitedBy(s.llc, c, x.addr)
                \/ \E d \in R \cup {e} : Wakes(d.req, c, x.addr)
      BY <1>8 DEF Answering
    <2> QED
      BY <1>2, <1>6, <2>1 DEF FetchedOnce
  <1> QED
    BY <1>5, <1>7, <1>8 DEF Answering

\* The loop: after k turns the entries from k + 1 on are left.
Rest(list, k) == {list[j] : j \in k + 1 .. Len(list)}

\* A turn takes one entry.
LEMMA RestIsLess ==
  ASSUME NEW T, NEW list \in Seq(T), NEW k \in 1 .. Len(list)
  PROVE  Rest(list, k - 1) = Rest(list, k) \cup {list[k]}
  BY DEF Rest

\* So at the end of the loop every load is ready or awaited.
LEMMA AnswersKeep ==
  ASSUME NEW list \in Seq(Entries), NEW start, NEW reads, NEW late \in BOOLEAN,
         NEW D \in SUBSET Pages, Answering(start, reads, late, D, Range(list))
  PROVE  Answering(Answers(list, start), reads, late, D, {})
  <1> DEFINE n == Len(list)
             I == [k \in 0 .. n |->
                     {s \in States : Answering(s, reads, late, D, Rest(list, k))}]
             turn == [k \in 1 .. n |-> [s \in States |-> AnswerOrKeep(s, list[k])]]
             after[k \in 0 .. n] == IF k = 0 THEN start ELSE AnswerOrKeep(after[k - 1], list[k])
             Body(g) == [k \in 0 .. n |-> IF k = 0 THEN start ELSE AnswerOrKeep(g[k - 1], list[k])]
  <1>1. n \in Nat /\ \A k \in 1 .. n : list[k] \in Entries
    OBVIOUS
  <1>2. ASSUME NEW k \in 1 .. n, NEW s \in I[k - 1]
        PROVE  turn[k][s] \in I[k]
    <2>1. Answering(s, reads, late, D, Rest(list, k - 1)) /\ s \in States
      BY <1>1, <1>2
    <2>2. Answering(s, reads, late, D, Rest(list, k) \cup {list[k]})
      BY <1>1, <2>1, RestIsLess
    <2>3. Answering(AnswerOrKeep(s, list[k]), reads, late, D, Rest(list, k))
      <3>1. CASE list[k].wait = 1
        BY <1>1, <2>2, <3>1, AnswerHitStep DEF AnswerOrKeep
      <3>2. CASE list[k].wait # 1
        BY <1>1, <2>2, <3>2, KeepHitStep DEF AnswerOrKeep
      <3> QED
        BY <3>1, <3>2
    <2>4. AnswerOrKeep(s, list[k]) \in States
      BY <2>3 DEF Answering
    <2> QED
      BY <1>1, <2>1, <2>3, <2>4
  <1>3. start \in I[0]
    <2>1. Rest(list, 0) = Range(list)
      BY DEF Rest, Range
    <2> QED
      BY <1>1, <2>1 DEF Answering
  <1>4. PICK run \in [0 .. n -> States] :
           /\ run[0] = start
           /\ \A k \in 1 .. n : run[k] = turn[k][run[k - 1]]
           /\ \A k \in 0 .. n : run[k] \in I[k]
    <2>1. I \in [0 .. n -> SUBSET States]
      OBVIOUS
    <2> HIDE DEF I, turn, n
    <2>2. \E run \in [0 .. n -> States] :
            /\ LoopRun(run, n, start, turn)
            /\ \A k \in 0 .. n : run[k] \in I[k]
      BY <1>1, <1>2, <1>3, <2>1, LoopKeeps
    <2> QED
      BY <2>2 DEF LoopRun
  <1>5. run = Body(run)
    <2>1. \A k \in 0 .. n : run[k] = IF k = 0 THEN start ELSE AnswerOrKeep(run[k - 1], list[k])
      <3> TAKE k \in 0 .. n
      <3>1. CASE k = 0
        BY <1>4, <3>1
      <3>2. CASE k # 0
        <4>1. k \in 1 .. n /\ k - 1 \in 0 .. n
          BY <1>1, <3>2
        <4> QED
          BY <1>4, <3>2, <4>1
      <3> QED
        BY <3>1, <3>2
    <2> QED
      BY <2>1
  <1>6. after = CHOOSE g : g = Body(g)
    OBVIOUS
  <1>7. Answers(list, start) = after[n]
    BY DEF Answers
  <1> HIDE DEF after
  <1>8. after = Body(after)
    <2> HIDE DEF Body
    <2> QED
      BY <1>5, <1>6
  <1> DEFINE S == {k \in 0 .. n : after[k] = run[k]}
  <1>9. 0 .. n \subseteq S
    <2>1. 0 \in S
      BY <1>1, <1>4, <1>8
    <2>2. ASSUME NEW k \in 0 .. n - 1, k \in S PROVE k + 1 \in S
      <3>1. k + 1 \in 0 .. n /\ k + 1 # 0 /\ (k + 1) - 1 = k /\ k \in 0 .. n
        BY <1>1
      <3>2. after[k + 1] = AnswerOrKeep(after[k], list[k + 1])
        BY <1>8, <3>1
      <3>3. run[k + 1] = AnswerOrKeep(run[k], list[k + 1])
        BY <1>5, <3>1
      <3> QED
        BY <2>2, <3>1, <3>2, <3>3
    <2> HIDE DEF S
    <2> QED
      BY <1>1, <2>1, <2>2, LoopInduction
  <1>10. Answering(after[n], reads, late, D, Rest(list, n))
    BY <1>1, <1>4, <1>9
  <1>11. Rest(list, n) = {}
    BY <1>1 DEF Rest
  <1> QED
    BY <1>7, <1>10, <1>11

-----------------------------------------------------------------------------
(***************************************************************************)
(* The loop over the miss list.                                            *)
(***************************************************************************)

\* A read of a page that has none under way, in the memory.
LEMMA AppendFetch ==
  ASSUME NEW list \in Seq(Entries), NEW reads \in Seq(Addresses), NEW addr \in Addresses
  PROVE  /\ Append(reads, addr) \in Seq(Addresses)
         /\ Flying(list, Append(reads, addr)) = Flying(list, reads) \cup {addr}
         /\ NoneTwice(list, reads) /\ (\A a \in Flying(list, reads) : a.page # addr.page)
               => NoneTwice(list, Append(reads, addr))
  <1> DEFINE new == Append(reads, addr)
  <1>1. /\ new \in Seq(Addresses) /\ Range(new) = Range(reads) \cup {addr}
        /\ Len(new) = Len(reads) + 1
        /\ \A k \in 1 .. Len(reads) : new[k] = reads[k]
        /\ new[Len(reads) + 1] = addr
    BY AppendRange
  <1> HIDE DEF new
  <1>2. Len(reads) \in Nat /\ DOMAIN reads = 1 .. Len(reads) /\ DOMAIN new = 1 .. Len(reads) + 1
    BY <1>1
  <1>3. Flying(list, new) = Flying(list, reads) \cup {addr}
    BY <1>1 DEF Flying
  <1>4. ASSUME NoneTwice(list, reads), \A a \in Flying(list, reads) : a.page # addr.page
        PROVE  NoneTwice(list, new)
    <2>1. \A k \in DOMAIN new :
             (k \in DOMAIN reads /\ new[k] = reads[k]) \/ (k = Len(reads) + 1 /\ new[k] = addr)
      BY <1>1, <1>2
    <2>2. \A k \in DOMAIN reads : reads[k].page # addr.page
      BY <1>4 DEF Flying, Range
    <2>3. \A i, j \in DOMAIN new : new[i].page = new[j].page => i = j
      BY <1>4, <2>1, <2>2 DEF NoneTwice
    <2>4. \A a \in ReadsIn(list), b \in Range(new) : a.page # b.page
      BY <1>1, <1>4 DEF NoneTwice, Flying
    <2> QED
      BY <1>4, <2>3, <2>4 DEF NoneTwice
  <1> QED
    BY <1>1, <1>3, <1>4 DEF new

Offerings == {o \in [left : Seq(Entries), memory : Memories] : MemoryFits(o.memory)}
FlyingIn(o) == Flying(o.left, o.memory.reads)
NoneTwiceIn(o) == NoneTwice(o.left, o.memory.reads)

\* One turn: the entry goes on or stays, and with it its read.
LEMMA OfferStep ==
  ASSUME NEW o \in Offerings, NEW e \in Entries, NEW new, new = Offer(o, e)
  PROVE  /\ new \in Offerings
         /\ FlyingIn(new) = FlyingIn(o) \cup (IF e.req.type = "read" THEN {e.req.addr} ELSE {})
         /\ NoneTwiceIn(o)
               /\ (e.req.type = "read" => \A a \in FlyingIn(o) : a.page # e.req.addr.page)
               => NoneTwiceIn(new)
  <1> DEFINE m == o.memory  addr == e.req.addr
  <1>1. /\ o = [left |-> o.left, memory |-> m] /\ o.left \in Seq(Entries) /\ MemoryFits(m)
        /\ m = [reads |-> m.reads, writes |-> m.writes]
        /\ m.reads \in Seq(Addresses) /\ Len(m.reads) \in Nat /\ m.writes \in Nat
    BY DEF Offerings, Memories
  <1>2. addr \in Addresses /\ e.req.type \in {"read", "write"}
    BY DEF Entries, Requests
  <1> HIDE DEF m, addr
  <1>3. CASE ~ Goes(o, e)
    <2> DEFINE d == Aged(e)
    <2>1. d \in Entries /\ d.req = e.req
      BY FrontendAssumption DEF Aged, Entries
    <2> HIDE DEF d
    <2>2. new.left = Append(o.left, d) /\ new.memory = m /\ new = [left |-> new.left, memory |-> m]
      <3> DEFINE left == Append(o.left, d)
      <3>1. new = [o EXCEPT !.left = left]
        BY <1>3 DEF Offer, d
      <3> HIDE DEF left
      <3>2. o = [left |-> o.left, memory |-> m]
        BY <1>1
      <3>3. new = [left |-> left, memory |-> m]
        BY <3>1, <3>2
      <3> QED
        BY <3>3 DEF left
    <2>3. Append(o.left, d) \in Seq(Entries)
      BY <1>1, <2>1, AppendRange
    <2>4. new \in Offerings
      BY <1>1, <2>2, <2>3 DEF Offerings, MemoryFits
    <2>5. CASE e.req.type = "read"
      <3>1. /\ ReadsIn(Append(o.left, d)) = ReadsIn(o.left) \cup {addr}
            /\ NoneTwice(o.left, m.reads)
                  /\ (\A a \in Flying(o.left, m.reads) : a.page # addr.page)
                  => NoneTwice(Append(o.left, d), m.reads)
        BY <1>1, <2>1, <2>5, AppendRead DEF addr
      <3> QED
        BY <2>2, <2>4, <2>5, <3>1 DEF FlyingIn, NoneTwiceIn, Flying, addr, m
    <2>6. CASE e.req.type = "write"
      <3>1. /\ ReadsIn(Append(o.left, d)) = ReadsIn(o.left)
            /\ NoneTwice(o.left, m.reads) => NoneTwice(Append(o.left, d), m.reads)
        BY <1>1, <2>1, <2>6, AppendWrite
      <3> QED
        BY <2>2, <2>4, <2>6, <3>1 DEF FlyingIn, NoneTwiceIn, Flying, m
    <2> QED
      BY <1>2, <2>5, <2>6
  <1>4. CASE Goes(o, e) /\ e.req.type = "read"
    <2>1. Len(m.reads) < ReadRoom /\ ReadRoom \in Nat
      BY <1>4, FrontendAssumption DEF Goes, MemoryTakes, m
    <2>2. /\ new.left = o.left
          /\ new.memory = [reads |-> Append(m.reads, addr), writes |-> m.writes]
          /\ new = [left |-> new.left, memory |-> new.memory]
      <3>1. new = [o EXCEPT !.memory = [m EXCEPT !.reads = Append(@, addr)]]
        BY <1>4 DEF Offer, m, addr
      <3> DEFINE reads == Append(m.reads, addr)
      <3>2. m = [reads |-> m.reads, writes |-> m.writes]
        BY <1>1
      <3>3. [m EXCEPT !.reads = Append(@, addr)] = [m EXCEPT !.reads = reads]
        OBVIOUS
      <3> HIDE DEF reads
      <3>4. [m EXCEPT !.reads = reads] = [reads |-> reads, writes |-> m.writes]
        BY <3>2
      <3>5. new = [left |-> o.left, memory |-> [reads |-> reads, writes |-> m.writes]]
        BY <1>1, <3>1, <3>3, <3>4
      <3> QED
        BY <3>5 DEF reads
    <2>3. /\ Append(m.reads, addr) \in Seq(Addresses)
          /\ Len(Append(m.reads, addr)) = Len(m.reads) + 1
          /\ Flying(o.left, Append(m.reads, addr)) = Flying(o.left, m.reads) \cup {addr}
          /\ NoneTwice(o.left, m.reads) /\ (\A a \in Flying(o.left, m.reads) : a.page # addr.page)
                => NoneTwice(o.left, Append(m.reads, addr))
      BY <1>1, <1>2, AppendFetch
    <2>4. MemoryFits(new.memory)
      BY <1>1, <2>1, <2>2, <2>3 DEF MemoryFits, Memories
    <2>5. new \in Offerings
      BY <1>1, <2>2, <2>4 DEF Offerings, MemoryFits
    <2> QED
      BY <1>4, <2>2, <2>3, <2>5 DEF FlyingIn, NoneTwiceIn, m, addr
  <1>5. CASE Goes(o, e) /\ e.req.type = "write"
    <2>1. m.writes < WriteRoom /\ WriteRoom \in Nat
      BY <1>5, FrontendAssumption DEF Goes, MemoryTakes, m
    <2>2. /\ new.left = o.left
          /\ new.memory = [reads |-> m.reads, writes |-> m.writes + 1]
          /\ new = [left |-> new.left, memory |-> new.memory]
      <3>1. new = [o EXCEPT !.memory = [m EXCEPT !.writes = @ + 1]]
        BY <1>5 DEF Offer, m
      <3>2. [m EXCEPT !.writes = @ + 1] = [reads |-> m.reads, writes |-> m.writes + 1]
        BY <1>1
      <3> QED
        BY <1>1, <3>1, <3>2
    <2>3. MemoryFits(new.memory)
      BY <1>1, <2>1, <2>2 DEF MemoryFits, Memories
    <2>4. new \in Offerings
      BY <1>1, <2>2, <2>3 DEF Offerings, MemoryFits
    <2> QED
      BY <1>5, <2>2, <2>4 DEF FlyingIn, NoneTwiceIn, m
  <1> QED
    BY <1>2, <1>3, <1>4, <1>5

\* The reads among the entries from k + 1 on.
ReadsAfter(list, k) ==
    {list[j].req.addr : j \in {i \in k + 1 .. Len(list) : list[i].req.type = "read"}}

\* The loop has gone over k entries: no read is lost, and if none was double, none is.
OffersDone(o, list, k, flying, once) ==
    /\ FlyingIn(o) \cup ReadsAfter(list, k) = flying
    /\ once => /\ NoneTwiceIn(o)
               /\ \A j \in k + 1 .. Len(list) :
                     list[j].req.type = "read" =>
                        \A a \in FlyingIn(o) : a.page # list[j].req.addr.page

\* A turn of the loop.
LEMMA OffersTurn ==
  ASSUME NEW list \in Seq(Entries), NEW k \in 1 .. Len(list), NEW flying, NEW once \in BOOLEAN,
         NEW reads, once => NoneTwice(list, reads),
         NEW o \in Offerings, OffersDone(o, list, k - 1, flying, once),
         NEW new, new = Offer(o, list[k])
  PROVE  new \in Offerings /\ OffersDone(new, list, k, flying, once)
  <1> DEFINE e == list[k]
  <1>1. Len(list) \in Nat /\ e \in Entries /\ DOMAIN list = 1 .. Len(list)
    OBVIOUS
  <1>2. /\ new \in Offerings
        /\ FlyingIn(new) = FlyingIn(o) \cup (IF e.req.type = "read" THEN {e.req.addr} ELSE {})
        /\ NoneTwiceIn(o)
              /\ (e.req.type = "read" => \A a \in FlyingIn(o) : a.page # e.req.addr.page)
               => NoneTwiceIn(new)
    BY <1>1, OfferStep
  <1>3. ReadsAfter(list, k - 1)
           = ReadsAfter(list, k) \cup (IF e.req.type = "read" THEN {e.req.addr} ELSE {})
    BY DEF ReadsAfter
  <1>4. FlyingIn(new) \cup ReadsAfter(list, k) = flying
    BY <1>2, <1>3 DEF OffersDone
  <1>5. ASSUME once
        PROVE  /\ NoneTwiceIn(new)
               /\ \A j \in k + 1 .. Len(list) :
                     list[j].req.type = "read" =>
                        \A a \in FlyingIn(new) : a.page # list[j].req.addr.page
    <2>1. k \in (k - 1) + 1 .. Len(list) /\ \A j \in k + 1 .. Len(list) :
             j \in (k - 1) + 1 .. Len(list) /\ j \in DOMAIN list /\ k \in DOMAIN list /\ j # k
      BY <1>1
    <2>2. /\ NoneTwiceIn(o)
          /\ \A j \in (k - 1) + 1 .. Len(list) :
                list[j].req.type = "read" =>
                   \A a \in FlyingIn(o) : a.page # list[j].req.addr.page
      BY <1>5 DEF OffersDone
    <2>3. NoneTwiceIn(new)
      BY <1>2, <2>1, <2>2
    <2>4. ASSUME NEW j \in k + 1 .. Len(list), list[j].req.type = "read", NEW a \in FlyingIn(new)
          PROVE  a.page # list[j].req.addr.page
      <3>1. e.req.type = "read" => e.req.addr.page # list[j].req.addr.page
        BY <1>5, <2>1, <2>4 DEF NoneTwice
      <3> HIDE DEF e
      <3> QED
        BY <1>2, <2>1, <2>2, <2>4, <3>1
    <2> QED
      BY <2>3, <2>4
  <1> QED
    BY <1>2, <1>4, <1>5 DEF OffersDone

\* The loop loses no read and doubles none.
LEMMA OffersKeep ==
  ASSUME NEW list \in Seq(Entries), NEW m, MemoryFits(m), NEW once \in BOOLEAN,
         once => NoneTwice(list, m.reads),
         NEW new, new = Offers(list, m)
  PROVE  /\ new \in Offerings
         /\ FlyingIn(new) = Flying(list, m.reads)
         /\ once => NoneTwiceIn(new)
  <1> DEFINE n == Len(list)
             flying == Flying(list, m.reads)
             I == [k \in 0 .. n |-> {o \in Offerings : OffersDone(o, list, k, flying, once)}]
             start == [left |-> <<>>, memory |-> m]
             turn == [k \in 1 .. n |-> [o \in Offerings |-> Offer(o, list[k])]]
             after[k \in 0 .. n] == IF k = 0 THEN start ELSE Offer(after[k - 1], list[k])
             Body(g) == [k \in 0 .. n |-> IF k = 0 THEN start ELSE Offer(g[k - 1], list[k])]
  <1>1. n \in Nat /\ DOMAIN list = 1 .. n
    OBVIOUS
  <1>2. ASSUME NEW k \in 1 .. n, NEW o \in I[k - 1]
        PROVE  turn[k][o] \in I[k]
    <2>1. o \in Offerings /\ OffersDone(o, list, k - 1, flying, once)
      BY <1>1, <1>2
    <2> HIDE DEF flying
    <2>2. Offer(o, list[k]) \in Offerings /\ OffersDone(Offer(o, list[k]), list, k, flying, once)
      BY <2>1, OffersTurn
    <2> QED
      BY <1>1, <2>1, <2>2
  <1>3. start \in I[0]
    <2>1. start.left = <<>> /\ start.memory = m /\ start \in Offerings
      BY DEF Offerings, MemoryFits
    <2>2. ReadsIn(<<>>) = {} /\ Range(<<>>) = {} /\ DOMAIN <<>> = {}
      BY DEF ReadsIn, Range
    <2>3. ReadsAfter(list, 0) = ReadsIn(list)
      BY <1>1 DEF ReadsAfter, ReadsIn, Range
    <2>4. FlyingIn(start) = Range(m.reads)
      BY <2>1, <2>2 DEF FlyingIn, Flying
    <2>5. ASSUME once
          PROVE  /\ NoneTwiceIn(start)
                 /\ \A j \in 0 + 1 .. n :
                       list[j].req.type = "read" =>
                          \A a \in FlyingIn(start) : a.page # list[j].req.addr.page
      <3>1. NoneTwice(list, m.reads)
        BY <2>5
      <3>2. NoneTwiceIn(start)
        BY <2>1, <2>2, <3>1 DEF NoneTwiceIn, NoneTwice
      <3>3. \A j \in 1 .. n : list[j].req.type = "read" => list[j].req.addr \in ReadsIn(list)
        BY <1>1 DEF ReadsIn, Range
      <3> QED
        BY <2>4, <3>1, <3>2, <3>3 DEF NoneTwice
    <2>6. OffersDone(start, list, 0, flying, once)
      BY <2>3, <2>4, <2>5 DEF OffersDone, Flying
    <2> QED
      BY <1>1, <2>1, <2>6
  <1>4. PICK run \in [0 .. n -> Offerings] :
           /\ run[0] = start
           /\ \A k \in 1 .. n : run[k] = turn[k][run[k - 1]]
           /\ \A k \in 0 .. n : run[k] \in I[k]
    <2>1. I \in [0 .. n -> SUBSET Offerings]
      OBVIOUS
    <2> HIDE DEF I, turn, n, start
    <2>2. \E run \in [0 .. n -> Offerings] :
            /\ LoopRun(run, n, start, turn)
            /\ \A k \in 0 .. n : run[k] \in I[k]
      BY <1>1, <1>2, <1>3, <2>1, LoopKeeps
    <2> QED
      BY <2>2 DEF LoopRun
  <1> HIDE DEF start
  <1>5. run = Body(run)
    <2>1. \A k \in 0 .. n : run[k] = IF k = 0 THEN start ELSE Offer(run[k - 1], list[k])
      <3> TAKE k \in 0 .. n
      <3>1. CASE k = 0
        BY <1>4, <3>1
      <3>2. CASE k # 0
        <4>1. k \in 1 .. n /\ k - 1 \in 0 .. n
          BY <1>1, <3>2
        <4> QED
          BY <1>4, <3>2, <4>1
      <3> QED
        BY <3>1, <3>2
    <2> QED
      BY <2>1
  <1>6. after = CHOOSE g : g = Body(g)
    OBVIOUS
  <1>7. Offers(list, m) = after[n]
    BY DEF Offers, start
  <1> HIDE DEF after
  <1>8. after = Body(after)
    <2> HIDE DEF Body
    <2> QED
      BY <1>5, <1>6
  <1> DEFINE S == {k \in 0 .. n : after[k] = run[k]}
  <1>9. 0 .. n \subseteq S
    <2>1. 0 \in S
      BY <1>1, <1>4, <1>8
    <2>2. ASSUME NEW k \in 0 .. n - 1, k \in S PROVE k + 1 \in S
      <3>1. k + 1 \in 0 .. n /\ k + 1 # 0 /\ (k + 1) - 1 = k /\ k \in 0 .. n
        BY <1>1
      <3>2. after[k + 1] = Offer(after[k], list[k + 1])
        BY <1>8, <3>1
      <3>3. run[k + 1] = Offer(run[k], list[k + 1])
        BY <1>5, <3>1
      <3> QED
        BY <2>2, <3>1, <3>2, <3>3
    <2> HIDE DEF S
    <2> QED
      BY <1>1, <2>1, <2>2, LoopInduction
  <1>10. new \in Offerings /\ OffersDone(new, list, n, flying, once)
    BY <1>1, <1>4, <1>7, <1>9
  <1>11. ReadsAfter(list, n) = {}
    BY <1>1 DEF ReadsAfter
  <1> QED
    BY <1>10, <1>11 DEF OffersDone

-----------------------------------------------------------------------------
(***************************************************************************)
(* The cores.                                                              *)
(***************************************************************************)

\* Smallest finds the least of some numbers.
LEMMA SmallestIsLeast ==
  ASSUME NEW S \in SUBSET Nat, S # {}
  PROVE  Smallest(S) \in S /\ \A m \in S : Smallest(S) <= m
  BY LeastNatural DEF Smallest

\* Retiring leaves the end of the window.
LEMMA RetiredFits ==
  ASSUME NEW w \in Seq(Insts)
  PROVE  /\ Retired(w) \in Seq(Insts) /\ Len(Retired(w)) <= Len(w)
         /\ Range(Retired(w)) \subseteq Range(w)
  <1> DEFINE S == {Ipc, Len(w)} \cup {i - 1 : i \in {j \in DOMAIN w : ~ w[j].ready}}
             n == Smallest(S)
             new == SubSeq(w, n + 1, Len(w))
  <1>1. Len(w) \in Nat /\ DOMAIN w = 1 .. Len(w) /\ \A i \in 1 .. Len(w) : w[i] \in Insts
    OBVIOUS
  <1>2. S \in SUBSET Nat /\ S # {} /\ Len(w) \in S
    BY <1>1, FrontendAssumption
  <1>3. Retired(w) = new
    BY DEF Retired
  <1>4. n \in 0 .. Len(w)
    <2> HIDE DEF S
    <2>1. n \in S /\ \A m \in S : n <= m
      BY <1>2, SmallestIsLeast
    <2>2. n \in Nat /\ n <= Len(w)
      BY <1>2, <2>1
    <2> QED
      BY <1>1, <2>2
  <1> HIDE DEF n, S
  <1>5. \A k \in n + 1 .. Len(w) : w[k] \in Insts
    BY <1>1, <1>4
  <1>6. /\ new \in Seq(Insts)
        /\ Len(new) = IF n + 1 <= Len(w) THEN Len(w) - (n + 1) + 1 ELSE 0
        /\ \A k \in 1 .. Len(w) - (n + 1) + 1 : new[k] = w[n + 1 + k - 1]
    BY <1>1, <1>4, <1>5, SubSeqProperties
  <1> HIDE DEF new
  <1>7. Len(new) = Len(w) - n /\ DOMAIN new = 1 .. Len(w) - n
    <2>1. Len(new) = Len(w) - n
      <3>1. Len(new) = IF n + 1 <= Len(w) THEN Len(w) - (n + 1) + 1 ELSE 0
        BY <1>6
      <3>2. CASE n + 1 <= Len(w)
        BY <1>1, <1>4, <3>1, <3>2
      <3>3. CASE ~ (n + 1 <= Len(w))
        <4>1. Len(new) = 0
          BY <3>1, <3>3
        <4>2. n = Len(w)
          <5>1. \A a, b \in Nat : a \in 0 .. b /\ ~ (a + 1 <= b) => a = b
            OBVIOUS
          <5>2. n \in Nat /\ Len(w) \in Nat
            BY <1>1, <1>4
          <5> QED
            BY <1>4, <3>3, <5>1, <5>2
        <4> QED
          BY <1>1, <4>1, <4>2
      <3> QED
        BY <3>2, <3>3
    <2>2. DOMAIN new = 1 .. Len(new)
      BY <1>6
    <2> QED
      BY <2>1, <2>2
  <1>8. \A k \in 1 .. Len(w) - n : new[k] = w[n + k] /\ n + k \in 1 .. Len(w)
    <2> TAKE k \in 1 .. Len(w) - n
    <2>1. k \in 1 .. Len(w) - (n + 1) + 1 /\ n + 1 + k - 1 = n + k /\ n + k \in 1 .. Len(w)
      BY <1>1, <1>4
    <2>2. new[k] = w[n + 1 + k - 1]
      BY <1>6, <2>1
    <2> QED
      BY <2>1, <2>2
  <1>9. Range(new) \subseteq Range(w)
    BY <1>1, <1>7, <1>8 DEF Range
  <1>10. Len(new) <= Len(w)
    BY <1>1, <1>4, <1>7
  <1> QED
    BY <1>3, <1>6, <1>9, <1>10

\* The bubbles enter a window that has room for them.
LEMMA FilledFits ==
  ASSUME NEW k \in CoreStates, NEW c \in Cores, CoreFits(k, c), NEW n \in Nat, n <= k.bubbles,
         n <= Depth - Len(Retired(k.window)), NEW new, new = Filled(k, n)
  PROVE  /\ new \in CoreStates /\ CoreFits(new, c)
         /\ \A x \in Range(new.window) : x.ready \/ x \in Range(k.window)
         /\ new.load = k.load /\ new.store = k.store
         /\ Len(new.window) = Len(Retired(k.window)) + n
  <1> DEFINE old == Retired(k.window)  fill == [i \in 1 .. n |-> Bubble]  w == old \o fill
  <1>1. k.window \in Seq(Insts) /\ Len(k.window) \in Nat /\ k.bubbles \in Nat
    BY DEF CoreStates
  <1>2. old \in Seq(Insts) /\ Len(old) <= Len(k.window) /\ Range(old) \subseteq Range(k.window)
    BY <1>1, RetiredFits
  <1>3. /\ new.window = w /\ new.bubbles = k.bubbles - n
        /\ new.load = k.load /\ new.store = k.store /\ new.next = k.next
        /\ new = [k EXCEPT !.window = new.window, !.bubbles = new.bubbles]
    BY DEF Filled, CoreStates
  <1> HIDE DEF old
  <1>4. fill \in Seq(Insts) /\ Len(fill) = n /\ \A i \in 1 .. n : fill[i] = Bubble
    <2>1. Bubble \in Insts
      BY DEF Bubble, Insts
    <2> QED
      BY <2>1
  <1> HIDE DEF fill
  <1>5. /\ w \in Seq(Insts) /\ Len(w) = Len(old) + n
        /\ \A i \in 1 .. Len(old) + n :
              w[i] = IF i <= Len(old) THEN old[i] ELSE fill[i - Len(old)]
    BY <1>2, <1>4, ConcatProperties, ZenonT(30)
  <1> HIDE DEF w
  <1>6. Len(old) \in Nat /\ DOMAIN old = 1 .. Len(old) /\ DOMAIN w = 1 .. Len(old) + n
    BY <1>2, <1>5
  <1>7. ASSUME NEW x \in Range(w)
        PROVE  x.ready \/ x \in Range(k.window)
    <2>1. PICK i \in 1 .. Len(old) + n : w[i] = x
      BY <1>6 DEF Range
    <2>2. CASE i <= Len(old)
      <3>1. x = old[i] /\ i \in 1 .. Len(old)
        BY <1>5, <1>6, <2>1, <2>2
      <3> QED
        BY <1>2, <1>6, <3>1 DEF Range
    <2>3. CASE ~ (i <= Len(old))
      <3>1. i - Len(old) \in 1 .. n /\ x = fill[i - Len(old)]
        BY <1>5, <1>6, <2>1, <2>3
      <3>2. x = Bubble
        BY <1>4, <3>1
      <3> QED
        BY <3>2 DEF Bubble
    <2> QED
      BY <2>2, <2>3
  <1>8. new.bubbles \in Nat
    BY <1>1, <1>3
  <1>9. new \in CoreStates
    BY <1>3, <1>5, <1>8 DEF CoreStates
  <1>10. Len(w) <= Depth
    BY <1>5, <1>6, FrontendAssumption DEF old
  <1>11. CoreFits(new, c)
    BY <1>3, <1>10 DEF CoreFits
  <1> QED
    BY <1>3, <1>5, <1>7, <1>9, <1>11 DEF old

\* The next instruction comes from the trace.
LEMMA NextFits ==
  ASSUME NEW k \in CoreStates, NEW c \in Cores, CoreFits(k, c), NEW new, new = NextInst(k, c)
  PROVE  new \in CoreStates /\ CoreFits(new, c) /\ new.window = k.window
  <1> DEFINE inst == Trace[c][k.next]
             Traced == [bubbles : Nat, load : VirtualAddresses \cup {NoAddr},
                        store : VirtualAddresses \cup {NoAddr}]
  <1>1. Trace[c] \in Seq(Traced) /\ Trace[c] # <<>>
    BY TraceAssumption
  <1> HIDE DEF Traced
  <1>2. Len(Trace[c]) \in Nat \ {0} /\ DOMAIN Trace[c] = 1 .. Len(Trace[c])
    BY <1>1
  <1>3. k.next \in DOMAIN Trace[c]
    BY DEF CoreFits
  <1>4. inst \in Traced
    BY <1>1, <1>2, <1>3
  <1>5. /\ new.bubbles = inst.bubbles /\ new.load = inst.load /\ new.store = inst.store
        /\ new.window = k.window
        /\ new.next = IF k.next = Len(Trace[c]) THEN 1 ELSE k.next + 1
        /\ new = [k EXCEPT !.bubbles = new.bubbles, !.load = new.load, !.store = new.store,
                           !.next = new.next]
    BY DEF NextInst, CoreStates
  <1>6. new.next \in 1 .. Len(Trace[c])
    BY <1>2, <1>3, <1>5
  <1> HIDE DEF inst
  <1>7. new \in CoreStates
    BY <1>2, <1>4, <1>5, <1>6 DEF CoreStates, Traced
  <1> QED
    BY <1>2, <1>5, <1>6, <1>7 DEF CoreFits

\* A load enters a window that has room for it.
LEMMA LoadingFits ==
  ASSUME NEW k \in CoreStates, NEW c \in Cores, CoreFits(k, c), Len(k.window) < Depth,
         NEW addr \in Addresses, NEW new, new = Loading(k, addr)
  PROVE  /\ new \in CoreStates /\ CoreFits(new, c)
         /\ \A x \in Range(new.window) : x \in Range(k.window) \/ x.addr = addr
         /\ new.store = k.store
  <1> DEFINE x == [ready |-> FALSE, addr |-> addr]
  <1>1. k.window \in Seq(Insts) /\ x \in Insts
    BY DEF CoreStates, Insts
  <1>3. /\ new.window = Append(k.window, x) /\ new.store = k.store /\ new.next = k.next
        /\ new = [k EXCEPT !.window = new.window]
    BY DEF Loading, CoreStates
  <1>4. x.addr = addr
    OBVIOUS
  <1> HIDE DEF x
  <1>2. /\ Append(k.window, x) \in Seq(Insts)
        /\ Len(Append(k.window, x)) = Len(k.window) + 1
        /\ Range(Append(k.window, x)) = Range(k.window) \cup {x}
    BY <1>1, AppendRange
  <1>5. new \in CoreStates
    BY <1>2, <1>3 DEF CoreStates
  <1>6. CoreFits(new, c)
    <2>1. Len(k.window) \in Nat /\ Depth \in Nat
      BY <1>1, FrontendAssumption
    <2> QED
      BY <1>2, <1>3, <2>1 DEF CoreFits
  <1> QED
    BY <1>2, <1>3, <1>4, <1>5, <1>6

\* What a core sends is a request of its own.
LEMMA RequestIsRequest ==
  ASSUME pageOf \in Translations, NEW c \in Cores, NEW type \in {"read", "write"},
         NEW vaddr \in VirtualAddresses
  PROVE  /\ Request(c, type, vaddr) \in Requests
         /\ Request(c, type, vaddr).source = c
  <1>1. pageOf \in [Cores -> [VirtualPages -> Pages]]
    BY FrontendAssumption
  <1>2. pageOf[c][vaddr.page] \in Pages /\ vaddr.offset \in Offsets
    BY <1>1 DEF VirtualAddresses
  <1> QED
    BY <1>2 DEF Request, Requests, Addresses

\* A core changes, and whatever it newly waits for is ready.
LEMMA CoreChanges ==
  ASSUME NEW s, NEW reads, NEW late \in BOOLEAN, NEW D \in SUBSET Pages,
         Sound(s, reads, late, D),
         NEW c \in Cores, NEW k \in CoreStates, CoreFits(k, c),
         \A x \in Range(k.window) : x.ready \/ x \in Range(s.core[c].window),
         NEW new, new = [s EXCEPT !.core[c] = k]
  PROVE  Sound(new, reads, late, D)
  <1>1. s \in States /\ s.llc \in Llcs /\ s.core \in [Cores -> CoreStates]
        /\ \A d \in Cores : CoreFits(s.core[d], d)
    BY DEF Sound, States
  <1>2. /\ new.llc = s.llc /\ new.core = [s.core EXCEPT ![c] = k]
        /\ new = [llc |-> new.llc, core |-> new.core]
    BY <1>1 DEF States
  <1>3. new.core \in [Cores -> CoreStates]
        /\ \A d \in Cores : CoreFits(new.core[d], d)
    BY <1>1, <1>2
  <1>4. new \in States
    BY <1>1, <1>2, <1>3 DEF States
  <1>5. AllAwaited(s) => AllAwaited(new)
    <2> SUFFICES ASSUME AllAwaited(s), NEW d \in Cores, NEW x \in Range(new.core[d].window)
                 PROVE  x.ready \/ AwaitedBy(new.llc, d, x.addr)
      BY DEF AllAwaited, WindowAwaited
    <2>1. \A y \in Range(s.core[d].window) : y.ready \/ AwaitedBy(s.llc, d, y.addr)
      BY DEF AllAwaited, WindowAwaited
    <2>2. x.ready \/ x \in Range(s.core[d].window)
      BY <1>1, <1>2
    <2> QED
      BY <1>2, <2>1, <2>2
  <1> QED
    BY <1>2, <1>3, <1>4, <1>5 DEF Sound

\* The cache takes a request, the core goes on.
LEMMA SentKeeps ==
  ASSUME NEW s, NEW reads \in Seq(Addresses), NEW late \in BOOLEAN, NEW D \in SUBSET Pages,
         Sound(s, reads, late, D),
         NEW c \in Cores, NEW req \in Requests, req.source = c, Accepts(s.llc, req),
         NEW k \in CoreStates, CoreFits(k, c),
         \A x \in Range(k.window) :
            x.ready \/ x \in Range(s.core[c].window) \/ x.addr = req.addr
  PROVE  Sound(Sent(s, c, req, k), reads, late, D)
  <1> DEFINE new == Sent(s, c, req, k)
  <1>1. s \in States /\ s.llc \in Llcs /\ s.core \in [Cores -> CoreStates]
        /\ Structure(s.llc) /\ \A d \in Cores : CoreFits(s.core[d], d)
    BY DEF Sound, States
  <1>2. /\ new.llc = Send(s.llc, req) /\ new.core = [s.core EXCEPT ![c] = k]
        /\ new = [llc |-> new.llc, core |-> new.core]
    BY DEF Sent
  <1> HIDE DEF new
  <1>3. SendKeeps(s.llc, new.llc, req)
    BY <1>1, <1>2, SendSound
  <1>4. new.core \in [Cores -> CoreStates]
        /\ \A d \in Cores : CoreFits(new.core[d], d)
    BY <1>1, <1>2
  <1>5. new \in States /\ Structure(new.llc)
    BY <1>2, <1>3, <1>4 DEF States, SendKeeps
  <1>6. Fetched(new.llc, reads) /\ (~ late => FetchedOnce(new.llc, reads))
    BY <1>3 DEF Sound, SendKeeps
  <1>7. \A page \in D : DirtyAt(new.llc, page)
    BY <1>3 DEF Sound, SendKeeps
  <1>8. AllAwaited(s) => AllAwaited(new)
    <2> SUFFICES ASSUME AllAwaited(s), NEW d \in Cores, NEW x \in Range(new.core[d].window),
                        ~ x.ready
                 PROVE  AwaitedBy(new.llc, d, x.addr)
      BY DEF AllAwaited, WindowAwaited
    <2>1. \A y \in Range(s.core[d].window) : y.ready \/ AwaitedBy(s.llc, d, y.addr)
      BY DEF AllAwaited, WindowAwaited
    <2>2. x \in Range(s.core[d].window) \/ (d = c /\ x.addr = req.addr)
      BY <1>1, <1>2
    <2>3. x.addr \in Addresses \cup {NoAddr}
      <3>1. new.core[d].window \in Seq(Insts)
        BY <1>4 DEF CoreStates
      <3>2. x \in Insts
        BY <3>1, RangeOfPlaces
      <3> QED
        BY <3>2 DEF Insts
    <2>4. CASE x \in Range(s.core[d].window)
      BY <1>3, <2>1, <2>3, <2>4 DEF SendKeeps
    <2>5. CASE d = c /\ x.addr = req.addr
      BY <1>3, <2>5 DEF SendKeeps
    <2> QED
      BY <2>2, <2>4, <2>5
  <1> QED
    BY <1>4, <1>5, <1>6, <1>7, <1>8 DEF Sound, new

\* The core of a state that is sound.
LEMMA CoreIsFit ==
  ASSUME NEW s, NEW reads, NEW late, NEW D, Sound(s, reads, late, D), NEW c \in Cores
  PROVE  s.core[c] \in CoreStates /\ CoreFits(s.core[c], c)
  BY DEF Sound, States

\* A load that is sent is awaited from then on.
LEMMA TryLoadKeeps ==
  ASSUME NEW s, NEW reads \in Seq(Addresses), NEW late \in BOOLEAN, NEW D \in SUBSET Pages,
         Sound(s, reads, late, D), pageOf \in Translations, NEW c \in Cores,
         s.core[c].load # NoAddr, Len(s.core[c].window) < Depth
  PROVE  Sound(TryLoad(s, c), reads, late, D)
  <1> DEFINE req == Request(c, "read", s.core[c].load)
             k == Loading(s.core[c], req.addr)
             only == [k EXCEPT !.load = NoAddr]
             next == NextInst(k, c)
  <1>1. s.core[c] \in CoreStates /\ CoreFits(s.core[c], c)
    BY CoreIsFit
  <1>2. s.core[c].load \in VirtualAddresses
    BY <1>1 DEF CoreStates
  <1>3. req \in Requests /\ req.source = c
    BY <1>2, RequestIsRequest
  <1>4. req.addr \in Addresses
    BY <1>3 DEF Requests
  <1>5. TryLoad(s, c) = IF ~ Accepts(s.llc, req) THEN s
                        ELSE Sent(s, c, req, IF k.store # NoAddr THEN only ELSE next)
    BY DEF TryLoad
  <1> HIDE DEF req
  <1>6. /\ k \in CoreStates /\ CoreFits(k, c)
        /\ \A x \in Range(k.window) : x \in Range(s.core[c].window) \/ x.addr = req.addr
    BY <1>1, <1>4, LoadingFits
  <1> HIDE DEF k
  <1>7. only \in CoreStates /\ CoreFits(only, c) /\ only.window = k.window
    BY <1>6 DEF CoreStates, CoreFits
  <1>8. next \in CoreStates /\ CoreFits(next, c) /\ next.window = k.window
    BY <1>6, NextFits
  <1> HIDE DEF only, next
  <1>9. CASE Accepts(s.llc, req)
    <2>1. ASSUME NEW new \in CoreStates, CoreFits(new, c), new.window = k.window
          PROVE  Sound(Sent(s, c, req, new), reads, late, D)
      <3>1. \A x \in Range(new.window) :
               x.ready \/ x \in Range(s.core[c].window) \/ x.addr = req.addr
        BY <1>6, <2>1
      <3> QED
        BY <1>3, <1>9, <2>1, <3>1, SentKeeps
    <2> QED
      BY <1>5, <1>7, <1>8, <1>9, <2>1
  <1> QED
    BY <1>5, <1>9

\* A store waits for nothing.
LEMMA TryStoreKeeps ==
  ASSUME NEW s, NEW reads \in Seq(Addresses), NEW late \in BOOLEAN, NEW D \in SUBSET Pages,
         Sound(s, reads, late, D), pageOf \in Translations, NEW c \in Cores
  PROVE  Sound(TryStore(s, c), reads, late, D)
  <1> DEFINE k == s.core[c]
             req == Request(c, "write", k.store)
             next == NextInst(k, c)
  <1>1. k \in CoreStates /\ CoreFits(k, c)
    BY CoreIsFit
  <1>2. TryStore(s, c) = IF k.store = NoAddr THEN [s EXCEPT !.core[c] = next]
                         ELSE IF Accepts(s.llc, req) THEN Sent(s, c, req, next) ELSE s
    BY DEF TryStore
  <1>3. next \in CoreStates /\ CoreFits(next, c) /\ next.window = k.window
    BY <1>1, NextFits
  <1> HIDE DEF next
  <1>4. CASE k.store = NoAddr
    <2>1. Sound([s EXCEPT !.core[c] = next], reads, late, D)
      BY <1>3, CoreChanges
    <2> QED
      BY <1>2, <1>4, <2>1
  <1>5. CASE k.store # NoAddr /\ Accepts(s.llc, req)
    <2>1. k.store \in VirtualAddresses
      BY <1>1, <1>5 DEF CoreStates
    <2>2. req \in Requests /\ req.source = c
      BY <2>1, RequestIsRequest
    <2> HIDE DEF req
    <2>3. Sound(Sent(s, c, req, next), reads, late, D)
      BY <1>3, <1>5, <2>2, SentKeeps
    <2> QED
      BY <1>2, <1>5, <2>3
  <1> QED
    BY <1>2, <1>4, <1>5

\* The tick of a core.
LEMMA CoreTickKeeps ==
  ASSUME NEW s, NEW reads \in Seq(Addresses), NEW late \in BOOLEAN, NEW D \in SUBSET Pages,
         Sound(s, reads, late, D), pageOf \in Translations, NEW c \in Cores
  PROVE  Sound(CoreTick(s, c), reads, late, D)
  <1> DEFINE k == s.core[c]
             room == Depth - Len(Retired(k.window))
             S == {k.bubbles, Ipc, room}
             n == Smallest(S)
             new == Filled(k, n)
             filled == [s EXCEPT !.core[c] = new]
  <1>1. k \in CoreStates /\ CoreFits(k, c)
    BY CoreIsFit
  <1>2. k.window \in Seq(Insts) /\ k.bubbles \in Nat
    BY <1>1 DEF CoreStates
  <1>3. room \in Nat /\ Len(Retired(k.window)) \in Nat
    <2>1. Retired(k.window) \in Seq(Insts) /\ Len(Retired(k.window)) <= Len(k.window)
      BY <1>2, RetiredFits
    <2>2. Len(k.window) \in Nat /\ Len(Retired(k.window)) \in Nat
      BY <1>2, <2>1
    <2> QED
      BY <1>1, <2>1, <2>2, FrontendAssumption DEF CoreFits
  <1>4. n \in Nat /\ n <= k.bubbles /\ n <= room
    <2>1. S \in SUBSET Nat /\ S # {} /\ k.bubbles \in S /\ room \in S
      BY <1>2, <1>3, FrontendAssumption
    <2> HIDE DEF S
    <2> QED
      BY <2>1, SmallestIsLeast
  <1>5. CoreTick(s, c) = IF n < k.bubbles THEN filled
                         ELSE IF k.load # NoAddr
                              THEN IF n < Ipc /\ n < room THEN TryLoad(filled, c) ELSE filled
                              ELSE TryStore(filled, c)
    BY <1>2, <1>4 DEF CoreTick
  <1> HIDE DEF n
  <1>6. /\ new \in CoreStates /\ CoreFits(new, c)
        /\ \A x \in Range(new.window) : x.ready \/ x \in Range(k.window)
        /\ new.load = k.load /\ new.store = k.store
        /\ Len(new.window) = Len(Retired(k.window)) + n
    BY <1>1, <1>4, FilledFits
  <1> HIDE DEF new
  <1>7. Sound(filled, reads, late, D)
    BY <1>6, CoreChanges
  <1>8. filled.core[c] = new
    <2>1. s \in States
      BY DEF Sound
    <2> QED
      BY <2>1 DEF States
  <1> HIDE DEF filled
  <1>9. CASE k.load # NoAddr /\ n < room
    <2>1. Len(filled.core[c].window) < Depth
      BY <1>3, <1>4, <1>6, <1>8, <1>9, FrontendAssumption
    <2>2. Sound(TryLoad(filled, c), reads, late, D)
      BY <1>6, <1>7, <1>8, <1>9, <2>1, TryLoadKeeps
    <2> QED
      BY <1>5, <1>7, <1>9, <2>2
  <1>10. Sound(TryStore(filled, c), reads, late, D)
    BY <1>7, TryStoreKeeps
  <1> QED
    BY <1>5, <1>7, <1>9, <1>10

\* The loop over the cores.
LEMMA CoreTicksKeep ==
  ASSUME NEW start, NEW reads \in Seq(Addresses), NEW late \in BOOLEAN, NEW D \in SUBSET Pages,
         Sound(start, reads, late, D), pageOf \in Translations
  PROVE  Sound(CoreTicks(start), reads, late, D)
  <1> DEFINE n == NumCores
             Good == {s \in States : Sound(s, reads, late, D)}
             I == [c \in 0 .. n |-> Good]
             turn == [c \in 1 .. n |-> [s \in States |-> CoreTick(s, c)]]
             after[c \in 0 .. n] == IF c = 0 THEN start ELSE CoreTick(after[c - 1], c)
             Body(g) == [c \in 0 .. n |-> IF c = 0 THEN start ELSE CoreTick(g[c - 1], c)]
  <1>1. n \in Nat /\ Cores = 1 .. n
    BY FrontendAssumption DEF Cores
  <1>2. ASSUME NEW c \in 1 .. n, NEW s \in I[c - 1]
        PROVE  turn[c][s] \in I[c]
    <2>1. s \in States /\ Sound(s, reads, late, D)
      BY <1>1, <1>2
    <2>2. Sound(CoreTick(s, c), reads, late, D)
      BY <1>1, <2>1, CoreTickKeeps
    <2>3. CoreTick(s, c) \in States
      BY <2>2 DEF Sound
    <2> QED
      BY <1>1, <2>1, <2>2, <2>3
  <1>3. start \in I[0]
    BY <1>1 DEF Sound
  <1>4. PICK run \in [0 .. n -> States] :
           /\ run[0] = start
           /\ \A c \in 1 .. n : run[c] = turn[c][run[c - 1]]
           /\ \A c \in 0 .. n : run[c] \in I[c]
    <2>1. I \in [0 .. n -> SUBSET States]
      OBVIOUS
    <2> HIDE DEF I, turn, n
    <2>2. \E run \in [0 .. n -> States] :
            /\ LoopRun(run, n, start, turn)
            /\ \A c \in 0 .. n : run[c] \in I[c]
      BY <1>1, <1>2, <1>3, <2>1, LoopKeeps
    <2> QED
      BY <2>2 DEF LoopRun
  <1>5. run = Body(run)
    <2>1. \A c \in 0 .. n : run[c] = IF c = 0 THEN start ELSE CoreTick(run[c - 1], c)
      <3> TAKE c \in 0 .. n
      <3>1. CASE c = 0
        BY <1>4, <3>1
      <3>2. CASE c # 0
        <4>1. c \in 1 .. n /\ c - 1 \in 0 .. n
          BY <1>1, <3>2
        <4> QED
          BY <1>4, <3>2, <4>1
      <3> QED
        BY <3>1, <3>2
    <2> QED
      BY <2>1
  <1>6. after = CHOOSE g : g = Body(g)
    OBVIOUS
  <1>7. CoreTicks(start) = after[n]
    BY DEF CoreTicks
  <1> HIDE DEF after
  <1>8. after = Body(after)
    <2> HIDE DEF Body
    <2> QED
      BY <1>5, <1>6
  <1> DEFINE S == {c \in 0 .. n : after[c] = run[c]}
  <1>9. 0 .. n \subseteq S
    <2>1. 0 \in S
      BY <1>1, <1>4, <1>8
    <2>2. ASSUME NEW c \in 0 .. n - 1, c \in S PROVE c + 1 \in S
      <3>1. c + 1 \in 0 .. n /\ c + 1 # 0 /\ (c + 1) - 1 = c /\ c \in 0 .. n
        BY <1>1
      <3>2. after[c + 1] = CoreTick(after[c], c + 1)
        BY <1>8, <3>1
      <3>3. run[c + 1] = CoreTick(run[c], c + 1)
        BY <1>5, <3>1
      <3> QED
        BY <2>2, <3>1, <3>2, <3>3
    <2> HIDE DEF S
    <2> QED
      BY <1>1, <2>1, <2>2, LoopInduction
  <1>10. Sound(after[n], reads, late, D)
    BY <1>1, <1>4, <1>9
  <1> QED
    BY <1>7, <1>10

-----------------------------------------------------------------------------
(***************************************************************************)
(* The steps.                                                              *)
(***************************************************************************)

\* The memory answers a read: the others are still under way, of other pages if none
\* was double.
LEMMA RemoveFetch ==
  ASSUME NEW list, NEW reads \in Seq(Addresses), NEW i \in 1 .. Len(reads),
         NEW new, new = RemoveAt(reads, i)
  PROVE  /\ new \in Seq(Addresses) /\ Len(new) = Len(reads) - 1
         /\ Flying(list, reads) = Flying(list, new) \cup {reads[i]}
         /\ NoneTwice(list, reads) =>
               NoneTwice(list, new) /\ \A a \in Flying(list, new) : a.page # reads[i].page
  <1> DEFINE n == Len(reads)
             Old(k) == IF k < i THEN k ELSE k + 1
  <1>1. n \in Nat /\ DOMAIN reads = 1 .. n /\ i \in 1 .. n
    OBVIOUS
  <1>2. /\ new \in Seq(Addresses) /\ Len(new) = n - 1
        /\ \A k \in 1 .. n - 1 : new[k] = IF k < i THEN reads[k] ELSE reads[k + 1]
    BY <1>1, RemoveProperties
  <1>3. DOMAIN new = 1 .. n - 1
    BY <1>1, <1>2
  <1> HIDE DEF n
  <1>4. \A k \in 1 .. n - 1 : Old(k) \in (1 .. n) \ {i} /\ new[k] = reads[Old(k)]
    BY <1>1, <1>2
  <1>5. \A k, j \in 1 .. n - 1 : Old(k) = Old(j) => k = j
    BY <1>1
  <1>6. \A j \in (1 .. n) \ {i} : \E k \in 1 .. n - 1 : Old(k) = j
    <2> TAKE j \in (1 .. n) \ {i}
    <2>1. CASE j < i
      <3>1. j \in 1 .. n - 1 /\ Old(j) = j
        BY <1>1, <2>1
      <3> QED
        BY <3>1
    <2>2. CASE ~ (j < i)
      <3>1. j - 1 \in 1 .. n - 1 /\ Old(j - 1) = j
        BY <1>1, <2>2
      <3> QED
        BY <3>1
    <2> QED
      BY <2>1, <2>2
  <1> HIDE DEF Old
  <1>7. Range(reads) = Range(new) \cup {reads[i]}
    <2> SUFFICES ASSUME NEW x
                 PROVE  x \in Range(reads) <=> x \in Range(new) \/ x = reads[i]
      OBVIOUS
    <2>1. x \in Range(new) <=> \E k \in 1 .. n - 1 : new[k] = x
      BY <1>3 DEF Range
    <2>2. x \in Range(reads) <=> \E k \in 1 .. n : reads[k] = x
      BY <1>1 DEF Range
    <2> QED
      BY <1>1, <1>4, <1>6, <2>1, <2>2
  <1>8. ASSUME NoneTwice(list, reads)
        PROVE  NoneTwice(list, new) /\ \A a \in Flying(list, new) : a.page # reads[i].page
    <2>1. \A k, j \in DOMAIN new : new[k].page = new[j].page => k = j
      BY <1>1, <1>3, <1>4, <1>5, <1>8 DEF NoneTwice
    <2>2. \A a \in ReadsIn(list), b \in Range(reads) : a.page # b.page
      BY <1>8 DEF NoneTwice
    <2>3. \A k \in 1 .. n - 1 : new[k].page # reads[i].page
      BY <1>1, <1>4, <1>8 DEF NoneTwice
    <2>4. \A a \in Range(new) : a.page # reads[i].page
      BY <1>3, <2>3 DEF Range
    <2>5. NoneTwice(list, new)
      BY <1>7, <1>8, <2>1, <2>2 DEF NoneTwice
    <2> QED
      BY <1>7, <2>2, <2>4, <2>5 DEF Flying
  <1>9. Flying(list, reads) = Flying(list, new) \cup {reads[i]}
    BY <1>7 DEF Flying
  <1> QED
    BY <1>2, <1>8, <1>9 DEF n

\* The memory answers.
LEMMA AnswerKeeps ==
  ASSUME NEW s, NEW reads \in Seq(Addresses), NEW late \in BOOLEAN, NEW D \in SUBSET Pages,
         Sound(s, reads, late, D), NEW i \in 1 .. Len(reads),
         NEW left, left = RemoveAt(reads, i), NEW new, new = Receive(s, reads[i])
  PROVE  Sound(new, left, late, D)
  <1> DEFINE addr == reads[i]  list == s.llc.missList
  <1>1. s \in States /\ s.llc \in Llcs /\ Structure(s.llc) /\ Fetched(s.llc, reads)
        /\ \A c \in Cores : CoreFits(s.core[c], c)
    BY DEF Sound, States
  <1>2. addr \in Addresses
    OBVIOUS
  <1>3. /\ Flying(list, reads) = Flying(list, left) \cup {addr}
        /\ NoneTwice(list, reads) =>
              NoneTwice(list, left) /\ \A a \in Flying(list, left) : a.page # addr.page
    BY RemoveFetch
  <1> HIDE DEF addr
  <1>4. ReceiveKeepsAll(s, addr, new)
    BY <1>1, <1>2, ReceiveKeeps DEF addr
  <1>5. /\ new \in States /\ \A c \in Cores : CoreFits(new.core[c], c)
        /\ Structure(new.llc)
        /\ new.llc.missList = list /\ new.llc.hitList = s.llc.hitList
        /\ new.llc.mshrs = s.llc.mshrs \ MshrsOf(s.llc.mshrs, addr.page)
        /\ \A m \in Addresses \ {addr} : new.llc.waiting[m] = s.llc.waiting[m]
    BY <1>4 DEF ReceiveKeepsAll
  <1>6. \A m : m \in new.llc.mshrs <=> m \in s.llc.mshrs /\ m.page # addr.page
    BY <1>5 DEF MshrsOf
  <1>7. Fetched(new.llc, left)
    BY <1>1, <1>3, <1>5, <1>6 DEF Fetched
  <1>8. \A page \in D : DirtyAt(new.llc, page)
    BY <1>4 DEF Sound, ReceiveKeepsAll
  <1>9. ASSUME ~ late
        PROVE  FetchedOnce(new.llc, left) /\ AllAwaited(new)
    <2>1. FetchedOnce(s.llc, reads) /\ AllAwaited(s)
      BY <1>9 DEF Sound
    <2>2. FetchedOnce(new.llc, left)
      BY <1>3, <1>5, <1>6, <2>1 DEF FetchedOnce
    <2>3. addr \in s.llc.mshrs
      BY <1>3, <2>1 DEF FetchedOnce
    <2>4. ASSUME NEW c \in Cores, NEW x \in Range(new.core[c].window), ~ x.ready
          PROVE  AwaitedBy(new.llc, c, x.addr)
      <3>1. /\ \E y \in Range(s.core[c].window) : y.addr = x.addr /\ ~ y.ready
            /\ \A r \in s.llc.waiting[addr] : ~ Wakes(r, c, x.addr)
        BY <1>4, <2>4 DEF ReceiveKeepsAll
      <3>2. AwaitedBy(s.llc, c, x.addr)
        BY <2>1, <3>1 DEF AllAwaited, WindowAwaited
      <3>3. CASE \E e \in Range(s.llc.hitList) : Wakes(e.req, c, x.addr)
        BY <1>5, <3>3 DEF AwaitedBy
      <3>4. ASSUME NEW m \in s.llc.mshrs, m.page = x.addr.page,
                   \E r \in s.llc.waiting[m] : Wakes(r, c, x.addr)
            PROVE  AwaitedBy(new.llc, c, x.addr)
        <4>1. m # addr
          BY <3>1, <3>4
        <4>2. m.page # addr.page
          BY <1>1, <2>3, <4>1 DEF Structure
        <4>3. m \in new.llc.mshrs
          BY <1>6, <4>2
        <4>4. m \in Addresses
          BY <1>1 DEF Llcs
        <4>5. new.llc.waiting[m] = s.llc.waiting[m]
          BY <1>5, <4>1, <4>4
        <4> QED
          BY <3>4, <4>3, <4>5 DEF AwaitedBy
      <3> QED
        BY <3>2, <3>3, <3>4 DEF AwaitedBy
    <2> QED
      BY <2>2, <2>4 DEF AllAwaited, WindowAwaited
  <1> QED
    BY <1>5, <1>7, <1>8, <1>9 DEF Sound

\* The state in which the cache starts to answer its hits.
Offered(s, left) ==
    [llc |-> [s.llc EXCEPT !.missList = left, !.hitList = <<>>], core |-> s.core]

\* Unless it is late, every hit whose time has come still has its line.
InTime(l, was, late) ==
    ~ late => /\ ~ was
              /\ \A e \in Range(l.hitList) : e.wait = 1 => IsHit(l.lines, e.req.addr.page)

\* The lines of the pages D are dirty.
AreDirty(l, D) == \A p \in D : \E x \in Range(l.lines) : x.page = p /\ x.dirty

\* The tick of the cache starts to answer its hits when the memory has been offered
\* the misses.
LEMMA LlcTickKeeps ==
  ASSUME NEW s, NEW m, NEW was \in BOOLEAN, NEW late \in BOOLEAN, NEW D \in SUBSET Pages,
         Sound(s, m.reads, was, {}), MemoryFits(m), InTime(s.llc, was, late), AreDirty(s.llc, D),
         NEW o, o = Offers(s.llc.missList, m),
         NEW start, start = Offered(s, o.left)
  PROVE  /\ MemoryFits(o.memory)
         /\ Sound(Answers(s.llc.hitList, start), o.memory.reads, late, D)
  <1> DEFINE list == s.llc.missList  R == Range(s.llc.hitList)
  <1>1. /\ s \in States /\ s.llc \in Llcs /\ s.core \in [Cores -> CoreStates]
        /\ Structure(s.llc) /\ Fetched(s.llc, m.reads)
        /\ \A c \in Cores : CoreFits(s.core[c], c)
    BY DEF Sound, States
  <1>2. list \in Seq(Entries) /\ s.llc.hitList \in Seq(Entries)
    BY <1>1 DEF Llcs
  <1>3. ~ late => FetchedOnce(s.llc, m.reads) /\ AllAwaited(s)
    BY DEF Sound, InTime
  <1>4. PICK once \in BOOLEAN : once <=> ~ late
    OBVIOUS
  <1>5. /\ o \in Offerings
        /\ FlyingIn(o) = Flying(list, m.reads)
        /\ once => NoneTwiceIn(o)
    <2>1. once => NoneTwice(list, m.reads)
      BY <1>3, <1>4 DEF FetchedOnce
    <2> QED
      BY <1>2, <2>1, OffersKeep
  <1>6. o.left \in Seq(Entries) /\ MemoryFits(o.memory)
    BY <1>5 DEF Offerings
  <1>7. /\ start.core = s.core
        /\ start.llc.lines = s.llc.lines /\ start.llc.mshrs = s.llc.mshrs
        /\ start.llc.waiting = s.llc.waiting
        /\ start.llc.missList = o.left /\ start.llc.hitList = <<>>
        /\ start.llc = [s.llc EXCEPT !.missList = start.llc.missList,
                                     !.hitList = start.llc.hitList]
        /\ start = [llc |-> start.llc, core |-> start.core]
    BY <1>1 DEF Llcs, Offered
  <1>8. start \in States
    <2>1. start.llc.hitList \in Seq(Entries)
      <3>1. <<>> \in Seq(Entries)
        OBVIOUS
      <3> QED
        BY <1>7, <3>1
    <2>2. start.llc \in Llcs
      BY <1>1, <1>6, <1>7, <2>1 DEF Llcs
    <2> QED
      BY <1>1, <1>7, <2>2 DEF States
  <1>9. Structure(start.llc)
    BY <1>1, <1>7 DEF Structure
  <1>10. Fetched(start.llc, o.memory.reads)
    BY <1>1, <1>5, <1>7 DEF Fetched, FlyingIn
  <1>11. \A p \in D : DirtyAt(start.llc, p)
    BY <1>7 DEF DirtyAt, AreDirty
  <1>12. R \subseteq Entries
    BY <1>2, RangeOfPlaces
  <1>13. ASSUME ~ late
         PROVE  /\ FetchedOnce(start.llc, o.memory.reads)
                /\ \A e \in R : e.wait = 1 => IsHit(start.llc.lines, e.req.addr.page)
                /\ \A c \in Cores : \A x \in Range(start.core[c].window) :
                      \/ x.ready \/ AwaitedBy(start.llc, c, x.addr)
                      \/ \E e \in R : Wakes(e.req, c, x.addr)
    <2>1. FetchedOnce(start.llc, o.memory.reads)
      BY <1>3, <1>4, <1>5, <1>7, <1>13 DEF FetchedOnce, FlyingIn, NoneTwiceIn
    <2>2. \A c, a : AwaitedBy(s.llc, c, a) =>
                       AwaitedBy(start.llc, c, a) \/ \E e \in R : Wakes(e.req, c, a)
      BY <1>7 DEF AwaitedBy
    <2>3. \A c \in Cores : \A x \in Range(s.core[c].window) :
             x.ready \/ AwaitedBy(s.llc, c, x.addr)
      BY <1>3, <1>13 DEF AllAwaited, WindowAwaited
    <2> QED
      BY <1>7, <1>13, <2>1, <2>2, <2>3 DEF InTime
  <1>14. Answering(start, o.memory.reads, late, D, R)
    <2>1. \A c \in Cores : CoreFits(start.core[c], c)
      BY <1>1, <1>7
    <2> QED
      BY <1>8, <1>9, <1>10, <1>11, <1>12, <1>13, <2>1 DEF Answering
  <1>15. Answering(Answers(s.llc.hitList, start), o.memory.reads, late, D, {})
    BY <1>2, <1>14, AnswersKeep
  <1> QED
    BY <1>6, <1>15 DEF Answering, Sound, AllAwaited, WindowAwaited

\* A tick of the frontend.
LEMMA TickKeeps ==
  ASSUME IInv, Tick, NEW D \in SUBSET Pages, AreDirty(llc, D)
  PROVE  Sound(Now', memory'.reads, overtaken', D) /\ MemoryFits(memory')
  <1> DEFINE offered == Offers(llc.missList, memory)
             start == [llc |-> [llc EXCEPT !.missList = offered.left, !.hitList = <<>>],
                       core |-> core]
             s == CoreTicks(LlcTick(offered.left))
  <1>1. /\ llc' = s.llc /\ core' = s.core /\ memory' = offered.memory
        /\ overtaken' = (overtaken \/ \E k \in DOMAIN llc.hitList :
                            /\ llc.hitList[k].wait = 1
                            /\ ~ IsHit(llc.lines, llc.hitList[k].req.addr.page))
    BY DEF Tick
  <1>2. PICK late \in BOOLEAN : late = overtaken'
    BY <1>1
  <1>3. PICK was \in BOOLEAN : was = overtaken
    BY DEF IInv
  <1>4. PICK now : now = Now
    OBVIOUS
  <1>5. now.llc = llc /\ now.core = core
    BY <1>4 DEF Now
  <1>6. PICK m : m = memory
    OBVIOUS
  <1>7. Sound(now, m.reads, was, {}) /\ MemoryFits(m) /\ pageOf \in Translations
    BY <1>3, <1>4, <1>6 DEF IInv
  <1>9. InTime(now.llc, was, late)
    <2> SUFFICES ASSUME ~ late, NEW k \in DOMAIN llc.hitList, llc.hitList[k].wait = 1
                 PROVE  IsHit(llc.lines, llc.hitList[k].req.addr.page)
      BY <1>1, <1>2, <1>3, <1>5 DEF Range, InTime
    <2> QED
      BY <1>1, <1>2
  <1>10. /\ MemoryFits(offered.memory)
         /\ Sound(Answers(llc.hitList, start), offered.memory.reads, late, D)
    <2>1. AreDirty(now.llc, D)
      BY <1>5
    <2>2. PICK o : o = Offers(now.llc.missList, m)
      OBVIOUS
    <2>3. PICK st : st = Offered(now, o.left)
      OBVIOUS
    <2>4. /\ MemoryFits(o.memory)
          /\ Sound(Answers(now.llc.hitList, st), o.memory.reads, late, D)
      BY <1>7, <1>9, <2>1, <2>2, <2>3, LlcTickKeeps
    <2>5. o = offered /\ st = start
      BY <1>5, <1>6, <2>2, <2>3 DEF Offered
    <2> QED
      BY <1>5, <2>4, <2>5
  <1>11. LlcTick(offered.left) = Answers(llc.hitList, start)
    BY DEF LlcTick
  <1> HIDE DEF offered, start
  <1>12. Sound(s, offered.memory.reads, late, D)
    <2>1. offered.memory.reads \in Seq(Addresses)
      BY <1>10 DEF MemoryFits, Memories
    <2> QED
      BY <1>7, <1>10, <1>11, <2>1, CoreTicksKeep
  <1>13. s = Now'
    <2>1. s \in States
      BY <1>12 DEF Sound
    <2>2. s = [llc |-> s.llc, core |-> s.core]
      BY <2>1 DEF States
    <2> QED
      BY <1>1, <2>2 DEF Now
  <1> HIDE DEF s
  <1> QED
    BY <1>1, <1>2, <1>10, <1>12, <1>13

-----------------------------------------------------------------------------
(***************************************************************************)
(* The theorems.                                                           *)
(***************************************************************************)

\* The invariant holds at the start.
LEMMA InitInv ==
  ASSUME Init
  PROVE  IInv
  <1>1. Range(<<>>) = {} /\ DOMAIN <<>> = {} /\ Len(<<>>) = 0
    BY DEF Range
  <1>2. /\ llc.lines = <<>> /\ llc.mshrs = {} /\ llc.missList = <<>> /\ llc.hitList = <<>>
        /\ llc.waiting = [a \in Addresses |-> {}]
        /\ llc = [lines |-> llc.lines, mshrs |-> llc.mshrs, waiting |-> llc.waiting,
                  missList |-> llc.missList, hitList |-> llc.hitList]
        /\ memory.reads = <<>> /\ memory.writes = 0
        /\ memory = [reads |-> memory.reads, writes |-> memory.writes]
    BY DEF Init
  <1>3. llc \in Llcs
    <2>1. llc.lines \in Seq(Lines) /\ llc.missList \in Seq(Entries) /\ llc.hitList \in Seq(Entries)
      BY <1>2
    <2>2. llc.mshrs \in SUBSET Addresses /\ llc.waiting \in [Addresses -> SUBSET Requests]
      BY <1>2
    <2> QED
      BY <1>2, <2>1, <2>2 DEF Llcs
  <1>4. ASSUME NEW c \in Cores
        PROVE  core[c] \in CoreStates /\ CoreFits(core[c], c) /\ core[c].window = <<>>
    <2> DEFINE Traced == [bubbles : Nat, load : VirtualAddresses \cup {NoAddr},
                          store : VirtualAddresses \cup {NoAddr}]
               inst == Trace[c][1]
    <2>1. Trace[c] \in Seq(Traced) /\ Trace[c] # <<>>
      BY TraceAssumption
    <2> HIDE DEF Traced
    <2>2. Len(Trace[c]) \in Nat \ {0} /\ DOMAIN Trace[c] = 1 .. Len(Trace[c])
      BY <2>1
    <2>3. inst \in Traced
      BY <2>1, <2>2
    <2>4. /\ core[c].window = <<>> /\ core[c].bubbles = inst.bubbles
          /\ core[c].load = inst.load /\ core[c].store = inst.store
          /\ core[c].next = IF Len(Trace[c]) = 1 THEN 1 ELSE 2
          /\ core[c] = [window |-> core[c].window, bubbles |-> core[c].bubbles,
                        load |-> core[c].load, store |-> core[c].store, next |-> core[c].next]
      BY DEF Init, Start
    <2>5. core[c].next \in 1 .. Len(Trace[c])
      <3>1. core[c].next = IF Len(Trace[c]) = 1 THEN 1 ELSE 2
        BY <2>4
      <3>2. \A n \in Nat \ {0} : (IF n = 1 THEN 1 ELSE 2) \in 1 .. n
        OBVIOUS
      <3>3. Len(Trace[c]) \in Nat \ {0}
        BY <2>2
      <3> QED
        BY <3>1, <3>2, <3>3
    <2>6. core[c].window \in Seq(Insts) /\ Len(core[c].window) = 0
      BY <2>4
    <2> HIDE DEF inst
    <2>7. core[c] \in CoreStates
      <3>1. /\ core[c].bubbles \in Nat /\ core[c].load \in VirtualAddresses \cup {NoAddr}
            /\ core[c].store \in VirtualAddresses \cup {NoAddr} /\ core[c].next \in Nat
        BY <2>2, <2>3, <2>4, <2>5 DEF Traced
      <3>2. core[c] = [window |-> core[c].window, bubbles |-> core[c].bubbles,
                       load |-> core[c].load, store |-> core[c].store, next |-> core[c].next]
        BY <2>4
      <3> QED
        BY <2>6, <3>1, <3>2 DEF CoreStates
    <2> QED
      BY <2>2, <2>4, <2>5, <2>6, <2>7, FrontendAssumption DEF CoreFits
  <1>5. core \in [Cores -> CoreStates]
    BY <1>4 DEF Init
  <1>6. Now \in States /\ Now.llc = llc /\ Now.core = core
    BY <1>3, <1>5 DEF States, Now
  <1>7. Structure(llc)
    <2>1. IsFiniteSet(llc.mshrs) /\ Cardinality(llc.mshrs) = 0
      BY <1>2, FS_EmptySet
    <2>2. 0 <= NumMshrs
      BY FrontendAssumption DEF NumMshrs
    <2> QED
      BY <1>1, <1>2, <2>1, <2>2, FrontendAssumption DEF Structure, OnePerPage
  <1>8. Fetched(llc, memory.reads) /\ FetchedOnce(llc, memory.reads)
    BY <1>1, <1>2 DEF Fetched, FetchedOnce, Flying, ReadsIn, NoneTwice
  <1>9. AllAwaited(Now)
    BY <1>1, <1>4, <1>6 DEF AllAwaited, WindowAwaited
  <1>10. Sound(Now, memory.reads, overtaken, {})
    BY <1>4, <1>6, <1>7, <1>8, <1>9 DEF Sound
  <1>11. MemoryFits(memory)
    <2>1. memory.reads \in Seq(Addresses)
      BY <1>2
    <2>2. memory \in Memories
      <3>1. /\ memory = [reads |-> memory.reads, writes |-> memory.writes]
            /\ memory.writes \in Nat
        BY <1>2
      <3> QED
        BY <2>1, <3>1 DEF Memories
    <2> QED
      BY <1>1, <1>2, <2>2, FrontendAssumption DEF MemoryFits
  <1>12. pageOf \in Translations /\ clk \in 0 .. 1 /\ overtaken \in BOOLEAN
    <2>1. pageOf \in Translations /\ clk = 0
      BY DEF Init
    <2>2. overtaken \in BOOLEAN
      BY DEF Init
    <2> QED
      BY <2>1, <2>2
  <1> QED
    BY <1>10, <1>11, <1>12 DEF IInv

\* Every step keeps it, and loses no store.
StepKeeps(D) ==
    AreDirty(llc, D) => Sound(Now', memory'.reads, overtaken', D) /\ MemoryFits(memory')

\* The memory answers a read.
LEMMA MemoryAnswersKeeps ==
  ASSUME IInv, NEW i, MemoryAnswers(i), NEW D \in SUBSET Pages
  PROVE  StepKeeps(D)
  <1> SUFFICES ASSUME AreDirty(llc, D)
               PROVE  Sound(Now', memory'.reads, overtaken', D) /\ MemoryFits(memory')
    BY DEF StepKeeps
  <1>1. PICK s : s = Now
    OBVIOUS
  <1>2. PICK reads : reads = memory.reads
    OBVIOUS
  <1>3. PICK late \in BOOLEAN : late = overtaken
    BY DEF IInv
  <1>4. s.llc = llc /\ s.core = core
    BY <1>1 DEF Now
  <1>5. MemoryFits(memory) /\ memory \in Memories /\ reads \in Seq(Addresses)
    BY <1>2 DEF IInv, MemoryFits, Memories
  <1>6. i \in 1 .. Len(reads) /\ Len(reads) \in Nat
    BY <1>2, <1>5 DEF MemoryAnswers, MemoryReads
  <1>7. Sound(s, reads, late, D)
    <2>1. Sound(s, reads, late, {})
      BY <1>1, <1>2, <1>3 DEF IInv
    <2> QED
      BY <1>4, <2>1 DEF Sound, AreDirty, DirtyAt
  <1>8. PICK left : left = RemoveAt(reads, i)
    OBVIOUS
  <1>9. PICK new : new = Receive(s, reads[i])
    OBVIOUS
  <1>10. Sound(new, left, late, D)
    BY <1>5, <1>6, <1>7, <1>8, <1>9, AnswerKeeps
  <1>11. new = Now'
    BY <1>1, <1>2, <1>9 DEF MemoryAnswers, Receive, Now
  <1>12. /\ memory'.reads = left /\ memory'.writes = memory.writes
         /\ memory' = [reads |-> memory'.reads, writes |-> memory'.writes]
    BY <1>2, <1>5, <1>8 DEF MemoryAnswers, MemoryReads, Memories
  <1>13. overtaken' = overtaken
    BY DEF MemoryAnswers
  <1>14. left \in Seq(Addresses) /\ Len(left) = Len(reads) - 1
    BY <1>5, <1>6, <1>8, RemoveProperties
  <1>15. MemoryFits(memory')
    BY <1>2, <1>5, <1>6, <1>12, <1>14, FrontendAssumption DEF MemoryFits, Memories
  <1> QED
    BY <1>3, <1>10, <1>11, <1>12, <1>13, <1>15

\* Every step keeps the invariant and loses no store.
LEMMA NextKeeps ==
  ASSUME IInv, [Next]_vars, NEW D \in SUBSET Pages
  PROVE  StepKeeps(D) /\ IInv'
  <1>1. ASSUME NEW E \in SUBSET Pages
        PROVE  StepKeeps(E)
    <2>1. CASE Tick
      BY <2>1, TickKeeps DEF StepKeeps
    <2>2. CASE \E i \in 1 .. ReadRoom : MemoryAnswers(i)
      BY <2>2, MemoryAnswersKeeps
    <2>3. ASSUME llc' = llc, core' = core, overtaken' = overtaken, memory'.reads = memory.reads,
                 MemoryFits(memory')
          PROVE  StepKeeps(E)
      <3>1. Now' = Now /\ Now.llc = llc
        BY <2>3 DEF Now
      <3>2. Sound(Now, memory.reads, overtaken, {})
        BY DEF IInv
      <3>3. AreDirty(llc, E) => Sound(Now, memory.reads, overtaken, E)
        BY <3>1, <3>2 DEF Sound, AreDirty, DirtyAt
      <3> QED
        BY <2>3, <3>1, <3>3 DEF StepKeeps
    <2>4. CASE MemoryWrites
      <3>1. memory \in Memories /\ Len(memory.reads) <= ReadRoom /\ memory.writes <= WriteRoom
        BY DEF IInv, MemoryFits
      <3>2. /\ memory'.reads = memory.reads /\ memory'.writes = memory.writes - 1
            /\ memory' = [reads |-> memory'.reads, writes |-> memory'.writes]
            /\ memory.writes > 0
        BY <2>4, <3>1 DEF MemoryWrites, Memories
      <3>3. MemoryFits(memory')
        BY <3>1, <3>2, FrontendAssumption DEF MemoryFits, Memories
      <3> QED
        BY <2>3, <2>4, <3>2, <3>3 DEF MemoryWrites
    <2>5. CASE UNCHANGED vars
      BY <2>3, <2>5 DEF vars, IInv
    <2> QED
      BY <2>1, <2>2, <2>4, <2>5 DEF Next
  <1>2. StepKeeps({})
    BY <1>1
  <1>3. Sound(Now', memory'.reads, overtaken', {}) /\ MemoryFits(memory')
    BY <1>2 DEF StepKeeps, AreDirty
  <1>4. pageOf' \in Translations /\ clk' \in 0 .. 1 /\ overtaken' \in BOOLEAN
    <2>1. pageOf \in Translations /\ clk \in 0 .. 1 /\ overtaken \in BOOLEAN
      BY DEF IInv
    <2>2. CASE Tick
      <3>1. pageOf' = pageOf /\ clk' = 1 - clk
        BY <2>2 DEF Tick, Clock
      <3>2. overtaken' = (overtaken \/ \E k \in DOMAIN llc.hitList :
                            /\ llc.hitList[k].wait = 1
                            /\ ~ IsHit(llc.lines, llc.hitList[k].req.addr.page))
        BY <2>2 DEF Tick
      <3>3. overtaken' \in BOOLEAN
        BY <3>2
      <3>4. clk' \in 0 .. 1
        BY <2>1, <3>1
      <3> QED
        BY <2>1, <3>1, <3>3, <3>4
    <2>3. ASSUME pageOf' = pageOf, clk' = clk, overtaken' = overtaken
          PROVE  pageOf' \in Translations /\ clk' \in 0 .. 1 /\ overtaken' \in BOOLEAN
      BY <2>1, <2>3
    <2> QED
      BY <2>2, <2>3 DEF Next, MemoryAnswers, MemoryWrites, vars
  <1> QED
    BY <1>1, <1>3, <1>4 DEF IInv

\* The invariant.
THEOREM Invariance == Spec => []IInv
  <1>1. Init => IInv
    BY InitInv
  <1>2. IInv /\ [Next]_vars => IInv'
    BY NextKeeps
  <1> QED
    BY <1>1, <1>2, PTL DEF Spec

\* The state has its type: neither the set nor the MSHRs, the windows nor the memory
\* are ever overfull, whatever the cores send (llc.cpp:107-129).
THEOREM TypeCorrect == Spec => []TypeOK
  <1>1. IInv => TypeOK
    <2> SUFFICES ASSUME IInv PROVE TypeOK
      OBVIOUS
    <2>1. /\ llc \in Llcs /\ core \in [Cores -> CoreStates]
          /\ \A c \in Cores : CoreFits(core[c], c)
          /\ Structure(llc)
      BY DEF IInv, Sound, Now, States
    <2>2. /\ memory \in Memories /\ Len(memory.reads) <= ReadRoom /\ memory.writes <= WriteRoom
          /\ clk \in 0 .. 1 /\ overtaken \in BOOLEAN
      BY DEF IInv, MemoryFits
    <2>3. llc.lines \in Seq([page : Pages, offset : Offsets, dirty : BOOLEAN, ready : BOOLEAN])
      BY <2>1 DEF Llcs, Lines
    <2>4. /\ Len(llc.lines) <= Associativity
          /\ llc.mshrs \subseteq Addresses /\ Cardinality(llc.mshrs) <= NumMshrs
          /\ \A a \in Addresses : llc.waiting[a] \subseteq Requests
      BY <2>1 DEF Llcs, Structure
    <2>5. /\ \A k \in DOMAIN llc.missList : llc.missList[k] \in Entries
          /\ \A k \in DOMAIN llc.hitList : llc.hitList[k] \in Entries
      BY <2>1 DEF Llcs
    <2>6. \A e \in Entries : e.wait \in 1 .. Latency /\ e.req \in Requests
      BY DEF Entries
    <2>7. \A c \in Cores :
             /\ Len(core[c].window) <= Depth
             /\ core[c].bubbles \in Nat /\ core[c].next \in DOMAIN Trace[c]
      BY <2>1 DEF CoreStates, CoreFits
    <2>8. Len(memory.reads) <= ReadRoom /\ memory.writes \in 0 .. WriteRoom
      BY <2>2, FrontendAssumption DEF Memories
    <2> QED
      BY <2>2, <2>3, <2>4, <2>5, <2>6, <2>7, <2>8 DEF TypeOK, Requests
  <1> QED
    BY <1>1, Invariance, PTL

\* No page has two lines or two MSHRs, the lines that have not arrived are those of the
\* MSHRs, each of which has a read under way; while every hit is answered before its
\* line goes, only one: merged misses are fetched once (llc.cpp:75-150).
THEOREM LinesMatchMshrs == Spec => []LinesAndMshrs
  <1>1. IInv => LinesAndMshrs
    <2> SUFFICES ASSUME IInv PROVE LinesAndMshrs
      OBVIOUS
    <2> DEFINE list == llc.missList  reads == memory.reads
    <2>1. /\ llc \in Llcs /\ Structure(llc) /\ Fetched(llc, reads)
          /\ ~ overtaken => FetchedOnce(llc, reads)
      BY DEF IInv, Sound, Now, States
    <2>2. reads \in Seq(Addresses) /\ DOMAIN reads = 1 .. Len(reads)
      BY DEF IInv, MemoryFits, Memories
    <2>3. \A i, j \in DOMAIN llc.lines : llc.lines[i].page = llc.lines[j].page => i = j
      BY <2>1 DEF Structure, OnePerPage
    <2>4. \A m, n \in llc.mshrs : m.page = n.page => m = n
      BY <2>1 DEF Structure
    <2>5. {m.page : m \in llc.mshrs} =
             {llc.lines[i].page : i \in {j \in DOMAIN llc.lines : ~ llc.lines[j].ready}}
      <3>1. \A m \in llc.mshrs : \E i \in DOMAIN llc.lines :
               llc.lines[i].page = m.page /\ ~ llc.lines[i].ready
        BY <2>1 DEF Structure, Range
      <3>2. \A i \in DOMAIN llc.lines :
               ~ llc.lines[i].ready => \E m \in llc.mshrs : m.page = llc.lines[i].page
        BY <2>1 DEF Structure, Range
      <3> QED
        BY <3>1, <3>2
    <2>6. \A p : (\E a \in ReadsIn(list) : a.page = p) <=> ReadsOf(p) # {}
      BY DEF ReadsIn, ReadsOf, Range
    <2>7. \A p : (\E a \in Range(reads) : a.page = p) <=> FetchesOf(p) # {}
      BY DEF FetchesOf, Range
    <2>8. \A m \in llc.mshrs : ReadsOf(m.page) # {} \/ FetchesOf(m.page) # {}
      BY <2>1, <2>6, <2>7 DEF Fetched, Flying
    <2>9. ASSUME ~ overtaken, NEW p \in Pages
          PROVE  Cardinality(ReadsOf(p)) + Cardinality(FetchesOf(p)) =
                 Cardinality(MshrsOf(llc.mshrs, p))
      <3>1. Flying(list, reads) \subseteq llc.mshrs /\ NoneTwice(list, reads)
        BY <2>1, <2>9 DEF FetchedOnce
      <3>2. CASE MshrsOf(llc.mshrs, p) = {}
        <4>1. ReadsOf(p) = {} /\ FetchesOf(p) = {}
          BY <2>6, <2>7, <3>1, <3>2 DEF Flying, MshrsOf
        <4> QED
          BY <3>2, <4>1, FS_EmptySet
      <3> DEFINE One(S) == \E x : S = {x}
      <3>3. /\ Cardinality({}) = 0
            /\ \A S : One(S) => Cardinality(S) = 1
        BY FS_EmptySet, FS_Singleton
      <3>4. CASE MshrsOf(llc.mshrs, p) # {}
        <4>1. PICK m \in llc.mshrs : m.page = p
          BY <3>4 DEF MshrsOf
        <4>2. MshrsOf(llc.mshrs, p) = {m}
          BY <2>4, <4>1 DEF MshrsOf
        <4>3. \A j, k \in ReadsOf(p) : j = k
          BY <3>1 DEF NoneTwice, ReadsOf
        <4>4. \A j, k \in FetchesOf(p) : j = k
          BY <3>1 DEF NoneTwice, FetchesOf
        <4>5. ReadsOf(p) = {} \/ FetchesOf(p) = {}
          BY <2>6, <2>7, <3>1 DEF NoneTwice
        <4>6. ReadsOf(p) # {} \/ FetchesOf(p) # {}
          BY <2>8, <4>1
        <4>7. CASE ReadsOf(p) # {}
          <5>1. One(ReadsOf(p)) /\ One(MshrsOf(llc.mshrs, p)) /\ FetchesOf(p) = {}
            <6>1. PICK k : k \in ReadsOf(p)
              BY <4>7
            <6>2. ReadsOf(p) = {k}
              BY <4>3, <6>1
            <6> QED
              BY <4>2, <4>5, <4>7, <6>2
          <5>2. /\ Cardinality(ReadsOf(p)) = 1 /\ Cardinality(FetchesOf(p)) = 0
                /\ Cardinality(MshrsOf(llc.mshrs, p)) = 1
            BY <3>3, <5>1
          <5> QED
            BY <5>2
        <4>8. CASE FetchesOf(p) # {}
          <5>1. One(FetchesOf(p)) /\ One(MshrsOf(llc.mshrs, p)) /\ ReadsOf(p) = {}
            <6>1. PICK k : k \in FetchesOf(p)
              BY <4>8
            <6>2. FetchesOf(p) = {k}
              BY <4>4, <6>1
            <6> QED
              BY <4>2, <4>5, <4>8, <6>2
          <5>2. /\ Cardinality(FetchesOf(p)) = 1 /\ Cardinality(ReadsOf(p)) = 0
                /\ Cardinality(MshrsOf(llc.mshrs, p)) = 1
            BY <3>3, <5>1
          <5> QED
            BY <5>2
        <4> QED
          BY <4>6, <4>7, <4>8
      <3> QED
        BY <3>2, <3>4
    <2> QED
      BY <2>3, <2>4, <2>5, <2>8, <2>9 DEF LinesAndMshrs
  <1> QED
    BY <1>1, Invariance, PTL

\* While every hit is answered before its line goes, somebody will make every load of a
\* window ready: no answer forgets a load that another one waits with.
THEOREM LoadsWait == Spec => []LoadsAreAwaited
  <1>1. IInv => LoadsAreAwaited
    <2> SUFFICES ASSUME IInv, ~ overtaken, NEW c \in Cores, NEW i \in DOMAIN core[c].window,
                        ~ core[c].window[i].ready
                 PROVE  LET addr == core[c].window[i].addr
                        IN  \/ \E m \in MshrsOf(llc.mshrs, addr.page) :
                                  \E r \in llc.waiting[m] : r.source = c /\ r.addr = addr
                            \/ \E k \in DOMAIN llc.hitList :
                                  /\ llc.hitList[k].req.source = c
                                  /\ llc.hitList[k].req.addr = addr
      BY DEF LoadsAreAwaited
    <2>1. \A x \in Range(core[c].window) : x.ready \/ AwaitedBy(llc, c, x.addr)
      BY DEF IInv, Sound, AllAwaited, WindowAwaited, Now
    <2>2. AwaitedBy(llc, c, core[c].window[i].addr)
      BY <2>1 DEF Range
    <2> QED
      BY <2>2 DEF AwaitedBy, Wakes, MshrsOf, Range
  <1> QED
    BY <1>1, Invariance, PTL

\* A store is never lost: until a write of its page is in the miss list, its line stays
\* dirty, whatever is sent, answered and evicted in the same step.
THEOREM StoresSurvive == Spec => DirtyIsWrittenBack
  <1>1. IInv /\ [Next]_vars =>
           [\A i \in DOMAIN llc.lines :
              llc.lines[i].dirty =>
                  \/ \E j \in DOMAIN llc'.lines :
                        llc'.lines[j].page = llc.lines[i].page /\ llc'.lines[j].dirty
                  \/ WritesBack(llc', llc.lines[i].page)]_vars
    <2> SUFFICES ASSUME IInv, [Next]_vars, NEW i \in DOMAIN llc.lines, llc.lines[i].dirty
                 PROVE  \/ \E j \in DOMAIN llc'.lines :
                              llc'.lines[j].page = llc.lines[i].page /\ llc'.lines[j].dirty
                        \/ WritesBack(llc', llc.lines[i].page)
      OBVIOUS
    <2>1. llc.lines[i] \in Lines
      BY DEF IInv, Sound, Now, States, Llcs
    <2>2. PICK p \in Pages : p = llc.lines[i].page
      BY <2>1 DEF Lines
    <2>3. AreDirty(llc, {p})
      BY <2>2 DEF AreDirty, Range
    <2>4. StepKeeps({p})
      BY NextKeeps
    <2>5. DirtyAt(Now'.llc, p)
      BY <2>3, <2>4 DEF StepKeeps, Sound
    <2>6. Now'.llc = llc'
      BY DEF Now
    <2> QED
      BY <2>2, <2>5, <2>6 DEF DirtyAt, WritesBack, Range
  <1> QED
    BY <1>1, Invariance, PTL DEF Spec, DirtyIsWrittenBack
=============================================================================
