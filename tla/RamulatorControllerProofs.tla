----------------------- MODULE RamulatorControllerProofs -----------------------
(***************************************************************************)
(* Proofs about RamulatorController for every set of requests, rank, table *)
(* of timings, scheduler and buffer size that the assumptions allow.       *)
(*                                                                         *)
(* What has to be shown is that a request in the active buffer keeps its   *)
(* bank although a refresh closes the row under it.  RowsReturn says why:  *)
(* the refresh stays in the priority buffer until its REFab, which keeps   *)
(* reads and writes out, and whatever keeps an ACT waiting is over before  *)
(* the REFab is ready.  So all active requests are ready then, the best of *)
(* them is served first (BestIsFound, for each of the three schedulers),   *)
(* and REFab is issued only after the active buffer has become empty.      *)
(*                                                                         *)
(* That active requests have banks of their own bounds the active buffer,  *)
(* and only so the enqueue whose result the code ignores never fails       *)
(* (ActiveHasRoom), on which NoRequestLost rests.                          *)
(*                                                                         *)
(* That a refresh is issued before the next one is due (RefreshesKeepUp)   *)
(* is a bound in cycles.  Every tick lowers Effort, which the active       *)
(* requests and the timers of the device determine.                        *)
(***************************************************************************)
EXTENDS RamulatorController, FiniteSetTheorems, FunctionTheorems,
        SequenceTheorems, WellFoundedInduction, TLAPS

-----------------------------------------------------------------------------
(***************************************************************************)
(* Numbers and loops. Induction is over sets: to show P of every number up *)
(* to n, take the set of the numbers up to n that satisfy P.               *)
(***************************************************************************)
\* A set of numbers that is not empty has a least member.
LEMMA LeastNatural ==
  ASSUME NEW S \in SUBSET Nat, S # {}
  PROVE  \E n \in S : \A m \in S : n <= m
  <1> DEFINE R == {ss \in Nat \X Nat : ss[1] < ss[2]}
  <1>1. IsWellFoundedOn(R, Nat)
    BY NatLessThanWellFounded DEF OpToRel
  <1>2. PICK n \in S : \A m \in S : ~ (<<m, n>> \in R)
    <2> HIDE DEF R
    <2> QED
      BY <1>1, WFMin
  <1>3. \A m \in S : ~ (m < n)
    BY <1>2
  <1> QED
    BY <1>3

\* A loop from 0 to n: what holds before it and is kept by each turn holds
\* after every turn.
LEMMA LoopInduction ==
  ASSUME NEW n \in Nat, NEW S,
         0 \in S,
         \A i \in 0 .. n - 1 : i \in S => i + 1 \in S
  PROVE  0 .. n \subseteq S
  <1> DEFINE T == {i \in 0 .. n : i \notin S}
  <1> SUFFICES ASSUME T # {} PROVE FALSE
    OBVIOUS
  <1>1. T \in SUBSET Nat
    OBVIOUS
  <1>2. PICK k \in T : \A m \in T : k <= m
    <2> HIDE DEF T
    <2> QED
      BY <1>1, LeastNatural
  <1>3. k \in 1 .. n /\ k - 1 \in 0 .. n - 1 /\ k - 1 \in S
    BY <1>2
  <1> QED
    BY <1>2, <1>3

-----------------------------------------------------------------------------
(***************************************************************************)
(* The invariant.                                                          *)
(***************************************************************************)
\* nRP, the cycles between a PREA and a REFab.
PrechargeTime == RankLatency["PREA"]["REFab"]

Device ==
    [row  : [Banks -> Rows \cup {Closed}],
     rank : [Commands -> Nat],
     bank : [Banks -> [Commands -> Nat]]]

EntryOf(S) == [req : S, arrive : Nat, age : Nat]
PendingOf(S) == [req : S, depart : 0 .. ReadLatency]

BlissState ==
    [last : Sources \cup {NoSource}, consecutive : 0 .. BlissThreshold + 1,
     blacklist : SUBSET (Sources \cup {NoSource}),
     sinceClearing : 0 .. ClearingInterval - 1]

AtlasState ==
    [localAS : [Sources -> Nat], count : [Sources -> Nat],
     owner : [Banks -> Sources \cup {NoSource}], totalAS : [Sources -> Nat],
     known : SUBSET Sources, inQuantum : 0 .. QuantumLength - 1]

Types ==
    /\ scheduler \in Schedulers
    /\ dev \in Device
    /\ activeBuf \in Seq(EntryOf(accepted))
    /\ readBuf \in Seq(EntryOf(accepted)) /\ writeBuf \in Seq(EntryOf(accepted))
    /\ priorityBuf \in Seq({RefreshEntry})
    /\ pending \in Seq(PendingOf(accepted))
    /\ writeMode \in BOOLEAN /\ failed \in BOOLEAN
    /\ untilRefresh \in 1 .. RefreshInterval
    /\ arrivals \in Nat
    /\ bliss \in BlissState
    /\ atlas \in AtlasState
    /\ accepted \subseteq Requests
    /\ done \in [Requests -> 0 .. 1]

\* What keeps an ACT waiting is over nRP after a PREA could be issued: for the
\* timers of the banks ...
BanksSoonFree(d) == \A b \in Banks : d.bank[b]["ACT"] <= d.rank["PREA"] + PrechargeTime

\* ... and for that of the rank, unless a refresh is going on.
RankSoonFree(d) == d.rank["ACT"] <= d.rank["PREA"] + PrechargeTime

\* With every bank closed, no ACT has to wait longer than a refresh.
RefreshWaitsLonger(d) ==
    (\A b \in Banks : d.row[b] = Closed) =>
        /\ d.rank["ACT"] <= d.rank["REFab"]
        /\ \A b \in Banks : d.bank[b]["ACT"] <= d.rank["REFab"]

\* Active requests get their rows back before the refresh that has closed them is
\* issued: it stays in the priority buffer, which keeps other requests out.
RowsReturn ==
    activeBuf # <<>> =>
        /\ RankSoonFree(dev) /\ RefreshWaitsLonger(dev)
        /\ \A i \in Places(activeBuf) :
              dev.row[activeBuf[i].req.bank] = Closed => priorityBuf # <<>>

IInv ==
    /\ Types
    /\ BanksSoonFree(dev) /\ RowsReturn /\ ActiveOwnsItsBank
    /\ NoRequestLost
    /\ BanksAreCounted

-----------------------------------------------------------------------------
(***************************************************************************)
(* Buffers.                                                                *)
(***************************************************************************)
\* What becomes of the requests in a buffer when nothing else does.
SameRequests(new, old) ==
    Len(new) = Len(old) /\ \A k \in Places(old) : new[k].req = old[k].req

\* ... when one is added at its end,
OneMore(new, old, r) ==
    /\ Len(new) = Len(old) + 1
    /\ new[Len(new)].req = r
    /\ \A k \in Places(old) : new[k].req = old[k].req

\* ... and when the one at place i is taken out.
OneLess(new, old, i) ==
    /\ Len(new) = Len(old) - 1
    /\ \A k \in Places(new) :
          new[k].req = IF k < i THEN old[k].req ELSE old[k + 1].req

\* The places of a request are places, finitely many.
LEMMA CopiesType ==
  ASSUME NEW T, NEW buf \in Seq(T), NEW r
  PROVE  /\ IsFiniteSet({i \in Places(buf) : buf[i].req = r})
         /\ Copies(buf, r) \in Nat
         /\ (Copies(buf, r) = 0 <=> \A i \in Places(buf) : buf[i].req # r)
  <1> DEFINE S == {i \in Places(buf) : buf[i].req = r}
  <1>1. Len(buf) \in Nat
    OBVIOUS
  <1>2. IsFiniteSet(1 .. Len(buf))
    BY <1>1, FS_Interval
  <1>3. IsFiniteSet(S)
    BY <1>2, FS_Subset DEF Places
  <1>4. Cardinality(S) \in Nat /\ (Cardinality(S) = 0 <=> S = {})
    <2> HIDE DEF S
    <2> QED
      BY <1>3, FS_CardinalityType, FS_EmptySet
  <1> QED
    BY <1>3, <1>4 DEF Copies

\* A buffer whose requests stay holds each as often as before; ...
LEMMA CopiesSame ==
  ASSUME NEW T, NEW old \in Seq(T), NEW U, NEW new \in Seq(U),
         SameRequests(new, old), NEW r
  PROVE  Copies(new, r) = Copies(old, r)
  <1>1. {i \in Places(new) : new[i].req = r} = {i \in Places(old) : old[i].req = r}
    BY DEF SameRequests, Places
  <1> QED
    BY <1>1 DEF Copies

\* ... one more holds the new one once more; ...
LEMMA CopiesMore ==
  ASSUME NEW T, NEW old \in Seq(T), NEW U, NEW new \in Seq(U),
         NEW q, OneMore(new, old, q), NEW r
  PROVE  Copies(new, r) = IF q = r THEN Copies(old, r) + 1 ELSE Copies(old, r)
  <1> DEFINE S == {i \in Places(old) : old[i].req = r}
             N == {i \in Places(new) : new[i].req = r}
             l == Len(old) + 1
  <1>1. Len(old) \in Nat /\ Len(new) = l
    BY DEF OneMore
  <1>2. N = IF q = r THEN S \cup {l} ELSE S
    BY <1>1 DEF OneMore, Places
  <1>3. l \notin S
    BY <1>1 DEF Places
  <1>4. IsFiniteSet(S)
    BY CopiesType
  <1> HIDE DEF S, N, l
  <1>5. Cardinality(S \cup {l}) = Cardinality(S) + 1
    BY <1>3, <1>4, FS_AddElement
  <1> QED
    BY <1>2, <1>5 DEF Copies, S, N

\* ... and one less holds the one taken out once less.
LEMMA CopiesLess ==
  ASSUME NEW T, NEW old \in Seq(T), NEW U, NEW new \in Seq(U),
         NEW i \in Places(old), OneLess(new, old, i), NEW r
  PROVE  Copies(new, r) = IF old[i].req = r THEN Copies(old, r) - 1 ELSE Copies(old, r)
  <1> DEFINE S == {k \in Places(old) : old[k].req = r}
             N == {k \in Places(new) : new[k].req = r}
             f == [k \in N |-> IF k < i THEN k ELSE k + 1]
  <1>1. Len(old) \in Nat /\ Len(new) = Len(old) - 1 /\ i \in 1 .. Len(old)
    BY DEF OneLess, Places
  <1>2. \A k \in N : f[k] \in S \ {i}
    BY <1>1, SMTT(30) DEF OneLess, Places
  <1>3. \A k, m \in N : f[k] = f[m] => k = m
    BY <1>1 DEF Places
  <1>4. ASSUME NEW m \in S \ {i} PROVE \E k \in N : f[k] = m
    <2>1. CASE m < i
      <3>1. m \in N /\ f[m] = m
        BY <1>1, <2>1 DEF OneLess, Places
      <3> QED
        BY <3>1
    <2>2. CASE ~ (m < i)
      <3>1. m - 1 \in N /\ f[m - 1] = m
        BY <1>1, <2>2 DEF OneLess, Places
      <3> QED
        BY <3>1
    <2> QED
      BY <2>1, <2>2
  <1>5. IsFiniteSet(N) /\ IsFiniteSet(S)
    BY CopiesType
  <1>6. f \in Bijection(N, S \ {i})
    <2> HIDE DEF S, N
    <2>1. f \in [N -> S \ {i}]
      BY <1>2
    <2> HIDE DEF f
    <2> QED
      BY <2>1, <1>3, <1>4, Fun_IsBij
  <1> HIDE DEF f
  <1>7. i \in S <=> old[i].req = r
    BY DEF Places
  <1> HIDE DEF N, S
  <1>8. ExistsBijection(N, S \ {i})
    BY <1>6 DEF ExistsBijection
  <1>9. Cardinality(N) = Cardinality(S \ {i})
    BY <1>8, <1>5, FS_Bijection
  <1>10. Cardinality(S \ {i}) = IF i \in S THEN Cardinality(S) - 1 ELSE Cardinality(S)
    BY <1>5, FS_RemoveElement
  <1> QED
    BY <1>7, <1>9, <1>10 DEF Copies, N, S

\* Remove takes out one request and keeps the order of the others.
LEMMA RemoveProperties ==
  ASSUME NEW T, NEW buf \in Seq(T), NEW i \in Places(buf)
  PROVE  /\ Remove(buf, i) \in Seq(T)
         /\ Len(Remove(buf, i)) = Len(buf) - 1
         /\ \A k \in 1 .. Len(buf) - 1 :
               Remove(buf, i)[k] = IF k < i THEN buf[k] ELSE buf[k + 1]
  <1> DEFINE front == SubSeq(buf, 1, i - 1)  back == SubSeq(buf, i + 1, Len(buf))
  <1>1. Len(buf) \in Nat /\ i \in 1 .. Len(buf)
    BY DEF Places
  <1>2. \A k \in 1 .. Len(buf) : buf[k] \in T
    OBVIOUS
  <1>3. /\ front \in Seq(T) /\ Len(front) = i - 1
        /\ \A k \in 1 .. i - 1 : front[k] = buf[k]
    <2>1. \A k \in 1 .. i - 1 : buf[k] \in T
      BY <1>1, <1>2
    <2>2. /\ front \in Seq(T) /\ Len(front) = IF 1 <= i - 1 THEN i - 1 - 1 + 1 ELSE 0
          /\ \A k \in 1 .. i - 1 - 1 + 1 : front[k] = buf[1 + k - 1]
      BY <1>1, <2>1, SubSeqProperties
    <2> HIDE DEF front
    <2> QED
      BY <1>1, <2>2
  <1>4. /\ back \in Seq(T) /\ Len(back) = Len(buf) - i
        /\ \A k \in 1 .. Len(buf) - i : back[k] = buf[i + k]
    <2>1. \A k \in i + 1 .. Len(buf) : buf[k] \in T
      BY <1>1, <1>2
    <2>2. /\ back \in Seq(T)
          /\ Len(back) = IF i + 1 <= Len(buf) THEN Len(buf) - (i + 1) + 1 ELSE 0
          /\ \A k \in 1 .. Len(buf) - (i + 1) + 1 : back[k] = buf[i + 1 + k - 1]
      BY <1>1, <2>1, SubSeqProperties
    <2> HIDE DEF back
    <2> QED
      BY <1>1, <2>2
  <1>5. Remove(buf, i) = front \o back
    BY DEF Remove
  <1> HIDE DEF front, back
  <1>6. /\ front \o back \in Seq(T)
        /\ Len(front \o back) = Len(front) + Len(back)
        /\ \A k \in 1 .. Len(front) + Len(back) :
              (front \o back)[k] = IF k <= Len(front) THEN front[k] ELSE back[k - Len(front)]
    BY <1>3, <1>4, ConcatProperties
  <1>7. ASSUME NEW k \in 1 .. Len(buf) - 1
        PROVE  (front \o back)[k] = IF k < i THEN buf[k] ELSE buf[k + 1]
    <2>1. CASE k < i
      BY <1>1, <1>3, <1>4, <1>6, <2>1
    <2>2. CASE ~ (k < i)
      <3>1. (front \o back)[k] = back[k - (i - 1)]
        BY <1>1, <1>3, <1>4, <1>6, <2>2
      <3>2. k - (i - 1) \in 1 .. Len(buf) - i
        BY <1>1, <2>2
      <3>3. back[k - (i - 1)] = buf[i + (k - (i - 1))]
        BY <3>2, <1>4
      <3>4. i + (k - (i - 1)) = k + 1
        BY <1>1
      <3> QED
        BY <2>2, <3>1, <3>3, <3>4
    <2> QED
      BY <2>1, <2>2
  <1> QED
    BY <1>1, <1>3, <1>4, <1>5, <1>6, <1>7

\* Both in terms of the requests alone.
LEMMA RemoveIsOneLess ==
  ASSUME NEW T, NEW buf \in Seq(T), NEW i \in Places(buf)
  PROVE  OneLess(Remove(buf, i), buf, i)
  BY RemoveProperties DEF OneLess, Places

\* Appending adds one request at the end.
LEMMA AppendIsOneMore ==
  ASSUME NEW T, NEW buf \in Seq(T), NEW e \in T
  PROVE  /\ Append(buf, e) \in Seq(T)
         /\ OneMore(Append(buf, e), buf, e.req)
  BY DEF OneMore, Places

\* A cycle makes the requests older and leaves them where they are.
LEMMA OlderProperties ==
  ASSUME NEW S, NEW buf \in Seq(EntryOf(S))
  PROVE  /\ Older(buf) \in Seq(EntryOf(S))
         /\ SameRequests(Older(buf), buf)
  <1>1. Len(buf) \in Nat /\ \A i \in 1 .. Len(buf) : buf[i] \in EntryOf(S)
    OBVIOUS
  <1>2. \A i \in 1 .. Len(buf) :
           LET e == IF scheduler = "ATLAS" /\ buf[i].age <= AtlasThreshold
                    THEN [buf[i] EXCEPT !.age = @ + 1] ELSE buf[i]
           IN  e \in EntryOf(S) /\ e.req = buf[i].req
    <2>1. \A e \in EntryOf(S) : /\ [e EXCEPT !.age = @ + 1] \in EntryOf(S)
                                /\ [e EXCEPT !.age = @ + 1].req = e.req
      BY DEF EntryOf
    <2> QED
      BY <1>1, <2>1
  <1>3. Older(buf) \in [1 .. Len(buf) -> EntryOf(S)]
    BY <1>2 DEF Older, Places
  <1>4. Older(buf) \in Seq(EntryOf(S)) /\ Len(Older(buf)) = Len(buf)
    BY <1>1, <1>3
  <1>5. \A i \in 1 .. Len(buf) : Older(buf)[i].req = buf[i].req
    BY <1>2 DEF Older, Places
  <1> QED
    BY <1>4, <1>5 DEF SameRequests, Places

\* serve_completed_reads pops the head of pending, or nothing.
LEMMA StillPendingProperties ==
  ASSUME NEW S, pending \in Seq(PendingOf(S))
  PROVE  /\ StillPending \in Seq(PendingOf(S))
         /\ IF HeadDeparts THEN OneLess(StillPending, pending, 1) /\ 1 \in Places(pending)
                                /\ Answered = {pending[1].req}
            ELSE SameRequests(StillPending, pending) /\ Answered = {}
  <1> DEFINE left == IF HeadDeparts THEN Tail(pending) ELSE pending
             Later1(e) == [e EXCEPT !.depart = Less(@)]
  <1>1. left \in Seq(PendingOf(S)) /\ Len(left) \in Nat
    BY DEF HeadDeparts
  <1>2. ASSUME NEW e \in PendingOf(S)
        PROVE  Later1(e) \in PendingOf(S) /\ Later1(e).req = e.req
    <2> HIDE DEF left
    <2>1. e = [req |-> e.req, depart |-> e.depart] /\ e.req \in S /\ e.depart \in 0 .. ReadLatency
      BY DEF PendingOf
    <2>2. Less(e.depart) \in 0 .. ReadLatency
      BY <2>1, ControllerAssumption DEF Less
    <2>3. Later1(e) = [req |-> e.req, depart |-> Less(e.depart)]
      BY <2>1
    <2> HIDE DEF Later1
    <2> QED
      BY <2>1, <2>2, <2>3 DEF PendingOf
  <1>3. /\ StillPending \in Seq(PendingOf(S)) /\ Len(StillPending) = Len(left)
        /\ \A i \in 1 .. Len(left) : StillPending[i].req = left[i].req
    <2> HIDE DEF left
    <2>1. \A i \in 1 .. Len(left) : left[i] \in PendingOf(S)
      BY <1>1
    <2>2. [i \in 1 .. Len(left) |-> Later1(left[i])] \in Seq(PendingOf(S))
      BY <1>1, <1>2, <2>1
    <2>3. StillPending = [i \in 1 .. Len(left) |-> Later1(left[i])]
      BY DEF StillPending, left, Places
    <2>4. \A i \in 1 .. Len(left) : StillPending[i] = Later1(left[i])
      BY <2>3
    <2> HIDE DEF Later1
    <2> QED
      BY <1>1, <1>2, <2>1, <2>2, <2>3, <2>4
  <1>4. CASE HeadDeparts
    <2>1. /\ Len(left) = Len(pending) - 1 /\ Len(pending) \in Nat \ {0}
          /\ \A i \in 1 .. Len(left) : left[i] = pending[i + 1]
          /\ Head(pending) = pending[1]
      BY <1>4 DEF HeadDeparts
    <2>2. 1 \in Places(pending) /\ Answered = {pending[1].req}
      BY <1>4, <2>1 DEF Places, Answered
    <2> HIDE DEF left
    <2>3. OneLess(StillPending, pending, 1)
      BY <1>3, <2>1 DEF OneLess, Places
    <2> QED
      BY <1>3, <1>4, <2>2, <2>3
  <1>5. CASE ~ HeadDeparts
    BY <1>3, <1>5 DEF SameRequests, Places, Answered
  <1> QED
    BY <1>4, <1>5
-----------------------------------------------------------------------------
(***************************************************************************)
(* The schedulers: each buffer that is not empty has a best request.       *)
(***************************************************************************)
\* The comparisons of the schedulers, as sets of pairs of places.
Comparison(R, n) ==
    /\ \A i, j \in 1 .. n : <<i, j>> \in R => <<j, i>> \notin R
    /\ \A i, j, k \in 1 .. n : <<i, k>> \in R => <<i, j>> \in R \/ <<j, k>> \in R

\* What the loop of get_best_request has found after the first n places.
BestOf(R, n, i) ==
    \A j \in (1 .. n) \ {i} : <<i, j>> \in R \/ (i < j /\ <<j, i>> \notin R)

\* A loop over places 1 .. n that keeps the better of two ends at a best one.
LEMMA BestExists ==
  ASSUME NEW n \in Nat \ {0}, NEW R, Comparison(R, n)
  PROVE  \E i \in 1 .. n : BestOf(R, n, i)
  <1> DEFINE S == {k \in 0 .. n - 1 : \E i \in 1 .. k + 1 : BestOf(R, k + 1, i)}
  <1>1. 0 \in S
    <2>1. BestOf(R, 0 + 1, 1)
      BY DEF BestOf
    <2> QED
      BY <2>1
  <1>2. ASSUME NEW k \in 0 .. (n - 1) - 1, k \in S
        PROVE  k + 1 \in S
    <2> DEFINE m == k + 2
    <2>1. PICK i \in 1 .. k + 1 : BestOf(R, k + 1, i)
      BY <1>2
    <2>2. m \in 1 .. n /\ i \in 1 .. n /\ i < m /\ k + 1 + 1 = m
      OBVIOUS
    <2>3. \A j \in 1 .. m : j # m => j \in 1 .. k + 1 /\ j \in 1 .. n /\ j < m
      OBVIOUS
    <2> HIDE DEF m
    <2>4. CASE <<m, i>> \in R
      <3>1. ASSUME NEW j \in 1 .. m, j # m, j # i
            PROVE  <<m, j>> \in R
        <4>1. <<j, i>> \notin R
          BY <2>1, <2>2, <2>3, <3>1 DEF BestOf, Comparison
        <4>2. <<m, j>> \in R \/ <<j, i>> \in R
          BY <2>2, <2>3, <2>4, <3>1 DEF Comparison
        <4> QED
          BY <4>1, <4>2
      <3>2. BestOf(R, m, m)
        BY <2>4, <3>1 DEF BestOf
      <3> QED
        BY <2>2, <3>2
    <2>5. CASE <<m, i>> \notin R
      <3>1. BestOf(R, m, i)
        BY <2>1, <2>2, <2>3, <2>5 DEF BestOf
      <3> QED
        BY <2>2, <3>1
    <2> QED
      BY <2>4, <2>5
  <1>3. n - 1 \in S
    <2> HIDE DEF S
    <2>1. 0 .. n - 1 \subseteq S
      BY <1>1, <1>2, LoopInduction
    <2> QED
      BY <2>1
  <1> QED
    BY <1>3

Candidates == [source : Sources, arrive : Nat, age : Nat, ready : BOOLEAN]

\* Each comparison is a strict weak order: of its tests, each is one on a number,
\* and decides only where those before it do not.
LEMMA ReadyOrOlderOrders ==
  ASSUME NEW x \in Candidates, NEW y \in Candidates, NEW z \in Candidates
  PROVE  /\ ReadyOrOlder(x, y) => ~ ReadyOrOlder(y, x)
         /\ ReadyOrOlder(x, z) => ReadyOrOlder(x, y) \/ ReadyOrOlder(y, z)
  BY DEF ReadyOrOlder, Candidates

\* BLISS: the blacklist first.
LEMMA BlissOrders ==
  ASSUME NEW s, NEW x \in Candidates, NEW y \in Candidates, NEW z \in Candidates
  PROVE  /\ BlissBefore(s, x, y) => ~ BlissBefore(s, y, x)
         /\ BlissBefore(s, x, z) => BlissBefore(s, x, y) \/ BlissBefore(s, y, z)
  BY ReadyOrOlderOrders DEF BlissBefore

\* The ranks of the threads in ATLAS.
LEMMA RankOrders ==
  ASSUME NEW s \in AtlasState, NEW t \in Sources, NEW u \in Sources, NEW v \in Sources
  PROVE  /\ RankBefore(s, t, u) => ~ RankBefore(s, u, t)
         /\ RankBefore(s, t, v) => RankBefore(s, t, u) \/ RankBefore(s, u, v)
  <1>1. /\ t \in Nat /\ u \in Nat /\ v \in Nat
        /\ s.totalAS[t] \in Nat /\ s.totalAS[u] \in Nat /\ s.totalAS[v] \in Nat
    BY SchedulerAssumption DEF AtlasState
  <1> QED
    BY <1>1 DEF RankBefore

\* ATLAS: the age first, then the ranks.
LEMMA AtlasOrders ==
  ASSUME NEW s \in AtlasState,
         NEW x \in Candidates, NEW y \in Candidates, NEW z \in Candidates
  PROVE  /\ AtlasBefore(s, x, y) => ~ AtlasBefore(s, y, x)
         /\ AtlasBefore(s, x, z) => AtlasBefore(s, x, y) \/ AtlasBefore(s, y, z)
  <1> DEFINE B(t, u) == RankBefore(s, t.source, u.source)
  <1>1. x.source \in Sources /\ y.source \in Sources /\ z.source \in Sources
    BY DEF Candidates
  <1>2. /\ ~ (B(x, y) /\ B(y, x)) /\ ~ (B(x, z) /\ B(z, x)) /\ ~ (B(y, z) /\ B(z, y))
        /\ (B(x, z) => B(x, y) \/ B(y, z)) /\ (B(z, x) => B(z, y) \/ B(y, x))
        /\ (B(x, y) => B(x, z) \/ B(z, y)) /\ (B(y, x) => B(y, z) \/ B(z, x))
        /\ (B(y, z) => B(y, x) \/ B(x, z)) /\ (B(z, y) => B(z, x) \/ B(x, y))
    BY <1>1, RankOrders
  <1> HIDE DEF B
  <1>3. \A t, u \in {x, y, z} :
           AtlasBefore(s, t, u) <=>
             \/ t.age > AtlasThreshold /\ ~ (u.age > AtlasThreshold)
             \/ /\ (t.age > AtlasThreshold) = (u.age > AtlasThreshold)
                /\ B(t, u) \/ (~ B(t, u) /\ ~ B(u, t) /\ ReadyOrOlder(t, u))
    BY DEF AtlasBefore, B
  <1> QED
    BY <1>2, <1>3, ReadyOrOlderOrders

\* So a buffer of requests that is not empty has a best one, whatever the
\* scheduler, and if all its requests are ready, the best is ready.
LEMMA BestIsFound ==
  ASSUME Types, NEW d, NEW buf \in Seq(EntryOf(accepted)), buf # <<>>,
         \A i \in Places(buf) : Ready(d, buf[i])
  PROVE  BestIsReady(d, buf)
  <1> DEFINE n == Len(buf)
             R == {ij \in (1 .. n) \X (1 .. n) : Before(d, buf[ij[1]], buf[ij[2]])}
             candidate(g) == [source |-> g.req.source, arrive |-> g.arrive,
                              age |-> g.age, ready |-> Ready(d, g)]
  <1>1. n \in Nat \ {0}
    OBVIOUS
  <1>2. ASSUME NEW i \in 1 .. n
        PROVE  candidate(buf[i]) \in Candidates
    <2>1. buf[i] \in EntryOf(accepted) /\ Ready(d, buf[i]) = TRUE
      BY DEF Places
    <2>2. buf[i].req.source \in Sources
      BY <2>1, RequestsAssumption DEF Types, EntryOf
    <2> QED
      BY <2>1, <2>2 DEF EntryOf, Candidates
  <1>3. Comparison(R, n)
    <2>1. \A i, j \in 1 .. n : <<i, j>> \in R <=> Before(d, buf[i], buf[j])
      OBVIOUS
    <2>2. bliss \in BlissState /\ atlas \in AtlasState
      BY DEF Types
    <2>3. scheduler \in {"FRFCFS", "BLISS", "ATLAS"}
      BY ControllerAssumption DEF Types
    <2>4. \A i, j \in 1 .. n :
             Before(d, buf[i], buf[j]) <=>
               \/ /\ scheduler = "FRFCFS"
                  /\ ReadyOrOlder(candidate(buf[i]), candidate(buf[j]))
               \/ /\ scheduler = "BLISS"
                  /\ BlissBefore(bliss, candidate(buf[i]), candidate(buf[j]))
               \/ /\ scheduler = "ATLAS"
                  /\ AtlasBefore(atlas, candidate(buf[i]), candidate(buf[j]))
      <3> HIDE DEF n
      <3> QED
        BY <2>3, ZenonT(30) DEF Before, FrfcfsBefore
    <2> HIDE DEF R, n, candidate
    <2>5. ASSUME NEW i \in 1 .. n, NEW j \in 1 .. n, NEW k \in 1 .. n
          PROVE  /\ <<i, j>> \in R => <<j, i>> \notin R
                 /\ <<i, k>> \in R => <<i, j>> \in R \/ <<j, k>> \in R
      <3> DEFINE x == candidate(buf[i])  y == candidate(buf[j])  z == candidate(buf[k])
      <3>1. x \in Candidates /\ y \in Candidates /\ z \in Candidates
        BY <1>2
      <3> HIDE DEF x, y, z
      <3>2. CASE scheduler = "FRFCFS"
        <4>1. \A l, m \in {i, j, k} :
                <<l, m>> \in R <=> ReadyOrOlder(candidate(buf[l]), candidate(buf[m]))
          BY <2>1, <2>4, <3>2
        <4>2. /\ (<<i, j>> \in R <=> ReadyOrOlder(x, y)) /\ (<<j, i>> \in R <=> ReadyOrOlder(y, x))
              /\ (<<i, k>> \in R <=> ReadyOrOlder(x, z)) /\ (<<j, k>> \in R <=> ReadyOrOlder(y, z))
          BY <4>1 DEF x, y, z
        <4> QED
          BY <3>1, <4>2, ReadyOrOlderOrders
      <3>3. CASE scheduler = "BLISS"
        <4>1. \A l, m \in {i, j, k} :
                <<l, m>> \in R <=> BlissBefore(bliss, candidate(buf[l]), candidate(buf[m]))
          BY <2>1, <2>4, <3>3
        <4>2. /\ (<<i, j>> \in R <=> BlissBefore(bliss, x, y))
              /\ (<<j, i>> \in R <=> BlissBefore(bliss, y, x))
              /\ (<<i, k>> \in R <=> BlissBefore(bliss, x, z))
              /\ (<<j, k>> \in R <=> BlissBefore(bliss, y, z))
          BY <4>1 DEF x, y, z
        <4> QED
          BY <3>1, <4>2, BlissOrders
      <3>4. CASE scheduler = "ATLAS"
        <4>1. \A l, m \in {i, j, k} :
                <<l, m>> \in R <=> AtlasBefore(atlas, candidate(buf[l]), candidate(buf[m]))
          BY <2>1, <2>4, <3>4
        <4>2. /\ (<<i, j>> \in R <=> AtlasBefore(atlas, x, y))
              /\ (<<j, i>> \in R <=> AtlasBefore(atlas, y, x))
              /\ (<<i, k>> \in R <=> AtlasBefore(atlas, x, z))
              /\ (<<j, k>> \in R <=> AtlasBefore(atlas, y, z))
          BY <4>1 DEF x, y, z
        <4> QED
          BY <2>2, <3>1, <4>2, AtlasOrders
      <3> QED
        BY <2>3, <3>2, <3>3, <3>4
    <2> QED
      BY <2>5 DEF Comparison
  <1>4. PICK i \in 1 .. n : BestOf(R, n, i)
    <2> HIDE DEF R, n
    <2> QED
      BY <1>1, <1>3, BestExists
  <1>5. IsBest(d, buf, i)
    <2>1. \A i1, j \in 1 .. n : <<i1, j>> \in R <=> Before(d, buf[i1], buf[j])
      OBVIOUS
    <2> HIDE DEF R
    <2> QED
      BY <1>4, <2>1 DEF IsBest, BestOf, Places
  <1> QED
    BY <1>5 DEF BestIsReady, Places
-----------------------------------------------------------------------------
(***************************************************************************)
(* The device.                                                             *)
(***************************************************************************)
\* The tables of timings, and the numbers that stand for no bank and no row.
LEMMA Tables ==
  /\ \A c, f \in Commands : RankLatency[c][f] \in Nat /\ BankLatency[c][f] \in Nat
  /\ PrechargeTime \in Nat
  /\ Banks \subseteq Nat /\ NoBank \notin Banks
  /\ \A row \in Rows : row # Closed
  BY LatencyAssumption, BanksAssumption, RowsAssumption
  DEF Commands, PrechargeTime, NoBank, Closed

\* A cycle brings every command nearer and keeps the rows.
LEMMA ElapseProperties ==
  ASSUME NEW d \in Device
  PROVE  /\ Elapse(d) \in Device
         /\ Elapse(d).row = d.row
         /\ \A c \in Commands : Elapse(d).rank[c] = Less(d.rank[c])
         /\ \A b \in Banks, c \in Commands : Elapse(d).bank[b][c] = Less(d.bank[b][c])
  <1> DEFINE rank == [c \in Commands |-> Less(d.rank[c])]
             bank == [b \in Banks |-> [c \in Commands |-> Less(d.bank[b][c])]]
  <1>1. \A n \in Nat : Less(n) \in Nat
    BY DEF Less
  <1>2. rank \in [Commands -> Nat] /\ bank \in [Banks -> [Commands -> Nat]]
    BY <1>1 DEF Device
  <1>3. Elapse(d) = [d EXCEPT !.rank = rank, !.bank = bank]
    BY DEF Elapse
  <1>4. /\ \A c \in Commands : rank[c] = Less(d.rank[c])
        /\ \A b \in Banks, c \in Commands : bank[b][c] = Less(d.bank[b][c])
    OBVIOUS
  <1> HIDE DEF rank, bank
  <1>5. Elapse(d) = [row |-> d.row, rank |-> rank, bank |-> bank]
    BY <1>3 DEF Device
  <1> QED
    BY <1>2, <1>4, <1>5 DEF Device

\* A cycle keeps what the timers owe one another.
LEMMA ElapseKeepsTimes ==
  ASSUME NEW d \in Device
  PROVE  /\ BanksSoonFree(d) => BanksSoonFree(Elapse(d))
         /\ RankSoonFree(d) => RankSoonFree(Elapse(d))
         /\ RefreshWaitsLonger(d) => RefreshWaitsLonger(Elapse(d))
  <1>1. /\ "ACT" \in Commands /\ "PREA" \in Commands /\ "REFab" \in Commands
        /\ \A c \in Commands : d.rank[c] \in Nat
        /\ \A b \in Banks, c \in Commands : d.bank[b][c] \in Nat
    BY DEF Device, Commands
  <1>2. \A m, n, q \in Nat : /\ m <= n + q => Less(m) <= Less(n) + q
                             /\ m <= n => Less(m) <= Less(n)
    BY DEF Less
  <1>3. Elapse(d).row = d.row
    BY ElapseProperties
  <1>4. /\ \A c \in Commands : Elapse(d).rank[c] = Less(d.rank[c])
        /\ \A b \in Banks, c \in Commands : Elapse(d).bank[b][c] = Less(d.bank[b][c])
    BY ElapseProperties
  <1>5. BanksSoonFree(d) => BanksSoonFree(Elapse(d))
    <2> SUFFICES ASSUME BanksSoonFree(d), NEW b \in Banks
                 PROVE  Elapse(d).bank[b]["ACT"] <= Elapse(d).rank["PREA"] + PrechargeTime
      BY DEF BanksSoonFree
    <2>1. d.bank[b]["ACT"] <= d.rank["PREA"] + PrechargeTime
      BY DEF BanksSoonFree
    <2>2. Less(d.bank[b]["ACT"]) <= Less(d.rank["PREA"]) + PrechargeTime
      BY <1>1, <1>2, <2>1, Tables
    <2> QED
      BY <1>1, <1>4, <2>2
  <1>6. RankSoonFree(d) => RankSoonFree(Elapse(d))
    BY <1>1, <1>2, <1>4, Tables DEF RankSoonFree
  <1>7. RefreshWaitsLonger(d) => RefreshWaitsLonger(Elapse(d))
    BY <1>1, <1>2, <1>3, <1>4 DEF RefreshWaitsLonger
  <1> QED
    BY <1>5, <1>6, <1>7

\* What a command does to the rows and the timers.
LEMMA IssueProperties ==
  ASSUME NEW d \in Device, NEW cmd \in Commands, NEW req,
         cmd \in {"ACT", "PRE"} => req.bank \in Banks /\ req.row \in Rows
  PROVE  /\ IssueCommand(d, cmd, req) \in Device
         /\ \A c \in Commands :
               IssueCommand(d, cmd, req).rank[c] = Later(d.rank[c], RankLatency[cmd][c])
         /\ \A b \in Banks, c \in Commands :
               IssueCommand(d, cmd, req).bank[b][c] =
                 IF b = req.bank THEN Later(d.bank[b][c], BankLatency[cmd][c])
                 ELSE d.bank[b][c]
         /\ \A b \in Banks :
               IssueCommand(d, cmd, req).row[b] =
                 CASE cmd = "ACT" /\ b = req.bank -> req.row
                   [] cmd = "PRE" /\ b = req.bank -> Closed
                   [] cmd = "PREA" -> Closed
                   [] OTHER -> d.row[b]
  <1> DEFINE new == IssueCommand(d, cmd, req)
  <1>1. \A m, n \in Nat : Later(m, n) \in Nat
    BY DEF Later
  <1>2. /\ \A c \in Commands : d.rank[c] \in Nat
        /\ \A b \in Banks, c \in Commands : d.bank[b][c] \in Nat
        /\ d.row \in [Banks -> Rows \cup {Closed}]
    BY DEF Device
  <1>3. new.rank \in [Commands -> Nat]
    BY <1>1, <1>2, Tables DEF IssueCommand
  <1>4. new.bank \in [Banks -> [Commands -> Nat]]
    <2>1. \A b \in Banks, c \in Commands :
             (IF b = req.bank THEN Later(d.bank[b][c], BankLatency[cmd][c])
              ELSE d.bank[b][c]) \in Nat
      BY <1>1, <1>2, Tables
    <2> QED
      BY <2>1 DEF IssueCommand
  <1>5. new.row \in [Banks -> Rows \cup {Closed}]
    BY <1>2 DEF IssueCommand, RowsAfter, IsOpening
  <1>6. \A b \in Banks :
           new.row[b] = CASE cmd = "ACT" /\ b = req.bank -> req.row
                          [] cmd = "PRE" /\ b = req.bank -> Closed
                          [] cmd = "PREA" -> Closed
                          [] OTHER -> d.row[b]
    BY <1>2 DEF IssueCommand, RowsAfter, IsOpening
  <1>7. new \in Device
    <2>1. new = [row |-> new.row, rank |-> new.rank, bank |-> new.bank]
      BY DEF IssueCommand
    <2> HIDE DEF new
    <2> QED
      BY <1>3, <1>4, <1>5, <2>1 DEF Device
  <1>8. /\ \A c \in Commands : new.rank[c] = Later(d.rank[c], RankLatency[cmd][c])
        /\ \A b \in Banks, c \in Commands :
              new.bank[b][c] = IF b = req.bank
                               THEN Later(d.bank[b][c], BankLatency[cmd][c])
                               ELSE d.bank[b][c]
    BY DEF IssueCommand
  <1> QED
    BY <1>6, <1>7, <1>8

\* No command keeps an ACT waiting longer than a PREA and its nRP would, except
\* that a REFab does at the rank.
LEMMA IssueKeepsTimes ==
  ASSUME NEW d \in Device, NEW cmd \in Commands, NEW req,
         (req.bank \in Banks /\ req.row \in Rows) \/ req.bank = NoBank,
         req.bank = NoBank => cmd \in {"PREA", "REFab"},
         cmd \in {"PREA", "REFab"} => req.bank = NoBank
  PROVE  /\ BanksSoonFree(d) => BanksSoonFree(IssueCommand(d, cmd, req))
         /\ cmd # "REFab" /\ RankSoonFree(d) => RankSoonFree(IssueCommand(d, cmd, req))
         /\ cmd = "PREA" /\ BanksSoonFree(d) /\ RankSoonFree(d) /\ d.rank["PREA"] = 0
              => RefreshWaitsLonger(IssueCommand(d, cmd, req))
  <1> DEFINE new == IssueCommand(d, cmd, req)
             P == PrechargeTime
  <1>1. /\ "ACT" \in Commands /\ "PREA" \in Commands /\ "REFab" \in Commands
        /\ \A c \in Commands : d.rank[c] \in Nat
        /\ \A b \in Banks, c \in Commands : d.bank[b][c] \in Nat
    BY DEF Device, Commands
  <1>2. /\ \A c \in Commands : new.rank[c] = Later(d.rank[c], RankLatency[cmd][c])
        /\ \A b \in Banks, c \in Commands :
              new.bank[b][c] = IF b = req.bank
                               THEN Later(d.bank[b][c], BankLatency[cmd][c])
                               ELSE d.bank[b][c]
    BY IssueProperties, Tables
  <1>3. /\ P \in Nat
        /\ \A c, f \in Commands : RankLatency[c][f] \in Nat /\ BankLatency[c][f] \in Nat
        /\ RankLatency["PREA"]["ACT"] <= P
        /\ cmd \notin {"PREA", "REFab"} =>
              /\ RankLatency[cmd]["ACT"] <= RankLatency[cmd]["PREA"] + P
              /\ BankLatency[cmd]["ACT"] <= RankLatency[cmd]["PREA"] + P
    BY Tables, RefreshTimingAssumption DEF PrechargeTime, Commands
  <1>4. req.bank \in Banks => cmd \notin {"PREA", "REFab"}
    BY Tables
  <1> HIDE DEF new, P
  <1>5. \A k, m, n, q \in Nat :
           /\ m <= n + q => m <= Later(n, k) + q
           /\ m <= n + q => Later(m, k) <= Later(n, k) + q
    BY DEF Later
  <1>6. \A k, l, m, n, q \in Nat :
           m <= n + q /\ k <= l + q => Later(m, k) <= Later(n, l) + q
    BY DEF Later
  <1>10. /\ P \in Nat
         /\ RankLatency[cmd]["ACT"] \in Nat /\ RankLatency[cmd]["PREA"] \in Nat
         /\ BankLatency[cmd]["ACT"] \in Nat
    BY <1>1, <1>3
  <1>7. BanksSoonFree(d) => BanksSoonFree(new)
    <2> SUFFICES ASSUME BanksSoonFree(d), NEW b \in Banks
                 PROVE  new.bank[b]["ACT"] <= new.rank["PREA"] + P
      BY DEF BanksSoonFree, P
    <2>1. d.bank[b]["ACT"] <= d.rank["PREA"] + P
      BY DEF BanksSoonFree, P
    <2>2. CASE b = req.bank
      <3>1. BankLatency[cmd]["ACT"] <= RankLatency[cmd]["PREA"] + P
        BY <1>3, <1>4, <2>2
      <3>2. Later(d.bank[b]["ACT"], BankLatency[cmd]["ACT"])
              <= Later(d.rank["PREA"], RankLatency[cmd]["PREA"]) + P
        BY <1>1, <1>6, <1>10, <2>1, <3>1
      <3> QED
        BY <1>1, <1>2, <2>2, <3>2
    <2>3. CASE b # req.bank
      BY <1>1, <1>2, <1>5, <1>10, <2>1, <2>3
    <2> QED
      BY <2>2, <2>3
  <1>8. cmd # "REFab" /\ RankSoonFree(d) => RankSoonFree(new)
    <2> SUFFICES ASSUME cmd # "REFab", RankSoonFree(d)
                 PROVE  new.rank["ACT"] <= new.rank["PREA"] + P
      BY DEF RankSoonFree, P
    <2>1. d.rank["ACT"] <= d.rank["PREA"] + P
      BY DEF RankSoonFree, P
    <2>2. RankLatency[cmd]["ACT"] <= RankLatency[cmd]["PREA"] + P
      <3>1. CASE cmd = "PREA"
        BY <1>3, <1>10, <3>1
      <3>2. CASE cmd # "PREA"
        BY <1>3, <3>2
      <3> QED
        BY <3>1, <3>2
    <2>3. Later(d.rank["ACT"], RankLatency[cmd]["ACT"])
            <= Later(d.rank["PREA"], RankLatency[cmd]["PREA"]) + P
      BY <1>1, <1>6, <1>10, <2>1, <2>2
    <2> QED
      BY <1>1, <1>2, <2>3
  <1>9. cmd = "PREA" /\ BanksSoonFree(d) /\ RankSoonFree(d) /\ d.rank["PREA"] = 0
          => RefreshWaitsLonger(new)
    <2> SUFFICES ASSUME cmd = "PREA", BanksSoonFree(d), RankSoonFree(d), d.rank["PREA"] = 0
                 PROVE  /\ new.rank["ACT"] <= new.rank["REFab"]
                        /\ \A b \in Banks : new.bank[b]["ACT"] <= new.rank["REFab"]
      BY DEF RefreshWaitsLonger
    <2>1. d.rank["ACT"] <= P /\ \A b \in Banks : d.bank[b]["ACT"] <= P
      BY <1>3 DEF BanksSoonFree, RankSoonFree, P
    <2>2. new.rank["REFab"] = Later(d.rank["REFab"], P)
      BY <1>1, <1>2 DEF P, PrechargeTime
    <2>3. \A m, n, k \in Nat : m <= P /\ k <= P => m <= Later(n, P) /\ Later(m, k) <= Later(n, P)
      BY <1>3 DEF Later
    <2>4. new.rank["ACT"] <= new.rank["REFab"]
      BY <1>1, <1>2, <1>3, <2>1, <2>2, <2>3
    <2>5. ASSUME NEW b \in Banks PROVE new.bank[b]["ACT"] <= new.rank["REFab"]
      <3>1. new.bank[b]["ACT"] = d.bank[b]["ACT"]
        BY <1>1, <1>2, <1>4
      <3> QED
        BY <1>1, <1>3, <2>1, <2>2, <2>3, <3>1
    <2> QED
      BY <2>4, <2>5
  <1> QED
    BY <1>7, <1>8, <1>9 DEF new
-----------------------------------------------------------------------------
(***************************************************************************)
(* The plugins.                                                            *)
(***************************************************************************)
\* update of the BLISS plugin: the counter stays at its cap.
LEMMA BlissUpdateType ==
  ASSUME NEW s \in BlissState, NEW found \in BOOLEAN,
         NEW source \in Sources \cup {NoSource}, NEW finishes \in BOOLEAN
  PROVE  BlissUpdate(s, found, source, finishes) \in BlissState
  <1>1. BlissThreshold \in Nat /\ ClearingInterval \in Nat \ {0}
    BY SchedulerAssumption
  <1>2. BlissCleared(s) \in BlissState
    <2>1. CASE s.sinceClearing + 1 >= ClearingInterval
      <3>1. 0 \in 0 .. ClearingInterval - 1
        BY <1>1
      <3> QED
        BY <2>1, <3>1 DEF BlissCleared, BlissState
    <2>2. CASE ~ (s.sinceClearing + 1 >= ClearingInterval)
      <3>1. s.sinceClearing + 1 \in 0 .. ClearingInterval - 1
        BY <1>1, <2>2 DEF BlissState
      <3>2. BlissCleared(s) = [s EXCEPT !.sinceClearing = s.sinceClearing + 1]
        BY <2>2 DEF BlissCleared, BlissState
      <3> QED
        BY <3>1, <3>2 DEF BlissState
    <2> QED
      BY <2>1, <2>2
  <1>3. ASSUME NEW t \in BlissState PROVE BlissCounted(t, source) \in BlissState
    <2>1. CASE source = t.last
      <3> DEFINE c == IF t.consecutive > BlissThreshold THEN t.consecutive
                      ELSE t.consecutive + 1
      <3>1. c \in 0 .. BlissThreshold + 1
        BY <1>1 DEF BlissState
      <3>2. BlissCounted(t, source) = [t EXCEPT !.consecutive = c]
        BY <2>1 DEF BlissCounted, BlissState
      <3> HIDE DEF c
      <3> QED
        BY <3>1, <3>2 DEF BlissState
    <2>2. CASE source # t.last
      <3>1. 1 \in 0 .. BlissThreshold + 1
        BY <1>1
      <3>2. BlissCounted(t, source) = [t EXCEPT !.last = source, !.consecutive = 1]
        BY <2>2 DEF BlissCounted
      <3> QED
        BY <3>1, <3>2 DEF BlissState
    <2> QED
      BY <2>1, <2>2
  <1>4. \A t \in BlissState : BlissTested(t, source) \in BlissState
    BY DEF BlissTested, BlissState
  <1> QED
    BY <1>2, <1>3, <1>4 DEF BlissUpdate

\* The banks a thread owns, and the count the plugin keeps of them.
Owned(s, t) == {b \in Banks : s.owner[b] = t}
Counted(s) == \A t \in Sources : s.count[t] = Cardinality(Owned(s, t))

\* A thread owns finitely many banks.
LEMMA OwnedIsFinite ==
  ASSUME NEW s, NEW t
  PROVE  /\ IsFiniteSet(Owned(s, t))
         /\ Cardinality(Owned(s, t)) \in Nat
         /\ (Owned(s, t) # {} => Cardinality(Owned(s, t)) # 0)
  <1>1. IsFiniteSet(Owned(s, t))
    BY ControllerAssumption, FS_Subset DEF Owned
  <1> QED
    BY <1>1, FS_CardinalityType, FS_EmptySet

\* Counting the service of a cycle leaves owners and counts alone, ...
LEMMA AtlasServedProperties ==
  ASSUME NEW s \in AtlasState
  PROVE  /\ AtlasServed(s) \in AtlasState
         /\ AtlasServed(s).owner = s.owner /\ AtlasServed(s).count = s.count
  <1> DEFINE as == [t \in Sources |-> s.localAS[t] + s.count[t]]
  <1>1. as \in [Sources -> Nat]
    BY DEF AtlasState
  <1>2. AtlasServed(s) = [s EXCEPT !.localAS = as]
    BY DEF AtlasServed
  <1> HIDE DEF as
  <1> QED
    BY <1>1, <1>2 DEF AtlasState

\* An ACT takes its bank from the thread that owned it, which is counted for it.
LEMMA AtlasClaimProperties ==
  ASSUME NEW s \in AtlasState, Counted(s), NEW bank \in Banks, NEW source \in Sources
  PROVE  /\ AtlasClaim(s, bank, source) \in AtlasState
         /\ Counted(AtlasClaim(s, bank, source))
         /\ \A b \in Banks : AtlasClaim(s, bank, source).owner[b] =
                               IF b = bank THEN source ELSE s.owner[b]
  <1> DEFINE new == AtlasClaim(s, bank, source)
             old == s.owner[bank]
             count == [t \in Sources |->
                         Cardinality({b \in Banks : [s.owner EXCEPT ![bank] = source][b] = t})]
  <1>1. s.owner \in [Banks -> Sources \cup {NoSource}] /\ s.count \in [Sources -> Nat]
    BY DEF AtlasState
  <1>2. NoSource \notin Sources
    BY SchedulerAssumption DEF NoSource
  <1>3. /\ new.owner = [s.owner EXCEPT ![bank] = source]
        /\ new.count = [IF old = NoSource THEN s.count ELSE [s.count EXCEPT ![old] = @ - 1]
                          EXCEPT ![source] = @ + 1]
        /\ new = [s EXCEPT !.owner = new.owner, !.count = new.count]
    BY DEF AtlasClaim, AtlasState
  <1>4. new.owner \in [Banks -> Sources \cup {NoSource}]
        /\ \A b \in Banks : new.owner[b] = IF b = bank THEN source ELSE s.owner[b]
    BY <1>1, <1>3
  <1>5. \A t \in Sources :
           new.count[t] = IF t = source
                          THEN (IF old = t THEN s.count[t] - 1 + 1 ELSE s.count[t] + 1)
                          ELSE IF old = t THEN s.count[t] - 1 ELSE s.count[t]
    BY <1>1, <1>2, <1>3
  <1> HIDE DEF new
  <1>6. ASSUME NEW t \in Sources
        PROVE  new.count[t] = Cardinality(Owned(new, t))
    <2>1. s.count[t] = Cardinality(Owned(s, t)) /\ s.count[t] \in Nat
      BY <1>1 DEF Counted
    <2>2. IsFiniteSet(Owned(s, t))
      BY OwnedIsFinite
    <2>3. CASE t = source
      <3>1. Owned(new, t) = Owned(s, t) \cup {bank}
        BY <1>4, <2>3 DEF Owned
      <3>2. bank \in Owned(s, t) <=> old = t
        BY DEF Owned
      <3>3. Cardinality(Owned(s, t) \cup {bank}) =
              IF bank \in Owned(s, t) THEN Cardinality(Owned(s, t))
              ELSE Cardinality(Owned(s, t)) + 1
        BY <2>2, FS_AddElement
      <3> QED
        BY <1>5, <2>1, <2>3, <3>1, <3>2, <3>3
    <2>4. CASE t # source
      <3>1. Owned(new, t) = Owned(s, t) \ {bank}
        BY <1>4, <2>4 DEF Owned
      <3>2. bank \in Owned(s, t) <=> old = t
        BY DEF Owned
      <3>3. Cardinality(Owned(s, t) \ {bank}) =
              IF bank \in Owned(s, t) THEN Cardinality(Owned(s, t)) - 1
              ELSE Cardinality(Owned(s, t))
        BY <2>2, FS_RemoveElement
      <3> QED
        BY <1>5, <2>1, <2>4, <3>1, <3>2, <3>3
    <2> QED
      BY <2>3, <2>4
  <1>7. Counted(new)
    BY <1>6 DEF Counted
  <1>8. new.count \in [Sources -> Nat]
    <2>1. \A t \in Sources : new.count[t] \in Nat
      BY <1>6, OwnedIsFinite
    <2>2. DOMAIN new.count = Sources
      BY <1>1, <1>3
    <2>3. new.count = [t \in Sources |-> new.count[t]]
      BY <1>1, <1>2, <1>3
    <2> QED
      BY <2>1, <2>3
  <1>9. new \in AtlasState
    BY <1>3, <1>4, <1>8 DEF AtlasState
  <1> QED
    BY <1>4, <1>7, <1>9 DEF new

\* A PRE takes its bank from the thread that owned it, a PREA no bank from anybody.
LEMMA AtlasReleaseProperties ==
  ASSUME NEW s \in AtlasState, Counted(s), NEW bank
  PROVE  /\ AtlasRelease(s, bank) \in AtlasState
         /\ Counted(AtlasRelease(s, bank))
         /\ \A b \in Banks : AtlasRelease(s, bank).owner[b] =
                               IF b = bank THEN NoSource ELSE s.owner[b]
  <1>1. CASE ~ (bank \in Banks /\ s.owner[bank] # NoSource)
    BY <1>1 DEF AtlasRelease
  <1>2. CASE bank \in Banks /\ s.owner[bank] # NoSource
    <2> DEFINE new == AtlasRelease(s, bank)
               old == s.owner[bank]
    <2>1. s.owner \in [Banks -> Sources \cup {NoSource}] /\ s.count \in [Sources -> Nat]
      BY DEF AtlasState
    <2>2. NoSource \notin Sources /\ old \in Sources
      BY <1>2, <2>1, SchedulerAssumption DEF NoSource
    <2>3. /\ new.owner = [s.owner EXCEPT ![bank] = NoSource]
          /\ new.count = [s.count EXCEPT ![old] = IF @ > 0 THEN @ - 1 ELSE 0]
          /\ new = [s EXCEPT !.owner = new.owner, !.count = new.count]
      BY <1>2 DEF AtlasRelease, AtlasState
    <2>4. new.owner \in [Banks -> Sources \cup {NoSource}]
          /\ \A b \in Banks : new.owner[b] = IF b = bank THEN NoSource ELSE s.owner[b]
      BY <2>1, <2>3
    <2>5. /\ new.count \in [Sources -> Nat]
          /\ \A t \in Sources :
                new.count[t] = IF t = old /\ s.count[t] > 0 THEN s.count[t] - 1 ELSE
                               IF t = old THEN 0 ELSE s.count[t]
      <3>1. \A t \in Sources : s.count[t] \in Nat
        BY <2>1
      <3> QED
        BY <2>1, <2>2, <2>3, <3>1
    <2> HIDE DEF new
    <2>6. ASSUME NEW t \in Sources
          PROVE  new.count[t] = Cardinality(Owned(new, t))
      <3>1. s.count[t] = Cardinality(Owned(s, t)) /\ s.count[t] \in Nat
        BY <2>1 DEF Counted
      <3>2. IsFiniteSet(Owned(s, t)) /\ (Owned(s, t) # {} => Cardinality(Owned(s, t)) # 0)
        BY OwnedIsFinite
      <3>3. Owned(new, t) = Owned(s, t) \ {bank}
        BY <2>2, <2>4 DEF Owned
      <3>4. bank \in Owned(s, t) <=> old = t
        BY <1>2 DEF Owned
      <3>5. Cardinality(Owned(s, t) \ {bank}) =
              IF bank \in Owned(s, t) THEN Cardinality(Owned(s, t)) - 1
              ELSE Cardinality(Owned(s, t))
        BY <3>2, FS_RemoveElement
      <3>6. CASE old = t
        <4>1. s.count[t] > 0
          BY <3>1, <3>2, <3>4, <3>6
        <4> QED
          BY <2>5, <3>1, <3>3, <3>4, <3>5, <3>6, <4>1
      <3>7. CASE old # t
        BY <2>5, <3>1, <3>3, <3>4, <3>5, <3>7
      <3> QED
        BY <3>6, <3>7
    <2>7. Counted(new)
      BY <2>6 DEF Counted
    <2>8. new \in AtlasState
      BY <2>3, <2>4, <2>5 DEF AtlasState
    <2> QED
      BY <2>4, <2>7, <2>8 DEF new
  <1> QED
    BY <1>1, <1>2

\* ... and so does the end of a quantum.
LEMMA AtlasQuantumProperties ==
  ASSUME NEW s \in AtlasState
  PROVE  /\ AtlasQuantum(s) \in AtlasState
         /\ AtlasQuantum(s).owner = s.owner /\ AtlasQuantum(s).count = s.count
  <1>1. QuantumLength \in Nat \ {0} /\ AtlasScale \in Nat
    BY SchedulerAssumption
  <1>2. CASE s.inQuantum + 1 < QuantumLength
    <2>1. AtlasQuantum(s) = [s EXCEPT !.inQuantum = s.inQuantum + 1]
      BY <1>2 DEF AtlasQuantum, AtlasState
    <2>2. s.inQuantum + 1 \in 0 .. QuantumLength - 1
      BY <1>1, <1>2 DEF AtlasState
    <2> QED
      BY <2>1, <2>2 DEF AtlasState
  <1>3. CASE ~ (s.inQuantum + 1 < QuantumLength)
    <2> DEFINE served == {t \in Sources : s.localAS[t] > 0}
               total == [t \in Sources |->
                           IF t \in served
                           THEN (7 * s.totalAS[t] + AtlasScale * s.localAS[t]) \div 8
                           ELSE s.totalAS[t]]
               zero == [t \in Sources |-> 0]
               known == s.known \cup served
    <2>1. ASSUME NEW t \in Sources
          PROVE  (7 * s.totalAS[t] + AtlasScale * s.localAS[t]) \div 8 \in Nat
      <3>1. s.totalAS[t] \in Nat /\ s.localAS[t] \in Nat
        BY DEF AtlasState
      <3>2. AtlasScale * s.localAS[t] \in Nat
        BY <1>1, <3>1
      <3>3. \A k, m \in Nat : (7 * m + k) \div 8 \in Nat
        OBVIOUS
      <3> QED
        BY <3>1, <3>2, <3>3
    <2>2. total \in [Sources -> Nat]
      <3>1. \A t \in Sources : s.totalAS[t] \in Nat
        BY DEF AtlasState
      <3> QED
        BY <2>1, <3>1
    <2>3. zero \in [Sources -> Nat] /\ known \in SUBSET Sources
      BY DEF AtlasState
    <2>4. 0 \in 0 .. QuantumLength - 1
      BY <1>1
    <2>5. AtlasQuantum(s) = [s EXCEPT !.totalAS = total, !.known = known,
                                      !.localAS = zero, !.inQuantum = 0]
      BY <1>3 DEF AtlasQuantum, AtlasState
    <2> HIDE DEF served, total, zero, known
    <2> QED
      BY <2>2, <2>3, <2>4, <2>5 DEF AtlasState
  <1> QED
    BY <1>2, <1>3

\* Both keep the counts right.
LEMMA AtlasQuantumCounts ==
  ASSUME NEW s \in AtlasState, Counted(s)
  PROVE  /\ AtlasQuantum(s) \in AtlasState /\ Counted(AtlasQuantum(s))
         /\ AtlasQuantum(s).owner = s.owner
  <1>1. AtlasQuantum(s) \in AtlasState
        /\ AtlasQuantum(s).owner = s.owner /\ AtlasQuantum(s).count = s.count
    BY AtlasQuantumProperties
  <1>2. \A t \in Sources : Owned(AtlasQuantum(s), t) = Owned(s, t)
    BY <1>1 DEF Owned
  <1> QED
    BY <1>1, <1>2 DEF Counted

\* The same of the service of a cycle.
LEMMA AtlasServedCounts ==
  ASSUME NEW s \in AtlasState, Counted(s)
  PROVE  /\ AtlasServed(s) \in AtlasState /\ Counted(AtlasServed(s))
         /\ AtlasServed(s).owner = s.owner
  BY AtlasServedProperties DEF Counted, Owned

\* The plugin in a cycle without a command, and in one with a command.
LEMMA AtlasUpdateNothing ==
  ASSUME NEW s \in AtlasState, Counted(s), NEW cmd, NEW bank, NEW source
  PROVE  /\ AtlasUpdate(s, FALSE, cmd, bank, source) \in AtlasState
         /\ Counted(AtlasUpdate(s, FALSE, cmd, bank, source))
         /\ AtlasUpdate(s, FALSE, cmd, bank, source).owner = s.owner
  <1>1. AtlasUpdate(s, FALSE, cmd, bank, source) = AtlasQuantum(AtlasServed(s))
    BY DEF AtlasUpdate
  <1> QED
    BY <1>1, AtlasServedCounts, AtlasQuantumCounts

\* The owners of the banks after a command, as the plugin records them.
OwnersAfter(new, old, cmd, bank, source) ==
    \A b \in Banks :
       new.owner[b] = IF b = bank /\ cmd = "ACT" THEN source ELSE
                      IF b = bank /\ cmd \in {"PRE", "PREA"} THEN NoSource ELSE old.owner[b]

\* An ACT changes the owner of its bank, a PRE removes it.
LEMMA AtlasUpdateIssued ==
  ASSUME NEW s \in AtlasState, Counted(s), NEW cmd \in Commands, NEW bank, NEW source,
         cmd = "ACT" => bank \in Banks /\ source \in Sources
  PROVE  /\ AtlasUpdate(s, TRUE, cmd, bank, source) \in AtlasState
         /\ Counted(AtlasUpdate(s, TRUE, cmd, bank, source))
         /\ OwnersAfter(AtlasUpdate(s, TRUE, cmd, bank, source), s, cmd, bank, source)
  <1> DEFINE served == AtlasServed(s)
             tracked == CASE IsOpening(cmd) -> AtlasClaim(served, bank, source)
                          [] IsClosing(cmd) -> AtlasRelease(served, bank)
                          [] OTHER -> served
  <1>1. served \in AtlasState /\ Counted(served) /\ served.owner = s.owner
    BY AtlasServedCounts
  <1>2. AtlasUpdate(s, TRUE, cmd, bank, source) = AtlasQuantum(tracked)
    BY DEF AtlasUpdate, IsOpening, IsClosing
  <1> HIDE DEF served
  <1>3. /\ tracked \in AtlasState /\ Counted(tracked)
        /\ \A b \in Banks :
              tracked.owner[b] = IF b = bank /\ cmd = "ACT" THEN source ELSE
                                 IF b = bank /\ cmd \in {"PRE", "PREA"} THEN NoSource
                                 ELSE s.owner[b]
    <2>1. CASE cmd = "ACT"
      <3>1. tracked = AtlasClaim(served, bank, source)
        BY <2>1 DEF IsOpening, IsClosing
      <3> HIDE DEF tracked
      <3> QED
        BY <1>1, <2>1, <3>1, AtlasClaimProperties
    <2>2. CASE cmd \in {"PRE", "PREA"}
      <3>1. tracked = AtlasRelease(served, bank)
        BY <2>2 DEF IsOpening, IsClosing
      <3> HIDE DEF tracked
      <3> QED
        BY <1>1, <2>2, <3>1, AtlasReleaseProperties
    <2>3. CASE cmd \notin {"ACT", "PRE", "PREA"}
      <3>1. tracked = served
        BY <2>3 DEF IsOpening, IsClosing
      <3> HIDE DEF tracked
      <3> QED
        BY <1>1, <2>3, <3>1
    <2> QED
      BY <2>1, <2>2, <2>3
  <1> HIDE DEF tracked
  <1> QED
    <2>1. AtlasQuantum(tracked) \in AtlasState /\ Counted(AtlasQuantum(tracked))
          /\ AtlasQuantum(tracked).owner = tracked.owner
      BY <1>3, AtlasQuantumCounts
    <2>2. OwnersAfter(AtlasQuantum(tracked), s, cmd, bank, source)
      BY <1>3, <2>1 DEF OwnersAfter
    <2> QED
      BY <1>2, <2>1, <2>2

-----------------------------------------------------------------------------
(***************************************************************************)
(* The command of a cycle.                                                 *)
(***************************************************************************)
\* What a request of a frontend may be.
LEMMA AcceptedRequest ==
  ASSUME accepted \subseteq Requests, NEW e \in EntryOf(accepted)
  PROVE  /\ e.req \in accepted /\ e.req.bank \in Banks /\ e.req.row \in Rows
         /\ e.req.source \in Sources
         /\ FinalCommand(e.req) = IF e.req.type = "read" THEN "RD" ELSE "WR"
         /\ e.req.type \in {"read", "write"}
  <1>1. e.req \in accepted /\ e.req \in Requests
    BY DEF EntryOf
  <1>2. e.req.type = "read" \/ e.req.type = "write"
    BY <1>1, RequestsAssumption
  <1> QED
    BY <1>1, <1>2, RequestsAssumption DEF FinalCommand

\* GetPreqCommand for a read or write, ...
LEMMA CommandOfRequest ==
  ASSUME accepted \subseteq Requests, NEW e \in EntryOf(accepted), NEW d \in Device
  PROVE  Command(d, e) = IF d.row[e.req.bank] = Closed THEN "ACT"
                         ELSE IF d.row[e.req.bank] = e.req.row THEN FinalCommand(e.req)
                         ELSE "PRE"
  <1>1. FinalCommand(e.req) # "REFab" /\ e.req.row # Closed
    BY AcceptedRequest, Tables
  <1> QED
    BY <1>1 DEF Command, GetPreqCommand

\* ... and for a refresh.
LEMMA CommandOfRefresh ==
  ASSUME NEW d
  PROVE  Command(d, RefreshEntry) = IF \A b \in Banks : d.row[b] = Closed
                                    THEN "REFab" ELSE "PREA"
  BY DEF Command, GetPreqCommand, RefreshEntry, RefreshRequest, FinalCommand

\* The three kinds of commands that are issued: a row for an active request, or
\* its last command;
ForActive(d, i, e, cmd) ==
    /\ i \in Places(activeBuf) /\ e = activeBuf[i]
    /\ \/ cmd = "ACT" /\ d.row[e.req.bank] = Closed
       \/ cmd = FinalCommand(e.req) /\ d.row[e.req.bank] = e.req.row

\* a step of a refresh, whose last one finds no active requests;
ForRefresh(d, p, i, e, cmd) ==
    /\ p # <<>> /\ i = 1 /\ e = RefreshEntry
    /\ \/ cmd = "PREA" /\ d.rank["PREA"] = 0
       \/ cmd = "REFab" /\ activeBuf = <<>>

\* a command for a read or write while no refresh waits, which closes no bank of
\* an active request.
ForQueued(d, p, which, i, e, cmd) ==
    /\ p = <<>> /\ i \in Places(Contents(which, p)) /\ e = Contents(which, p)[i]
    /\ \/ cmd = "ACT" /\ d.row[e.req.bank] = Closed /\ d.rank["ACT"] = 0
       \/ cmd = "PRE" /\ \A j \in Places(activeBuf) : activeBuf[j].req.bank # e.req.bank
       \/ cmd = FinalCommand(e.req) /\ d.row[e.req.bank] = e.req.row

\* A REFab that is ready finds every active request ready for its ACT, and the
\* active buffer goes first.
LEMMA RefreshWaitsForActive ==
  ASSUME Types, NEW d \in Device, RefreshWaitsLonger(d), ~ BestIsReady(d, activeBuf),
         \A b \in Banks : d.row[b] = Closed, d.rank["REFab"] = 0
  PROVE  activeBuf = <<>>
  <1> SUFFICES ASSUME activeBuf # <<>> PROVE BestIsReady(d, activeBuf)
    OBVIOUS
  <1>1. accepted \subseteq Requests /\ activeBuf \in Seq(EntryOf(accepted))
    BY DEF Types
  <1>2. /\ "ACT" \in Commands /\ d.rank["ACT"] \in Nat
        /\ \A b \in Banks : d.bank[b]["ACT"] \in Nat
    BY DEF Device, Commands
  <1>3. d.rank["ACT"] = 0 /\ \A b \in Banks : d.bank[b]["ACT"] = 0
    BY <1>2 DEF RefreshWaitsLonger
  <1>4. ASSUME NEW i \in Places(activeBuf) PROVE Ready(d, activeBuf[i])
    <2>1. activeBuf[i] \in EntryOf(accepted)
      BY <1>1 DEF Places
    <2>2. Command(d, activeBuf[i]) = "ACT" /\ activeBuf[i].req.bank \in Banks
      BY <1>1, <2>1, CommandOfRequest, AcceptedRequest
    <2> QED
      BY <1>3, <2>2 DEF Ready, CheckReady
  <1> QED
    BY <1>1, <1>4, BestIsFound

\* The priority buffer holds refreshes only.
LEMMA RefreshedType ==
  ASSUME Types
  PROVE  /\ Refreshed \in Seq({RefreshEntry})
         /\ Refreshed = <<>> => priorityBuf = <<>>
         /\ \A i \in Places(Refreshed) : Refreshed[i] = RefreshEntry
  <1>1. priorityBuf \in Seq({RefreshEntry})
    BY DEF Types
  <1>2. Append(priorityBuf, RefreshEntry) \in Seq({RefreshEntry})
        /\ Append(priorityBuf, RefreshEntry) # <<>>
    BY <1>1, AppendProperties
  <1>3. Refreshed \in Seq({RefreshEntry})
    BY <1>1, <1>2 DEF Refreshed
  <1>4. \A i \in Places(Refreshed) : Refreshed[i] \in {RefreshEntry}
    BY <1>3 DEF Places
  <1> QED
    BY <1>2, <1>3, <1>4 DEF Refreshed

\* What the device is when the command is picked.
LEMMA DeviceOfCycle ==
  ASSUME IInv, NEW d, d = Elapse(dev)
  PROVE  /\ d \in Device /\ d.row = dev.row
         /\ BanksSoonFree(d)
         /\ activeBuf # <<>> => RankSoonFree(d) /\ RefreshWaitsLonger(d)
  <1>1. dev \in Device /\ BanksSoonFree(dev)
        /\ (activeBuf # <<>> => RankSoonFree(dev) /\ RefreshWaitsLonger(dev))
    BY DEF IInv, Types, RowsReturn
  <1> QED
    BY <1>1, ElapseProperties, ElapseKeepsTimes

\* Whatever schedule_request finds is one of the three.
LEMMA IssuedCommand ==
  ASSUME IInv, NEW d, d = Elapse(dev), NEW p, p = Refreshed,
         NEW which, which = ServedBuffer(d, p), NEW i \in FoundRequest(d, which, p),
         NEW e, e = Contents(which, p)[i], NEW cmd, cmd = Command(d, e)
  PROVE  \/ which = "active" /\ ForActive(d, i, e, cmd)
         \/ which = "priority" /\ ForRefresh(d, p, i, e, cmd)
         \/ which \in {"read", "write"} /\ ForQueued(d, p, which, i, e, cmd)
  <1>1. Types /\ accepted \subseteq Requests
    BY DEF IInv, Types
  <1>2. d \in Device /\ d.row = dev.row
    BY DeviceOfCycle
  <1>3. /\ i \in Places(Contents(which, p)) /\ Ready(d, e) /\ ~ InterruptsActive(d, e)
        /\ which = "priority" => i = 1
    BY DEF FoundRequest
  <1>4. CASE BestIsReady(d, activeBuf)
    <2>1. which = "active" /\ Contents(which, p) = activeBuf
      BY <1>4 DEF ServedBuffer, Contents
    <2>2. i \in Places(activeBuf) /\ e = activeBuf[i] /\ e \in EntryOf(accepted)
      BY <1>1, <1>3, <2>1 DEF Types, Places
    <2>3. d.row[e.req.bank] \in {Closed, e.req.row}
      BY <1>2, <2>2 DEF IInv, ActiveOwnsItsBank
    <2>4. cmd = IF d.row[e.req.bank] = Closed THEN "ACT"
                ELSE IF d.row[e.req.bank] = e.req.row THEN FinalCommand(e.req) ELSE "PRE"
      BY <1>1, <1>2, <2>2, CommandOfRequest
    <2> QED
      BY <2>1, <2>2, <2>3, <2>4 DEF ForActive
  <1>5. CASE ~ BestIsReady(d, activeBuf) /\ p # <<>>
    <2>1. which = "priority" /\ Contents(which, p) = p
      BY <1>5 DEF ServedBuffer, Contents
    <2>2. i = 1 /\ e = RefreshEntry
      BY <1>1, <1>3, <2>1, RefreshedType
    <2>3. cmd = IF \A b \in Banks : d.row[b] = Closed THEN "REFab" ELSE "PREA"
      BY <2>2, CommandOfRefresh
    <2>4. d.rank[cmd] = 0
      BY <1>3 DEF Ready, CheckReady
    <2>5. cmd = "REFab" => activeBuf = <<>>
      BY <1>1, <1>2, <1>5, <2>3, <2>4, RefreshWaitsForActive, DeviceOfCycle
    <2> QED
      BY <1>5, <2>1, <2>2, <2>3, <2>4, <2>5 DEF ForRefresh
  <1>6. CASE ~ BestIsReady(d, activeBuf) /\ p = <<>>
    <2>1. which \in {"read", "write"}
      BY <1>6 DEF ServedBuffer
    <2>2. Contents(which, p) \in Seq(EntryOf(accepted))
      BY <1>1, <2>1 DEF Contents, Types
    <2>3. e \in EntryOf(accepted)
      <3> DEFINE buf == Contents(which, p)
      <3>1. i \in 1 .. Len(buf) /\ buf \in Seq(EntryOf(accepted))
        BY <1>3, <2>2 DEF Places
      <3> HIDE DEF buf
      <3>2. buf[i] \in EntryOf(accepted)
        BY <3>1
      <3> QED
        BY <3>2 DEF buf
    <2>4. cmd = IF d.row[e.req.bank] = Closed THEN "ACT"
                ELSE IF d.row[e.req.bank] = e.req.row THEN FinalCommand(e.req) ELSE "PRE"
      BY <1>1, <1>2, <2>3, CommandOfRequest
    <2>5. d.rank[cmd] = 0
      BY <1>3 DEF Ready, CheckReady
    <2>6. cmd = "PRE" => \A j \in Places(activeBuf) : activeBuf[j].req.bank # e.req.bank
      BY <1>3 DEF InterruptsActive, IsClosing
    <2> QED
      BY <1>3, <1>6, <2>1, <2>4, <2>5, <2>6 DEF ForQueued
  <1> QED
    BY <1>4, <1>5, <1>6
-----------------------------------------------------------------------------
(***************************************************************************)
(* The buffers after a command.                                            *)
(***************************************************************************)
\* Growing older changes nothing about what was taken out ...
LEMMA SameAfterOneLess ==
  ASSUME NEW old, NEW mid, NEW new, NEW i,
         OneLess(mid, old, i), SameRequests(new, mid)
  PROVE  OneLess(new, old, i)
  BY DEF OneLess, SameRequests, Places

\* ... or added.
LEMMA SameAfterOneMore ==
  ASSUME NEW T, NEW old \in Seq(T), NEW mid, NEW new, NEW r,
         OneMore(mid, old, r), SameRequests(new, mid)
  PROVE  OneMore(new, old, r)
  <1>1. Len(old) \in Nat /\ Len(mid) = Len(old) + 1 /\ Len(new) = Len(mid)
    BY DEF OneMore, SameRequests
  <1>2. new[Len(new)].req = mid[Len(mid)].req
    BY <1>1 DEF SameRequests, Places
  <1>3. \A k \in Places(old) : new[k].req = mid[k].req
    BY <1>1 DEF SameRequests, Places
  <1> QED
    BY <1>1, <1>2, <1>3 DEF OneMore

\* A request for each bank: the active buffer holds at most as many as there are
\* banks, and for those it has room.
LEMMA ActiveHasRoom ==
  ASSUME Types, ActiveOwnsItsBank
  PROVE  HasRoom(activeBuf, ActiveMax)
  <1> DEFINE f == [i \in 1 .. Len(activeBuf) |-> activeBuf[i].req.bank]
  <1>1. Len(activeBuf) \in Nat
        /\ \A i \in 1 .. Len(activeBuf) : activeBuf[i] \in EntryOf(accepted)
    BY DEF Types
  <1>2. accepted \subseteq Requests
    BY DEF Types
  <1>3. f \in [1 .. Len(activeBuf) -> Banks]
    <2>1. \A i \in 1 .. Len(activeBuf) : activeBuf[i].req.bank \in Banks
      BY <1>1, <1>2, AcceptedRequest
    <2> QED
      BY <2>1
  <1>4. \A i, j \in 1 .. Len(activeBuf) : f[i] = f[j] => i = j
    BY DEF ActiveOwnsItsBank, Places
  <1> HIDE DEF f
  <1>5. f \in Injection(1 .. Len(activeBuf), Banks)
    BY <1>3, <1>4, Fun_IsInj
  <1>6. IsFiniteSet(Banks) /\ Cardinality(Banks) <= ActiveMax /\ ActiveMax \in Nat
    BY ControllerAssumption
  <1>7. Cardinality(1 .. Len(activeBuf)) <= Cardinality(Banks)
    BY <1>5, <1>6, FS_Injection
  <1>8. Cardinality(1 .. Len(activeBuf)) = Len(activeBuf)
    <2>1. \A n \in Nat : Cardinality(1 .. n) = n
      <3> SUFFICES ASSUME NEW n \in Nat PROVE Cardinality(1 .. n) = n
        OBVIOUS
      <3>1. Cardinality(1 .. n) = IF 1 > n THEN 0 ELSE n - 1 + 1
        BY FS_Interval
      <3> QED
        BY <3>1
    <2> QED
      BY <1>1, <2>1
  <1>9. Cardinality(Banks) \in Nat
    BY <1>6, FS_CardinalityType
  <1> QED
    BY <1>1, <1>6, <1>7, <1>8, <1>9 DEF HasRoom

\* A buffer that Left leaves alone, and one it takes a request from.
LEMMA OlderBuffer ==
  ASSUME NEW S, NEW buf \in Seq(EntryOf(S)), NEW new, new = Older(buf)
  PROVE  new \in Seq(EntryOf(S)) /\ SameRequests(new, buf)
  BY OlderProperties

\* One that a request is taken from.
LEMMA OlderRemoved ==
  ASSUME NEW S, NEW buf \in Seq(EntryOf(S)), NEW i \in Places(buf),
         NEW new, new = Older(Remove(buf, i))
  PROVE  new \in Seq(EntryOf(S)) /\ OneLess(new, buf, i)
  <1>1. Remove(buf, i) \in Seq(EntryOf(S)) /\ OneLess(Remove(buf, i), buf, i)
    BY RemoveProperties, RemoveIsOneLess
  <1>2. new \in Seq(EntryOf(S)) /\ SameRequests(new, Remove(buf, i))
    BY <1>1, OlderProperties
  <1> QED
    BY <1>1, <1>2, SameAfterOneLess

\* One that gets a request.
LEMMA OlderAppended ==
  ASSUME NEW S, NEW buf \in Seq(EntryOf(S)), NEW e \in EntryOf(S),
         NEW new, new = Older(Append(buf, e))
  PROVE  new \in Seq(EntryOf(S)) /\ OneMore(new, buf, e.req)
  <1>1. Append(buf, e) \in Seq(EntryOf(S)) /\ OneMore(Append(buf, e), buf, e.req)
    BY AppendIsOneMore
  <1>2. new \in Seq(EntryOf(S)) /\ SameRequests(new, Append(buf, e))
    BY <1>1, OlderProperties
  <1> QED
    BY <1>1, <1>2, SameAfterOneMore

\* What a command does to the active buffer,
ActiveAfter(which, i, e, cmd) ==
    /\ which = "active" /\ cmd = "ACT" =>
          \E mid \in Seq(EntryOf(accepted)) :
             OneLess(mid, activeBuf, i) /\ OneMore(activeBuf', mid, e.req)
    /\ which = "active" /\ cmd # "ACT" => OneLess(activeBuf', activeBuf, i)
    /\ which # "active" /\ cmd = "ACT" => OneMore(activeBuf', activeBuf, e.req)
    /\ which # "active" /\ cmd # "ACT" => SameRequests(activeBuf', activeBuf)

\* ... and to the buffers of reads and writes.
QueueAfter(new, old, served, i, cmd) ==
    IF served /\ cmd # "PRE" THEN OneLess(new, old, i) ELSE SameRequests(new, old)

BuffersAfter(p, which, i, e, cmd) ==
    /\ activeBuf' \in Seq(EntryOf(accepted))
    /\ readBuf' \in Seq(EntryOf(accepted)) /\ writeBuf' \in Seq(EntryOf(accepted))
    /\ priorityBuf' \in Seq({RefreshEntry})
    /\ cmd # "REFab" => priorityBuf' = p
    /\ ActiveAfter(which, i, e, cmd)
    /\ QueueAfter(readBuf', readBuf, which = "read", i, cmd)
    /\ QueueAfter(writeBuf', writeBuf, which = "write", i, cmd)

\* A command for an active request moves it to the end, or takes it out.
LEMMA BuffersAfterActive ==
  ASSUME IInv, NEW d, d = Elapse(dev), NEW p, p = Refreshed, NEW i, NEW e, NEW cmd,
         ForActive(d, i, e, cmd), cmd = Command(d, e), Issue(d, p, "active", i)
  PROVE  BuffersAfter(p, "active", i, e, cmd)
  <1>1. /\ Types /\ accepted \subseteq Requests
        /\ activeBuf \in Seq(EntryOf(accepted))
        /\ readBuf \in Seq(EntryOf(accepted)) /\ writeBuf \in Seq(EntryOf(accepted))
    BY DEF IInv, Types
  <1>2. i \in Places(activeBuf) /\ e = activeBuf[i] /\ e \in EntryOf(accepted)
        /\ e = Contents("active", p)[i]
    BY <1>1 DEF ForActive, Places, Contents
  <1>3. FinalCommand(e.req) \in {"RD", "WR"}
    BY <1>1, <1>2, AcceptedRequest
  <1>4. (cmd = FinalCommand(e.req) \/ IsOpening(cmd)) /\ cmd # "PRE" /\ cmd # "REFab"
        /\ (IsOpening(cmd) <=> cmd = "ACT")
    BY <1>3 DEF ForActive, IsOpening
  <1>5. HasRoom(activeBuf, ActiveMax)
    BY ActiveHasRoom DEF IInv
  <1>6. /\ activeBuf' = Older(IF cmd = "ACT" THEN Append(Remove(activeBuf, i), e)
                              ELSE Remove(activeBuf, i))
        /\ priorityBuf' = p
        /\ readBuf' = Older(readBuf) /\ writeBuf' = Older(writeBuf)
    BY <1>2, <1>4, <1>5 DEF Issue, Contents
  <1>7. p \in Seq({RefreshEntry})
    BY <1>1, RefreshedType
  <1>8. /\ readBuf' \in Seq(EntryOf(accepted)) /\ SameRequests(readBuf', readBuf)
        /\ writeBuf' \in Seq(EntryOf(accepted)) /\ SameRequests(writeBuf', writeBuf)
    BY <1>1, <1>6, OlderBuffer
  <1>9. CASE cmd = "ACT"
    <2> DEFINE mid == Remove(activeBuf, i)
    <2>1. mid \in Seq(EntryOf(accepted)) /\ OneLess(mid, activeBuf, i)
      BY <1>1, <1>2, RemoveProperties, RemoveIsOneLess
    <2>2. activeBuf' = Older(Append(mid, e))
      BY <1>6, <1>9
    <2> HIDE DEF mid
    <2>3. activeBuf' \in Seq(EntryOf(accepted)) /\ OneMore(activeBuf', mid, e.req)
      BY <1>2, <2>1, <2>2, OlderAppended
    <2>4. ActiveAfter("active", i, e, cmd)
      BY <1>9, <2>1, <2>3 DEF ActiveAfter
    <2> QED
      BY <1>4, <1>6, <1>7, <1>8, <2>3, <2>4 DEF BuffersAfter, QueueAfter
  <1>10. CASE cmd # "ACT"
    <2>1. activeBuf' \in Seq(EntryOf(accepted)) /\ OneLess(activeBuf', activeBuf, i)
      BY <1>1, <1>2, <1>6, <1>10, OlderRemoved
    <2>2. ActiveAfter("active", i, e, cmd)
      BY <1>10, <2>1 DEF ActiveAfter
    <2> QED
      BY <1>4, <1>6, <1>7, <1>8, <2>1, <2>2 DEF BuffersAfter, QueueAfter
  <1> QED
    BY <1>9, <1>10

\* A command of a refresh moves no read or write.
LEMMA BuffersAfterRefresh ==
  ASSUME IInv, NEW d, d = Elapse(dev), NEW p, p = Refreshed, NEW i, NEW e, NEW cmd,
         ForRefresh(d, p, i, e, cmd), cmd = Command(d, e), Issue(d, p, "priority", i)
  PROVE  BuffersAfter(p, "priority", i, e, cmd)
  <1>1. /\ Types
        /\ activeBuf \in Seq(EntryOf(accepted))
        /\ readBuf \in Seq(EntryOf(accepted)) /\ writeBuf \in Seq(EntryOf(accepted))
    BY DEF IInv, Types
  <1>2. p \in Seq({RefreshEntry}) /\ i \in Places(p) /\ e = p[i]
        /\ e = Contents("priority", p)[i]
    <2>1. p \in Seq({RefreshEntry}) /\ p # <<>> /\ i = 1
      BY <1>1, RefreshedType DEF ForRefresh
    <2>2. 1 \in Places(p)
      BY <2>1 DEF Places
    <2> QED
      BY <1>1, <2>1, <2>2, RefreshedType DEF ForRefresh, Contents
  <1>3. FinalCommand(e.req) = "REFab" /\ cmd \in {"PREA", "REFab"}
    BY DEF ForRefresh, FinalCommand, RefreshEntry, RefreshRequest
  <1>4. /\ ~ IsOpening(cmd)
        /\ activeBuf' = Older(activeBuf)
        /\ priorityBuf' = IF cmd = "REFab" THEN Remove(p, i) ELSE p
        /\ readBuf' = Older(readBuf) /\ writeBuf' = Older(writeBuf)
    BY <1>2, <1>3 DEF Issue, Contents, IsOpening
  <1>5. priorityBuf' \in Seq({RefreshEntry})
    BY <1>2, <1>4, RemoveProperties
  <1>6. /\ readBuf' \in Seq(EntryOf(accepted)) /\ SameRequests(readBuf', readBuf)
        /\ writeBuf' \in Seq(EntryOf(accepted)) /\ SameRequests(writeBuf', writeBuf)
        /\ activeBuf' \in Seq(EntryOf(accepted)) /\ SameRequests(activeBuf', activeBuf)
    BY <1>1, <1>4, OlderBuffer
  <1>7. ActiveAfter("priority", i, e, cmd)
    BY <1>3, <1>6 DEF ActiveAfter
  <1> QED
    BY <1>4, <1>5, <1>6, <1>7 DEF BuffersAfter, QueueAfter

\* A command for a queued request makes it active, takes it out or leaves it.
LEMMA BuffersAfterQueued ==
  ASSUME IInv, NEW d, d = Elapse(dev), NEW p, p = Refreshed, NEW i, NEW e, NEW cmd,
         NEW which \in {"read", "write"},
         ForQueued(d, p, which, i, e, cmd), cmd = Command(d, e), Issue(d, p, which, i)
  PROVE  BuffersAfter(p, which, i, e, cmd)
  <1>1. /\ Types /\ accepted \subseteq Requests
        /\ activeBuf \in Seq(EntryOf(accepted))
        /\ readBuf \in Seq(EntryOf(accepted)) /\ writeBuf \in Seq(EntryOf(accepted))
    BY DEF IInv, Types
  <1> DEFINE buf == IF which = "read" THEN readBuf ELSE writeBuf
  <1>2. Contents(which, p) = buf /\ buf \in Seq(EntryOf(accepted))
    BY <1>1 DEF Contents
  <1>3. i \in Places(buf) /\ e = buf[i] /\ e = Contents(which, p)[i]
    BY <1>2 DEF ForQueued
  <1>4. e \in EntryOf(accepted)
    <2> HIDE DEF buf
    <2> QED
      BY <1>2, <1>3 DEF Places
  <1>5. FinalCommand(e.req) \in {"RD", "WR"}
    BY <1>1, <1>4, AcceptedRequest
  <1>6. /\ (cmd = FinalCommand(e.req) \/ IsOpening(cmd)) <=> cmd # "PRE"
        /\ cmd # "REFab"
        /\ IsOpening(cmd) <=> cmd = "ACT"
    BY <1>5 DEF ForQueued, IsOpening
  <1>7. HasRoom(activeBuf, ActiveMax)
    BY ActiveHasRoom DEF IInv
  <1>8. /\ activeBuf' = Older(IF cmd = "ACT" THEN Append(activeBuf, e) ELSE activeBuf)
        /\ priorityBuf' = p
        /\ readBuf' = Older(IF which = "read" /\ cmd # "PRE"
                            THEN Remove(readBuf, i) ELSE readBuf)
        /\ writeBuf' = Older(IF which = "write" /\ cmd # "PRE"
                             THEN Remove(writeBuf, i) ELSE writeBuf)
    BY <1>3, <1>6, <1>7 DEF Issue, Contents
  <1>9. p \in Seq({RefreshEntry})
    BY <1>1, RefreshedType
  <1>10. /\ activeBuf' \in Seq(EntryOf(accepted))
         /\ ActiveAfter(which, i, e, cmd)
    <2>1. CASE cmd = "ACT"
      BY <1>1, <1>4, <1>8, <2>1, OlderAppended DEF ActiveAfter
    <2>2. CASE cmd # "ACT"
      BY <1>1, <1>8, <2>2, OlderBuffer DEF ActiveAfter
    <2> QED
      BY <2>1, <2>2
  <1>11. /\ readBuf' \in Seq(EntryOf(accepted))
         /\ QueueAfter(readBuf', readBuf, which = "read", i, cmd)
    <2>1. CASE which = "read" /\ cmd # "PRE"
      BY <1>1, <1>3, <1>8, <2>1, OlderRemoved DEF QueueAfter
    <2>2. CASE ~ (which = "read" /\ cmd # "PRE")
      BY <1>1, <1>8, <2>2, OlderBuffer DEF QueueAfter
    <2> QED
      BY <2>1, <2>2
  <1>12. /\ writeBuf' \in Seq(EntryOf(accepted))
         /\ QueueAfter(writeBuf', writeBuf, which = "write", i, cmd)
    <2>1. CASE which = "write" /\ cmd # "PRE"
      BY <1>1, <1>3, <1>8, <2>1, OlderRemoved DEF QueueAfter
    <2>2. CASE ~ (which = "write" /\ cmd # "PRE")
      BY <1>1, <1>8, <2>2, OlderBuffer DEF QueueAfter
    <2> QED
      BY <2>1, <2>2
  <1> QED
    BY <1>6, <1>8, <1>9, <1>10, <1>11, <1>12 DEF BuffersAfter
-----------------------------------------------------------------------------
(***************************************************************************)
(* One request of a bank, and the rows of the active requests.             *)
(***************************************************************************)
OnePerBank(buf) ==
    \A i, j \in Places(buf) : buf[i].req.bank = buf[j].req.bank => i = j

\* The two halves of ActiveOwnsItsBank.
LEMMA OwnsItsBankParts ==
  ActiveOwnsItsBank <=>
    /\ OnePerBank(activeBuf)
    /\ \A i \in Places(activeBuf) :
          dev.row[activeBuf[i].req.bank] \in {Closed, activeBuf[i].req.row}
  BY DEF ActiveOwnsItsBank, OnePerBank

\* One request per bank remains so when the requests stay, ...
LEMMA SameKeepsOnePerBank ==
  ASSUME NEW old, NEW new, SameRequests(new, old), OnePerBank(old)
  PROVE  OnePerBank(new)
  <1>1. Places(new) = Places(old) /\ \A k \in Places(old) : new[k].req = old[k].req
    BY DEF SameRequests, Places
  <1> QED
    BY <1>1 DEF OnePerBank

\* ... when one is taken out, whose bank then has none, ...
LEMMA LessKeepsOnePerBank ==
  ASSUME NEW T, NEW old \in Seq(T), NEW i \in Places(old), NEW new, OneLess(new, old, i)
  PROVE  /\ \A k \in Places(new) : \E m \in Places(old) \ {i} : new[k].req = old[m].req
         /\ OnePerBank(old) =>
              /\ OnePerBank(new)
              /\ \A k \in Places(new) : new[k].req.bank # old[i].req.bank
  <1>1. Len(old) \in Nat /\ Len(new) = Len(old) - 1 /\ i \in 1 .. Len(old)
    BY DEF OneLess, Places
  <1> DEFINE f(k) == IF k < i THEN k ELSE k + 1
  <1>2. ASSUME NEW k \in Places(new)
        PROVE  f(k) \in Places(old) /\ f(k) # i /\ new[k].req = old[f(k)].req
    BY <1>1 DEF OneLess, Places
  <1>3. \A k, m \in Places(new) : f(k) = f(m) => k = m
    BY <1>1 DEF Places
  <1> HIDE DEF f
  <1>4. OnePerBank(old) => OnePerBank(new)
    BY <1>2, <1>3 DEF OnePerBank
  <1>5. OnePerBank(old) => \A k \in Places(new) : new[k].req.bank # old[i].req.bank
    BY <1>2 DEF OnePerBank
  <1> QED
    BY <1>2, <1>4, <1>5

\* ... and when one is added whose bank had none.
LEMMA MoreKeepsOnePerBank ==
  ASSUME NEW T, NEW old \in Seq(T), NEW U, NEW new \in Seq(U), NEW r, OneMore(new, old, r)
  PROVE  /\ \A k \in Places(new) : new[k].req = r \/ \E m \in Places(old) : new[k].req = old[m].req
         /\ OnePerBank(old) /\ (\A m \in Places(old) : old[m].req.bank # r.bank)
              => OnePerBank(new)
  <1>1. Len(old) \in Nat /\ Len(new) = Len(old) + 1
    BY DEF OneMore
  <1>2. \A k \in Places(new) : \/ k = Len(new) /\ new[k].req = r
                               \/ k \in Places(old) /\ new[k].req = old[k].req /\ k # Len(new)
    BY <1>1 DEF OneMore, Places
  <1> QED
    BY <1>2 DEF OnePerBank

\* The rows and the times after a command, by its kind.
DeviceAfter ==
    /\ OnePerBank(activeBuf')
    /\ \A i \in Places(activeBuf') :
          /\ dev'.row[activeBuf'[i].req.bank] \in {Closed, activeBuf'[i].req.row}
          /\ dev'.row[activeBuf'[i].req.bank] = Closed => priorityBuf' # <<>>
    /\ BanksSoonFree(dev')
    /\ activeBuf' # <<>> => RankSoonFree(dev') /\ RefreshWaitsLonger(dev')

\* DeviceAfter is what the invariant says of the next state.
LEMMA DeviceAfterGives ==
  ASSUME DeviceAfter
  PROVE  BanksSoonFree(dev)' /\ RowsReturn' /\ ActiveOwnsItsBank'
  <1>1. BanksSoonFree(dev)' = BanksSoonFree(dev')
        /\ RankSoonFree(dev)' = RankSoonFree(dev')
        /\ RefreshWaitsLonger(dev)' = RefreshWaitsLonger(dev')
    BY DEF BanksSoonFree, RankSoonFree, RefreshWaitsLonger, PrechargeTime
  <1>2. OnePerBank(activeBuf)'
    BY DEF DeviceAfter, OnePerBank, Places
  <1> QED
    BY <1>1, <1>2, OwnsItsBankParts DEF DeviceAfter, RowsReturn, ActiveOwnsItsBank, OnePerBank, Places

\* What the invariant says of the active requests when the command is picked.
LEMMA ActiveInCycle ==
  ASSUME IInv, NEW d, d = Elapse(dev), NEW p, p = Refreshed
  PROVE  /\ activeBuf \in Seq(EntryOf(accepted)) /\ OnePerBank(activeBuf)
         /\ \A i \in Places(activeBuf) :
               /\ activeBuf[i].req.bank \in Banks /\ activeBuf[i].req.row # Closed
               /\ d.row[activeBuf[i].req.bank] \in {Closed, activeBuf[i].req.row}
               /\ d.row[activeBuf[i].req.bank] = Closed => p # <<>>
  <1>1. Types /\ accepted \subseteq Requests /\ activeBuf \in Seq(EntryOf(accepted))
    BY DEF IInv, Types
  <1>2. d.row = dev.row
    BY DeviceOfCycle
  <1>3. ASSUME NEW i \in Places(activeBuf)
        PROVE  activeBuf[i].req.bank \in Banks /\ activeBuf[i].req.row # Closed
    <2>1. activeBuf[i] \in EntryOf(accepted)
      BY <1>1 DEF Places
    <2> QED
      BY <1>1, <2>1, AcceptedRequest, Tables
  <1>4. Len(activeBuf) \in Nat /\ \A i \in Places(activeBuf) : activeBuf # <<>>
    BY <1>1 DEF Places
  <1>5. \A i \in Places(activeBuf) :
           d.row[activeBuf[i].req.bank] = Closed => p # <<>>
    BY <1>1, <1>2, <1>4, RefreshedType DEF IInv, RowsReturn
  <1> QED
    BY <1>1, <1>2, <1>3, <1>5, OwnsItsBankParts DEF IInv

\* A buffer whose requests stay is empty before and after, or never.
LEMMA SameEmpty ==
  ASSUME NEW T, NEW old \in Seq(T), NEW U, NEW new \in Seq(U), SameRequests(new, old)
  PROVE  new = <<>> <=> old = <<>>
  <1>1. new = <<>> <=> Len(new) = 0
    BY EmptySeq
  <1>2. old = <<>> <=> Len(old) = 0
    BY EmptySeq
  <1> QED
    BY <1>1, <1>2 DEF SameRequests

\* A cycle without a command.
LEMMA DeviceAfterNothing ==
  ASSUME IInv, NEW d, d = Elapse(dev), NEW p, p = Refreshed,
         dev' = d, activeBuf' \in Seq(EntryOf(accepted)),
         SameRequests(activeBuf', activeBuf), priorityBuf' = p
  PROVE  DeviceAfter
  <1>1. activeBuf \in Seq(EntryOf(accepted)) /\ OnePerBank(activeBuf)
    BY ActiveInCycle
  <1>2. activeBuf' = <<>> <=> activeBuf = <<>>
    BY <1>1, SameEmpty
  <1>3. OnePerBank(activeBuf')
    BY <1>1, SameKeepsOnePerBank
  <1>4. BanksSoonFree(d) /\ (activeBuf # <<>> => RankSoonFree(d) /\ RefreshWaitsLonger(d))
    BY DeviceOfCycle
  <1>5. Places(activeBuf') = Places(activeBuf)
        /\ \A k \in Places(activeBuf) : activeBuf'[k].req = activeBuf[k].req
    BY DEF SameRequests, Places
  <1>6. \A i \in Places(activeBuf') :
          /\ dev'.row[activeBuf'[i].req.bank] \in {Closed, activeBuf'[i].req.row}
          /\ dev'.row[activeBuf'[i].req.bank] = Closed => priorityBuf' # <<>>
    BY <1>5, ActiveInCycle
  <1> QED
    BY <1>2, <1>3, <1>4, <1>6 DEF DeviceAfter

\* The times after a command for a request of the frontend.
LEMMA TimesAfterRequest ==
  ASSUME NEW d \in Device, NEW req, req.bank \in Banks /\ req.row \in Rows,
         NEW cmd \in {"ACT", "PRE", "RD", "WR"}, NEW new, new = IssueCommand(d, cmd, req)
  PROVE  /\ BanksSoonFree(d) => BanksSoonFree(new)
         /\ RankSoonFree(d) => RankSoonFree(new)
         /\ \A b \in Banks :
               new.row[b] = IF b = req.bank /\ cmd = "ACT" THEN req.row ELSE
                            IF b = req.bank /\ cmd = "PRE" THEN Closed ELSE d.row[b]
  <1>1. cmd \in Commands /\ cmd # "PREA" /\ cmd # "REFab" /\ req.bank # NoBank
    BY Tables DEF Commands
  <1>2. /\ BanksSoonFree(d) => BanksSoonFree(new)
        /\ RankSoonFree(d) => RankSoonFree(new)
    BY <1>1, IssueKeepsTimes
  <1>3. \A b \in Banks :
           new.row[b] = CASE cmd = "ACT" /\ b = req.bank -> req.row
                          [] cmd = "PRE" /\ b = req.bank -> Closed
                          [] cmd = "PREA" -> Closed
                          [] OTHER -> d.row[b]
    BY <1>1, IssueProperties
  <1>4. \A b \in Banks :
           new.row[b] = IF b = req.bank /\ cmd = "ACT" THEN req.row ELSE
                        IF b = req.bank /\ cmd = "PRE" THEN Closed ELSE d.row[b]
    BY <1>1, <1>3
  <1> QED
    BY <1>2, <1>4

\* A command for an active request opens its row or finds it open.
LEMMA DeviceAfterActive ==
  ASSUME IInv, NEW d, d = Elapse(dev), NEW p, p = Refreshed, NEW i, NEW e, NEW cmd,
         ForActive(d, i, e, cmd), dev' = IssueCommand(d, cmd, e.req),
         BuffersAfter(p, "active", i, e, cmd)
  PROVE  DeviceAfter
  <1>1. /\ accepted \subseteq Requests
        /\ activeBuf \in Seq(EntryOf(accepted)) /\ OnePerBank(activeBuf)
        /\ i \in Places(activeBuf) /\ e = activeBuf[i] /\ e \in EntryOf(accepted)
    BY ActiveInCycle DEF IInv, Types, ForActive, Places
  <1>2. /\ e.req.bank \in Banks /\ e.req.row \in Rows /\ e.req.row # Closed
        /\ FinalCommand(e.req) \in {"RD", "WR"}
    BY <1>1, AcceptedRequest, Tables
  <1>3. cmd \in {"ACT", "RD", "WR"} /\ cmd # "PRE" /\ cmd # "REFab"
        /\ (cmd # "ACT" => d.row[e.req.bank] = e.req.row)
    BY <1>2 DEF ForActive
  <1>4. /\ d \in Device /\ BanksSoonFree(d) /\ RankSoonFree(d)
    <2>1. activeBuf # <<>>
      BY <1>1 DEF Places
    <2> QED
      BY <2>1, DeviceOfCycle
  <1>5. /\ BanksSoonFree(dev') /\ RankSoonFree(dev')
        /\ \A b \in Banks : dev'.row[b] = IF b = e.req.bank THEN e.req.row ELSE d.row[b]
    BY <1>2, <1>3, <1>4, TimesAfterRequest
  <1>6. RefreshWaitsLonger(dev')
    BY <1>2, <1>5 DEF RefreshWaitsLonger
  <1>7. priorityBuf' = p
    BY <1>3 DEF BuffersAfter
  <1>8. \A m \in Places(activeBuf) :
           /\ dev'.row[activeBuf[m].req.bank] \in {Closed, activeBuf[m].req.row}
           /\ dev'.row[activeBuf[m].req.bank] = Closed => p # <<>>
    <2>1. \A m \in Places(activeBuf) : activeBuf[m].req.bank = e.req.bank => m = i
      BY <1>1 DEF OnePerBank
    <2> QED
      BY <1>1, <1>2, <1>5, <2>1, ActiveInCycle
  <1>9. /\ OnePerBank(activeBuf')
        /\ \A k \in Places(activeBuf') : \E m \in Places(activeBuf) :
              activeBuf'[k].req = activeBuf[m].req
    <2>1. CASE cmd = "ACT"
      <3>1. PICK mid \in Seq(EntryOf(accepted)) :
               OneLess(mid, activeBuf, i) /\ OneMore(activeBuf', mid, e.req)
        BY <2>1 DEF BuffersAfter, ActiveAfter
      <3>2. /\ \A k \in Places(mid) : \E m \in Places(activeBuf) \ {i} :
                  mid[k].req = activeBuf[m].req
            /\ OnePerBank(mid)
            /\ \A k \in Places(mid) : mid[k].req.bank # e.req.bank
        BY <1>1, <3>1, LessKeepsOnePerBank
      <3>3. activeBuf' \in Seq(EntryOf(accepted))
        BY DEF BuffersAfter
      <3>4. /\ \A k \in Places(activeBuf') : activeBuf'[k].req = e.req
                  \/ \E m \in Places(mid) : activeBuf'[k].req = mid[m].req
            /\ OnePerBank(activeBuf')
        BY <3>1, <3>2, <3>3, MoreKeepsOnePerBank
      <3> QED
        BY <1>1, <3>2, <3>4
    <2>2. CASE cmd # "ACT"
      <3>1. OneLess(activeBuf', activeBuf, i)
        BY <2>2 DEF BuffersAfter, ActiveAfter
      <3> QED
        BY <1>1, <3>1, LessKeepsOnePerBank
    <2> QED
      BY <2>1, <2>2
  <1>10. \A k \in Places(activeBuf') :
          /\ dev'.row[activeBuf'[k].req.bank] \in {Closed, activeBuf'[k].req.row}
          /\ dev'.row[activeBuf'[k].req.bank] = Closed => priorityBuf' # <<>>
    BY <1>7, <1>8, <1>9
  <1> QED
    BY <1>5, <1>6, <1>9, <1>10 DEF DeviceAfter

\* A PREA closes every row, and the refresh stays; a REFab finds nobody active.
LEMMA DeviceAfterRefresh ==
  ASSUME IInv, NEW d, d = Elapse(dev), NEW p, p = Refreshed, NEW i, NEW e, NEW cmd,
         ForRefresh(d, p, i, e, cmd), dev' = IssueCommand(d, cmd, e.req),
         BuffersAfter(p, "priority", i, e, cmd)
  PROVE  DeviceAfter
  <1>1. activeBuf \in Seq(EntryOf(accepted)) /\ OnePerBank(activeBuf)
    BY ActiveInCycle
  <1>2. cmd \in {"PREA", "REFab"} /\ e.req.bank = NoBank
    BY DEF ForRefresh, RefreshEntry, RefreshRequest
  <1>3. activeBuf' \in Seq(EntryOf(accepted)) /\ SameRequests(activeBuf', activeBuf)
    BY <1>2 DEF BuffersAfter, ActiveAfter
  <1>4. OnePerBank(activeBuf') /\ (activeBuf' = <<>> <=> activeBuf = <<>>)
    BY <1>1, <1>3, SameKeepsOnePerBank, SameEmpty
  <1>5. /\ d \in Device /\ BanksSoonFree(d) /\ cmd \in Commands
        /\ activeBuf # <<>> => RankSoonFree(d)
    BY <1>2, DeviceOfCycle DEF Commands
  <1>6. BanksSoonFree(dev')
    BY <1>2, <1>5, IssueKeepsTimes
  <1>7. CASE cmd = "REFab"
    <2>1. activeBuf' = <<>>
      BY <1>4, <1>7 DEF ForRefresh
    <2>2. Places(activeBuf') = {}
      BY <2>1 DEF Places
    <2> QED
      BY <1>4, <1>6, <2>1, <2>2 DEF DeviceAfter
  <1>8. CASE cmd = "PREA"
    <2>1. priorityBuf' = p /\ p # <<>> /\ d.rank["PREA"] = 0
      BY <1>8 DEF BuffersAfter, ForRefresh
    <2>2. \A b \in Banks : dev'.row[b] = Closed
      BY <1>2, <1>5, <1>8, IssueProperties
    <2>3. activeBuf # <<>> => RankSoonFree(dev') /\ RefreshWaitsLonger(dev')
      BY <1>2, <1>5, <1>8, <2>1, IssueKeepsTimes
    <2>4. \A k \in Places(activeBuf') : activeBuf'[k].req.bank \in Banks
      <3>1. Places(activeBuf') = Places(activeBuf)
            /\ \A k \in Places(activeBuf) : activeBuf'[k].req = activeBuf[k].req
        BY <1>3 DEF SameRequests, Places
      <3> QED
        BY <3>1, ActiveInCycle
    <2> QED
      BY <1>4, <1>6, <2>1, <2>2, <2>3, <2>4 DEF DeviceAfter
  <1> QED
    BY <1>2, <1>7, <1>8

\* Without a refresh all active rows are open: an ACT goes to another bank.
LEMMA DeviceAfterQueued ==
  ASSUME IInv, NEW d, d = Elapse(dev), NEW p, p = Refreshed, NEW i, NEW e, NEW cmd,
         NEW which \in {"read", "write"}, e \in EntryOf(accepted),
         ForQueued(d, p, which, i, e, cmd), dev' = IssueCommand(d, cmd, e.req),
         BuffersAfter(p, which, i, e, cmd)
  PROVE  DeviceAfter
  <1>1. /\ accepted \subseteq Requests
        /\ activeBuf \in Seq(EntryOf(accepted)) /\ OnePerBank(activeBuf)
        /\ activeBuf' \in Seq(EntryOf(accepted))
    BY ActiveInCycle DEF IInv, Types, BuffersAfter
  <1>2. /\ e.req.bank \in Banks /\ e.req.row \in Rows /\ e.req.row # Closed
        /\ FinalCommand(e.req) \in {"RD", "WR"}
    BY <1>1, AcceptedRequest, Tables
  <1>3. cmd \in {"ACT", "PRE", "RD", "WR"} /\ cmd # "REFab" /\ p = <<>>
    BY <1>2 DEF ForQueued
  <1>4. /\ d \in Device /\ BanksSoonFree(d)
        /\ activeBuf # <<>> \/ d.rank["ACT"] = 0 => RankSoonFree(d)
    <2>1. d \in Device /\ BanksSoonFree(d) /\ (activeBuf # <<>> => RankSoonFree(d))
      BY DeviceOfCycle
    <2>2. d.rank["PREA"] \in Nat
      BY <2>1 DEF Device, Commands
    <2>3. d.rank["ACT"] = 0 => RankSoonFree(d)
      BY <2>2, Tables DEF RankSoonFree
    <2> QED
      BY <2>1, <2>3
  <1>5. /\ BanksSoonFree(dev')
        /\ RankSoonFree(d) => RankSoonFree(dev')
        /\ \A b \in Banks :
              dev'.row[b] = IF b = e.req.bank /\ cmd = "ACT" THEN e.req.row ELSE
                            IF b = e.req.bank /\ cmd = "PRE" THEN Closed ELSE d.row[b]
    BY <1>2, <1>3, <1>4, TimesAfterRequest
  <1>6. \A m \in Places(activeBuf) :
           /\ activeBuf[m].req.bank \in Banks
           /\ d.row[activeBuf[m].req.bank] = activeBuf[m].req.row
           /\ activeBuf[m].req.row # Closed
    BY <1>3, ActiveInCycle
  <1>7. CASE cmd = "ACT"
    <2>1. d.row[e.req.bank] = Closed /\ d.rank["ACT"] = 0
      BY <1>2, <1>7 DEF ForQueued
    <2>2. \A m \in Places(activeBuf) : activeBuf[m].req.bank # e.req.bank
      BY <1>6, <2>1
    <2>3. OneMore(activeBuf', activeBuf, e.req)
      BY <1>7 DEF BuffersAfter, ActiveAfter
    <2>4. /\ OnePerBank(activeBuf')
          /\ \A k \in Places(activeBuf') : activeBuf'[k].req = e.req
                \/ \E m \in Places(activeBuf) : activeBuf'[k].req = activeBuf[m].req
      BY <1>1, <2>2, <2>3, MoreKeepsOnePerBank
    <2>5. \A k \in Places(activeBuf') :
             /\ dev'.row[activeBuf'[k].req.bank] = activeBuf'[k].req.row
             /\ activeBuf'[k].req.row # Closed
      BY <1>2, <1>5, <1>6, <1>7, <2>2, <2>4
    <2>6. RankSoonFree(dev') /\ RefreshWaitsLonger(dev')
      BY <1>2, <1>4, <1>5, <1>7, <2>1 DEF RefreshWaitsLonger
    <2> QED
      BY <1>5, <2>4, <2>5, <2>6 DEF DeviceAfter
  <1>8. CASE cmd # "ACT"
    <2>1. SameRequests(activeBuf', activeBuf)
      BY <1>8 DEF BuffersAfter, ActiveAfter
    <2>2. OnePerBank(activeBuf') /\ (activeBuf' = <<>> <=> activeBuf = <<>>)
      BY <1>1, <2>1, SameKeepsOnePerBank, SameEmpty
    <2>3. cmd = "PRE" => \A j \in Places(activeBuf) : activeBuf[j].req.bank # e.req.bank
      BY <1>2 DEF ForQueued
    <2>4. \A m \in Places(activeBuf) :
             dev'.row[activeBuf[m].req.bank] = activeBuf[m].req.row
      BY <1>5, <1>6, <1>8, <2>3
    <2>5. \A k \in Places(activeBuf') :
             /\ dev'.row[activeBuf'[k].req.bank] = activeBuf'[k].req.row
             /\ activeBuf'[k].req.row # Closed
      BY <1>6, <2>1, <2>4 DEF SameRequests, Places
    <2>6. activeBuf' # <<>> => RankSoonFree(dev') /\ RefreshWaitsLonger(dev')
      <3> SUFFICES ASSUME activeBuf' # <<>>
                   PROVE  RankSoonFree(dev') /\ RefreshWaitsLonger(dev')
        OBVIOUS
      <3>1. activeBuf # <<>> /\ 1 \in Places(activeBuf)
        BY <1>1, <2>2 DEF Places
      <3>2. dev'.row[activeBuf[1].req.bank] # Closed /\ activeBuf[1].req.bank \in Banks
        BY <1>6, <2>4, <3>1
      <3> QED
        BY <1>4, <1>5, <3>1, <3>2 DEF RefreshWaitsLonger
    <2> QED
      BY <1>5, <2>2, <2>5, <2>6 DEF DeviceAfter
  <1> QED
    BY <1>7, <1>8
-----------------------------------------------------------------------------
(***************************************************************************)
(* Every accepted request is in one place.                                 *)
(***************************************************************************)
\* The terms of NoRequestLost, which add up to 1 for an accepted request.
LEMMA Terms ==
  ASSUME Types, NoRequestLost, NEW r \in Requests
  PROVE  /\ Copies(readBuf, r) \in Nat /\ Copies(writeBuf, r) \in Nat
         /\ Copies(activeBuf, r) \in Nat /\ Copies(pending, r) \in Nat
         /\ done[r] \in Nat
         /\ Copies(readBuf, r) + Copies(writeBuf, r) + Copies(activeBuf, r)
              + Copies(pending, r) + done[r] = IF r \in accepted THEN 1 ELSE 0
  <1>1. /\ activeBuf \in Seq(EntryOf(accepted)) /\ readBuf \in Seq(EntryOf(accepted))
        /\ writeBuf \in Seq(EntryOf(accepted)) /\ pending \in Seq(PendingOf(accepted))
        /\ done \in [Requests -> 0 .. 1]
    BY DEF Types
  <1>2. done[r] \in Nat
    BY <1>1
  <1> QED
    BY <1>1, <1>2, CopiesType DEF NoRequestLost

\* A request at a place of a buffer has a copy there.
LEMMA CopyAtPlace ==
  ASSUME NEW T, NEW buf \in Seq(T), NEW i \in Places(buf)
  PROVE  Copies(buf, buf[i].req) # 0
  BY CopiesType

\* The place a command takes its request from.
Served(which) ==
    CASE which = "active" -> activeBuf
      [] which = "read"   -> readBuf
      [] which = "write"  -> writeBuf

\* A request in a buffer is accepted, not done and in no other buffer.
LEMMA ServedIsOutstanding ==
  ASSUME Types, NoRequestLost, NEW which \in {"active", "read", "write"},
         NEW i \in Places(Served(which)), NEW e, e = Served(which)[i]
  PROVE  /\ e \in EntryOf(accepted) /\ e.req \in accepted /\ e.req \in Requests
         /\ done[e.req] = 0 /\ Copies(pending, e.req) = 0
         /\ Copies(Served(which), e.req) = 1
  <1>1. /\ activeBuf \in Seq(EntryOf(accepted)) /\ readBuf \in Seq(EntryOf(accepted))
        /\ writeBuf \in Seq(EntryOf(accepted)) /\ accepted \subseteq Requests
    BY DEF Types
  <1> DEFINE buf == Served(which)
  <1>2. buf \in Seq(EntryOf(accepted)) /\ buf \in {activeBuf, readBuf, writeBuf}
    BY <1>1 DEF Served
  <1>3. i \in Places(buf) /\ e = buf[i]
    OBVIOUS
  <1> HIDE DEF buf
  <1>4. e \in EntryOf(accepted) /\ Copies(buf, e.req) # 0
    BY <1>2, <1>3, CopyAtPlace DEF Places
  <1>5. e.req \in accepted /\ e.req \in Requests
    BY <1>1, <1>4 DEF EntryOf
  <1> DEFINE R == Copies(readBuf, e.req)  W == Copies(writeBuf, e.req)
             A == Copies(activeBuf, e.req)  P == Copies(pending, e.req)  D == done[e.req]
             B == Copies(buf, e.req)
  <1>6. R \in Nat /\ W \in Nat /\ A \in Nat /\ P \in Nat /\ D \in Nat /\ R + W + A + P + D = 1
    BY <1>5, Terms
  <1>7. (B = R \/ B = W \/ B = A) /\ B # 0
    BY <1>2, <1>4
  <1> HIDE DEF R, W, A, P, D, B
  <1>8. D = 0 /\ P = 0 /\ B = 1
    BY <1>6, <1>7
  <1> QED
    BY <1>4, <1>5, <1>8 DEF D, P, B, buf

\* The read that is answered is accepted and not done either.
LEMMA AnsweredIsOutstanding ==
  ASSUME Types, NoRequestLost, NEW r \in Answered
  PROVE  r \in accepted /\ r \in Requests /\ done[r] = 0 /\ Copies(pending, r) = 1
  <1>1. pending \in Seq(PendingOf(accepted)) /\ accepted \subseteq Requests
    BY DEF Types
  <1>2. HeadDeparts /\ 1 \in Places(pending) /\ r = pending[1].req
    BY <1>1, StillPendingProperties
  <1>3. Copies(pending, r) # 0 /\ r \in accepted /\ r \in Requests
    <2>1. pending[1] \in PendingOf(accepted)
      BY <1>1, <1>2 DEF Places
    <2>2. Copies(pending, pending[1].req) # 0
      BY <1>1, <1>2, CopyAtPlace
    <2> QED
      BY <1>1, <1>2, <2>1, <2>2 DEF PendingOf
  <1> DEFINE R == Copies(readBuf, r)  W == Copies(writeBuf, r)
             A == Copies(activeBuf, r)  P == Copies(pending, r)  D == done[r]
  <1>4. R \in Nat /\ W \in Nat /\ A \in Nat /\ P \in Nat /\ D \in Nat /\ R + W + A + P + D = 1
    BY <1>3, Terms
  <1> HIDE DEF R, W, A, P, D
  <1>5. P # 0
    BY <1>3 DEF P
  <1>6. D = 0 /\ P = 1
    BY <1>4, <1>5
  <1> QED
    BY <1>3, <1>6 DEF D, P

\* Only the answered read leaves pending.
LEMMA StillPendingCopies ==
  ASSUME Types, NEW r
  PROVE  /\ StillPending \in Seq(PendingOf(accepted))
         /\ Copies(StillPending, r) = IF r \in Answered THEN Copies(pending, r) - 1
                                      ELSE Copies(pending, r)
  <1>1. pending \in Seq(PendingOf(accepted))
    BY DEF Types
  <1>2. StillPending \in Seq(PendingOf(accepted))
    BY <1>1, StillPendingProperties
  <1>3. CASE HeadDeparts
    BY <1>1, <1>2, <1>3, StillPendingProperties, CopiesLess
  <1>4. CASE ~ HeadDeparts
    BY <1>1, <1>2, <1>4, StillPendingProperties, CopiesSame
  <1> QED
    BY <1>2, <1>3, <1>4

\* What is done in a cycle was not done before.
LEMMA FinishedType ==
  ASSUME Types, NEW S \in SUBSET Requests, \A r \in S : done[r] = 0, Finished(S)
  PROVE  /\ done' \in [Requests -> 0 .. 1]
         /\ done' = [r \in Requests |-> IF r \in S THEN 1 ELSE done[r]]
  <1>1. done \in [Requests -> 0 .. 1]
    BY DEF Types
  <1>2. \A r \in Requests : (IF r \in S THEN done[r] + 1 ELSE done[r]) =
                            (IF r \in S THEN 1 ELSE done[r])
    BY <1>1
  <1>3. done' = [r \in Requests |-> IF r \in S THEN 1 ELSE done[r]]
    BY <1>2 DEF Finished
  <1>4. \A r \in Requests : (IF r \in S THEN 1 ELSE done[r]) \in 0 .. 1
    BY <1>1
  <1> QED
    BY <1>3, <1>4

\* The copies of a request after a step, and the primed invariant.
LEMMA NextTerms ==
  ASSUME \A r \in Requests :
           Copies(readBuf', r) + Copies(writeBuf', r) + Copies(activeBuf', r)
             + Copies(pending', r) + done'[r] = IF r \in accepted' THEN 1 ELSE 0
  PROVE  NoRequestLost'
  BY DEF NoRequestLost, Copies, Places

\* The requests of S are done, and nothing else is lost.
NothingLostBut(S) ==
    /\ NoRequestLost' /\ pending' \in Seq(PendingOf(accepted))
    /\ done' \in [Requests -> 0 .. 1]
    /\ S \in SUBSET {r \in accepted : done[r] = 0}
    /\ done' = [r \in Requests |-> IF r \in S THEN 1 ELSE done[r]]

\* Nothing is taken from the buffers: only pending may lose its head.
LEMMA NothingLostWithout ==
  ASSUME Types, NoRequestLost, accepted' = accepted,
         activeBuf' \in Seq(EntryOf(accepted)), SameRequests(activeBuf', activeBuf),
         readBuf' \in Seq(EntryOf(accepted)), SameRequests(readBuf', readBuf),
         writeBuf' \in Seq(EntryOf(accepted)), SameRequests(writeBuf', writeBuf),
         pending' = StillPending, Finished(Answered)
  PROVE  NothingLostBut(Answered)
  <1>1. /\ activeBuf \in Seq(EntryOf(accepted)) /\ readBuf \in Seq(EntryOf(accepted))
        /\ writeBuf \in Seq(EntryOf(accepted))
    BY DEF Types
  <1>2. Answered \subseteq {r \in accepted : done[r] = 0} /\ Answered \in SUBSET Requests
    BY AnsweredIsOutstanding
  <1>3. /\ done' \in [Requests -> 0 .. 1]
        /\ done' = [r \in Requests |-> IF r \in Answered THEN 1 ELSE done[r]]
    BY <1>2, FinishedType
  <1>4. ASSUME NEW r \in Requests
        PROVE  Copies(readBuf', r) + Copies(writeBuf', r) + Copies(activeBuf', r)
                 + Copies(pending', r) + done'[r] = IF r \in accepted' THEN 1 ELSE 0
    <2>1. /\ Copies(readBuf', r) = Copies(readBuf, r)
          /\ Copies(writeBuf', r) = Copies(writeBuf, r)
          /\ Copies(activeBuf', r) = Copies(activeBuf, r)
      BY <1>1, CopiesSame
    <2>2. Copies(pending', r) = IF r \in Answered THEN Copies(pending, r) - 1
                                ELSE Copies(pending, r)
      BY StillPendingCopies
    <2>3. done'[r] = IF r \in Answered THEN done[r] + 1 ELSE done[r]
      BY <1>2, <1>3
    <2> QED
      BY <2>1, <2>2, <2>3, Terms, SMTT(30)
  <1> QED
    BY <1>2, <1>3, <1>4, NextTerms, StillPendingCopies DEF NothingLostBut

\* A command for the request of a frontend: what takes it out of one place puts
\* it into another, or it is a write and done.
Written(e, cmd) == IF cmd = FinalCommand(e.req) /\ e.req.type = "write" THEN {e.req} ELSE {}
Departing(e, cmd) == cmd = FinalCommand(e.req) /\ e.req.type = "read"

PendingAfter(e, cmd) ==
    pending' = IF Departing(e, cmd)
               THEN Append(StillPending, [req |-> e.req, depart |-> ReadLatency])
               ELSE StillPending

\* The command is one for request e, in place i of a buffer of the frontend's requests.
RequestServed(which, i, e, cmd) ==
    /\ which \in {"active", "read", "write"}
    /\ i \in Places(Served(which)) /\ e = Served(which)[i]
    /\ cmd \in {"ACT", "PRE", FinalCommand(e.req)}
    /\ which = "active" => cmd # "PRE"

\* A command for a read or write moves it from one place to another.
LEMMA NothingLostRequest ==
  ASSUME Types, NoRequestLost, accepted' = accepted, NEW p, NEW cmd,
         NEW which, NEW i, NEW e, RequestServed(which, i, e, cmd),
         BuffersAfter(p, which, i, e, cmd), PendingAfter(e, cmd),
         Finished(Answered \cup Written(e, cmd))
  PROVE  NothingLostBut(Answered \cup Written(e, cmd))
  <1>9. /\ which \in {"active", "read", "write"}
        /\ i \in Places(Served(which)) /\ e = Served(which)[i]
        /\ cmd \in {"ACT", "PRE", FinalCommand(e.req)}
        /\ which = "active" => cmd # "PRE"
    BY DEF RequestServed
  <1>1. /\ activeBuf \in Seq(EntryOf(accepted)) /\ readBuf \in Seq(EntryOf(accepted))
        /\ writeBuf \in Seq(EntryOf(accepted)) /\ accepted \subseteq Requests
        /\ activeBuf' \in Seq(EntryOf(accepted)) /\ readBuf' \in Seq(EntryOf(accepted))
        /\ writeBuf' \in Seq(EntryOf(accepted))
    BY DEF Types, BuffersAfter
  <1>2. /\ e \in EntryOf(accepted) /\ e.req \in accepted /\ e.req \in Requests
        /\ done[e.req] = 0 /\ Copies(pending, e.req) = 0
        /\ Copies(Served(which), e.req) = 1
    BY <1>9, ServedIsOutstanding
  <1>3. /\ e.req.type \in {"read", "write"}
        /\ FinalCommand(e.req) \notin {"ACT", "PRE"}
    BY <1>1, <1>2, AcceptedRequest
  <1> DEFINE S == Answered \cup Written(e, cmd)
  <1>4. S \subseteq {r \in accepted : done[r] = 0} /\ S \in SUBSET Requests
    BY <1>2, AnsweredIsOutstanding DEF Written
  <1>5. /\ done' \in [Requests -> 0 .. 1]
        /\ done' = [r \in Requests |-> IF r \in S THEN 1 ELSE done[r]]
    <2> HIDE DEF S
    <2>1. \A r \in S : done[r] = 0
      BY <1>4
    <2>2. Finished(S)
      BY DEF S
    <2> QED
      BY <1>4, <2>1, <2>2, FinishedType
  <1>6. pending' \in Seq(PendingOf(accepted))
        /\ \A r : Copies(pending', r) =
                    IF Departing(e, cmd) /\ e.req = r THEN Copies(StillPending, r) + 1
                    ELSE Copies(StillPending, r)
    <2> DEFINE last == [req |-> e.req, depart |-> ReadLatency]
    <2>1. last \in PendingOf(accepted) /\ last.req = e.req
      BY <1>2, ControllerAssumption DEF PendingOf
    <2> HIDE DEF last
    <2>2. StillPending \in Seq(PendingOf(accepted))
      BY StillPendingCopies
    <2>3. CASE Departing(e, cmd)
      <3>1. pending' = Append(StillPending, last)
        BY <2>3 DEF PendingAfter, last
      <3>2. pending' \in Seq(PendingOf(accepted)) /\ OneMore(pending', StillPending, e.req)
        BY <2>1, <2>2, <3>1, AppendIsOneMore
      <3> QED
        BY <2>2, <2>3, <3>2, CopiesMore
    <2>4. CASE ~ Departing(e, cmd)
      BY <2>2, <2>4 DEF PendingAfter
    <2> QED
      BY <2>3, <2>4
  <1>7. ASSUME NEW r \in Requests
        PROVE  Copies(readBuf', r) + Copies(writeBuf', r) + Copies(activeBuf', r)
                 + Copies(pending', r) + done'[r] = IF r \in accepted' THEN 1 ELSE 0
    <2> DEFINE R == Copies(readBuf, r)  W == Copies(writeBuf, r)
               A == Copies(activeBuf, r)  P == Copies(pending, r)  D == done[r]
    <2>1. R \in Nat /\ W \in Nat /\ A \in Nat /\ P \in Nat /\ D \in Nat
          /\ R + W + A + P + D = IF r \in accepted THEN 1 ELSE 0
      BY Terms
    <2>2. Copies(readBuf', r) = IF which = "read" /\ cmd # "PRE" /\ e.req = r
                                THEN R - 1 ELSE R
      <3>1. CASE which = "read" /\ cmd # "PRE"
        <4>1. i \in Places(readBuf) /\ e = readBuf[i] /\ OneLess(readBuf', readBuf, i)
          BY <1>9, <3>1 DEF Served, BuffersAfter, QueueAfter
        <4> QED
          BY <1>1, <3>1, <4>1, CopiesLess
      <3>2. CASE ~ (which = "read" /\ cmd # "PRE")
        <4>1. SameRequests(readBuf', readBuf)
          BY <3>2 DEF BuffersAfter, QueueAfter
        <4> QED
          BY <1>1, <3>2, <4>1, CopiesSame
      <3> QED
        BY <3>1, <3>2
    <2>3. Copies(writeBuf', r) = IF which = "write" /\ cmd # "PRE" /\ e.req = r
                                 THEN W - 1 ELSE W
      <3>1. CASE which = "write" /\ cmd # "PRE"
        <4>1. i \in Places(writeBuf) /\ e = writeBuf[i] /\ OneLess(writeBuf', writeBuf, i)
          BY <1>9, <3>1 DEF Served, BuffersAfter, QueueAfter
        <4> QED
          BY <1>1, <3>1, <4>1, CopiesLess
      <3>2. CASE ~ (which = "write" /\ cmd # "PRE")
        <4>1. SameRequests(writeBuf', writeBuf)
          BY <3>2 DEF BuffersAfter, QueueAfter
        <4> QED
          BY <1>1, <3>2, <4>1, CopiesSame
      <3> QED
        BY <3>1, <3>2
    <2>4. Copies(activeBuf', r) =
            IF e.req = r THEN (IF which = "active" /\ cmd # "ACT" THEN A - 1 ELSE
                               IF which # "active" /\ cmd = "ACT" THEN A + 1 ELSE A)
            ELSE A
      <3>1. CASE which = "active"
        <4>1. i \in Places(activeBuf) /\ e = activeBuf[i]
          BY <1>9, <3>1 DEF Served
        <4>2. CASE cmd = "ACT"
          <5>1. PICK mid \in Seq(EntryOf(accepted)) :
                   OneLess(mid, activeBuf, i) /\ OneMore(activeBuf', mid, e.req)
            BY <3>1, <4>2 DEF BuffersAfter, ActiveAfter
          <5>2. Copies(mid, r) = IF e.req = r THEN A - 1 ELSE A
            BY <1>1, <4>1, <5>1, CopiesLess
          <5>3. Copies(activeBuf', r) = IF e.req = r THEN Copies(mid, r) + 1 ELSE Copies(mid, r)
            BY <1>1, <5>1, CopiesMore
          <5> QED
            BY <2>1, <3>1, <4>2, <5>2, <5>3
        <4>3. CASE cmd # "ACT"
          <5>1. OneLess(activeBuf', activeBuf, i)
            BY <3>1, <4>3 DEF BuffersAfter, ActiveAfter
          <5> QED
            BY <1>1, <3>1, <4>1, <4>3, <5>1, CopiesLess
        <4> QED
          BY <4>2, <4>3
      <3>2. CASE which # "active" /\ cmd = "ACT"
        <4>1. OneMore(activeBuf', activeBuf, e.req)
          BY <3>2 DEF BuffersAfter, ActiveAfter
        <4> QED
          BY <1>1, <3>2, <4>1, CopiesMore
      <3>3. CASE which # "active" /\ cmd # "ACT"
        <4>1. SameRequests(activeBuf', activeBuf)
          BY <3>3 DEF BuffersAfter, ActiveAfter
        <4> QED
          BY <1>1, <3>3, <4>1, CopiesSame
      <3> QED
        BY <3>1, <3>2, <3>3
    <2>5. Copies(pending', r) = IF r \in Answered THEN P - 1
                                ELSE IF Departing(e, cmd) /\ e.req = r THEN P + 1 ELSE P
      <3>1. e.req \notin Answered
        BY <1>2, AnsweredIsOutstanding
      <3> QED
        BY <1>6, <3>1, StillPendingCopies
    <2>6. done'[r] = IF r \in S THEN D + 1 ELSE D
      BY <1>4, <1>5
    <2>7. r \in Answered => P = 1 /\ e.req # r
      BY <1>2, AnsweredIsOutstanding
    <2>8. r \in S <=> r \in Answered \/ (cmd = FinalCommand(e.req) /\ e.req.type = "write" /\ e.req = r)
      BY DEF Written
    <2> HIDE DEF R, W, A, P, D, S
    <2>9. CASE e.req # r
      BY <2>1, <2>2, <2>3, <2>4, <2>5, <2>6, <2>8, <2>9
    <2>10. CASE e.req = r
      <3>1. r \notin Answered
        BY <2>7, <2>10
      <3>2. CASE cmd = "PRE"
        <4>1. ~ Departing(e, cmd) /\ cmd # "ACT" /\ cmd # FinalCommand(e.req) /\ which # "active"
          BY <1>9, <1>3, <3>2 DEF Departing
        <4> QED
          BY <2>1, <2>2, <2>3, <2>4, <2>5, <2>6, <2>8, <3>1, <3>2, <4>1
      <3>3. CASE cmd = "ACT"
        <4>1. ~ Departing(e, cmd) /\ cmd # "PRE" /\ cmd # FinalCommand(e.req)
          BY <1>3, <3>3 DEF Departing
        <4>2. Copies(pending', r) = P /\ done'[r] = D
          BY <2>5, <2>6, <2>8, <3>1, <4>1
        <4> QED
          BY <1>9, <2>1, <2>2, <2>3, <2>4, <2>10, <3>3, <4>1, <4>2
      <3>4. CASE cmd = FinalCommand(e.req)
        <4>1. cmd # "PRE" /\ cmd # "ACT" /\ (Departing(e, cmd) <=> e.req.type # "write")
          BY <1>3, <3>4 DEF Departing
        <4>2. Copies(pending', r) + done'[r] = P + D + 1
          BY <2>1, <2>5, <2>6, <2>8, <2>10, <3>1, <3>4, <4>1
        <4>3. Copies(pending', r) \in Int /\ done'[r] \in Int
          BY <2>1, <2>5, <2>6
        <4> QED
          BY <1>9, <2>1, <2>2, <2>3, <2>4, <2>10, <3>4, <4>1, <4>2, <4>3
      <3> QED
        BY <1>9, <3>2, <3>3, <3>4
    <2> QED
      BY <2>9, <2>10
  <1>8. NoRequestLost'
    BY <1>7, NextTerms
  <1> QED
    BY <1>4, <1>5, <1>6, <1>8 DEF NothingLostBut
-----------------------------------------------------------------------------
(***************************************************************************)
(* The plugins in a step.                                                  *)
(***************************************************************************)
\* BanksAreCounted in terms of the state of the plugin, now ...
LEMMA CountedParts ==
  BanksAreCounted <=>
    (scheduler = "ATLAS" =>
       Counted(atlas) /\ \A b \in Banks : dev.row[b] # Closed => atlas.owner[b] # NoSource)
  BY DEF BanksAreCounted, Counted, Owned

\* ... and in the next state.
LEMMA CountedAfter ==
  ASSUME scheduler' = "ATLAS" =>
           /\ Counted(atlas')
           /\ \A b \in Banks : dev'.row[b] # Closed => atlas'.owner[b] # NoSource
  PROVE  BanksAreCounted'
  BY DEF BanksAreCounted, Counted, Owned

\* The plugins in a cycle without a command, ...
LEMMA PluginsAfterNothing ==
  ASSUME IInv, scheduler' = scheduler, dev'.row = dev.row,
         bliss' = IF scheduler = "BLISS" THEN BlissUpdate(bliss, FALSE, NoSource, FALSE)
                  ELSE bliss,
         atlas' = IF scheduler = "ATLAS" THEN AtlasUpdate(atlas, FALSE, "ACT", NoBank, NoSource)
                  ELSE atlas
  PROVE  bliss' \in BlissState /\ atlas' \in AtlasState /\ BanksAreCounted'
  <1>1. bliss \in BlissState /\ atlas \in AtlasState
    BY DEF IInv, Types
  <1>2. bliss' \in BlissState
    BY <1>1, BlissUpdateType
  <1>3. scheduler = "ATLAS" =>
          Counted(atlas) /\ \A b \in Banks : dev.row[b] # Closed => atlas.owner[b] # NoSource
    BY CountedParts DEF IInv
  <1>4. CASE scheduler = "ATLAS"
    <2> DEFINE new == AtlasUpdate(atlas, FALSE, "ACT", NoBank, NoSource)
    <2>2. new \in AtlasState /\ Counted(new) /\ new.owner = atlas.owner
      BY <1>1, <1>3, <1>4, AtlasUpdateNothing
    <2>3. atlas' = new
      BY <1>4
    <2> HIDE DEF new
    <2>4. /\ atlas' \in AtlasState /\ Counted(atlas')
          /\ \A b \in Banks : atlas'.owner[b] = atlas.owner[b]
      BY <2>2, <2>3
    <2> QED
      BY <1>2, <1>3, <1>4, <2>4, CountedAfter
  <1>5. CASE scheduler # "ATLAS"
    BY <1>1, <1>2, <1>5, CountedAfter
  <1> QED
    BY <1>4, <1>5

\* ... and in one with a command, of whichever request.
LEMMA PluginsAfterIssue ==
  ASSUME IInv, scheduler' = scheduler, NEW d, d = Elapse(dev), NEW cmd \in Commands, NEW req,
         cmd \in {"ACT", "PRE"} => req.bank \in Banks /\ req.row \in Rows,
         cmd = "ACT" => req.source \in Sources,
         req.source \in Sources \cup {NoSource}, NEW finishes \in BOOLEAN,
         dev' = IssueCommand(d, cmd, req),
         bliss' = IF scheduler = "BLISS" THEN BlissUpdate(bliss, TRUE, req.source, finishes)
                  ELSE bliss,
         atlas' = IF scheduler = "ATLAS"
                  THEN AtlasUpdate(atlas, TRUE, cmd, req.bank, req.source) ELSE atlas
  PROVE  bliss' \in BlissState /\ atlas' \in AtlasState /\ BanksAreCounted'
  <1>1. bliss \in BlissState /\ atlas \in AtlasState
    BY DEF IInv, Types
  <1>2. bliss' \in BlissState
    BY <1>1, BlissUpdateType
  <1>3. scheduler = "ATLAS" =>
          Counted(atlas) /\ \A b \in Banks : dev.row[b] # Closed => atlas.owner[b] # NoSource
    BY CountedParts DEF IInv
  <1>4. CASE scheduler = "ATLAS"
    <2>1. cmd = "ACT" => req.bank \in Banks /\ req.source \in Sources /\ req.source # NoSource
      BY SchedulerAssumption DEF NoSource
    <2> DEFINE new == AtlasUpdate(atlas, TRUE, cmd, req.bank, req.source)
    <2>6. new \in AtlasState /\ Counted(new)
          /\ OwnersAfter(new, atlas, cmd, req.bank, req.source)
      BY <1>1, <1>3, <1>4, <2>1, AtlasUpdateIssued
    <2>7. atlas' = new
      BY <1>4
    <2> HIDE DEF new
    <2>2. /\ atlas' \in AtlasState /\ Counted(atlas')
          /\ \A b \in Banks :
                atlas'.owner[b] = IF b = req.bank /\ cmd = "ACT" THEN req.source ELSE
                                  IF b = req.bank /\ cmd \in {"PRE", "PREA"} THEN NoSource
                                  ELSE atlas.owner[b]
      BY <2>6, <2>7 DEF OwnersAfter
    <2>3. d \in Device /\ d.row = dev.row
      BY DeviceOfCycle
    <2>4. \A b \in Banks :
             dev'.row[b] = CASE cmd = "ACT" /\ b = req.bank -> req.row
                             [] cmd = "PRE" /\ b = req.bank -> Closed
                             [] cmd = "PREA" -> Closed
                             [] OTHER -> dev.row[b]
      BY <2>3, IssueProperties
    <2>5. ASSUME NEW b \in Banks, dev'.row[b] # Closed
          PROVE  atlas'.owner[b] # NoSource
      <3>1. CASE b = req.bank /\ cmd = "ACT"
        BY <2>1, <2>2, <3>1
      <3>2. CASE ~ (b = req.bank /\ cmd = "ACT")
        <4>1. cmd # "PREA" /\ ~ (cmd = "PRE" /\ b = req.bank)
          BY <2>4, <2>5
        <4>2. dev'.row[b] = dev.row[b]
          BY <2>4, <3>2, <4>1
        <4>3. atlas'.owner[b] = atlas.owner[b]
          BY <2>2, <3>2, <4>1
        <4> QED
          BY <1>3, <1>4, <2>5, <4>2, <4>3
      <3> QED
        BY <3>1, <3>2
    <2> QED
      BY <1>2, <1>4, <2>2, <2>5, CountedAfter
  <1>5. CASE scheduler # "ATLAS"
    BY <1>1, <1>2, <1>5, CountedAfter
  <1> QED
    BY <1>4, <1>5

-----------------------------------------------------------------------------
(***************************************************************************)
(* A tick.                                                                 *)
(***************************************************************************)
\* What one cycle may finish.
FinishStep ==
    \E S \in SUBSET {r \in accepted : done[r] = 0} :
        done' = [r \in Requests |-> IF r \in S THEN 1 ELSE done[r]]

\* What each kind of tick has to show; the clock and the rest are the same.
TickEffect ==
    /\ dev' \in Device
    /\ activeBuf' \in Seq(EntryOf(accepted))
    /\ readBuf' \in Seq(EntryOf(accepted)) /\ writeBuf' \in Seq(EntryOf(accepted))
    /\ priorityBuf' \in Seq({RefreshEntry})
    /\ pending' \in Seq(PendingOf(accepted))
    /\ bliss' \in BlissState /\ atlas' \in AtlasState
    /\ done' \in [Requests -> 0 .. 1]
    /\ DeviceAfter /\ NoRequestLost' /\ BanksAreCounted'
    /\ FinishStep

\* A cycle that issues nothing.
LEMMA NothingEffect ==
  ASSUME IInv, scheduler' = scheduler, accepted' = accepted,
         NEW d, d = Elapse(dev), NEW p, p = Refreshed, IssueNothing(d, p)
  PROVE  TickEffect
  <1>1. /\ Types /\ NoRequestLost
        /\ activeBuf \in Seq(EntryOf(accepted)) /\ readBuf \in Seq(EntryOf(accepted))
        /\ writeBuf \in Seq(EntryOf(accepted))
    BY DEF IInv, Types
  <1>2. /\ dev' = d /\ priorityBuf' = p /\ pending' = StillPending /\ Finished(Answered)
        /\ activeBuf' = Older(activeBuf) /\ readBuf' = Older(readBuf)
        /\ writeBuf' = Older(writeBuf)
    BY DEF IssueNothing
  <1>3. /\ activeBuf' \in Seq(EntryOf(accepted)) /\ SameRequests(activeBuf', activeBuf)
        /\ readBuf' \in Seq(EntryOf(accepted)) /\ SameRequests(readBuf', readBuf)
        /\ writeBuf' \in Seq(EntryOf(accepted)) /\ SameRequests(writeBuf', writeBuf)
    BY <1>1, <1>2, OlderBuffer
  <1>4. dev' \in Device /\ dev'.row = dev.row
    BY <1>2, DeviceOfCycle
  <1>5. priorityBuf' \in Seq({RefreshEntry})
    BY <1>1, <1>2, RefreshedType
  <1>6. bliss' \in BlissState /\ atlas' \in AtlasState /\ BanksAreCounted'
    BY <1>4, PluginsAfterNothing DEF IssueNothing
  <1>7. DeviceAfter
    BY <1>2, <1>3, DeviceAfterNothing
  <1>8. NothingLostBut(Answered)
    BY <1>1, <1>2, <1>3, NothingLostWithout
  <1>9. FinishStep /\ NoRequestLost' /\ pending' \in Seq(PendingOf(accepted))
        /\ done' \in [Requests -> 0 .. 1]
    BY <1>8 DEF FinishStep, NothingLostBut
  <1> QED
    BY <1>3, <1>4, <1>5, <1>6, <1>7, <1>9 DEF TickEffect

\* A cycle that issues a command.
LEMMA IssueEffect ==
  ASSUME IInv, scheduler' = scheduler, accepted' = accepted,
         NEW d, d = Elapse(dev), NEW p, p = Refreshed,
         NEW which, which = ServedBuffer(d, p), NEW i \in FoundRequest(d, which, p),
         Issue(d, p, which, i)
  PROVE  TickEffect
  <1> DEFINE e == Contents(which, p)[i]
             cmd == Command(d, e)
             finishes == cmd = FinalCommand(e.req)
  <1>1. /\ Types /\ NoRequestLost /\ accepted \subseteq Requests
        /\ activeBuf \in Seq(EntryOf(accepted)) /\ readBuf \in Seq(EntryOf(accepted))
        /\ writeBuf \in Seq(EntryOf(accepted))
    BY DEF IInv, Types
  <1>2. \/ which = "active" /\ ForActive(d, i, e, cmd)
        \/ which = "priority" /\ ForRefresh(d, p, i, e, cmd)
        \/ which \in {"read", "write"} /\ ForQueued(d, p, which, i, e, cmd)
    <2> HIDE DEF cmd, e
    <2>1. e = Contents(which, p)[i] /\ cmd = Command(d, e)
      BY DEF cmd, e
    <2> QED
      BY <2>1, IssuedCommand
  <1>3. /\ dev' = IssueCommand(d, cmd, e.req)
        /\ pending' = IF finishes /\ e.req.type = "read"
                      THEN Append(StillPending, [req |-> e.req, depart |-> ReadLatency])
                      ELSE StillPending
        /\ Finished(Answered \cup (IF finishes /\ e.req.type = "write" THEN {e.req} ELSE {}))
        /\ bliss' = IF scheduler = "BLISS"
                    THEN BlissUpdate(bliss, TRUE, e.req.source, finishes) ELSE bliss
        /\ atlas' = IF scheduler = "ATLAS"
                    THEN AtlasUpdate(atlas, TRUE, cmd, e.req.bank, e.req.source)
                    ELSE atlas
    BY DEF Issue
  <1>4. BuffersAfter(p, which, i, e, cmd)
    <2>1. CASE which = "active" /\ ForActive(d, i, e, cmd)
      BY <2>1, BuffersAfterActive
    <2>2. CASE which = "priority" /\ ForRefresh(d, p, i, e, cmd)
      BY <2>2, BuffersAfterRefresh
    <2>3. CASE which \in {"read", "write"} /\ ForQueued(d, p, which, i, e, cmd)
      BY <2>3, BuffersAfterQueued
    <2> QED
      BY <1>2, <2>1, <2>2, <2>3
  <1>5. d \in Device
    BY DeviceOfCycle
  <1>6. finishes \in BOOLEAN
    OBVIOUS
  <1>7. CASE which = "priority" /\ ForRefresh(d, p, i, e, cmd)
    <2>1. /\ cmd \in {"PREA", "REFab"} /\ e = RefreshEntry
          /\ e.req.type = "all-bank-refresh" /\ e.req.source = NoSource
      BY <1>7 DEF ForRefresh, RefreshEntry, RefreshRequest
    <2>2. cmd \in Commands /\ cmd \notin {"ACT", "PRE"}
      BY <2>1 DEF Commands
    <2>3. pending' = StillPending /\ Finished(Answered)
      BY <1>3, <2>1
    <2>4. dev' \in Device
      <3> HIDE DEF e, cmd, finishes
      <3> QED
        BY <1>3, <1>5, <2>2, IssueProperties
    <2>5. bliss' \in BlissState /\ atlas' \in AtlasState /\ BanksAreCounted'
      <3> HIDE DEF e, cmd, finishes
      <3> QED
        BY <1>3, <1>6, <2>1, <2>2, PluginsAfterIssue
    <2>6. DeviceAfter
      <3> HIDE DEF e, cmd, finishes
      <3> QED
        BY <1>3, <1>4, <1>7, DeviceAfterRefresh
    <2>7. /\ activeBuf' \in Seq(EntryOf(accepted)) /\ SameRequests(activeBuf', activeBuf)
          /\ readBuf' \in Seq(EntryOf(accepted)) /\ SameRequests(readBuf', readBuf)
          /\ writeBuf' \in Seq(EntryOf(accepted)) /\ SameRequests(writeBuf', writeBuf)
          /\ priorityBuf' \in Seq({RefreshEntry})
      <3> HIDE DEF e, cmd, finishes
      <3> QED
        BY <1>4, <1>7, <2>2 DEF BuffersAfter, ActiveAfter, QueueAfter
    <2>8. NothingLostBut(Answered)
      BY <1>1, <2>3, <2>7, NothingLostWithout
    <2>9. FinishStep /\ NoRequestLost' /\ pending' \in Seq(PendingOf(accepted))
          /\ done' \in [Requests -> 0 .. 1]
      BY <2>8 DEF FinishStep, NothingLostBut
    <2> QED
      BY <2>4, <2>5, <2>6, <2>7, <2>9 DEF TickEffect
  <1>8. CASE \/ which = "active" /\ ForActive(d, i, e, cmd)
             \/ which \in {"read", "write"} /\ ForQueued(d, p, which, i, e, cmd)
    <2>1. /\ i \in Places(Served(which)) /\ e = Served(which)[i]
          /\ cmd \in {"ACT", "PRE", FinalCommand(e.req)}
          /\ which = "active" => cmd \in {"ACT", FinalCommand(e.req)}
      <3> HIDE DEF e, cmd, finishes
      <3>1. Contents(which, p) = Served(which)
        BY <1>8 DEF Contents, Served
      <3>2. CASE which = "active" /\ ForActive(d, i, e, cmd)
        BY <3>2 DEF ForActive, Served
      <3>3. CASE which \in {"read", "write"} /\ ForQueued(d, p, which, i, e, cmd)
        BY <3>1, <3>3 DEF ForQueued
      <3> QED
        BY <1>2, <1>8, <3>2, <3>3
    <2>2. e \in EntryOf(accepted)
      <3> HIDE DEF e, cmd, finishes
      <3> QED
        BY <1>1, <1>8, <2>1, ServedIsOutstanding
    <2>3. /\ e.req.bank \in Banks /\ e.req.row \in Rows /\ e.req.source \in Sources
          /\ FinalCommand(e.req) \in {"RD", "WR"}
      <3> HIDE DEF e, cmd, finishes
      <3> QED
        BY <1>1, <2>2, AcceptedRequest
    <2>4. cmd \in Commands /\ (which = "active" => cmd # "PRE")
      <3> HIDE DEF e, cmd, finishes
      <3> QED
        BY <2>1, <2>3 DEF Commands
    <2>5. PendingAfter(e, cmd) /\ Finished(Answered \cup Written(e, cmd))
      BY <1>3 DEF PendingAfter, Departing, Written
    <2>6. dev' \in Device
      <3> HIDE DEF e, cmd, finishes
      <3> QED
        BY <1>3, <1>5, <2>3, <2>4, IssueProperties
    <2>7. bliss' \in BlissState /\ atlas' \in AtlasState /\ BanksAreCounted'
      <3> HIDE DEF e, cmd, finishes
      <3> QED
        BY <1>3, <1>6, <2>3, <2>4, PluginsAfterIssue
    <2>8. DeviceAfter
      <3> HIDE DEF e, cmd, finishes
      <3>1. CASE which = "active" /\ ForActive(d, i, e, cmd)
        BY <1>3, <1>4, <3>1, DeviceAfterActive
      <3>2. CASE which \in {"read", "write"} /\ ForQueued(d, p, which, i, e, cmd)
        BY <1>3, <1>4, <2>2, <3>2, DeviceAfterQueued
      <3> QED
        BY <1>2, <1>8, <3>1, <3>2
    <2>9. NothingLostBut(Answered \cup Written(e, cmd))
      <3> HIDE DEF e, cmd, finishes
      <3>1. RequestServed(which, i, e, cmd)
        BY <1>8, <2>1, <2>4 DEF RequestServed
      <3> QED
        BY <1>1, <1>4, <2>5, <3>1, NothingLostRequest
    <2>10. FinishStep /\ NoRequestLost' /\ pending' \in Seq(PendingOf(accepted))
          /\ done' \in [Requests -> 0 .. 1]
      <3> HIDE DEF e, cmd, finishes
      <3> QED
        BY <2>9 DEF FinishStep, NothingLostBut
    <2>11. /\ activeBuf' \in Seq(EntryOf(accepted))
           /\ readBuf' \in Seq(EntryOf(accepted)) /\ writeBuf' \in Seq(EntryOf(accepted))
           /\ priorityBuf' \in Seq({RefreshEntry})
      BY <1>4 DEF BuffersAfter
    <2> QED
      BY <2>6, <2>7, <2>8, <2>10, <2>11 DEF TickEffect
  <1> QED
    <2> HIDE DEF e, cmd, finishes
    <2> QED
      BY <1>2, <1>7, <1>8

\* After each kind of tick the invariant holds again.
LEMMA EffectGivesInvariant ==
  ASSUME IInv, scheduler' = scheduler, accepted' = accepted, TickEffect,
         writeMode' \in BOOLEAN, failed' \in BOOLEAN,
         untilRefresh' \in 1 .. RefreshInterval, arrivals' \in Nat
  PROVE  IInv'
  <1>1. scheduler \in Schedulers /\ accepted \subseteq Requests
    BY DEF IInv, Types
  <1>2. Types'
    BY <1>1 DEF TickEffect, Types, EntryOf, PendingOf
  <1>3. BanksSoonFree(dev)' /\ RowsReturn' /\ ActiveOwnsItsBank'
    BY DeviceAfterGives DEF TickEffect
  <1> QED
    BY <1>2, <1>3 DEF IInv, TickEffect

\* Every tick keeps the invariant and finishes outstanding requests only.
LEMMA TickStep ==
  ASSUME IInv, Tick
  PROVE  IInv' /\ FinishStep /\ accepted' = accepted
  <1>1. scheduler' = scheduler /\ accepted' = accepted
    BY DEF Tick
  <1>2. Types
    BY DEF IInv
  <1>3. untilRefresh' \in 1 .. RefreshInterval /\ arrivals' \in Nat
    <2>1. untilRefresh \in 1 .. RefreshInterval /\ arrivals \in Nat
          /\ RefreshInterval \in Nat \ {0, 1}
      BY <1>2, ControllerAssumption DEF Types
    <2>2. untilRefresh' = IF untilRefresh = 1 THEN RefreshInterval ELSE untilRefresh - 1
      BY DEF Tick, Clock, RefreshDue
    <2>3. arrivals' = arrivals + 1 \/ arrivals' = arrivals
      BY DEF Tick
    <2> QED
      BY <2>1, <2>2, <2>3
  <1>4. CASE NoRoomForRefresh
    <2>1. RefreshThrows
      BY <1>4 DEF Tick
    <2>2. /\ activeBuf' = activeBuf /\ priorityBuf' = priorityBuf
          /\ readBuf' = readBuf /\ writeBuf' = writeBuf
          /\ dev' = dev /\ writeMode' = writeMode /\ bliss' = bliss /\ atlas' = atlas
          /\ failed' = TRUE /\ pending' = StillPending /\ Finished(Answered)
      BY <2>1 DEF RefreshThrows
    <2>3. /\ activeBuf \in Seq(EntryOf(accepted)) /\ readBuf \in Seq(EntryOf(accepted))
          /\ writeBuf \in Seq(EntryOf(accepted))
      BY <1>2 DEF Types
    <2>4. /\ SameRequests(activeBuf', activeBuf) /\ SameRequests(readBuf', readBuf)
          /\ SameRequests(writeBuf', writeBuf)
      BY <2>2 DEF SameRequests
    <2>5. NothingLostBut(Answered)
      BY <1>1, <1>2, <2>2, <2>3, <2>4, NothingLostWithout DEF IInv
    <2>6. Types'
      BY <1>1, <1>2, <1>3, <2>2, <2>5 DEF Types, NothingLostBut, EntryOf, PendingOf
    <2>7. /\ BanksSoonFree(dev)' /\ RowsReturn' /\ ActiveOwnsItsBank'
          /\ BanksAreCounted'
      BY <1>1, <2>2 DEF IInv, BanksSoonFree, RankSoonFree, RefreshWaitsLonger, RowsReturn,
         PrechargeTime, Places, ActiveOwnsItsBank, BanksAreCounted
    <2>8. FinishStep /\ NoRequestLost'
      BY <2>5 DEF FinishStep, NothingLostBut
    <2> QED
      BY <1>1, <2>6, <2>7, <2>8 DEF IInv
  <1>5. CASE ~ NoRoomForRefresh
    <2>1. Serve(Elapse(dev), Refreshed) /\ failed' = failed
      BY <1>5 DEF Tick
    <2>2. PICK d : d = Elapse(dev)
      OBVIOUS
    <2>3. PICK p : p = Refreshed
      OBVIOUS
    <2>4. PICK which : which = ServedBuffer(d, p)
      OBVIOUS
    <2>5. /\ IF FoundRequest(d, which, p) = {} THEN IssueNothing(d, p)
             ELSE \E i \in FoundRequest(d, which, p) : Issue(d, p, which, i)
          /\ writeMode' = IF which \in {"read", "write"} THEN SetWriteMode ELSE writeMode
      BY <2>1, <2>2, <2>3, <2>4 DEF Serve
    <2>6. TickEffect
      <3>1. CASE FoundRequest(d, which, p) = {}
        BY <1>1, <2>2, <2>3, <2>5, <3>1, NothingEffect
      <3>2. CASE FoundRequest(d, which, p) # {}
        <4>1. PICK i \in FoundRequest(d, which, p) : Issue(d, p, which, i)
          BY <2>5, <3>2
        <4> QED
          BY <1>1, <2>2, <2>3, <2>4, <4>1, IssueEffect
      <3> QED
        BY <3>1, <3>2
    <2>7. SetWriteMode \in BOOLEAN
      BY DEF SetWriteMode
    <2>8. writeMode' \in BOOLEAN /\ failed' \in BOOLEAN
      BY <1>2, <2>1, <2>5, <2>7 DEF Types
    <2> QED
      BY <1>1, <1>3, <2>6, <2>8, EffectGivesInvariant DEF TickEffect
  <1> QED
    BY <1>4, <1>5

-----------------------------------------------------------------------------
(***************************************************************************)
(* A request that arrives.                                                 *)
(***************************************************************************)
\* send adds the request to one of its buffers or to pending.
LEMMA SendStep ==
  ASSUME IInv, NEW r \in Requests, Send(r)
  PROVE  IInv' /\ r \notin accepted /\ accepted' = accepted \cup {r} /\ done' = done
  <1>1. /\ Types /\ NoRequestLost
        /\ activeBuf \in Seq(EntryOf(accepted)) /\ readBuf \in Seq(EntryOf(accepted))
        /\ writeBuf \in Seq(EntryOf(accepted)) /\ pending \in Seq(PendingOf(accepted))
        /\ accepted \subseteq Requests
    BY DEF IInv, Types
  <1>2. /\ r \notin accepted /\ accepted' = accepted \cup {r}
        /\ scheduler' = scheduler /\ dev' = dev /\ activeBuf' = activeBuf
        /\ priorityBuf' = priorityBuf /\ writeMode' = writeMode
        /\ untilRefresh' = untilRefresh /\ arrivals' = arrivals /\ bliss' = bliss
        /\ atlas' = atlas /\ failed' = failed /\ done' = done
    BY DEF Send
  <1> DEFINE new == accepted \cup {r}
  <1>3. EntryOf(accepted) \subseteq EntryOf(new) /\ PendingOf(accepted) \subseteq PendingOf(new)
    BY DEF EntryOf, PendingOf
  <1>4. /\ Entry(r) \in EntryOf(new) /\ Entry(r).req = r
        /\ [req |-> r, depart |-> 1] \in PendingOf(new)
    BY <1>1, ControllerAssumption DEF Entry, EntryOf, PendingOf, Types
  <1> HIDE DEF new
  <1>5. /\ activeBuf \in Seq(EntryOf(new)) /\ readBuf \in Seq(EntryOf(new))
        /\ writeBuf \in Seq(EntryOf(new)) /\ pending \in Seq(PendingOf(new))
    BY <1>1, <1>3, SeqMonotonic
  \* It is added to one of the three buffers.
  <1>6. \/ OneMore(pending', pending, r) /\ readBuf' = readBuf /\ writeBuf' = writeBuf
           /\ pending' \in Seq(PendingOf(new))
        \/ OneMore(readBuf', readBuf, r) /\ pending' = pending /\ writeBuf' = writeBuf
           /\ readBuf' \in Seq(EntryOf(new))
        \/ OneMore(writeBuf', writeBuf, r) /\ pending' = pending /\ readBuf' = readBuf
           /\ writeBuf' \in Seq(EntryOf(new))
    <2>1. CASE Forwarded(r)
      <3> DEFINE last == [req |-> r, depart |-> 1]
      <3>1. pending' = Append(pending, last) /\ readBuf' = readBuf /\ writeBuf' = writeBuf
        BY <2>1 DEF Send, Forward
      <3>2. last \in PendingOf(new) /\ last.req = r
        BY <1>4
      <3> HIDE DEF last
      <3> QED
        BY <1>5, <3>1, <3>2, AppendIsOneMore
    <2>2. CASE ~ Forwarded(r) /\ r.type = "read"
      <3>1. readBuf' = Append(readBuf, Entry(r)) /\ pending' = pending /\ writeBuf' = writeBuf
        BY <2>2 DEF Send, Enqueue
      <3> QED
        BY <1>4, <1>5, <3>1, AppendIsOneMore
    <2>3. CASE ~ Forwarded(r) /\ r.type # "read"
      <3>1. writeBuf' = Append(writeBuf, Entry(r)) /\ pending' = pending /\ readBuf' = readBuf
        BY <2>3 DEF Send, Enqueue
      <3> QED
        BY <1>4, <1>5, <3>1, AppendIsOneMore
    <2> QED
      BY <2>1, <2>2, <2>3
  <1>7. /\ readBuf' \in Seq(EntryOf(new)) /\ writeBuf' \in Seq(EntryOf(new))
        /\ pending' \in Seq(PendingOf(new))
    BY <1>5, <1>6
  <1>8. Types'
    <2>1. accepted' = new /\ new \subseteq Requests
      BY <1>1, <1>2 DEF new
    <2> QED
      BY <1>1, <1>2, <1>5, <1>7, <2>1 DEF Types, EntryOf, PendingOf
  <1>9. NoRequestLost'
    <2> SUFFICES ASSUME NEW q \in Requests
                 PROVE  Copies(readBuf', q) + Copies(writeBuf', q) + Copies(activeBuf', q)
                          + Copies(pending', q) + done'[q] = IF q \in accepted' THEN 1 ELSE 0
      BY NextTerms
    <2> DEFINE R == Copies(readBuf, q)  W == Copies(writeBuf, q)
               A == Copies(activeBuf, q)  P == Copies(pending, q)  D == done[q]
    <2>1. R \in Nat /\ W \in Nat /\ A \in Nat /\ P \in Nat /\ D \in Nat
          /\ R + W + A + P + D = IF q \in accepted THEN 1 ELSE 0
      BY <1>1, Terms
    <2>2. Copies(activeBuf', q) = A /\ done'[q] = D
      BY <1>2
    <2>3. \/ /\ Copies(pending', q) = IF r = q THEN P + 1 ELSE P
             /\ Copies(readBuf', q) = R /\ Copies(writeBuf', q) = W
          \/ /\ Copies(readBuf', q) = IF r = q THEN R + 1 ELSE R
             /\ Copies(pending', q) = P /\ Copies(writeBuf', q) = W
          \/ /\ Copies(writeBuf', q) = IF r = q THEN W + 1 ELSE W
             /\ Copies(readBuf', q) = R /\ Copies(pending', q) = P
      BY <1>5, <1>6, CopiesMore
    <2> HIDE DEF R, W, A, P, D
    <2> QED
      BY <1>2, <2>1, <2>2, <2>3
  <1>10. /\ BanksSoonFree(dev)' /\ RowsReturn' /\ ActiveOwnsItsBank'
         /\ BanksAreCounted'
    BY <1>2 DEF IInv, BanksSoonFree, RankSoonFree, RefreshWaitsLonger, RowsReturn,
       PrechargeTime, Places, ActiveOwnsItsBank, BanksAreCounted
  <1> QED
    BY <1>2, <1>8, <1>9, <1>10 DEF IInv

-----------------------------------------------------------------------------
(***************************************************************************)
(* The theorems.                                                           *)
(***************************************************************************)
\* Empty buffers and an idle device.
LEMMA InvInit == Init => IInv
  <1> SUFFICES ASSUME Init PROVE IInv
    OBVIOUS
  <1>1. /\ dev = NewDevice /\ activeBuf = <<>> /\ priorityBuf = <<>> /\ readBuf = <<>>
        /\ writeBuf = <<>> /\ pending = <<>> /\ accepted = {} /\ atlas = AtlasStart
        /\ bliss = BlissStart /\ done = [r \in Requests |-> 0]
    BY DEF Init
  <1>2. Types
    <2>1. dev \in Device
      BY <1>1 DEF NewDevice, Device
    <2>2. bliss \in BlissState
      BY <1>1, SchedulerAssumption DEF BlissStart, BlissState
    <2>3. atlas \in AtlasState
      BY <1>1, SchedulerAssumption DEF AtlasStart, AtlasState
    <2>4. untilRefresh \in 1 .. RefreshInterval
      BY ControllerAssumption DEF Init
    <2> QED
      <3>1. \A S : <<>> \in Seq(S)
        BY EmptySeq
      <3>2. /\ activeBuf \in Seq(EntryOf(accepted)) /\ readBuf \in Seq(EntryOf(accepted))
            /\ writeBuf \in Seq(EntryOf(accepted)) /\ priorityBuf \in Seq({RefreshEntry})
            /\ pending \in Seq(PendingOf(accepted))
        BY <1>1, <3>1
      <3>3. done \in [Requests -> 0 .. 1] /\ accepted \subseteq Requests
        BY <1>1
      <3>4. scheduler \in Schedulers /\ writeMode \in BOOLEAN /\ failed \in BOOLEAN
            /\ arrivals \in Nat
        BY DEF Init
      <3> QED
        BY <2>1, <2>2, <2>3, <2>4, <3>2, <3>3, <3>4 DEF Types
  <1>3. BanksSoonFree(dev)
    <2>1. \A b \in Banks : dev.bank[b]["ACT"] = 0
      BY <1>1 DEF NewDevice, Commands
    <2>2. dev.rank["PREA"] = 0
      BY <1>1 DEF NewDevice, Commands
    <2> QED
      <3>1. 0 <= 0 + PrechargeTime
        BY Tables
      <3> QED
        BY <2>1, <2>2, <3>1 DEF BanksSoonFree
  <1>4. RowsReturn
    BY <1>1 DEF RowsReturn
  <1>5. ActiveOwnsItsBank
    BY <1>1, EmptySeq DEF ActiveOwnsItsBank, Places
  <1>6. NoRequestLost
    <2>1. \A r : Copies(<<>>, r) = 0
      BY EmptySeq, FS_EmptySet DEF Copies, Places
    <2> QED
      BY <1>1, <2>1 DEF NoRequestLost
  <1>7. BanksAreCounted
    <2>1. ASSUME NEW t \in Sources PROVE atlas.count[t] = Cardinality(Owned(atlas, t))
      <3>1. Owned(atlas, t) = {}
        BY <1>1, SchedulerAssumption DEF Owned, AtlasStart, NoSource
      <3> QED
        BY <1>1, <3>1, FS_EmptySet DEF AtlasStart
    <2>2. \A b \in Banks : dev.row[b] = Closed
      BY <1>1 DEF NewDevice
    <2> QED
      BY <2>1, <2>2, CountedParts DEF Counted
  <1> QED
    BY <1>2, <1>3, <1>4, <1>5, <1>6, <1>7 DEF IInv

\* Every step keeps the invariant.
LEMMA InvStep == IInv /\ [Next]_vars => IInv'
  <1> SUFFICES ASSUME IInv, [Next]_vars PROVE IInv'
    OBVIOUS
  <1>1. ASSUME NEW r \in Requests, Send(r) PROVE IInv'
    BY <1>1, SendStep
  <1>2. CASE Tick
    BY <1>2, TickStep
  <1>3. CASE UNCHANGED vars
    BY <1>3 DEF vars, buffers, history, IInv, Types, EntryOf, PendingOf, BanksSoonFree,
       RankSoonFree, RefreshWaitsLonger, RowsReturn, PrechargeTime, Places,
       ActiveOwnsItsBank, BanksAreCounted, NoRequestLost, Copies
  <1> QED
    BY <1>1, <1>2, <1>3 DEF Next

\* The invariant holds in every reachable state.
THEOREM Invariance == Spec => []IInv
  BY InvInit, InvStep, PTL DEF Spec

\* The state of the controller, the device and the plugins has its type; done, too:
\* no request is answered or performed twice.
THEOREM TypeCorrect == Spec => []TypeOK
  <1>1. IInv => TypeOK
    <2> SUFFICES ASSUME Types PROVE TypeOK
      BY DEF IInv
    <2>1. \A buf \in {activeBuf, readBuf, writeBuf} : \A i \in Places(buf) :
             buf[i].req \in accepted /\ buf[i].arrive \in Nat /\ buf[i].age \in Nat
      <3>1. \A buf \in Seq(EntryOf(accepted)) : \A i \in Places(buf) :
               buf[i] \in EntryOf(accepted)
        BY DEF Places
      <3>2. {activeBuf, readBuf, writeBuf} \subseteq Seq(EntryOf(accepted))
        BY DEF Types
      <3> QED
        BY <3>1, <3>2 DEF EntryOf
    <2>2. \A i \in Places(priorityBuf) : priorityBuf[i].req = RefreshRequest
      <3>1. \A i \in Places(priorityBuf) : priorityBuf[i] \in {RefreshEntry}
        BY DEF Types, Places
      <3> QED
        BY <3>1 DEF RefreshEntry
    <2>3. \A i \in Places(pending) :
             pending[i].req \in accepted /\ pending[i].depart \in 0 .. ReadLatency
      <3>1. \A i \in Places(pending) : pending[i] \in PendingOf(accepted)
        BY DEF Types, Places
      <3> QED
        BY <3>1 DEF PendingOf
    <2> QED
      BY <2>1, <2>2, <2>3 DEF TypeOK, Types, Device, BlissState, AtlasState
  <1> QED
    BY <1>1, Invariance, PTL

\* No accepted request is lost or kept twice on its way through the buffers of
\* generic_dram_controller.cpp, refreshes and forwarded reads included.
THEOREM NothingLost == Spec => []NoRequestLost
  <1>1. IInv => NoRequestLost
    BY DEF IInv
  <1> QED
    BY <1>1, Invariance, PTL

\* An active request has its bank for itself until it is served, also when a
\* refresh has closed its row in between.
THEOREM ActiveKeepsBank == Spec => []ActiveOwnsItsBank
  <1>1. IInv => ActiveOwnsItsBank
    BY DEF IInv
  <1> QED
    BY <1>1, Invariance, PTL

\* The bank counters of the ATLAS plugin agree with its table of owners.
THEOREM AtlasCounts == Spec => []BanksAreCounted
  <1>1. IInv => BanksAreCounted
    BY DEF IInv
  <1> QED
    BY <1>1, Invariance, PTL

\* The controller implements the promise of a memory: send accepts a request, a
\* tick finishes requests that are outstanding, and nothing else happens to them.
THEOREM Refinement == Spec => KeepsPromise
  <1>1. Init => Promise!Init
    BY DEF Init, Promise!Init
  <1>2. IInv /\ [Next]_vars => [Promise!Next]_<<accepted, done>>
    <2> SUFFICES ASSUME IInv, [Next]_vars PROVE [Promise!Next]_<<accepted, done>>
      OBVIOUS
    <2>1. ASSUME NEW r \in Requests, Send(r) PROVE Promise!Next
      <3>1. r \notin accepted /\ accepted' = accepted \cup {r} /\ done' = done
        BY <2>1, SendStep
      <3> QED
        BY <3>1 DEF Promise!Next, Promise!Accept
    <2>2. CASE Tick
      <3>1. FinishStep /\ accepted' = accepted
        BY <2>2, TickStep
      <3> QED
        BY <3>1 DEF FinishStep, Promise!Next, Promise!Finish, Promise!Outstanding
    <2>3. CASE UNCHANGED vars
      BY <2>3 DEF vars, history
    <2> QED
      BY <2>1, <2>2, <2>3 DEF Next
  <1> QED
    BY <1>1, <1>2, Invariance, PTL DEF Spec, KeepsPromise, Promise!Spec

-----------------------------------------------------------------------------
(***************************************************************************)
(* How long a refresh waits.  While it does, only requests of the active   *)
(* buffer are served before it, and no new ones become active.  The        *)
(* refresh may close their rows and let them reopen them again and again:  *)
(* after a read, say, a PREA is ready earlier than a write.  But once a    *)
(* row is reopened, all active requests are ready before the next PREA     *)
(* (ReadyByPrea), so between two PREAs one of them is finished.            *)
(***************************************************************************)
\* nRAS, the cycles a row stays open before a PREA.
RowTime == RankLatency["ACT"]["PREA"]

\* In all presets of DDR4.cpp (27-50, 392-427) no command but REFab keeps any other
\* waiting longer than nRAS, but for nRC, which is at most nRAS + nRP.
RowTimings ==
    /\ \A c \in Commands :
          /\ RankLatency[c]["PREA"] <= RowTime
          /\ RankLatency[c]["REFab"] <= RankLatency[c]["PREA"] + PrechargeTime
          /\ \A f \in {"RD", "WR"} :
                RankLatency[c][f] <= RowTime /\ BankLatency[c][f] <= RowTime
    /\ RankLatency["ACT"]["ACT"] <= RowTime
    /\ PrechargeTime <= RowTime

\* Twice the most a refresh can wait: for each number n of active requests, that
\* many ACTs and a last command with nRAS before them, and a PREA with nRP.
MostEffort ==
    2 + 2 * (RowTime + PrechargeTime)
      + (RowTime + 1) * (Cardinality(Banks) * (Cardinality(Banks) + 3))
      + 2 * (PrechargeTime + 1) * (Cardinality(Banks) + 1)

\* The timings leave enough time between two refreshes: 6426 of 9364 cycles for
\* the DDR4_2400R of lab5_config.yaml with 16 banks.
RefreshFits == RowTimings /\ MostEffort <= 2 * (RefreshInterval - 1)

\* The banks of the requests in a buffer.
BanksOf(buf) == {buf[i].req.bank : i \in Places(buf)}
AllClosed(d) == \A b \in Banks : d.row[b] = Closed
OpenIn(d, S) == {b \in S : d.row[b] # Closed}

\* When a PREA is ready, so is whatever the requests of the banks S need next.
ReadyByPrea(d, S) ==
    \A b \in S :
        IF d.row[b] = Closed
        THEN d.rank["ACT"] <= d.rank["PREA"] /\ d.bank[b]["ACT"] <= d.rank["PREA"]
        ELSE \A f \in {"RD", "WR"} :
                d.rank[f] <= d.rank["PREA"] /\ d.bank[b][f] <= d.rank["PREA"]

\* A PREA may come before they are served.
Exposed(d, S) == ~ AllClosed(d) /\ (S # {} => ~ ReadyByPrea(d, S))

\* The cycles until the next command of the refresh is ready.
Wait(d) == IF AllClosed(d) THEN d.rank["REFab"] ELSE d.rank["PREA"]

\* Twice the commands for active requests to come, and the PREAs.
Turns(d, S) ==
    Cardinality(S) * (Cardinality(S) + 3)
      - (IF Exposed(d, S) THEN 0 ELSE 2 * Cardinality(OpenIn(d, S)))
Closings(d, S) == Cardinality(S) + (IF Exposed(d, S) THEN 1 ELSE 0)

\* Twice the cycles until the refresh is issued.
Effort(d, S) ==
    2 + 2 * Wait(d) + (RowTime + 1) * Turns(d, S) + 2 * (PrechargeTime + 1) * Closings(d, S)

TimersBounded(d) ==
    /\ d.rank["PREA"] <= RowTime
    /\ d.rank["REFab"] <= d.rank["PREA"] + PrechargeTime
    /\ \A f \in {"RD", "WR"} :
          d.rank[f] <= RowTime /\ \A b \in Banks : d.bank[b][f] <= RowTime

\* A bank the refresh has closed under its request can soon be opened again.
ReopensSoon(d, S) == \A b \in S : d.row[b] = Closed => d.bank[b]["ACT"] <= RowTime

\* The refresh that waits is issued before the next one is due.
RefreshInTime ==
    /\ ~ failed /\ Len(priorityBuf) <= 1
    /\ TimersBounded(dev)
    /\ ReopensSoon(dev, BanksOf(activeBuf))
    /\ priorityBuf # <<>> => Effort(dev, BanksOf(activeBuf)) <= 2 * (untilRefresh - 1)

-----------------------------------------------------------------------------
(***************************************************************************)
(* Effort.                                                                 *)
(***************************************************************************)
\* What the numbers of an Effort are.
LEMMA EffortTypes ==
  ASSUME NEW d \in Device, NEW S \in SUBSET Banks
  PROVE  /\ RowTime \in Nat /\ PrechargeTime \in Nat /\ Wait(d) \in Nat
         /\ IsFiniteSet(S) /\ Cardinality(S) \in Nat
         /\ Cardinality(S) <= Cardinality(Banks) /\ Cardinality(Banks) \in Nat
         /\ Cardinality(OpenIn(d, S)) \in Nat
         /\ Cardinality(OpenIn(d, S)) <= Cardinality(S)
         /\ Turns(d, S) \in Int /\ Closings(d, S) \in Int
  <1>1. RowTime \in Nat /\ PrechargeTime \in Nat
    BY Tables DEF RowTime, Commands
  <1>2. Wait(d) \in Nat
    BY DEF Wait, Device, Commands
  <1>3. IsFiniteSet(Banks) /\ Cardinality(Banks) \in Nat
    BY ControllerAssumption, FS_CardinalityType
  <1>4. /\ IsFiniteSet(S) /\ Cardinality(S) \in Nat
        /\ Cardinality(S) <= Cardinality(Banks)
    BY <1>3, FS_Subset, FS_CardinalityType
  <1>5. OpenIn(d, S) \subseteq S
    BY DEF OpenIn
  <1>6. /\ Cardinality(OpenIn(d, S)) \in Nat
        /\ Cardinality(OpenIn(d, S)) <= Cardinality(S)
    BY <1>4, <1>5, FS_Subset, FS_CardinalityType
  <1>7. Turns(d, S) \in Int /\ Closings(d, S) \in Int
    <2> DEFINE n == Cardinality(S)  o == Cardinality(OpenIn(d, S))
    <2>1. n \in Nat /\ o \in Nat
      BY <1>4, <1>6
    <2>2. Turns(d, S) = n * (n + 3) - (IF Exposed(d, S) THEN 0 ELSE 2 * o)
          /\ Closings(d, S) = n + (IF Exposed(d, S) THEN 1 ELSE 0)
      BY DEF Turns, Closings
    <2> HIDE DEF n, o
    <2>3. n * (n + 3) \in Int
      BY <2>1
    <2> QED
      BY <2>1, <2>2, <2>3
  <1> QED
    BY <1>1, <1>2, <1>3, <1>4, <1>6, <1>7

\* A product grows with its factor.
LEMMA TimesMonotone ==
  ASSUME NEW a \in Nat, NEW x \in Int, NEW y \in Int, x <= y
  PROVE  a * x <= a * y
  <1>1. a * (y - x) >= 0
    OBVIOUS
  <1> QED
    BY <1>1

\* The three ways in which an effort shrinks: a cycle passes, a command of an
\* active request is issued, or a PREA.
LEMMA LessEffort ==
  ASSUME NEW d \in Device, NEW S \in SUBSET Banks, NEW new \in Device, NEW T \in SUBSET Banks,
         Turns(new, T) <= Turns(d, S), Closings(new, T) <= Closings(d, S),
         \/ Wait(new) + 1 <= Wait(d)
         \/ Wait(new) <= RowTime /\ Turns(new, T) + 2 <= Turns(d, S)
         \/ Wait(new) <= PrechargeTime /\ Closings(new, T) + 1 <= Closings(d, S)
  PROVE  Effort(new, T) + 2 <= Effort(d, S)
  <1> DEFINE a == RowTime  p == PrechargeTime  w == Wait(d)  v == Wait(new)
             t == Turns(d, S)  s == Turns(new, T)  c == Closings(d, S)  k == Closings(new, T)
  <1>1. a \in Nat /\ p \in Nat /\ w \in Nat /\ v \in Nat /\ t \in Int /\ s \in Int
        /\ c \in Int /\ k \in Int
    BY EffortTypes
  <1>2. /\ s <= t /\ k <= c
        /\ v + 1 <= w \/ (v <= a /\ s + 2 <= t) \/ (v <= p /\ k + 1 <= c)
    OBVIOUS
  <1>3. /\ Effort(d, S) = 2 + 2 * w + (a + 1) * t + 2 * (p + 1) * c
        /\ Effort(new, T) = 2 + 2 * v + (a + 1) * s + 2 * (p + 1) * k
    BY DEF Effort
  <1> HIDE DEF a, p, w, v, t, s, c, k
  <1>4. (a + 1) * s <= (a + 1) * t /\ (2 * (p + 1)) * k <= (2 * (p + 1)) * c
    BY <1>1, <1>2, TimesMonotone
  <1>5. CASE v + 1 <= w
    <2> DEFINE x == (a + 1) * s  y == (a + 1) * t  q == (2 * (p + 1)) * k  r == (2 * (p + 1)) * c
    <2>1. x \in Int /\ y \in Int /\ q \in Int /\ r \in Int /\ x <= y /\ q <= r
      BY <1>1, <1>4
    <2> HIDE DEF x, y, q, r
    <2>2. 2 + 2 * v + x + q + 2 <= 2 + 2 * w + y + r
      BY <1>1, <1>5, <2>1
    <2> QED
      BY <1>3, <2>2 DEF x, y, q, r
  <1>6. CASE v <= a /\ s + 2 <= t
    <2>1. (a + 1) * (s + 2) <= (a + 1) * t
      BY <1>1, <1>6, TimesMonotone
    <2>2. (a + 1) * (s + 2) = (a + 1) * s + 2 * a + 2
      BY <1>1
    <2> DEFINE x == (a + 1) * s  y == (a + 1) * t  q == (2 * (p + 1)) * k  r == (2 * (p + 1)) * c
    <2>3. x \in Int /\ y \in Int /\ q \in Int /\ r \in Int /\ x + 2 * a + 2 <= y /\ q <= r
      BY <1>1, <1>4, <2>1, <2>2
    <2> HIDE DEF x, y, q, r
    <2>4. 2 + 2 * v + x + q + 2 <= 2 + 2 * w + y + r
      BY <1>1, <1>6, <2>3
    <2> QED
      BY <1>3, <2>4 DEF x, y, q, r
  <1>7. CASE v <= p /\ k + 1 <= c
    <2>1. (2 * (p + 1)) * (k + 1) <= (2 * (p + 1)) * c
      BY <1>1, <1>7, TimesMonotone
    <2>2. (2 * (p + 1)) * (k + 1) = (2 * (p + 1)) * k + 2 * p + 2
      BY <1>1
    <2> DEFINE x == (a + 1) * s  y == (a + 1) * t  q == (2 * (p + 1)) * k  r == (2 * (p + 1)) * c
    <2>3. x \in Int /\ y \in Int /\ q \in Int /\ r \in Int /\ q + 2 * p + 2 <= r /\ x <= y
      BY <1>1, <1>4, <2>1, <2>2
    <2> HIDE DEF x, y, q, r
    <2>4. 2 + 2 * v + x + q + 2 <= 2 + 2 * w + y + r
      BY <1>1, <1>7, <2>3
    <2> QED
      BY <1>3, <2>4 DEF x, y, q, r
  <1> QED
    BY <1>2, <1>5, <1>6, <1>7

\* No effort is more than MostEffort.
LEMMA EffortBound ==
  ASSUME NEW d \in Device, NEW S \in SUBSET Banks, TimersBounded(d)
  PROVE  Effort(d, S) <= MostEffort
  <1> DEFINE a == RowTime  p == PrechargeTime  w == Wait(d)  n == Cardinality(S)
             t == Turns(d, S)  c == Closings(d, S)  m == Cardinality(Banks)
             o == Cardinality(OpenIn(d, S))
  <1>1. a \in Nat /\ p \in Nat /\ w \in Nat /\ t \in Int /\ c \in Int
        /\ m \in Nat /\ n \in Nat /\ n <= m /\ o \in Nat
    BY EffortTypes
  <1>2. w <= a + p
    <2>1. /\ d.rank["PREA"] \in Nat /\ d.rank["REFab"] \in Nat
          /\ d.rank["PREA"] <= a /\ d.rank["REFab"] <= d.rank["PREA"] + p
      BY DEF TimersBounded, Device, Commands
    <2>2. w \in {d.rank["PREA"], d.rank["REFab"]}
      BY DEF Wait
    <2> HIDE DEF a, p, w
    <2> QED
      BY <1>1, <2>1, <2>2
  <1>3. c <= m + 1 /\ t <= n * (n + 3)
    <2>1. /\ t = n * (n + 3) - (IF Exposed(d, S) THEN 0 ELSE 2 * o)
          /\ c = n + (IF Exposed(d, S) THEN 1 ELSE 0)
      BY DEF Turns, Closings
    <2> HIDE DEF a, p, w, n, t, c, m, o
    <2>2. n * (n + 3) \in Int
      BY <1>1
    <2> QED
      BY <1>1, <2>1, <2>2
  <1>4. /\ Effort(d, S) = 2 + 2 * w + (a + 1) * t + 2 * (p + 1) * c
        /\ MostEffort = 2 + 2 * (a + p) + (a + 1) * (m * (m + 3)) + 2 * (p + 1) * (m + 1)
    BY DEF Effort, MostEffort
  <1> HIDE DEF a, p, w, n, t, c, m, o
  <1>5. n * (n + 3) <= m * (m + 3)
    <2>1. n * (n + 3) <= n * (m + 3)
      BY <1>1, TimesMonotone
    <2>2. (m + 3) * n <= (m + 3) * m
      BY <1>1, TimesMonotone
    <2>3. n * (m + 3) = (m + 3) * n /\ (m + 3) * m = m * (m + 3)
      BY <1>1
    <2> DEFINE x == n * (n + 3)  y == n * (m + 3)  z == m * (m + 3)
    <2>4. x \in Int /\ y \in Int /\ z \in Int /\ x <= y /\ y <= z
      BY <1>1, <2>1, <2>2, <2>3
    <2> HIDE DEF x, y, z
    <2>5. x <= z
      BY <2>4
    <2> QED
      BY <2>5 DEF x, z
  <1> DEFINE q == m * (m + 3)
  <1>6. q \in Int /\ t <= q
    <2> DEFINE x == n * (n + 3)
    <2>1. x \in Int /\ q \in Int /\ t <= x /\ x <= q
      BY <1>1, <1>3, <1>5
    <2> HIDE DEF x, q
    <2> QED
      BY <1>1, <2>1
  <1> HIDE DEF q
  <1>7. (a + 1) * t <= (a + 1) * q /\ (2 * (p + 1)) * c <= (2 * (p + 1)) * (m + 1)
    BY <1>1, <1>3, <1>6, TimesMonotone
  <1> DEFINE x == (a + 1) * t  y == (a + 1) * q  u == (2 * (p + 1)) * c
             v == (2 * (p + 1)) * (m + 1)
  <1>8. x \in Int /\ y \in Int /\ u \in Int /\ v \in Int /\ x <= y /\ u <= v
    BY <1>1, <1>6, <1>7
  <1> HIDE DEF x, y, u, v
  <1>9. 2 + 2 * w + x + u <= 2 + 2 * (a + p) + y + v
    BY <1>1, <1>2, <1>8
  <1> QED
    BY <1>4, <1>9 DEF x, y, u, v, q

\* A cycle that passes.
LEMMA ElapseInTime ==
  ASSUME NEW d \in Device, NEW S \in SUBSET Banks, NEW new, new = Elapse(d)
  PROVE  /\ new \in Device
         /\ RowTimings /\ TimersBounded(d) => TimersBounded(new)
         /\ RowTimings /\ ReopensSoon(d, S) => ReopensSoon(new, S)
         /\ Wait(new) = Less(Wait(d))
         /\ Exposed(new, S) => Exposed(d, S)
         /\ OpenIn(new, S) = OpenIn(d, S)
         /\ Turns(new, S) <= Turns(d, S) /\ Closings(new, S) <= Closings(d, S)
  <1>1. /\ {"ACT", "PREA", "RD", "WR", "REFab"} \subseteq Commands
        /\ \A c \in Commands : d.rank[c] \in Nat
        /\ \A b \in Banks, c \in Commands : d.bank[b][c] \in Nat
    BY DEF Device, Commands
  <1>2. \A m, n, q \in Nat : /\ m <= n + q => Less(m) <= Less(n) + q
                             /\ m <= n => Less(m) <= Less(n) /\ Less(m) <= n
    BY DEF Less
  <1>3. new.row = d.row /\ new \in Device
    BY ElapseProperties
  <1>4. /\ \A c \in Commands : new.rank[c] = Less(d.rank[c])
        /\ \A b \in Banks, c \in Commands : new.bank[b][c] = Less(d.bank[b][c])
    BY ElapseProperties
  <1>5. RowTime \in Nat /\ PrechargeTime \in Nat
    BY EffortTypes
  <1>6. RowTimings /\ TimersBounded(d) => TimersBounded(new)
    <2> SUFFICES ASSUME TimersBounded(d) PROVE TimersBounded(new)
      OBVIOUS
    <2>1. /\ d.rank["PREA"] <= RowTime /\ d.rank["REFab"] <= d.rank["PREA"] + PrechargeTime
          /\ \A f \in {"RD", "WR"} : d.rank[f] <= RowTime /\ \A b \in Banks : d.bank[b][f] <= RowTime
      BY DEF TimersBounded
    <2>2. /\ new.rank["PREA"] <= RowTime
          /\ new.rank["REFab"] <= new.rank["PREA"] + PrechargeTime
      BY <1>1, <1>2, <1>4, <1>5, <2>1
    <2>3. ASSUME NEW f \in {"RD", "WR"} PROVE new.rank[f] <= RowTime
      BY <1>1, <1>2, <1>4, <1>5, <2>1
    <2>4. ASSUME NEW f \in {"RD", "WR"}, NEW b \in Banks PROVE new.bank[b][f] <= RowTime
      BY <1>1, <1>2, <1>4, <1>5, <2>1
    <2> QED
      BY <2>2, <2>3, <2>4 DEF TimersBounded
  <1>7. RowTimings /\ ReopensSoon(d, S) => ReopensSoon(new, S)
    <2> SUFFICES ASSUME ReopensSoon(d, S), NEW b \in S, new.row[b] = Closed
                 PROVE  new.bank[b]["ACT"] <= RowTime
      BY DEF ReopensSoon
    <2>1. b \in Banks /\ d.bank[b]["ACT"] <= RowTime
      BY <1>3 DEF ReopensSoon
    <2> QED
      BY <1>1, <1>2, <1>4, <1>5, <2>1
  <1>8. Wait(new) = Less(Wait(d))
    BY <1>1, <1>3, <1>4 DEF Wait, AllClosed
  <1>9. ReadyByPrea(d, S) => ReadyByPrea(new, S)
    <2> SUFFICES ASSUME ReadyByPrea(d, S), NEW b \in S
                 PROVE  IF new.row[b] = Closed
                        THEN new.rank["ACT"] <= new.rank["PREA"] /\ new.bank[b]["ACT"] <= new.rank["PREA"]
                        ELSE \A f \in {"RD", "WR"} :
                                new.rank[f] <= new.rank["PREA"] /\ new.bank[b][f] <= new.rank["PREA"]
      BY DEF ReadyByPrea
    <2>1. b \in Banks
      OBVIOUS
    <2>2. CASE d.row[b] = Closed
      <3>1. d.rank["ACT"] <= d.rank["PREA"] /\ d.bank[b]["ACT"] <= d.rank["PREA"]
        BY <2>2 DEF ReadyByPrea
      <3> QED
        BY <1>1, <1>2, <1>3, <1>4, <2>1, <2>2, <3>1
    <2>3. CASE d.row[b] # Closed
      <3>1. ASSUME NEW f \in {"RD", "WR"}
            PROVE  new.rank[f] <= new.rank["PREA"] /\ new.bank[b][f] <= new.rank["PREA"]
        <4>1. d.rank[f] <= d.rank["PREA"] /\ d.bank[b][f] <= d.rank["PREA"]
          BY <2>3 DEF ReadyByPrea
        <4> QED
          BY <1>1, <1>2, <1>4, <2>1, <4>1
      <3> QED
        BY <1>3, <2>3, <3>1
    <2> QED
      BY <2>2, <2>3
  <1>10. Exposed(new, S) => Exposed(d, S)
    BY <1>3, <1>9 DEF Exposed, AllClosed
  <1>11. OpenIn(new, S) = OpenIn(d, S)
    BY <1>3 DEF OpenIn
  <1>12. Turns(new, S) <= Turns(d, S) /\ Closings(new, S) <= Closings(d, S)
    <2> DEFINE n == Cardinality(S)  o == Cardinality(OpenIn(d, S))  q == n * (n + 3)
               t == Turns(d, S)  s == Turns(new, S)  c == Closings(d, S)  k == Closings(new, S)
    <2>1. n \in Nat /\ o \in Nat
      BY EffortTypes
    <2>2. q \in Int
      <3> HIDE DEF n
      <3> QED
        BY <2>1
    <2>3. /\ t = q - (IF Exposed(d, S) THEN 0 ELSE 2 * o)
          /\ s = q - (IF Exposed(new, S) THEN 0 ELSE 2 * o)
          /\ c = n + (IF Exposed(d, S) THEN 1 ELSE 0)
          /\ k = n + (IF Exposed(new, S) THEN 1 ELSE 0)
      BY <1>11 DEF Turns, Closings
    <2> HIDE DEF n, o, q, t, s, c, k
    <2>4. s <= t /\ k <= c
      BY <1>10, <2>1, <2>2, <2>3
    <2> QED
      BY <2>4 DEF t, s, c, k
  <1> QED
    BY <1>3, <1>6, <1>7, <1>8, <1>10, <1>11, <1>12

\* Every command keeps the bounds of the timers.
LEMMA IssueBounded ==
  ASSUME RowTimings, NEW d \in Device, TimersBounded(d), NEW cmd \in Commands, NEW req,
         cmd \in {"ACT", "PRE"} => req.bank \in Banks /\ req.row \in Rows,
         NEW new, new = IssueCommand(d, cmd, req)
  PROVE  /\ new \in Device /\ TimersBounded(new)
  <1>1. /\ {"ACT", "PREA", "RD", "WR", "REFab"} \subseteq Commands
        /\ \A c \in Commands : d.rank[c] \in Nat
        /\ \A b \in Banks, c \in Commands : d.bank[b][c] \in Nat
    BY DEF Device, Commands
  <1>2. /\ new \in Device
        /\ \A c \in Commands : new.rank[c] = Later(d.rank[c], RankLatency[cmd][c])
        /\ \A b \in Banks, c \in Commands :
              new.bank[b][c] = IF b = req.bank
                               THEN Later(d.bank[b][c], BankLatency[cmd][c])
                               ELSE d.bank[b][c]
    BY IssueProperties
  <1>3. \A c \in Commands : RankLatency[cmd][c] \in Nat /\ BankLatency[cmd][c] \in Nat
    BY Tables
  <1>4. RowTime \in Nat /\ PrechargeTime \in Nat
    BY EffortTypes
  <1>5. /\ RankLatency[cmd]["PREA"] <= RowTime
        /\ RankLatency[cmd]["REFab"] <= RankLatency[cmd]["PREA"] + PrechargeTime
        /\ \A f \in {"RD", "WR"} : RankLatency[cmd][f] <= RowTime /\ BankLatency[cmd][f] <= RowTime
    BY DEF RowTimings
  <1>6. /\ d.rank["PREA"] <= RowTime /\ d.rank["REFab"] <= d.rank["PREA"] + PrechargeTime
        /\ \A f \in {"RD", "WR"} : d.rank[f] <= RowTime /\ \A b \in Banks : d.bank[b][f] <= RowTime
    BY DEF TimersBounded
  <1>7. \A m, n, q \in Nat : m <= q /\ n <= q => Later(m, n) <= q
    BY DEF Later
  <1>8. \A k, l, m, n, q \in Nat :
           m <= n + q /\ k <= l + q => Later(m, k) <= Later(n, l) + q
    BY DEF Later
  <1>9. /\ new.rank["PREA"] <= RowTime
        /\ new.rank["REFab"] <= new.rank["PREA"] + PrechargeTime
    <2>1. /\ d.rank["PREA"] \in Nat /\ d.rank["REFab"] \in Nat
          /\ RankLatency[cmd]["PREA"] \in Nat /\ RankLatency[cmd]["REFab"] \in Nat
      BY <1>1, <1>3
    <2>2. /\ new.rank["PREA"] = Later(d.rank["PREA"], RankLatency[cmd]["PREA"])
          /\ new.rank["REFab"] = Later(d.rank["REFab"], RankLatency[cmd]["REFab"])
      BY <1>1, <1>2
    <2>3. Later(d.rank["PREA"], RankLatency[cmd]["PREA"]) <= RowTime
      BY <1>4, <1>5, <1>6, <1>7, <2>1
    <2>4. Later(d.rank["REFab"], RankLatency[cmd]["REFab"])
            <= Later(d.rank["PREA"], RankLatency[cmd]["PREA"]) + PrechargeTime
      BY <1>4, <1>5, <1>6, <1>8, <2>1
    <2> QED
      BY <2>2, <2>3, <2>4
  <1>10. ASSUME NEW f \in {"RD", "WR"} PROVE new.rank[f] <= RowTime
    BY <1>1, <1>2, <1>3, <1>4, <1>5, <1>6, <1>7
  <1>11. ASSUME NEW f \in {"RD", "WR"}, NEW b \in Banks PROVE new.bank[b][f] <= RowTime
    <2>1. /\ d.bank[b][f] \in Nat /\ BankLatency[cmd][f] \in Nat
          /\ d.bank[b][f] <= RowTime /\ BankLatency[cmd][f] <= RowTime
      BY <1>1, <1>3, <1>5, <1>6
    <2>2. new.bank[b][f] = Later(d.bank[b][f], BankLatency[cmd][f]) \/ new.bank[b][f] = d.bank[b][f]
      BY <1>1, <1>2
    <2> QED
      BY <1>4, <1>7, <2>1, <2>2
  <1> QED
    BY <1>2, <1>9, <1>10, <1>11 DEF TimersBounded

\* A cycle without a command, in which the refresh is not ready.
LEMMA IdleEffort ==
  ASSUME NEW d \in Device, NEW S \in SUBSET Banks, NEW new, new = Elapse(d), Wait(new) # 0
  PROVE  Effort(new, S) + 2 <= Effort(d, S)
  <1>1. /\ new \in Device /\ Wait(new) = Less(Wait(d))
        /\ Turns(new, S) <= Turns(d, S) /\ Closings(new, S) <= Closings(d, S)
    BY ElapseInTime
  <1>2. Wait(d) \in Nat
    BY EffortTypes
  <1>3. Wait(new) + 1 <= Wait(d)
    BY <1>1, <1>2 DEF Less
  <1> QED
    BY <1>1, <1>3, LessEffort

\* A cycle with a command of an active request, or a PREA.
LEMMA CycleEffort ==
  ASSUME NEW d \in Device, NEW S \in SUBSET Banks, NEW mid, mid = Elapse(d),
         NEW new \in Device, NEW T \in SUBSET Banks,
         \/ /\ Wait(new) <= RowTime
            /\ Turns(new, T) + 2 <= Turns(mid, S) /\ Closings(new, T) <= Closings(mid, S)
         \/ /\ Wait(new) <= PrechargeTime
            /\ Turns(new, T) <= Turns(mid, S) /\ Closings(new, T) + 1 <= Closings(mid, S)
  PROVE  Effort(new, T) + 2 <= Effort(d, S)
  <1>1. /\ mid \in Device
        /\ Turns(mid, S) <= Turns(d, S) /\ Closings(mid, S) <= Closings(d, S)
    BY ElapseInTime
  <1>2. /\ Turns(mid, S) \in Int /\ Turns(d, S) \in Int /\ Turns(new, T) \in Int
        /\ Closings(mid, S) \in Int /\ Closings(d, S) \in Int /\ Closings(new, T) \in Int
    BY <1>1, EffortTypes
  <1>3. /\ Turns(new, T) <= Turns(d, S) /\ Closings(new, T) <= Closings(d, S)
        /\ \/ Wait(new) <= RowTime /\ Turns(new, T) + 2 <= Turns(d, S)
           \/ Wait(new) <= PrechargeTime /\ Closings(new, T) + 1 <= Closings(d, S)
    BY <1>1, <1>2
  <1> QED
    BY <1>3, LessEffort

\* An ACT for an active request: afterwards no PREA comes before one of them has
\* been served.
LEMMA ReopenEffort ==
  ASSUME RowTimings, NEW d \in Device, TimersBounded(d), NEW S \in SUBSET Banks,
         ReopensSoon(d, S), NEW req, req.bank \in S, req.row \in Rows,
         d.row[req.bank] = Closed, d.rank["ACT"] = 0,
         NEW new, new = IssueCommand(d, "ACT", req)
  PROVE  /\ Wait(new) <= RowTime
         /\ Turns(new, S) + 2 <= Turns(d, S) /\ Closings(new, S) <= Closings(d, S)
         /\ ReopensSoon(new, S)
  <1> DEFINE b == req.bank
  <1>1. /\ {"ACT", "PREA", "RD", "WR", "REFab"} \subseteq Commands
        /\ \A c \in Commands : d.rank[c] \in Nat
    BY DEF Device, Commands
  <1>2. b \in Banks /\ req.row # Closed
    BY Tables
  <1>3. /\ new \in Device
        /\ \A c \in Commands : new.rank[c] = Later(d.rank[c], RankLatency["ACT"][c])
        /\ \A a \in Banks, c \in Commands :
              new.bank[a][c] = IF a = b THEN Later(d.bank[a][c], BankLatency["ACT"][c])
                               ELSE d.bank[a][c]
        /\ \A a \in Banks : new.row[a] = IF a = b THEN req.row ELSE d.row[a]
    <2>1. "ACT" \in Commands
      BY <1>1
    <2>2. \A a \in Banks :
             new.row[a] = CASE "ACT" = "ACT" /\ a = req.bank -> req.row
                            [] "ACT" = "PRE" /\ a = req.bank -> Closed
                            [] "ACT" = "PREA" -> Closed
                            [] OTHER -> d.row[a]
      BY <1>2, <2>1, IssueProperties
    <2>3. \A a \in Banks : new.row[a] = IF a = b THEN req.row ELSE d.row[a]
      BY <2>2
    <2> QED
      BY <1>2, <2>1, <2>3, IssueProperties
  <1>4. RowTime \in Nat /\ TimersBounded(new)
    BY <1>1, <1>2, EffortTypes, IssueBounded
  <1>5. new.rank["PREA"] = RowTime
    <2>1. new.rank["PREA"] = Later(d.rank["PREA"], RowTime)
      BY <1>1, <1>3 DEF RowTime
    <2>2. d.rank["PREA"] \in Nat /\ d.rank["PREA"] <= RowTime
      BY <1>1 DEF TimersBounded
    <2> QED
      BY <1>4, <2>1, <2>2 DEF Later
  <1>6. ~ AllClosed(new) /\ Wait(new) = RowTime
    BY <1>2, <1>3, <1>5 DEF AllClosed, Wait
  <1>7. new.rank["ACT"] <= RowTime
    <2>1. new.rank["ACT"] = Later(0, RankLatency["ACT"]["ACT"])
      BY <1>1, <1>3
    <2>2. RankLatency["ACT"]["ACT"] <= RowTime /\ RankLatency["ACT"]["ACT"] \in Nat
      BY <1>1, Tables DEF RowTimings
    <2> QED
      BY <1>4, <2>1, <2>2 DEF Later
  <1>8. ReopensSoon(new, S)
    <2> SUFFICES ASSUME NEW a \in S, new.row[a] = Closed PROVE new.bank[a]["ACT"] <= RowTime
      BY DEF ReopensSoon
    <2>1. a \in Banks /\ a # b /\ d.row[a] = Closed
      BY <1>2, <1>3
    <2>2. new.bank[a]["ACT"] = d.bank[a]["ACT"]
      BY <1>1, <1>3, <2>1
    <2> QED
      BY <2>1, <2>2 DEF ReopensSoon
  <1>9. ReadyByPrea(new, S)
    BY <1>4, <1>5, <1>7, <1>8 DEF ReadyByPrea, ReopensSoon, TimersBounded
  <1>10. ~ Exposed(new, S)
    BY <1>9 DEF Exposed
  <1>11. OpenIn(new, S) = OpenIn(d, S) \cup {b} /\ b \notin OpenIn(d, S)
    <2>1. \A a \in S : new.row[a] # Closed <=> d.row[a] # Closed \/ a = b
      BY <1>2, <1>3
    <2> QED
      BY <2>1 DEF OpenIn
  <1>12. Cardinality(OpenIn(new, S)) = Cardinality(OpenIn(d, S)) + 1
    <2>1. IsFiniteSet(S)
      BY EffortTypes
    <2>2. OpenIn(d, S) \subseteq S
      BY DEF OpenIn
    <2>3. IsFiniteSet(OpenIn(d, S))
      BY <2>1, <2>2, FS_Subset
    <2> QED
      BY <1>11, <2>3, FS_AddElement
  <1>13. Turns(new, S) + 2 <= Turns(d, S) /\ Closings(new, S) <= Closings(d, S)
    <2> DEFINE n == Cardinality(S)  o == Cardinality(OpenIn(d, S))  q == n * (n + 3)
               t == Turns(d, S)  s == Turns(new, S)  c == Closings(d, S)  k == Closings(new, S)
    <2>1. n \in Nat /\ o \in Nat
      BY EffortTypes
    <2>2. q \in Int
      <3> HIDE DEF n
      <3> QED
        BY <2>1
    <2>3. /\ t = q - (IF Exposed(d, S) THEN 0 ELSE 2 * o)
          /\ s = q - 2 * (o + 1)
          /\ c = n + (IF Exposed(d, S) THEN 1 ELSE 0)
          /\ k = n + 0
      BY <1>10, <1>12, Zenon DEF Turns, Closings
    <2> HIDE DEF n, o, q, t, s, c, k
    <2>4. s + 2 <= t /\ k <= c
      BY <2>1, <2>2, <2>3
    <2> QED
      BY <2>4 DEF t, s, c, k
  <1>14. Wait(new) <= RowTime
    BY <1>4, <1>6
  <1> QED
    BY <1>8, <1>13, <1>14

\* The last command of an active request.
LEMMA ServeEffort ==
  ASSUME RowTimings, NEW d \in Device, TimersBounded(d), NEW S \in SUBSET Banks,
         ReopensSoon(d, S), NEW req, req.bank \in S, req.row \in Rows,
         d.row[req.bank] # Closed, NEW cmd \in {"RD", "WR"},
         NEW new, new = IssueCommand(d, cmd, req), NEW T, T = S \ {req.bank}
  PROVE  /\ Wait(new) <= RowTime
         /\ Turns(new, T) + 2 <= Turns(d, S) /\ Closings(new, T) <= Closings(d, S)
         /\ ReopensSoon(new, T)
  <1> DEFINE b == req.bank
  <1>1. "ACT" \in Commands /\ cmd \in Commands /\ cmd \notin {"ACT", "PRE", "PREA"}
    BY DEF Commands
  <1>2. b \in Banks /\ T \in SUBSET Banks
    OBVIOUS
  <1>3. /\ new \in Device
        /\ \A a \in Banks : a # b => new.bank[a]["ACT"] = d.bank[a]["ACT"]
        /\ \A a \in Banks : new.row[a] = d.row[a]
    <2>1. \A a \in Banks :
             new.row[a] = CASE cmd = "ACT" /\ a = req.bank -> req.row
                            [] cmd = "PRE" /\ a = req.bank -> Closed
                            [] cmd = "PREA" -> Closed
                            [] OTHER -> d.row[a]
      BY <1>1, IssueProperties
    <2>2. \A a \in Banks : new.row[a] = d.row[a]
      BY <1>1, <2>1
    <2>3. \A a \in Banks, c \in Commands :
              new.bank[a][c] = IF a = req.bank THEN Later(d.bank[a][c], BankLatency[cmd][c])
                               ELSE d.bank[a][c]
      BY <1>1, IssueProperties
    <2>4. new \in Device
      BY <1>1, IssueProperties
    <2> QED
      BY <1>1, <2>2, <2>3, <2>4
  <1>4. TimersBounded(new)
    BY <1>1, IssueBounded
  <1>5. Wait(new) <= RowTime
    BY <1>2, <1>3, <1>4 DEF Wait, AllClosed, TimersBounded
  <1>6. ReopensSoon(new, T)
    BY <1>2, <1>3 DEF ReopensSoon
  <1>7. IsFiniteSet(S) /\ Cardinality(T) = Cardinality(S) - 1
    <2>1. IsFiniteSet(S)
      BY EffortTypes
    <2> QED
      BY <2>1, FS_RemoveElement
  <1>8. Turns(new, T) + 2 <= Turns(d, S) /\ Closings(new, T) <= Closings(d, S)
    <2> DEFINE n == Cardinality(S)  o == Cardinality(OpenIn(d, S))  u == Cardinality(OpenIn(new, T))
               t == Turns(d, S)  s == Turns(new, T)  c == Closings(d, S)  k == Closings(new, T)
               q == n * (n + 3)
    <2>1. n \in Nat /\ o \in Nat /\ o <= n /\ u \in Nat /\ n - 1 \in Nat
      BY <1>2, <1>3, <1>7, EffortTypes
    <2>2. /\ t = n * (n + 3) - (IF Exposed(d, S) THEN 0 ELSE 2 * o)
          /\ s = (n - 1) * ((n - 1) + 3) - (IF Exposed(new, T) THEN 0 ELSE 2 * u)
          /\ c = n + (IF Exposed(d, S) THEN 1 ELSE 0)
          /\ k = (n - 1) + (IF Exposed(new, T) THEN 1 ELSE 0)
      BY <1>7 DEF Turns, Closings
    <2> HIDE DEF n, o, u, t, s, c, k
    <2>3. (n - 1) * ((n - 1) + 3) = n * (n + 3) - 2 * n - 2
      BY <2>1
    <2>4. q \in Int
      BY <2>1
    <2>5. /\ t = q - (IF Exposed(d, S) THEN 0 ELSE 2 * o)
          /\ s = (q - 2 * n - 2) - (IF Exposed(new, T) THEN 0 ELSE 2 * u)
      BY <2>2, <2>3
    <2> HIDE DEF q
    <2>6. s + 2 <= t
      BY <2>1, <2>4, <2>5
    <2>7. k <= c
      BY <2>1, <2>2
    <2> QED
      BY <2>6, <2>7 DEF t, s, c, k
  <1> QED
    BY <1>5, <1>6, <1>8

\* A PREA, which comes only while active requests are exposed to it.
LEMMA CloseEffort ==
  ASSUME RowTimings, NEW d \in Device, TimersBounded(d), BanksSoonFree(d),
         NEW S \in SUBSET Banks, Exposed(d, S), d.rank["PREA"] = 0,
         NEW req, req.bank = NoBank, NEW new, new = IssueCommand(d, "PREA", req)
  PROVE  /\ Wait(new) <= PrechargeTime
         /\ Turns(new, S) <= Turns(d, S) /\ Closings(new, S) + 1 <= Closings(d, S)
         /\ ReopensSoon(new, S)
  <1>1. {"ACT", "PREA", "REFab"} \subseteq Commands
    BY DEF Commands
  <1>2. /\ new \in Device
        /\ \A c \in Commands : new.rank[c] = Later(d.rank[c], RankLatency["PREA"][c])
        /\ \A a \in Banks : new.bank[a]["ACT"] = d.bank[a]["ACT"]
        /\ \A a \in Banks : new.row[a] = Closed
    <2>1. "PREA" \in Commands
      BY <1>1
    <2>2. \A a \in Banks :
             new.row[a] = CASE "PREA" = "ACT" /\ a = req.bank -> req.row
                            [] "PREA" = "PRE" /\ a = req.bank -> Closed
                            [] "PREA" = "PREA" -> Closed
                            [] OTHER -> d.row[a]
      BY <2>1, IssueProperties
    <2>3. \A a \in Banks, c \in Commands :
              new.bank[a][c] = IF a = req.bank THEN Later(d.bank[a][c], BankLatency["PREA"][c])
                               ELSE d.bank[a][c]
      BY <2>1, IssueProperties
    <2>4. /\ new \in Device
          /\ \A c \in Commands : new.rank[c] = Later(d.rank[c], RankLatency["PREA"][c])
      BY <2>1, IssueProperties
    <2> QED
      BY <1>1, <2>2, <2>3, <2>4, Tables
  <1>3. PrechargeTime \in Nat /\ RowTime \in Nat /\ PrechargeTime <= RowTime
    BY EffortTypes DEF RowTimings
  <1>4. Wait(new) <= PrechargeTime
    <2>1. Wait(new) = Later(d.rank["REFab"], PrechargeTime)
      BY <1>1, <1>2 DEF Wait, AllClosed, PrechargeTime
    <2>2. d.rank["REFab"] \in Nat /\ d.rank["REFab"] <= PrechargeTime
      BY <1>1, <1>3 DEF TimersBounded, Device
    <2> QED
      BY <1>3, <2>1, <2>2 DEF Later
  <1>5. ReopensSoon(new, S)
    <2>1. \A a \in Banks : d.bank[a]["ACT"] \in Nat /\ d.bank[a]["ACT"] <= PrechargeTime
      BY <1>1, <1>3 DEF BanksSoonFree, Device
    <2> QED
      BY <1>2, <1>3, <2>1 DEF ReopensSoon
  <1>6. ~ Exposed(new, S) /\ OpenIn(new, S) = {}
    BY <1>2 DEF Exposed, AllClosed, OpenIn
  <1>7. Turns(new, S) <= Turns(d, S) /\ Closings(new, S) + 1 <= Closings(d, S)
    <2> DEFINE n == Cardinality(S)  q == n * (n + 3)
    <2>1. n \in Nat
      BY EffortTypes
    <2>2. q \in Int
      <3> HIDE DEF n
      <3> QED
        BY <2>1
    <2>3. /\ Turns(d, S) = q - 0 /\ Turns(new, S) = q - 2 * Cardinality({})
          /\ Closings(d, S) = n + 1 /\ Closings(new, S) = n + 0
      BY <1>6, Zenon DEF Turns, Closings
    <2>4. Cardinality({}) = 0
      BY FS_EmptySet
    <2> HIDE DEF n, q
    <2> QED
      BY <2>1, <2>2, <2>3, <2>4
  <1> QED
    BY <1>4, <1>5, <1>7

-----------------------------------------------------------------------------
(***************************************************************************)
(* The banks of the active requests.                                       *)
(***************************************************************************)
\* The banks of a buffer whose requests stay, ...
LEMMA BanksSame ==
  ASSUME NEW old, NEW new, SameRequests(new, old)
  PROVE  BanksOf(new) = BanksOf(old)
  <1>1. Places(new) = Places(old) /\ \A k \in Places(old) : new[k].req = old[k].req
    BY DEF SameRequests, Places
  <1> QED
    BY <1>1 DEF BanksOf

\* ... of one that a request is taken from, ...
LEMMA BanksLess ==
  ASSUME NEW T, NEW old \in Seq(T), NEW i \in Places(old), NEW new, OneLess(new, old, i),
         OnePerBank(old)
  PROVE  BanksOf(new) = BanksOf(old) \ {old[i].req.bank}
  <1>1. Len(old) \in Nat /\ Len(new) = Len(old) - 1 /\ i \in 1 .. Len(old)
    BY DEF OneLess, Places
  <1>2. /\ \A k \in Places(new) : \E m \in Places(old) : new[k].req = old[m].req
        /\ \A k \in Places(new) : new[k].req.bank # old[i].req.bank
    BY LessKeepsOnePerBank
  <1>3. ASSUME NEW m \in Places(old), old[m].req.bank # old[i].req.bank
        PROVE  \E k \in Places(new) : new[k].req = old[m].req
    <2> DEFINE k == IF m < i THEN m ELSE m - 1
    <2>1. m # i /\ k \in Places(new) /\ m = IF k < i THEN k ELSE k + 1
      BY <1>1, <1>3 DEF Places
    <2>2. new[k].req = old[m].req
      BY <1>1, <2>1 DEF OneLess, Places
    <2> QED
      BY <2>1, <2>2
  <1> QED
    BY <1>2, <1>3 DEF BanksOf

\* ... and of one that gets a request.
LEMMA BanksMore ==
  ASSUME NEW T, NEW old \in Seq(T), NEW new, NEW r, OneMore(new, old, r)
  PROVE  BanksOf(new) = BanksOf(old) \cup {r.bank}
  <1>1. Len(old) \in Nat /\ Len(new) = Len(old) + 1 /\ new[Len(new)].req = r
        /\ \A k \in Places(old) : new[k].req = old[k].req
    BY DEF OneMore
  <1>2. Places(new) = Places(old) \cup {Len(new)}
    BY <1>1 DEF Places
  <1> QED
    BY <1>1, <1>2 DEF BanksOf

\* The banks of the active requests are banks.
LEMMA ActiveBanks ==
  ASSUME Types
  PROVE  BanksOf(activeBuf) \in SUBSET Banks
  <1>1. \A i \in Places(activeBuf) : activeBuf[i] \in EntryOf(accepted)
    BY DEF Types, Places
  <1>2. accepted \subseteq Requests
    BY DEF Types
  <1> QED
    BY <1>1, <1>2, AcceptedRequest DEF BanksOf

-----------------------------------------------------------------------------
(***************************************************************************)
(* A tick while a refresh waits.                                           *)
(***************************************************************************)
\* If every active request is ready, the best of them is.
LEMMA ReadyIsServed ==
  ASSUME IInv, NEW d, d = Elapse(dev), ReadyByPrea(d, BanksOf(activeBuf)),
         d.rank["PREA"] = 0, activeBuf # <<>>
  PROVE  BestIsReady(d, activeBuf)
  <1>1. /\ Types /\ accepted \subseteq Requests /\ activeBuf \in Seq(EntryOf(accepted))
        /\ d \in Device /\ d.row = dev.row
    BY DeviceOfCycle DEF IInv, Types
  <1>2. /\ {"ACT", "RD", "WR"} \subseteq Commands
        /\ \A c \in Commands : d.rank[c] \in Nat
        /\ \A b \in Banks, c \in Commands : d.bank[b][c] \in Nat
    BY <1>1 DEF Device, Commands
  <1>3. ASSUME NEW i \in Places(activeBuf) PROVE Ready(d, activeBuf[i])
    <2> DEFINE e == activeBuf[i]  b == e.req.bank
    <2>1. e \in EntryOf(accepted)
      BY <1>1 DEF Places
    <2>2. /\ b \in Banks /\ b \in BanksOf(activeBuf)
          /\ FinalCommand(e.req) \in {"RD", "WR"}
      BY <1>1, <2>1, AcceptedRequest DEF BanksOf
    <2>3. d.row[b] \in {Closed, e.req.row}
      BY <1>1 DEF IInv, ActiveOwnsItsBank
    <2>4. Command(d, e) = IF d.row[b] = Closed THEN "ACT"
                          ELSE IF d.row[b] = e.req.row THEN FinalCommand(e.req) ELSE "PRE"
      BY <1>1, <2>1, CommandOfRequest
    <2> HIDE DEF e
    <2>5. ASSUME d.row[b] = Closed PROVE Ready(d, e)
      <3>1. d.rank["ACT"] <= 0 /\ d.bank[b]["ACT"] <= 0
        BY <2>2, <2>5 DEF ReadyByPrea
      <3>2. d.rank["ACT"] = 0 /\ d.bank[b]["ACT"] = 0
        BY <1>2, <2>2, <3>1
      <3> QED
        BY <2>4, <2>5, <3>2, Zenon DEF Ready, CheckReady
    <2>6. ASSUME d.row[b] # Closed PROVE Ready(d, e)
      <3> DEFINE c == FinalCommand(e.req)
      <3>1. c \in {"RD", "WR"} /\ Command(d, e) = c
        BY <2>2, <2>3, <2>4, <2>6
      <3> HIDE DEF c
      <3>2. d.rank[c] <= 0 /\ d.bank[b][c] <= 0
        BY <2>2, <2>6, <3>1 DEF ReadyByPrea
      <3>3. d.rank[c] = 0 /\ d.bank[b][c] = 0
        BY <1>2, <2>2, <3>1, <3>2
      <3> QED
        BY <3>1, <3>3, Zenon DEF Ready, CheckReady
    <2> QED
      BY <2>5, <2>6 DEF e
  <1> QED
    BY <1>1, <1>3, BestIsFound

\* While a refresh waits, a cycle issues nothing only if the refresh is not ready.
LEMMA IdleWaits ==
  ASSUME IInv, NEW d, d = Elapse(dev), NEW p, p = Refreshed, p # <<>>,
         NEW which, which = ServedBuffer(d, p), FoundRequest(d, which, p) = {}
  PROVE  Wait(d) # 0
  <1> SUFFICES ASSUME Wait(d) = 0 PROVE FALSE
    OBVIOUS
  <1>1. /\ Types /\ accepted \subseteq Requests /\ activeBuf \in Seq(EntryOf(accepted))
        /\ d \in Device /\ d.row = dev.row
    BY DeviceOfCycle DEF IInv, Types
  <1>2. CASE BestIsReady(d, activeBuf)
    <2>1. which = "active" /\ Contents(which, p) = activeBuf
      BY <1>2 DEF ServedBuffer, Contents
    <2>2. PICK i \in Places(activeBuf) : IsBest(d, activeBuf, i) /\ Ready(d, activeBuf[i])
      BY <1>2 DEF BestIsReady
    <2> DEFINE e == activeBuf[i]
    <2>3. e \in EntryOf(accepted)
      BY <1>1 DEF Places
    <2>4. d.row[e.req.bank] \in {Closed, e.req.row}
      BY <1>1 DEF IInv, ActiveOwnsItsBank
    <2>5. Command(d, e) \in {"ACT", "RD", "WR"}
      <3> HIDE DEF e
      <3>1. FinalCommand(e.req) \in {"RD", "WR"}
        BY <1>1, <2>3, AcceptedRequest
      <3> QED
        BY <1>1, <2>3, <2>4, <3>1, CommandOfRequest
    <2>6. ~ InterruptsActive(d, e)
      BY <2>5 DEF InterruptsActive, IsClosing
    <2>7. i \in FoundRequest(d, which, p)
      BY <2>1, <2>2, <2>6 DEF FoundRequest
    <2> QED
      BY <2>7
  <1>3. CASE ~ BestIsReady(d, activeBuf)
    <2>1. which = "priority" /\ Contents(which, p) = p
      BY <1>3 DEF ServedBuffer, Contents
    <2>2. 1 \in Places(p) /\ p[1] = RefreshEntry
      <3>1. p \in Seq({RefreshEntry})
        BY <1>1, RefreshedType
      <3>2. 1 \in Places(p)
        BY <3>1 DEF Places
      <3> QED
        BY <1>1, <3>2, RefreshedType
    <2>3. Command(d, p[1]) = IF AllClosed(d) THEN "REFab" ELSE "PREA"
      BY <2>2, CommandOfRefresh DEF AllClosed
    <2>4. Ready(d, p[1])
      BY <2>3 DEF Ready, CheckReady, RankScope, Wait
    <2>5. ~ InterruptsActive(d, p[1])
      <3>1. p[1].req.bank = NoBank
        BY <2>2 DEF RefreshEntry, RefreshRequest
      <3>2. \A i \in Places(activeBuf) : activeBuf[i].req.bank \in Banks
        BY <1>1, ActiveBanks DEF BanksOf
      <3> QED
        BY <3>1, <3>2, Tables DEF InterruptsActive
    <2>6. 1 \in FoundRequest(d, which, p)
      BY <2>1, <2>2, <2>4, <2>5 DEF FoundRequest
    <2> QED
      BY <2>6
  <1> QED
    BY <1>2, <1>3

\* A PREA is issued only while the active requests are exposed to it.
LEMMA ClosedWhileExposed ==
  ASSUME IInv, NEW d, d = Elapse(dev), NEW p, p = Refreshed,
         NEW i, NEW e, ForRefresh(d, p, i, e, "PREA"), "PREA" = Command(d, e),
         "priority" = ServedBuffer(d, p)
  PROVE  Exposed(d, BanksOf(activeBuf))
  <1>1. ~ AllClosed(d)
    BY CommandOfRefresh DEF ForRefresh, AllClosed
  <1>2. ~ BestIsReady(d, activeBuf)
    BY DEF ServedBuffer
  <1>3. d.rank["PREA"] = 0
    BY DEF ForRefresh
  <1>4. BanksOf(activeBuf) # {} => activeBuf # <<>>
    BY DEF BanksOf, Places
  <1> QED
    BY <1>1, <1>2, <1>3, <1>4, ReadyIsServed DEF Exposed

\* What a tick does for a refresh that waits or has just come.
TickHastens ==
    /\ TimersBounded(dev')
    /\ Len(priorityBuf') <= 1
    /\ priorityBuf' # <<>> =>
          /\ Refreshed # <<>>
          /\ ReopensSoon(dev', BanksOf(activeBuf'))
          /\ Effort(dev', BanksOf(activeBuf')) + 2 <= Effort(dev, BanksOf(activeBuf))

\* A cycle that issues nothing.
LEMMA NothingHastens ==
  ASSUME IInv, RowTimings, TimersBounded(dev), ReopensSoon(dev, BanksOf(activeBuf)),
         NEW d, d = Elapse(dev), NEW p, p = Refreshed, Len(p) <= 1,
         NEW which, which = ServedBuffer(d, p), FoundRequest(d, which, p) = {},
         IssueNothing(d, p)
  PROVE  TickHastens
  <1>1. /\ Types /\ activeBuf \in Seq(EntryOf(accepted)) /\ dev \in Device
    BY DEF IInv, Types
  <1>2. dev' = d /\ priorityBuf' = p /\ activeBuf' = Older(activeBuf)
    BY DEF IssueNothing
  <1>3. BanksOf(activeBuf') = BanksOf(activeBuf) /\ BanksOf(activeBuf) \in SUBSET Banks
    BY <1>1, <1>2, OlderBuffer, BanksSame, ActiveBanks
  <1>4. TimersBounded(d) /\ ReopensSoon(d, BanksOf(activeBuf))
    BY <1>1, <1>3, ElapseInTime
  <1>5. p # <<>> => Effort(d, BanksOf(activeBuf)) + 2 <= Effort(dev, BanksOf(activeBuf))
    BY <1>1, <1>3, IdleWaits, IdleEffort
  <1> QED
    BY <1>2, <1>3, <1>4, <1>5 DEF TickHastens

\* A cycle with a command for an active request.
LEMMA ActiveHastens ==
  ASSUME IInv, RowTimings, TimersBounded(dev), ReopensSoon(dev, BanksOf(activeBuf)),
         NEW d, d = Elapse(dev), NEW p, p = Refreshed, Len(p) <= 1,
         NEW i, NEW e, NEW cmd, ForActive(d, i, e, cmd), cmd = Command(d, e),
         cmd = "ACT" => d.rank["ACT"] = 0,
         dev' = IssueCommand(d, cmd, e.req), BuffersAfter(p, "active", i, e, cmd)
  PROVE  TickHastens
  <1> DEFINE S == BanksOf(activeBuf)  T == BanksOf(activeBuf')
  <1>1. /\ Types /\ accepted \subseteq Requests
        /\ activeBuf \in Seq(EntryOf(accepted)) /\ dev \in Device
        /\ OnePerBank(activeBuf) /\ S \in SUBSET Banks
    BY OwnsItsBankParts, ActiveBanks DEF IInv, Types
  <1>2. i \in Places(activeBuf) /\ e = activeBuf[i] /\ e \in EntryOf(accepted)
    BY <1>1 DEF ForActive, Places
  <1>3. /\ e.req.bank \in Banks /\ e.req.row \in Rows /\ e.req.row # Closed
        /\ e.req.bank \in S /\ FinalCommand(e.req) \in {"RD", "WR"}
    BY <1>1, <1>2, AcceptedRequest, Tables DEF BanksOf
  <1>4. d \in Device /\ TimersBounded(d) /\ ReopensSoon(d, S)
    BY <1>1, ElapseInTime
  <1>5. cmd \in Commands /\ cmd # "REFab" /\ priorityBuf' = p
    BY <1>3 DEF ForActive, Commands, BuffersAfter
  <1>6. dev' \in Device /\ TimersBounded(dev')
    BY <1>3, <1>4, <1>5, IssueBounded
  <1>7. ReopensSoon(dev', T) /\ Effort(dev', T) + 2 <= Effort(dev, S)
    <2>1. CASE cmd = "ACT"
      <3>1. d.row[e.req.bank] = Closed /\ d.rank["ACT"] = 0
        BY <1>3, <2>1 DEF ForActive
      <3>2. T = S
        <4>1. PICK mid \in Seq(EntryOf(accepted)) :
                 OneLess(mid, activeBuf, i) /\ OneMore(activeBuf', mid, e.req)
          BY <2>1 DEF BuffersAfter, ActiveAfter
        <4>2. BanksOf(mid) = S \ {e.req.bank}
          BY <1>1, <1>2, <4>1, BanksLess
        <4>3. T = BanksOf(mid) \cup {e.req.bank}
          BY <4>1, BanksMore
        <4> QED
          BY <1>3, <4>2, <4>3
      <3> HIDE DEF S, T
      <3>3. /\ Wait(dev') <= RowTime
            /\ Turns(dev', S) + 2 <= Turns(d, S) /\ Closings(dev', S) <= Closings(d, S)
            /\ ReopensSoon(dev', S)
        BY <1>1, <1>3, <1>4, <2>1, <3>1, ReopenEffort
      <3>4. Effort(dev', S) + 2 <= Effort(dev, S)
        BY <1>1, <1>6, <3>3, CycleEffort
      <3> QED
        BY <3>2, <3>3, <3>4
    <2>2. CASE cmd # "ACT"
      <3>1. d.row[e.req.bank] = e.req.row /\ cmd \in {"RD", "WR"}
        BY <1>3, <2>2 DEF ForActive
      <3>2. T = S \ {e.req.bank}
        <4>1. OneLess(activeBuf', activeBuf, i)
          BY <2>2 DEF BuffersAfter, ActiveAfter
        <4> QED
          BY <1>1, <1>2, <4>1, BanksLess
      <3> HIDE DEF S, T
      <3>3. d.row[e.req.bank] # Closed
        BY <1>3, <3>1
      <3>4. /\ Wait(dev') <= RowTime
            /\ Turns(dev', T) + 2 <= Turns(d, S) /\ Closings(dev', T) <= Closings(d, S)
            /\ ReopensSoon(dev', T)
        BY <1>1, <1>3, <1>4, <3>1, <3>2, <3>3, ServeEffort
      <3>5. T \in SUBSET Banks
        BY <1>1, <3>2
      <3>6. Effort(dev', T) + 2 <= Effort(dev, S)
        BY <1>1, <1>6, <3>4, <3>5, CycleEffort
      <3> QED
        BY <3>4, <3>6
    <2> QED
      BY <2>1, <2>2
  <1> QED
    BY <1>5, <1>6, <1>7 DEF TickHastens

\* A cycle with a command of the refresh.
LEMMA RefreshHastens ==
  ASSUME IInv, RowTimings, TimersBounded(dev), ReopensSoon(dev, BanksOf(activeBuf)),
         NEW d, d = Elapse(dev), NEW p, p = Refreshed, Len(p) <= 1,
         NEW i, NEW e, NEW cmd, ForRefresh(d, p, i, e, cmd), cmd = Command(d, e),
         "priority" = ServedBuffer(d, p),
         Issue(d, p, "priority", i), e = Contents("priority", p)[i]
  PROVE  TickHastens
  <1> DEFINE S == BanksOf(activeBuf)  T == BanksOf(activeBuf')
  <1>1. /\ Types /\ activeBuf \in Seq(EntryOf(accepted)) /\ dev \in Device
        /\ S \in SUBSET Banks
    BY ActiveBanks DEF IInv, Types
  <1>2. /\ d \in Device /\ TimersBounded(d) /\ ReopensSoon(d, S) /\ BanksSoonFree(d)
    BY <1>1, ElapseInTime, DeviceOfCycle
  <1>3. /\ cmd \in {"PREA", "REFab"} /\ e = RefreshEntry /\ i = 1 /\ p # <<>>
        /\ e.req.bank = NoBank
    BY DEF ForRefresh, RefreshEntry, RefreshRequest
  <1>4. dev' = IssueCommand(d, cmd, e.req)
    BY DEF Issue
  <1>5. dev' \in Device /\ TimersBounded(dev')
    <2>1. cmd \in Commands /\ cmd \notin {"ACT", "PRE"}
      BY <1>3 DEF Commands
    <2> QED
      BY <1>2, <1>4, <2>1, IssueBounded
  <1>6. BuffersAfter(p, "priority", i, e, cmd)
    BY BuffersAfterRefresh
  <1>7. CASE cmd = "PREA"
    <2>1. priorityBuf' = p
      BY <1>6, <1>7 DEF BuffersAfter
    <2>2. T = S
      BY <1>6, <1>7, BanksSame DEF BuffersAfter, ActiveAfter
    <2>3. Exposed(d, S) /\ d.rank["PREA"] = 0
      BY <1>7, ClosedWhileExposed DEF ForRefresh
    <2> HIDE DEF S, T
    <2>4. /\ Wait(dev') <= PrechargeTime
          /\ Turns(dev', S) <= Turns(d, S) /\ Closings(dev', S) + 1 <= Closings(d, S)
          /\ ReopensSoon(dev', S)
      BY <1>1, <1>2, <1>3, <1>4, <1>7, <2>3, CloseEffort
    <2>5. Effort(dev', S) + 2 <= Effort(dev, S)
      BY <1>1, <1>5, <2>4, CycleEffort
    <2> QED
      BY <1>5, <2>1, <2>2, <2>4, <2>5 DEF TickHastens, S, T
  <1>8. CASE cmd = "REFab"
    <2>1. p \in Seq({RefreshEntry}) /\ Len(p) = 1
      <3>1. p \in Seq({RefreshEntry})
        BY <1>1, RefreshedType
      <3> DEFINE U == {RefreshEntry}
      <3>2. p \in Seq(U) /\ p # <<>>
        BY <1>3, <3>1
      <3> HIDE DEF U
      <3>3. Len(p) \in Nat \ {0}
        BY <3>2, EmptySeq
      <3>4. Len(p) <= 1
        OBVIOUS
      <3>5. Len(p) = 1
        <4> DEFINE n == Len(p)
        <4>1. n \in Nat \ {0} /\ n <= 1
          BY <3>3, <3>4
        <4> HIDE DEF n
        <4>2. n = 1
          BY <4>1
        <4> QED
          BY <4>2 DEF n
      <3> QED
        BY <3>1, <3>5, Zenon
    <2>2. cmd = FinalCommand(e.req) /\ Contents("priority", p) = p
      BY <1>3, <1>8 DEF FinalCommand, RefreshEntry, RefreshRequest, Contents
    <2>3. priorityBuf' = Remove(p, i)
      BY <2>2 DEF Issue
    <2>4. i \in Places(p)
      BY <1>3, <2>1 DEF Places
    <2>5. Len(priorityBuf') = 0 /\ priorityBuf' \in Seq({RefreshEntry})
      BY <2>1, <2>3, <2>4, RemoveProperties
    <2>6. priorityBuf' = <<>>
      BY <2>5, EmptySeq
    <2> QED
      BY <1>5, <2>5, <2>6 DEF TickHastens
  <1> QED
    BY <1>3, <1>7, <1>8

\* A cycle with a command for another request: no refresh waits.
LEMMA QueuedHastens ==
  ASSUME IInv, RowTimings, TimersBounded(dev),
         NEW d, d = Elapse(dev), NEW p, p = Refreshed,
         NEW which \in {"read", "write"}, NEW i, NEW e, NEW cmd, e \in EntryOf(accepted),
         ForQueued(d, p, which, i, e, cmd),
         dev' = IssueCommand(d, cmd, e.req), BuffersAfter(p, which, i, e, cmd)
  PROVE  TickHastens
  <1>1. Types /\ accepted \subseteq Requests /\ dev \in Device
    BY DEF IInv, Types
  <1>2. /\ e.req.bank \in Banks /\ e.req.row \in Rows
        /\ FinalCommand(e.req) \in {"RD", "WR"}
    BY <1>1, AcceptedRequest
  <1>3. cmd \in Commands /\ cmd # "REFab" /\ p = <<>>
    BY <1>2 DEF ForQueued, Commands
  <1>4. d \in Device /\ TimersBounded(d)
    BY <1>1, ActiveBanks, ElapseInTime
  <1>5. TimersBounded(dev')
    BY <1>2, <1>3, <1>4, IssueBounded
  <1>6. priorityBuf' = <<>>
    BY <1>3 DEF BuffersAfter
  <1> QED
    BY <1>5, <1>6, EmptySeq DEF TickHastens

\* An effort is at least two: the command of the refresh takes a cycle.
LEMMA EffortPositive ==
  ASSUME NEW d \in Device, NEW S \in SUBSET Banks
  PROVE  Effort(d, S) \in Int /\ Effort(d, S) >= 2
  <1> DEFINE a == RowTime  p == PrechargeTime  w == Wait(d)  n == Cardinality(S)
             o == Cardinality(OpenIn(d, S))  t == Turns(d, S)  c == Closings(d, S)
  <1>1. a \in Nat /\ p \in Nat /\ w \in Nat /\ n \in Nat /\ o \in Nat /\ o <= n
    BY EffortTypes
  <1>2. /\ t = n * (n + 3) - (IF Exposed(d, S) THEN 0 ELSE 2 * o)
        /\ c = n + (IF Exposed(d, S) THEN 1 ELSE 0)
        /\ Effort(d, S) = 2 + 2 * w + (a + 1) * t + 2 * (p + 1) * c
    BY DEF Turns, Closings, Effort
  <1> HIDE DEF a, p, w, n, o, t, c
  <1>3. t \in Nat /\ c \in Nat
    <2> DEFINE q == n * (n + 3)
    <2>1. q \in Int /\ q >= 3 * n
      <3>1. n * (n + 3) = n * n + 3 * n /\ n * n \in Nat
        BY <1>1
      <3> QED
        BY <1>1, <3>1
    <2>2. t = q - (IF Exposed(d, S) THEN 0 ELSE 2 * o)
      BY <1>2
    <2> HIDE DEF q
    <2> QED
      BY <1>1, <1>2, <2>1, <2>2
  <1> DEFINE x == (a + 1) * t  y == (2 * (p + 1)) * c
  <1>4. x \in Nat /\ y \in Nat
    BY <1>1, <1>3
  <1>5. Effort(d, S) = 2 + 2 * w + x + y
    BY <1>1, <1>2, <1>3
  <1> HIDE DEF x, y
  <1> QED
    BY <1>1, <1>4, <1>5

\* The most effort is a number.
LEMMA MostEffortType == MostEffort \in Int
  <1> DEFINE a == RowTime  p == PrechargeTime  m == Cardinality(Banks)
  <1>1. a \in Nat /\ p \in Nat
    BY Tables DEF RowTime, Commands
  <1>2. m \in Nat
    BY ControllerAssumption, FS_CardinalityType
  <1>3. MostEffort = 2 + 2 * (a + p) + (a + 1) * (m * (m + 3)) + 2 * (p + 1) * (m + 1)
    BY DEF MostEffort
  <1> HIDE DEF a, p, m
  <1>4. (a + 1) * (m * (m + 3)) \in Int /\ 2 * (p + 1) * (m + 1) \in Int
    BY <1>1, <1>2
  <1> QED
    BY <1>1, <1>3, <1>4

\* Every tick brings the refresh nearer, as long as another one cannot be due.
LEMMA TickInTime ==
  ASSUME IInv, RefreshFits, RefreshInTime, Tick
  PROVE  RefreshInTime'
  <1>1. /\ Types /\ accepted \subseteq Requests /\ activeBuf \in Seq(EntryOf(accepted))
        /\ readBuf \in Seq(EntryOf(accepted)) /\ writeBuf \in Seq(EntryOf(accepted))
        /\ priorityBuf \in Seq({RefreshEntry}) /\ dev \in Device
        /\ untilRefresh \in 1 .. RefreshInterval
    BY DEF IInv, Types
  <1>2. /\ RowTimings /\ TimersBounded(dev) /\ ReopensSoon(dev, BanksOf(activeBuf))
        /\ ~ failed /\ Len(priorityBuf) <= 1
        /\ priorityBuf # <<>> => Effort(dev, BanksOf(activeBuf)) <= 2 * (untilRefresh - 1)
    BY DEF RefreshFits, RefreshInTime
  <1>3. IInv' /\ accepted' = accepted
    BY TickStep
  <1>4. \A S \in SUBSET Banks : \A d \in Device : Effort(d, S) \in Int /\ Effort(d, S) >= 2
    <2> SUFFICES ASSUME NEW S \in SUBSET Banks, NEW d \in Device
                 PROVE  Effort(d, S) \in Int /\ Effort(d, S) >= 2
      OBVIOUS
    <2> QED
      BY EffortPositive
  <1>5. BanksOf(activeBuf) \in SUBSET Banks /\ Effort(dev, BanksOf(activeBuf)) \in Int
        /\ Effort(dev, BanksOf(activeBuf)) >= 2
    BY <1>1, <1>4, ActiveBanks
  \* When a refresh is due, none waits.
  <1>6. RefreshDue => priorityBuf = <<>> /\ Refreshed = <<RefreshEntry>>
    <2>1. RefreshDue => priorityBuf = <<>>
      BY <1>2, <1>5 DEF RefreshDue
    <2> QED
      BY <2>1 DEF Refreshed
  <1>7. ~ NoRoomForRefresh
    BY <1>6, ControllerAssumption DEF NoRoomForRefresh, HasRoom
  <1>8. Serve(Elapse(dev), Refreshed) /\ failed' = failed /\ scheduler' = scheduler
    BY <1>7 DEF Tick
  <1>9. Len(Refreshed) <= 1
    BY <1>2, <1>6 DEF Refreshed
  <1>10. PICK d : d = Elapse(dev)
    OBVIOUS
  <1>11. PICK p : p = Refreshed
    OBVIOUS
  <1>12. PICK which : which = ServedBuffer(d, p)
    OBVIOUS
  <1>13. IF FoundRequest(d, which, p) = {} THEN IssueNothing(d, p)
         ELSE \E i \in FoundRequest(d, which, p) : Issue(d, p, which, i)
    BY <1>8, <1>10, <1>11, <1>12 DEF Serve
  <1>14. TickHastens
    <2>1. CASE FoundRequest(d, which, p) = {}
      BY <1>2, <1>9, <1>10, <1>11, <1>12, <1>13, <2>1, NothingHastens
    <2>2. CASE FoundRequest(d, which, p) # {}
      <3>1. PICK i \in FoundRequest(d, which, p) : Issue(d, p, which, i)
        BY <1>13, <2>2
      <3> DEFINE e == Contents(which, p)[i]  cmd == Command(d, e)
      <3>2. /\ i \in FoundRequest(d, which, p) /\ e = Contents(which, p)[i] /\ cmd = Command(d, e)
            /\ dev' = IssueCommand(d, cmd, e.req) /\ Ready(d, e)
        BY <3>1 DEF Issue, FoundRequest
      <3> HIDE DEF e, cmd
      <3>3. \/ which = "active" /\ ForActive(d, i, e, cmd)
            \/ which = "priority" /\ ForRefresh(d, p, i, e, cmd)
            \/ which \in {"read", "write"} /\ ForQueued(d, p, which, i, e, cmd)
        BY <1>10, <1>11, <1>12, <3>2, IssuedCommand
      <3>4. CASE which = "active" /\ ForActive(d, i, e, cmd)
        <4>1. cmd = "ACT" => d.rank["ACT"] = 0
          BY <3>2 DEF Ready, CheckReady
        <4>2. BuffersAfter(p, "active", i, e, cmd)
          BY <1>10, <1>11, <3>1, <3>2, <3>4, BuffersAfterActive
        <4> QED
          BY <1>2, <1>9, <1>10, <1>11, <3>2, <3>4, <4>1, <4>2, ActiveHastens
      <3>5. CASE which = "priority" /\ ForRefresh(d, p, i, e, cmd)
        BY <1>2, <1>9, <1>10, <1>11, <1>12, <3>1, <3>2, <3>5, RefreshHastens
      <3>6. CASE which \in {"read", "write"} /\ ForQueued(d, p, which, i, e, cmd)
        <4>1. BuffersAfter(p, which, i, e, cmd)
          BY <1>10, <1>11, <3>1, <3>2, <3>6, BuffersAfterQueued
        <4>2. e \in EntryOf(accepted)
          <5> DEFINE buf == Contents(which, p)
          <5>1. buf \in Seq(EntryOf(accepted))
            BY <1>1, <3>6 DEF Contents
          <5>2. i \in 1 .. Len(buf) /\ e = buf[i]
            BY <3>6 DEF ForQueued, Places
          <5> HIDE DEF buf
          <5> QED
            BY <5>1, <5>2
        <4> QED
          BY <1>2, <1>10, <1>11, <3>2, <3>6, <4>1, <4>2, QueuedHastens
      <3> QED
        BY <3>3, <3>4, <3>5, <3>6
    <2> QED
      BY <2>1, <2>2
  <1>15. Types' /\ RowsReturn' /\ dev' \in Device /\ BanksOf(activeBuf') \in SUBSET Banks
    <2>1. Types' /\ RowsReturn'
      BY <1>3 DEF IInv
    <2>2. dev' \in Device
      BY <2>1 DEF Types, Device
    <2>3. \A i \in Places(activeBuf') : activeBuf'[i] \in EntryOf(accepted)
      BY <1>3, <2>1 DEF Types, Places
    <2>4. BanksOf(activeBuf') \in SUBSET Banks
      BY <1>1, <2>3, AcceptedRequest DEF BanksOf
    <2> QED
      BY <2>1, <2>2, <2>4
  <1>16. ReopensSoon(dev', BanksOf(activeBuf'))
    <2>1. CASE priorityBuf' # <<>>
      BY <1>14, <2>1 DEF TickHastens
    <2>2. CASE priorityBuf' = <<>>
      <3>1. \A i \in Places(activeBuf') : activeBuf' # <<>>
        BY EmptySeq DEF Places
      <3>2. \A i \in Places(activeBuf') : dev'.row[activeBuf'[i].req.bank] # Closed
        BY <1>15, <2>2, <3>1 DEF RowsReturn, Places
      <3> QED
        BY <3>2 DEF ReopensSoon, BanksOf
    <2> QED
      BY <2>1, <2>2
  <1>17. priorityBuf' # <<>> =>
           Effort(dev', BanksOf(activeBuf')) <= 2 * (untilRefresh' - 1)
    <2> DEFINE x == Effort(dev, BanksOf(activeBuf))  y == Effort(dev', BanksOf(activeBuf'))
    <2> SUFFICES ASSUME priorityBuf' # <<>> PROVE y <= 2 * (untilRefresh' - 1)
      OBVIOUS
    <2>1. x \in Int /\ y \in Int /\ y + 2 <= x /\ y <= MostEffort
      BY <1>4, <1>5, <1>14, <1>15, EffortBound DEF TickHastens
    <2>2. untilRefresh' = IF RefreshDue THEN RefreshInterval ELSE untilRefresh - 1
      BY DEF Tick, Clock
    <2>3. MostEffort \in Int /\ MostEffort <= 2 * (RefreshInterval - 1) /\ RefreshInterval \in Nat
      BY MostEffortType, ControllerAssumption DEF RefreshFits
    <2>4. CASE RefreshDue
      <3> HIDE DEF x, y
      <3> QED
        BY <2>1, <2>2, <2>3, <2>4
    <2>5. CASE ~ RefreshDue
      <3>1. priorityBuf # <<>>
        BY <1>14, <2>5 DEF TickHastens, Refreshed
      <3>2. x <= 2 * (untilRefresh - 1)
        BY <1>2, <3>1
      <3> HIDE DEF x, y
      <3> QED
        BY <1>1, <2>1, <2>2, <2>5, <3>2
    <2> QED
      BY <2>4, <2>5
  <1> QED
    BY <1>2, <1>8, <1>14, <1>16, <1>17 DEF RefreshInTime, TickHastens

\* At the start no refresh waits and no timer runs.
LEMMA InTimeInit == ASSUME RowTimings PROVE Init => RefreshInTime
  <1> SUFFICES ASSUME Init PROVE RefreshInTime
    OBVIOUS
  <1>1. RowTime \in Nat /\ PrechargeTime \in Nat
    BY Tables DEF RowTime, Commands
  <1>2. TimersBounded(dev)
    BY <1>1 DEF Init, NewDevice, TimersBounded, Commands
  <1>3. BanksOf(activeBuf) = {}
    BY EmptySeq DEF Init, BanksOf, Places
  <1>4. ReopensSoon(dev, BanksOf(activeBuf))
    BY <1>3 DEF ReopensSoon
  <1>5. priorityBuf = <<>> /\ Len(priorityBuf) <= 1 /\ ~ failed
    BY EmptySeq DEF Init
  <1> QED
    BY <1>2, <1>4, <1>5 DEF RefreshInTime

\* The strengthened invariant is kept: only a tick moves the clock, the device or
\* the requests that go before the refresh.
LEMMA InTimeStep ==
  ASSUME RefreshFits
  PROVE  IInv /\ RefreshInTime /\ [Next]_vars => RefreshInTime'
  <1> SUFFICES ASSUME IInv, RefreshInTime, [Next]_vars PROVE RefreshInTime'
    OBVIOUS
  <1>1. ASSUME NEW r \in Requests, Send(r) PROVE RefreshInTime'
    <2>1. UNCHANGED <<dev, activeBuf, priorityBuf, untilRefresh, failed>>
      BY <1>1 DEF Send
    <2> QED
      BY <2>1 DEF RefreshInTime
  <1>2. CASE Tick
    BY <1>2, TickInTime
  <1>3. CASE UNCHANGED vars
    <2>1. UNCHANGED <<dev, activeBuf, priorityBuf, untilRefresh, failed>>
      BY <1>3 DEF vars, buffers, history
    <2> QED
      BY <2>1 DEF RefreshInTime
  <1> QED
    BY <1>1, <1>2, <1>3 DEF Next

\* If the timings leave enough time between two refreshes, a refresh is issued
\* before the next one is due, whatever requests go before it and whichever
\* scheduler picks them: all_bank_refresh never finds the priority buffer full.
THEOREM RefreshesKeepUp == RefreshFits => (Spec => []RefreshKeepsUp)
  <1> SUFFICES ASSUME RefreshFits PROVE Spec => []RefreshKeepsUp
    OBVIOUS
  <1>1. Init => RefreshInTime
    BY InTimeInit DEF RefreshFits
  <1>2. IInv /\ RefreshInTime /\ [Next]_vars => RefreshInTime'
    BY InTimeStep
  <1>3. RefreshInTime => RefreshKeepsUp
    BY DEF RefreshInTime, RefreshKeepsUp
  <1> QED
    BY <1>1, <1>2, <1>3, Invariance, PTL DEF Spec
=============================================================================
