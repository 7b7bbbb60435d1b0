-------------------------- MODULE RamulatorSchedulers --------------------------
(***************************************************************************)
(* lab5: the three schedulers of the controller and the plugins that keep  *)
(* the state of two of them.  A candidate is what compare reads of a       *)
(* request: its source, when it arrived, how long ago that was, and        *)
(* whether its next command is ready.                                      *)
(*                                                                         *)
(* BLISS (bliss.cpp, plugin/bliss.cpp) and ATLAS (atlas.cpp,               *)
(* plugin/atlas.cpp, atlas_common.h) keep one record each.  The plugin is  *)
(* told every cycle which command the controller is about to issue.        *)
(***************************************************************************)
EXTENDS DramDevice, FiniteSets

CONSTANTS
    Sources,            \* the cores requests come from
    BlissThreshold,     \* m_threshold, 4
    ClearingInterval,   \* m_clearing_interval, 10000
    AtlasThreshold,     \* AtlasSharedState::threshold, 100000
    QuantumLength,      \* AtlasSharedState::quantum_length, 10000000
    AtlasScale          \* resolution of total_as: 1 stands for 1 / AtlasScale

NoSource == -1      \* the source_id of a refresh

ASSUME SchedulerAssumption ==
    /\ Sources \subseteq Nat
    /\ AtlasScale \in Nat \ {0}
    /\ BlissThreshold \in Nat
    /\ ClearingInterval \in Nat \ {0}
    /\ AtlasThreshold \in Nat
    /\ QuantumLength \in Nat \ {0}

-----------------------------------------------------------------------------
(***************************************************************************)
(* BLISS.  The counter is capped one above the threshold: no test tells    *)
(* larger values apart.                                                    *)
(***************************************************************************)

BlissStart ==
    [last |-> NoSource, consecutive |-> 0, blacklist |-> {}, sinceClearing |-> 0]

\* update: clear the blacklist if the interval is over, count a command that
\* finishes its request, and then test the counter, whatever the command was.
BlissCleared(s) ==
    IF s.sinceClearing + 1 >= ClearingInterval
    THEN [s EXCEPT !.blacklist = {}, !.sinceClearing = 0]
    ELSE [s EXCEPT !.sinceClearing = @ + 1]

BlissCounted(s, source) ==
    IF source = s.last
    THEN [s EXCEPT !.consecutive =
             IF @ > BlissThreshold THEN @ ELSE @ + 1]
    ELSE [s EXCEPT !.last = source, !.consecutive = 1]

BlissTested(s, source) ==
    IF s.consecutive > BlissThreshold
    THEN [s EXCEPT !.blacklist = @ \cup {source}]
    ELSE s

BlissUpdate(s, found, source, finishes) ==
    LET cleared == BlissCleared(s)
        counted == IF finishes THEN BlissCounted(cleared, source) ELSE cleared
    IN  IF found THEN BlissTested(counted, source) ELSE cleared

-----------------------------------------------------------------------------
(***************************************************************************)
(* ATLAS with one controller, so that its check-in at the end of a quantum *)
(* is the last one.  The doubles of total_as become fixed-point numbers,   *)
(* rounded down; alpha is 7/8.                                             *)
(***************************************************************************)

AtlasStart ==
    [localAS |-> [t \in Sources |-> 0],     \* local_as
     count   |-> [t \in Sources |-> 0],     \* active_banks_count
     owner   |-> [b \in Banks |-> NoSource],\* bank_ownership
     totalAS |-> [t \in Sources |-> 0],     \* total_as
     known   |-> {},                        \* the keys of total_as
     inQuantum |-> 0]                       \* m_clk % quantum_length

\* The AS of a thread grows every cycle by the number of banks it is counted for.
AtlasServed(s) ==
    [s EXCEPT !.localAS = [t \in Sources |-> @[t] + s.count[t]]]

\* Mutation of AtlasClaim: the old owner goes on being counted.
AtlasClaimKeepsOld(s, bank, source) ==
    [s EXCEPT !.owner[bank] = source, !.count[source] = @ + 1]

\* ACT: the bank changes hands.  The subtraction has no floor here.
AtlasClaim(s, bank, source) ==
    LET old == s.owner[bank]
        released == IF old = NoSource THEN s.count
                    ELSE [s.count EXCEPT ![old] = @ - 1]
    IN  [s EXCEPT !.owner[bank] = source,
                  !.count = [released EXCEPT ![source] = @ + 1]]

\* PRE and PREA look up the bank of their own address; the address of a PREA
\* names no bank, so PREA releases nothing.
AtlasRelease(s, bank) ==
    IF bank \in Banks /\ s.owner[bank] # NoSource
    THEN [s EXCEPT !.owner[bank] = NoSource,
                   !.count[s.owner[bank]] = IF @ > 0 THEN @ - 1 ELSE 0]
    ELSE s

\* check_in_quantum and update_rankings: only the threads with service in this
\* quantum are averaged.
AtlasQuantum(s) ==
    IF s.inQuantum + 1 < QuantumLength
    THEN [s EXCEPT !.inQuantum = @ + 1]
    ELSE LET served == {t \in Sources : s.localAS[t] > 0}
         IN  [s EXCEPT
                !.totalAS = [t \in Sources |->
                    IF t \in served
                    THEN (7 * @[t] + AtlasScale * s.localAS[t]) \div 8 ELSE @[t]],
                !.known = @ \cup served,
                !.localAS = [t \in Sources |-> 0],
                !.inQuantum = 0]

AtlasUpdate(s, found, cmd, bank, source) ==
    LET tracked == CASE found /\ IsOpening(cmd) -> AtlasClaim(AtlasServed(s), bank, source)
                     [] found /\ IsClosing(cmd) -> AtlasRelease(AtlasServed(s), bank)
                     [] OTHER -> AtlasServed(s)
    IN  AtlasQuantum(tracked)

\* get_rank compares by total_as, ties by thread number; a thread that has never
\* been served ranks below every known one.
RankBefore(s, t, u) ==
    /\ t \in s.known
    /\ \/ u \notin s.known
       \/ s.totalAS[t] < s.totalAS[u]
       \/ s.totalAS[t] = s.totalAS[u] /\ t < u

-----------------------------------------------------------------------------
(***************************************************************************)
(* compare: x is preferred to y whatever their places in the buffer.       *)
(***************************************************************************)

ReadyOrOlder(x, y) ==
    \/ x.ready /\ ~ y.ready
    \/ x.ready = y.ready /\ x.arrive < y.arrive

FrfcfsBefore(x, y) == ReadyOrOlder(x, y)

BlissBefore(s, x, y) ==
    LET blacklisted(c) == c.source \in s.blacklist
    IN  \/ ~ blacklisted(x) /\ blacklisted(y)
        \/ blacklisted(x) = blacklisted(y) /\ ReadyOrOlder(x, y)

AtlasBefore(s, x, y) ==
    LET over(c) == c.age > AtlasThreshold
        equal == ~ RankBefore(s, x.source, y.source) /\ ~ RankBefore(s, y.source, x.source)
    IN  \/ over(x) /\ ~ over(y)
        \/ /\ over(x) = over(y)
           /\ RankBefore(s, x.source, y.source) \/ (equal /\ ReadyOrOlder(x, y))
=============================================================================
