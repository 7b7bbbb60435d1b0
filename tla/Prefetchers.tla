----------------------------- MODULE Prefetchers -----------------------------
(***************************************************************************)
(* lab4: the prefetchers of the labs at work in a cache: ghb_pccs in its   *)
(* two builds, abop, and the hybrid one, a tournament of a GHB and a       *)
(* best-offset prefetcher (hybrid.cc).  Which one is built in is chosen in *)
(* Init.  The cache around them is external: it says of each access        *)
(* whether it hits and whether it is the first hit on a prefetched line,   *)
(* fills lines in any order and counts what it issues and what is useful.  *)
(***************************************************************************)
EXTENDS GlobalHistoryBuffer, BestOffset, SequencesExt

CONSTANTS
    Kinds,           \* the prefetchers of this run
    Trace,           \* per prefetcher, the accesses that may come next, in a cycle
    Fills,           \* per prefetcher, the lines with which the cache may be filled
    Bandwidths,      \* the classes of DRAM bandwidth in use, of "low", "mid", "high"
    TournamentMax,   \* the largest value of tournament_counter
    ShadowMax,       \* how many lines the shadow table keeps
    Measured,        \* bound: those of the adaptive ones for which the cache has a clock
                     \* and counts
    CountMax         \* bound: the largest value of a counter of the cache

AllKinds == {"ghb_pccs", "ghb_adaptive", "abop", "hybrid"}
Adaptive == {"ghb_adaptive", "hybrid"}   \* the builds with prefetcher_cycle_operate

ASSUME PrefetchersAssumption ==
    /\ Kinds \subseteq AllKinds /\ Measured \subseteq Kinds \cap Adaptive
    /\ TournamentMax \in Nat /\ TournamentMax % 2 = 0
    /\ ShadowMax \in Nat /\ ShadowMax > MaxDegree
    /\ CountMax \in 0 .. StatRange - 1
    /\ Bandwidths \subseteq {"low", "mid", "high"}

Accesses == [pc : [index : Indexes, tag : Tags], line : Nat]

ASSUME TraceAssumption ==
    \A k \in Kinds : /\ Trace[k] \in Seq(SUBSET Accesses) /\ Trace[k] # <<>>
                     /\ Fills[k] \subseteq Nat

VARIABLES
    kind,        \* which prefetcher is built in
    g, epoch,    \* the GHB prefetcher and its epochs
    b,           \* the best-offset prefetcher
    tournament,  \* tournament_counter
    shadow,      \* shadow_table, a set of lines with creator and timestamp
    stats,       \* sim_stats.pf_issued and pf_useful of the cache
    pos,         \* where the program is
    log,         \* history: the last GhbSize accesses, the newest first; an access is
                 \* late if its index was unused for PtrRange accesses
    age,         \* history: how many accesses ago each index was used, up to PtrRange
    predicted,   \* history: the lines that entered the shadow table last, per creator
    since        \* history: what was counted since the last sample, unless a phase began

vars == <<kind, g, epoch, b, tournament, shadow, stats, pos, log, age, predicted, since>>

UsesGhb == kind # "abop"
UsesBop == kind \in {"abop", "hybrid"}

-----------------------------------------------------------------------------
(***************************************************************************)
(* The shadow table of hybrid.cc.  Of the timestamps only the order        *)
(* matters: they are numbered from 0 after each access, and Now is later   *)
(* than all of them.                                                       *)
(***************************************************************************)

GHB == 1
BOP == 2
BOTH == 3
Now == ShadowMax + 1

EntriesOf(table, line) == {e \in table : e.line = line}

\* The entry that the clean-up removes: the first of the oldest in the order of the map.
Oldest(table) ==
    CHOOSE e \in table : \A f \in table \ {e} : e.time < f.time \/ (e.time = f.time /\ e.line < f.line)

\* Mutation of Shadowed: a line that is predicted again keeps its timestamp.
ShadowedKeepsTime(table, prediction) ==
    LET old == EntriesOf(table, prediction.line)
        creators == {prediction.by} \cup {e.creator : e \in old}
        new == [line |-> prediction.line,
                time |-> IF old = {} THEN Now ELSE (CHOOSE e \in old : TRUE).time,
                creator |-> IF Cardinality(creators) = 1 THEN prediction.by ELSE BOTH]
        all == (table \ old) \cup {new}
    IN  IF Cardinality(all) > ShadowMax THEN all \ {Oldest(all)} ELSE all

\* update_shadow_table: a line that is predicted again is touched.
Shadowed(table, prediction) ==
    LET old == EntriesOf(table, prediction.line)
        creators == {prediction.by} \cup {e.creator : e \in old}
        new == [line |-> prediction.line, time |-> Now,
                creator |-> IF Cardinality(creators) = 1 THEN prediction.by ELSE BOTH]
        all == (table \ old) \cup {new}
    IN  IF Cardinality(all) > ShadowMax THEN all \ {Oldest(all)} ELSE all

\* The calls of update_shadow_table for a sequence of predictions.
AllShadowed(table, predictions) ==
    LET after[k \in 0 .. Len(predictions)] ==
            IF k = 0 THEN table ELSE Shadowed(after[k - 1], predictions[k])
    IN  after[Len(predictions)]

Renumbered(table) ==
    {[e EXCEPT !.time = Cardinality({f.time : f \in {h \in table : h.time < e.time}})] : e \in table}

\* An access to a predicted line counts for its predictor, BOTH for none.
Scored(line) ==
    LET creators == {e.creator : e \in EntriesOf(shadow, line)}
    IN  CASE BOP \in creators /\ tournament > 0 -> tournament - 1
          [] GHB \in creators /\ tournament < TournamentMax -> tournament + 1
          [] OTHER -> tournament

Middle == TournamentMax \div 2

-----------------------------------------------------------------------------

Init ==
    /\ kind \in Kinds
    /\ g = GhbStart /\ epoch = EpochStart /\ b = BopStart
    /\ tournament = Middle /\ shadow = {}
    /\ stats = [issued |-> 0, useful |-> 0]
    /\ pos = 1
    /\ log = <<>> /\ age = [i \in Indexes |-> PtrRange]
    /\ predicted = [p \in {GHB, BOP} |-> {}]
    /\ since = [issued |-> 0, useful |-> 0, phase |-> FALSE]

\* What the GHB part would fetch; it comes before the access is recorded.
FromGhb(acc) == IF UsesGhb THEN GhbBlocks(g, acc.pc, acc.line, epoch.degree) ELSE <<>>

\* What the best-offset part would fetch, after it has learned.
FromBop(acc, trigger, bandwidth) ==
    IF ~ UsesBop \/ ~ trigger THEN <<>>
    ELSE BopLines(BopLearned(b, acc.line), acc.line,
                  IF kind = "abop" THEN BopDegree(bandwidth) ELSE 1)

\* The winner of the tournament fetches, both while it is undecided.
Fetched(ghbLines, bopLines, counter) ==
    IF kind # "hybrid" THEN ghbLines \o bopLines
    ELSE (IF counter >= Middle THEN ghbLines ELSE <<>>)
           \o (IF counter <= Middle THEN bopLines ELSE <<>>)

\* hybrid.cc: the line is scored and taken from the table first; what both parts would
\* do enters the table on misses and useful prefetches only, although the GHB part
\* fetches on every access.
Tournament(line, trigger, ghbLines, bopLines) ==
    LET By(p, lines) == [k \in DOMAIN lines |-> [line |-> lines[k], by |-> p]]
        rest == shadow \ EntriesOf(shadow, line)
    IN  /\ tournament' = Scored(line)
        /\ IF trigger
           THEN /\ shadow' = Renumbered(AllShadowed(rest, By(GHB, ghbLines) \o By(BOP, bopLines)))
                /\ predicted' = [p \in {GHB, BOP} |-> ToSet(IF p = GHB THEN ghbLines ELSE bopLines)]
           ELSE /\ shadow' = Renumbered(rest)
                /\ predicted' = [p \in {GHB, BOP} |-> predicted[p] \ {line}]

\* prefetcher_cache_operate.  Of the lines fetched the cache counts those for which its
\* prefetch queue has room, and then the useful prefetch.
Counted(issued, useful) ==
    IF kind \in Measured
    THEN /\ stats.issued + issued <= CountMax /\ stats.useful + useful <= CountMax
         /\ stats' = [issued |-> stats.issued + issued, useful |-> stats.useful + useful]
         /\ since' = IF since.phase THEN since
                     ELSE [since EXCEPT !.issued = @ + issued, !.useful = @ + useful]
    ELSE UNCHANGED <<stats, since>>

Access ==
    /\ \E acc \in Trace[kind][pos], hit \in BOOLEAN, useful \in BOOLEAN, bandwidth \in Bandwidths :
          LET trigger == ~ hit \/ useful
              ghbLines == FromGhb(acc)
              bopLines == FromBop(acc, trigger, bandwidth)
              fetched == Fetched(ghbLines, bopLines, Scored(acc.line))
          IN  /\ useful => hit
              /\ g' = IF UsesGhb THEN Recorded(g, acc.pc, acc.line) ELSE g
              /\ b' = IF UsesBop /\ trigger THEN BopLearned(b, acc.line) ELSE b
              /\ IF kind = "hybrid" THEN Tournament(acc.line, trigger, ghbLines, bopLines)
                 ELSE UNCHANGED <<tournament, shadow, predicted>>
              /\ \E issued \in 0 .. Len(fetched) : Counted(issued, IF useful THEN 1 ELSE 0)
              /\ IF UsesGhb
                 THEN /\ log' = LET access == [pc |-> acc.pc, block |-> acc.line,
                                             late |-> g.it[acc.pc.index].valid /\ age[acc.pc.index] = PtrRange]
                                    all == <<access>> \o log
                                IN  IF Len(all) > GhbSize THEN Front(all) ELSE all
                      /\ age' = [i \in Indexes |-> IF i = acc.pc.index THEN 0
                                                   ELSE IF age[i] < PtrRange THEN age[i] + 1 ELSE PtrRange]
                 ELSE UNCHANGED <<log, age>>
    /\ pos' = 1 + (pos % Len(Trace[kind]))
    /\ UNCHANGED <<kind, epoch>>

\* prefetcher_cache_fill; the GHB part ignores fills.
Fill ==
    /\ UsesBop
    /\ \E line \in Fills[kind], prefetched \in BOOLEAN : b' = BopFilled(b, line, prefetched)
    /\ UNCHANGED <<kind, g, epoch, tournament, shadow, stats, pos, log, age, predicted, since>>

\* prefetcher_cycle_operate.
Cycle ==
    /\ kind \in Measured
    /\ \E bandwidth \in Bandwidths : epoch' = EpochCycle(epoch, stats, bandwidth)
    /\ since' = IF EpochEnds(epoch) THEN [issued |-> 0, useful |-> 0, phase |-> FALSE] ELSE since
    /\ UNCHANGED <<kind, g, b, tournament, shadow, stats, pos, log, age, predicted>>

\* begin_phase of the cache: new counters, of which the prefetcher hears nothing.
BeginPhase ==
    /\ kind \in Measured
    /\ stats' = [issued |-> 0, useful |-> 0]
    /\ since' = [issued |-> 0, useful |-> 0, phase |-> TRUE]
    /\ UNCHANGED <<kind, g, epoch, b, tournament, shadow, pos, log, age, predicted>>

Next == Access \/ Fill \/ Cycle \/ BeginPhase

Spec == Init /\ [][Next]_vars

-----------------------------------------------------------------------------

\* The accesses through an index entry from the newest to p.
Uses(index, p) == {q \in 1 .. p : log[q].pc.index = index}

\* The last HistoryLength accesses through an index entry, up to one of another tag.
OwnHistory(index, tag) ==
    {p \in Uses(index, Len(log)) : /\ Cardinality(Uses(index, p)) <= HistoryLength
                                  /\ \A q \in Uses(index, p) : log[q].pc.tag = tag}

\* The strides are computed from the program counter's own accesses: following the
\* links gives the last accesses through its index entry, up to one of another tag,
\* as far as they are among the last GhbSize of all; none is missed, none is another's,
\* although slots are reused and the head counter wraps (pointer_valid, ghb.cc:178).
\* An index entry unused for PtrRange accesses is left out, and what is linked to it
\* late: its pointer names a new access by then, perhaps of another program counter
\* with the same tag.
WalkIsOwnHistory ==
    UsesGhb =>
    \A index \in Indexes, tag \in Tags :
        age[index] < PtrRange =>
            LET own == OwnHistory(index, tag)
                walk == Walk(g, [index |-> index, tag |-> tag])
            IN  (\A p \in own : ~ log[p].late) =>
                    /\ Len(walk) = Cardinality(own)
                    /\ \A p \in own : walk[Cardinality(Uses(index, p))] = log[p].block

\* A score is a number of successful tests of the present round: an offset is tested
\* in turn, so its score is at most the number of its turns since the round began
\* (operate, bop.cc:68-111); an offset scored in an earlier round could win without one.
ScoresAreTests ==
    \A i \in DOMAIN Offsets :
        b.scores[i] <= Cardinality({k \in 1 .. b.rounds : (b.accesses - k) % Len(Offsets) = i - 1})

\* What both parts predicted last is not lost to the clean-up of the table before the
\* lines are used: each line is there once, for its predictor or for both, and the
\* table keeps its bound (update_shadow_table, hybrid.cc:20).  Older predictions that
\* still wait may go.
PredictionsSurvive ==
    /\ \A p \in {GHB, BOP} : \A line \in predicted[p] :
          \E e \in shadow : e.line = line /\ e.creator \in {p, BOTH}
    /\ \A e, f \in shadow : e.line = f.line => e = f
    /\ Cardinality(shadow) <= ShadowMax

\* The degree follows the accuracy of the epoch: unless a phase began in it, the degree
\* grows only if at least half of the prefetches issued since the last sample were
\* useful, and falls only if fewer than 9 of 10 were
\* (prefetcher_cycle_operate, ghb.cc:112).
DegreeFollowsAccuracy ==
    [][~ since.phase =>
          /\ epoch'.degree < epoch.degree => 10 * since.useful < 9 * since.issued
          /\ epoch'.degree > epoch.degree => 2 * since.useful >= since.issued]_vars
=============================================================================
