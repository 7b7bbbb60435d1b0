------------------------------ MODULE BestOffset ------------------------------
(***************************************************************************)
(* lab4: the best-offset prefetcher, as the extended one of abop.cc and as *)
(* the part of the hybrid one (hybrid/bop.cc).  b holds the table of       *)
(* recent requests, the scores of the offsets, the best offsets so far,    *)
(* whether prefetching is on, and the counters of the round; accesses is   *)
(* kept modulo the number of offsets, the only way it is used.             *)
(***************************************************************************)
EXTENDS Integers, Sequences, FiniteSets

CONSTANTS
    Offsets,         \* candidates: the offsets on trial
    RrSize,          \* RR_TABLE_SIZE
    RrSlot,          \* hash: the slot of each line
    RrTags,          \* the number of tags of the table, 2^12 in the code
    MaxScore,        \* MAX_SCORE
    BadScore,        \* BAD_SCORE
    RoundMax,        \* ROUND_MAX
    LinesPerPage,    \* 2^(LOG2_PAGE_SIZE - LOG2_BLOCK_SIZE)
    LineRange        \* the range of line numbers, which wrap around

ASSUME BestOffsetAssumption ==
    /\ Offsets \in Seq(Nat \ {0}) /\ Len(Offsets) >= 3
    /\ RrSize \in Nat \ {0} /\ RrTags \in Nat \ {0}
    /\ RrSlot \in [0 .. LineRange - 1 -> 0 .. RrSize - 1]
    /\ MaxScore \in Nat /\ BadScore \in Nat /\ RoundMax \in Nat \ {0}
    /\ LinesPerPage \in Nat \ {0} /\ LineRange \in Nat \ {0}

RrTag(line) == (line \div RrSize) % RrTags
SamePage(l, m) == l \div LinesPerPage = m \div LinesPerPage

BopStart ==
    [rr |-> [i \in 0 .. RrSize - 1 |-> 0], scores |-> [i \in DOMAIN Offsets |-> 0],
     best |-> <<1, 0, 0>>, enabled |-> TRUE, rounds |-> 0, accesses |-> 0]

\* prefetcher_cache_fill: the line that would have triggered the prefetch with the
\* offset that is best now, or the line itself, becomes a recent request.
BopFilled(b, line, prefetched) ==
    LET trigger == IF prefetched THEN (line - b.best[1]) % LineRange ELSE line
    IN  IF SamePage(trigger, line) THEN [b EXCEPT !.rr[RrSlot[trigger]] = RrTag(trigger)] ELSE b

\* The three offsets with the highest scores, a later one before an earlier one.
Ranked(scores) ==
    LET Beats(i, j) == scores[i] > scores[j] \/ (scores[i] = scores[j] /\ i > j)
        Behind(i) == Cardinality({j \in DOMAIN scores : Beats(j, i)})
    IN  [k \in 1 .. 3 |-> CHOOSE i \in DOMAIN scores : Behind(i) = k - 1]

\* Mutation of NewRound: the scores are kept.
NewRoundKeepsScores(b, scores) ==
    LET order == Ranked(scores)
    IN  [b EXCEPT !.best = [k \in 1 .. 3 |-> Offsets[order[k]]],
                  !.enabled = scores[order[1]] > BadScore,
                  !.scores = scores,
                  !.rounds = 0]

NewRound(b, scores) ==
    LET order == Ranked(scores)
    IN  [b EXCEPT !.best = [k \in 1 .. 3 |-> Offsets[order[k]]],
                  !.enabled = scores[order[1]] > BadScore,
                  !.scores = [i \in DOMAIN Offsets |-> 0],
                  !.rounds = 0]

\* prefetcher_cache_operate, the learning step: the access tests one offset, the next
\* one in turn, and the round ends after RoundMax accesses or at MaxScore.
BopLearned(b, line) ==
    LET i == b.accesses + 1
        test == (line - Offsets[i]) % LineRange
        recent == b.rr[RrSlot[test]] = RrTag(test)
        scores == IF recent THEN [b.scores EXCEPT ![i] = @ + 1] ELSE b.scores
        full == recent /\ scores[i] = MaxScore
        next == [b EXCEPT !.scores = scores, !.accesses = i % Len(Offsets), !.rounds = @ + 1]
    IN  IF full \/ next.rounds >= RoundMax THEN NewRound(next, scores) ELSE next

\* The lines to fetch with the first degree offsets, if prefetching is on: those in
\* the page of the access.
BopLines(b, line, degree) ==
    LET issued[k \in 0 .. degree] ==
            IF k = 0 THEN <<>>
            ELSE LET ahead == line + b.best[k]
                 IN  issued[k - 1] \o (IF SamePage(ahead, line) THEN <<ahead>> ELSE <<>>)
    IN  IF b.enabled THEN issued[degree] ELSE <<>>

\* abop: the more bandwidth is left the more offsets are used.
BopDegree(bandwidth) ==
    CASE bandwidth = "high" -> 1 [] bandwidth = "mid" -> 2 [] bandwidth = "low" -> 3
=============================================================================
