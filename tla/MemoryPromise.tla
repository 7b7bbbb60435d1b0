---------------------------- MODULE MemoryPromise ----------------------------
(***************************************************************************)
(* What a memory controller promises whoever sends it requests: a read it  *)
(* has accepted is answered once, and a write it has accepted is performed *)
(* once.  It may do so in any order.                                       *)
(***************************************************************************)
EXTENDS Naturals

CONSTANT Requests   \* the requests that may be sent

VARIABLES
    accepted,   \* the requests that have been accepted
    done        \* how often each has been answered or performed

Init ==
    /\ accepted = {}
    /\ done = [r \in Requests |-> 0]

Accept(r) ==
    /\ r \notin accepted
    /\ accepted' = accepted \cup {r}
    /\ UNCHANGED done

Outstanding == {r \in accepted : done[r] = 0}

\* In one cycle a controller may finish several requests.
Finish(S) ==
    /\ done' = [r \in Requests |-> IF r \in S THEN 1 ELSE done[r]]
    /\ UNCHANGED accepted

Next ==
    \/ \E r \in Requests : Accept(r)
    \/ \E S \in SUBSET Outstanding : Finish(S)

Spec == Init /\ [][Next]_<<accepted, done>>
=============================================================================
