------------------------- MODULE ReplacementPolicies -------------------------
(***************************************************************************)
(* lab1: the caches of cache.c with the three policies it can be built     *)
(* with.  A cache maps sets and ways to blocks [valid, block, rank]; the   *)
(* rank is the recency under LRU and the reference prediction value (RRPV) *)
(* under RRIP.  Tag and set index together are the block number.           *)
(***************************************************************************)
EXTENDS Integers

CONSTANTS NumSets, NumWays

ASSUME PolicyAssumption == NumSets \in Nat \ {0} /\ NumWays \in Nat \ {0}

Sets == 0 .. NumSets - 1
Ways == 0 .. NumWays - 1

ImmediateRrpv == 0
LongRrpv == 2
DistantRrpv == 3

\* alloc_cache
AllocCache(policy) ==
    [s \in Sets |-> [w \in Ways |->
        [valid |-> FALSE, block |-> 0,
         rank |-> CASE policy = "LRU" -> w [] policy = "RRIP" -> LongRrpv [] policy = "RAND" -> 0]]]

SetOf(block) == block % NumSets

HitWays(cache, block) ==
    {w \in Ways : cache[SetOf(block)][w].valid /\ cache[SetOf(block)][w].block = block}
IsHit(cache, block) == HitWays(cache, block) # {}

\* Mutation of Updated: update_lru ages all valid blocks.
UpdatedAgesAll(policy, set, way) ==
    CASE policy = "LRU" ->
           [w \in Ways |-> IF w = way THEN [set[w] EXCEPT !.rank = 0]
                           ELSE IF set[w].valid THEN [set[w] EXCEPT !.rank = @ + 1]
                           ELSE set[w]]
      [] policy = "RRIP" -> [set EXCEPT ![way].rank = ImmediateRrpv]
      [] policy = "RAND" -> set

\* update_lru and update_rrip
Updated(policy, set, way) ==
    CASE policy = "LRU" ->
           [w \in Ways |-> IF w = way THEN [set[w] EXCEPT !.rank = 0]
                           ELSE IF set[w].valid /\ set[w].rank < set[way].rank
                           THEN [set[w] EXCEPT !.rank = @ + 1]
                           ELSE set[w]]
      [] policy = "RRIP" -> [set EXCEPT ![way].rank = ImmediateRrpv]
      [] policy = "RAND" -> set

HitCache(policy, cache, block) ==
    LET way == CHOOSE w \in HitWays(cache, block) : TRUE
    IN  [cache EXCEPT ![SetOf(block)] = Updated(policy, @, way)]

First(S) == CHOOSE w \in S : \A v \in S : w <= v

\* Mutation of OneTurn: a block is aged only up to the long RRPV.
OneTurnTooFew(set) ==
    [w \in Ways |-> IF set[w].valid /\ set[w].rank < LongRrpv
                    THEN [set[w] EXCEPT !.rank = @ + 1] ELSE set[w]]

\* A turn of the search of RRIP that finds no distant block ages them all.
OneTurn(set) ==
    [w \in Ways |-> IF set[w].valid /\ set[w].rank < DistantRrpv
                    THEN [set[w] EXCEPT !.rank = @ + 1] ELSE set[w]]

HasDistant(set) == \E w \in Ways : set[w].rank = DistantRrpv

\* The set as each turn of the search finds it; a fifth would find the fourth again,
\* for an RRPV has four values.
Searching(set) ==
    LET one == OneTurn(set)
        two == OneTurn(one)
    IN  <<set, one, two, OneTurn(two)>>

\* The turns that find a distant block.  The first ends the search; without one it
\* never ends, and there is no victim.
EndingTurns(set) == {t \in 1 .. 4 : HasDistant(Searching(set)[t])}

Aged(set) == Searching(set)[First(EndingTurns(set))]

Invalid(set) == {w \in Ways : ~ set[w].valid}

Searched(policy, set) == IF policy = "RRIP" /\ Invalid(set) = {} THEN Aged(set) ELSE set

\* The ways that may be replaced: the first invalid one, else what the policy says.
Victims(policy, set) ==
    IF Invalid(set) # {} THEN {First(Invalid(set))}
    ELSE CASE policy = "LRU"  -> {First({w \in Ways : set[w].rank = NumWays - 1})}
           [] policy = "RRIP" -> IF EndingTurns(set) = {} THEN {}
                                 ELSE {First({w \in Ways : Aged(set)[w].rank = DistantRrpv})}
           [] policy = "RAND" -> Ways

\* The victim is replaced, and updated like a block that is hit; under RRIP this
\* undoes the long RRPV of a new block.
Filled(policy, set, way, block) ==
    LET new == [set[way] EXCEPT !.block = block, !.valid = TRUE,
                                !.rank = IF policy = "RRIP" THEN LongRrpv ELSE @]
    IN  Updated(policy, [Searched(policy, set) EXCEPT ![way] = new], way)

\* The caches after a miss.
MissCaches(policy, cache, block) ==
    {[cache EXCEPT ![SetOf(block)] = Filled(policy, @, way, block)] :
        way \in Victims(policy, cache[SetOf(block)])}
=============================================================================
