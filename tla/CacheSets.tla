------------------------------ MODULE CacheSets ------------------------------
(***************************************************************************)
(* Replacement in the caches of the second lab (lab2/src/cache.c).  A      *)
(* cache is a function from set indices to sets, a set a function from     *)
(* ways to blocks.  The tag is abstracted to the whole block number, which *)
(* identifies the same block within a set.                                 *)
(*                                                                         *)
(* The operators take a set or a cache and return the new one, in the      *)
(* order of the assignments of the source.                                 *)
(***************************************************************************)
EXTENDS Integers, FiniteSets

\* Struct Block: recency 0 is the most recently used.
CacheBlock(tags, ways) == [valid : BOOLEAN, tag : tags, recency : 0 .. ways - 1]

\* calloc'ed: everything is zero, the recency of every way included.
AllocCache(numSets, numWays) ==
  [s \in 0 .. numSets - 1 |->
    [w \in 0 .. numWays - 1 |-> [valid |-> FALSE, tag |-> 0, recency |-> 0]]]

SetIndex(cache, block) == block % Cardinality(DOMAIN cache)

HitWays(cache, block) ==
  LET set == cache[SetIndex(cache, block)]
  IN  {w \in DOMAIN set : set[w].valid /\ set[w].tag = block}

IsCached(cache, block) == HitWays(cache, block) # {}

Lowest(S) == CHOOSE i \in S : \A j \in S : i <= j

\* update_lru: the blocks that were more recent age by one.
UpdateLru(set, way) ==
  [w \in DOMAIN set |->
     IF w = way THEN [set[w] EXCEPT !.recency = 0]
     ELSE IF set[w].valid /\ set[w].recency < set[way].recency
          THEN [set[w] EXCEPT !.recency = @ + 1]
          ELSE set[w]]

(***************************************************************************)
(* The victim: the first invalid way, else the first whose recency is      *)
(* num_ways - 1, else the initial value of the variable, way 0.            *)
(***************************************************************************)
VictimWay(set) ==
  LET invalid == {w \in DOMAIN set : ~ set[w].valid}
      oldest  == {w \in DOMAIN set : set[w].recency = Cardinality(DOMAIN set) - 1}
  IN  IF invalid # {} THEN Lowest(invalid)
      ELSE IF oldest # {} THEN Lowest(oldest) ELSE 0

\* An L1 or L2 hit refreshes the block.
TouchBlock(cache, block) ==
  LET s == SetIndex(cache, block)
  IN  [cache EXCEPT ![s] = UpdateLru(@, Lowest(HitWays(cache, block)))]

\* complete_l1_fill keeps the victim's recency until update_lru reads it.
CompleteL1Fill(cache, block) ==
  LET s == SetIndex(cache, block)
      v == VictimWay(cache[s])
  IN  [cache EXCEPT ![s] =
        UpdateLru([@ EXCEPT ![v].tag = block, ![v].valid = TRUE], v)]

\* Mutation: insert_l2_block without recency = 0 for the new block.
InsertKeepRecency(set, block) ==
  LET v == VictimWay(set)
  IN  [w \in DOMAIN set |->
         IF w = v THEN [set[w] EXCEPT !.valid = TRUE, !.tag = block]
         ELSE IF set[w].valid THEN [set[w] EXCEPT !.recency = @ + 1]
         ELSE set[w]]

\* The set after the replacement: every other valid block ages.
InsertL2(set, block) ==
  LET v == VictimWay(set)
  IN  [w \in DOMAIN set |->
         IF w = v THEN [valid |-> TRUE, tag |-> block, recency |-> 0]
         ELSE IF set[w].valid THEN [set[w] EXCEPT !.recency = @ + 1]
         ELSE set[w]]

\* insert_l2_block
InsertL2Block(cache, block) ==
  [cache EXCEPT ![SetIndex(cache, block)] = InsertL2(@, block)]
=============================================================================
