------------------------------ MODULE MCSimpleO3 ------------------------------
EXTENDS SimpleO3, TLC

At(page, offset) == [page |-> page, offset |-> offset]
Inst(bubbles, load, store) == [bubbles |-> bubbles, load |-> load, store |-> store]

\* Three pages of code that loads, stores, and does both; the second core uses an address of
\* its own in a page of the first.
MCTrace ==
    <<  <<Inst(0, At(1, 0), NoAddr), Inst(1, At(2, 0), At(1, 0)), Inst(0, At(3, 0), NoAddr)>>,
        <<Inst(0, At(1, 0), At(2, 0)), Inst(3, At(1, 1), NoAddr)>>  >>

\* The second core has pages of its own, shares one or both with the first core, or has
\* one page for both of its virtual pages.
MCTranslations ==
    {<<1 :> 1 @@ 2 :> 2 @@ 3 :> 3, 1 :> p @@ 2 :> q @@ 3 :> 3>> : p \in 1 .. 4, q \in 1 .. 4}
=============================================================================
