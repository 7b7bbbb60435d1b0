--------------------------- MODULE MCMemHierarchy ---------------------------
(***************************************************************************)
(* Small programs for MemHierarchy, two instructions per block.  Branches  *)
(* end a block, so that fetch misses on the next block before they are     *)
(* resolved.  The code begins at block 2; the data is in blocks 0, 20 and  *)
(* 23, away from the code, except in MCCodeLoadPrograms.                   *)
(***************************************************************************)
EXTENDS MemHierarchy, TLC

Alu == [kind |-> "alu"]
Load(block) == [kind |-> "mem", block |-> block]
Branch(dest) == [kind |-> "branch", dest |-> dest]
Jump(dest) == [kind |-> "jump", dest |-> dest]

\* A loop over three blocks that loads from up to three blocks of data.
Loads(i5, i7, i8) ==
  4 :> Load(20) @@ 5 :> i5 @@ 6 :> Load(23) @@ 7 :> i7 @@ 8 :> i8 @@ 9 :> Jump(4)

\* A loop of branches: every second block is fetched in vain, and the load finds
\* MSHRs that those fetches have left behind.
Branches ==
  4 :> Alu @@ 5 :> Branch(8) @@ 6 :> Alu @@ 7 :> Alu
  @@ 8 :> Alu @@ 9 :> Branch(12) @@ 10 :> Alu @@ 11 :> Alu
  @@ 12 :> Load(20) @@ 13 :> Jump(4)

MCPrograms ==
  {Loads(Branch(8), Alu, Load(0)), Loads(Branch(8), Branch(4), Load(23)),
   Loads(Load(0), Alu, Alu), Branches}

\* A program that reads a constant from the block of code it is about to fetch.
MCCodeLoadPrograms == {4 :> Load(3) @@ 5 :> Alu @@ 6 :> Alu @@ 7 :> Jump(4)}
=============================================================================
