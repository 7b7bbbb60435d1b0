--------------------------- MODULE MCMemController ---------------------------
(***************************************************************************)
(* A small DRAM for TLC.  Two banks, two blocks per row: blocks 0 and 1    *)
(* are row 0 of banks 0 and 1, blocks 2 and 3 row 1, blocks 4 and 5 row 2. *)
(***************************************************************************)
EXTENDS MemController, TLC

\* Rows 1 and 2 of bank 0, row 1 of bank 1, row 0 of bank 0.
MCBlocks == {0, 2, 3, 4}
=============================================================================
