------------------------ MODULE MCRamulatorController ------------------------
(***************************************************************************)
(* A rank of two banks with short timings that keep the order of those of  *)
(* DDR4_2400R in lab5_config.yaml: a write must wait longer after a read   *)
(* (nCL + nBL + 2 - nCWL = 10) than a precharge (nRTP = 9).                *)
(***************************************************************************)
EXTENDS RamulatorController, TLC

Table(entries) ==
    [c \in Commands |-> [f \in Commands |->
        IF <<c, f>> \in DOMAIN entries THEN entries[<<c, f>>] ELSE 0]]

MCRankLatency == Table(
    <<"RD", "RD">> :> 1 @@ <<"WR", "WR">> :> 1 @@
    <<"RD", "WR">> :> 3 @@ <<"WR", "RD">> :> 2 @@
    <<"RD", "PREA">> :> 2 @@ <<"WR", "PREA">> :> 3 @@
    <<"ACT", "ACT">> :> 1 @@ <<"ACT", "PREA">> :> 3 @@ <<"PREA", "ACT">> :> 2 @@
    <<"ACT", "REFab">> :> 5 @@ <<"PRE", "REFab">> :> 2 @@ <<"PREA", "REFab">> :> 2 @@
    <<"REFab", "ACT">> :> 3)

MCBankLatency == Table(
    <<"ACT", "ACT">> :> 5 @@ <<"ACT", "RD">> :> 2 @@ <<"ACT", "WR">> :> 2 @@
    <<"ACT", "PRE">> :> 3 @@ <<"PRE", "ACT">> :> 2 @@
    <<"RD", "PRE">> :> 2 @@ <<"WR", "PRE">> :> 3)

Req(id, type, bank, row, col, source) ==
    [id |-> id, type |-> type, bank |-> bank, row |-> row, col |-> col, source |-> source]

\* Two sources, a row conflict in bank 0, a read of an address that is written,
\* and one read more than the read buffer holds.
MCRequests ==
    {Req(1, "read", 0, 0, 0, 1), Req(2, "write", 0, 0, 0, 2),
     Req(3, "read", 0, 1, 0, 2), Req(4, "read",  1, 0, 0, 1)}
=============================================================================
