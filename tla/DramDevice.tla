------------------------------ MODULE DramDevice ------------------------------
(***************************************************************************)
(* lab5: the DRAM device of Ramulator (dram/node.h, dram/lambdas and       *)
(* dram/impl/DDR4.cpp) as its controller uses it: one channel of one rank, *)
(* the organisation lab5_config.yaml asks for.  A device is a record:      *)
(*   row    the row that is open in each bank, or Closed                   *)
(*   rank   for each command, how many cycles the rank still forbids it    *)
(*   bank   the same for each bank                                         *)
(* m_cmd_ready_clk is an absolute cycle in the code; what is left of it    *)
(* until now is all that check_ready looks at, and it stays finite.  The   *)
(* bank groups are folded into the banks, and the four-activation window   *)
(* into the ACT to ACT entry of the table.                                 *)
(***************************************************************************)
EXTENDS Integers

CONSTANTS
    Banks,         \* the banks of the rank
    Rows,          \* the rows of a bank
    RankLatency,   \* [preceding -> [following -> cycles]] at the rank
    BankLatency    \* the same between two commands to one bank

ASSUME RowsAssumption == Rows \subseteq Nat

Commands == {"ACT", "PRE", "PREA", "RD", "WR", "REFab"}

ASSUME LatencyAssumption ==
    /\ RankLatency \in [Commands -> [Commands -> Nat]]
    /\ BankLatency \in [Commands -> [Commands -> Nat]]

Closed == -1        \* the state of a bank with no open row
NoBank == -1        \* the bank of an address that names only its rank

ASSUME BanksAssumption == Banks \subseteq Nat

-----------------------------------------------------------------------------

RankScope(cmd)  == cmd \in {"PREA", "REFab"}
IsOpening(cmd)  == cmd = "ACT"
IsClosing(cmd)  == cmd \in {"PRE", "PREA"}

NewDevice ==
    [row  |-> [b \in Banks |-> Closed],
     rank |-> [c \in Commands |-> 0],
     bank |-> [b \in Banks |-> [c \in Commands |-> 0]]]

\* RequireRowOpen for a column command, RequireAllBanksClosed for a refresh:
\* what has to be issued before cmd, or cmd itself.
GetPreqCommand(d, cmd, req) ==
    CASE cmd = "REFab" -> IF \A b \in Banks : d.row[b] = Closed
                          THEN cmd ELSE "PREA"
      [] cmd # "REFab" /\ d.row[req.bank] = Closed -> "ACT"
      [] cmd # "REFab" /\ d.row[req.bank] = req.row -> cmd
      [] OTHER -> "PRE"

CheckReady(d, cmd, req) ==
    /\ d.rank[cmd] = 0
    /\ RankScope(cmd) \/ d.bank[req.bank][cmd] = 0

\* One tick of the device's clock.
Less(n)   == IF n = 0 THEN 0 ELSE n - 1
Elapse(d) ==
    [d EXCEPT !.rank = [c \in Commands |-> Less(@[c])],
              !.bank = [b \in Banks |-> [c \in Commands |-> Less(@[b][c])]]]

Later(m, n) == IF m < n THEN n ELSE m

\* update_states: ACT opens the row, PRE closes the bank, PREA every bank.
RowsAfter(d, cmd, req) ==
    CASE IsOpening(cmd) -> [d.row EXCEPT ![req.bank] = req.row]
      [] cmd = "PRE"    -> [d.row EXCEPT ![req.bank] = Closed]
      [] cmd = "PREA"   -> [b \in Banks |-> Closed]
      [] OTHER          -> d.row

\* update_timing: cmd pushes the ready times of the commands that must follow
\* it at a distance.  The address of a refresh names no bank, so the recursion
\* into the banks changes nothing.
IssueCommand(d, cmd, req) ==
    [row  |-> RowsAfter(d, cmd, req),
     rank |-> [c \in Commands |-> Later(d.rank[c], RankLatency[cmd][c])],
     bank |-> [b \in Banks |-> [c \in Commands |->
                 IF b = req.bank
                 THEN Later(d.bank[b][c], BankLatency[cmd][c])
                 ELSE d.bank[b][c]]]]
=============================================================================
