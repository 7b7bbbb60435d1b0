-------------------------- MODULE RamulatorController --------------------------
(***************************************************************************)
(* lab5: the generic memory controller of Ramulator                        *)
(* (dram_controller/impl/generic_dram_controller.cpp, base/request.h) with *)
(* the all-bank refresh manager, one of the three schedulers and its       *)
(* plugin.  The frontend is whatever sends requests: each member of        *)
(* Requests at most once, at any time and in any order.                    *)
(*                                                                         *)
(* Between two ticks any number of requests may arrive.  A tick is the     *)
(* whole of tick(): finish a read, refresh, pick a command, tell the       *)
(* plugin, issue the command.                                              *)
(***************************************************************************)
EXTENDS RamulatorSchedulers, Sequences

CONSTANTS
    Requests,         \* records [id, type, bank, row, col, source]
    Schedulers,       \* the schedulers of the configurations
    BufferMax,        \* max_size of the read and write buffers, 32
    ActiveMax,        \* max_size of the active buffer, 32
    PriorityMax,      \* max_size of the priority buffer, 512*3 + 32
    LowWatermark,     \* m_wr_low_watermark * max_size
    HighWatermark,    \* m_wr_high_watermark * max_size
    ReadLatency,      \* m_read_latency, nCL + nBL
    RefreshInterval   \* m_nrefi

ASSUME ControllerAssumption ==
    /\ Schedulers \subseteq {"FRFCFS", "BLISS", "ATLAS"}
    /\ BufferMax \in Nat
    /\ ActiveMax \in Nat
    /\ IsFiniteSet(Banks) /\ Cardinality(Banks) <= ActiveMax
    /\ PriorityMax \in Nat
    /\ LowWatermark \in Nat
    /\ HighWatermark \in Nat
    /\ ReadLatency \in Nat \ {0}
    /\ RefreshInterval \in Nat \ {0, 1}

\* send throws on any other type, and the address mapper yields a bank and a row.
ASSUME RequestsAssumption ==
    \A r \in Requests :
        /\ r.type \in {"read", "write"}
        /\ r.bank \in Banks /\ r.row \in Rows
        /\ r.source \in Sources

\* All presets of DDR4.cpp (27-50, 392-415): nRP after a PREA is as long for an
\* ACT as for a REFab, and whatever keeps an ACT waiting is over nRP after a PREA
\* could be issued: nRRD, nFAW and nRC are at most nRAS + nRP.
ASSUME RefreshTimingAssumption ==
    /\ RankLatency["PREA"]["ACT"] <= RankLatency["PREA"]["REFab"]
    /\ \A c \in {"ACT", "PRE", "RD", "WR"} :
          /\ RankLatency[c]["ACT"] <= RankLatency[c]["PREA"] + RankLatency["PREA"]["REFab"]
          /\ BankLatency[c]["ACT"] <= RankLatency[c]["PREA"] + RankLatency["PREA"]["REFab"]

VARIABLES
    scheduler,     \* the Scheduler of the configuration
    dev,           \* m_dram
    activeBuf,     \* m_active_buffer
    priorityBuf,   \* m_priority_buffer
    readBuf,       \* m_read_buffer
    writeBuf,      \* m_write_buffer
    pending,       \* reads about to finish, with the cycles left to depart
    writeMode,     \* m_is_write_mode
    untilRefresh,  \* m_next_refresh_cycle - m_clk of the refresh manager
    arrivals,      \* numbers the cycles in which requests arrived
    bliss,         \* bliss_states of the channel
    atlas,         \* the ATLAS plugin and atlas_state
    failed,        \* "Failed to send refresh!" has been thrown
    accepted,      \* the requests send has returned true for
    done           \* how often each has been answered or performed

buffers == <<activeBuf, priorityBuf, readBuf, writeBuf, pending>>
history == <<accepted, done>>
vars == <<scheduler, dev, buffers, writeMode, untilRefresh, arrivals, bliss,
          atlas, failed, history>>

RefreshRequest ==
    [id |-> "refresh", type |-> "all-bank-refresh", bank |-> NoBank, row |-> Closed,
     col |-> Closed, source |-> NoSource]

FinalCommand(req) ==
    CASE req.type = "read"  -> "RD"
      [] req.type = "write" -> "WR"
      [] OTHER              -> "REFab"

SameAddress(r, q) == r.bank = q.bank /\ r.row = q.row /\ r.col = q.col

\* Mutation of HasRoom: the comparison one would expect.
HasRoomStrict(buf, max) == Len(buf) < max

\* enqueue compares the size with <= : a buffer takes max_size + 1 requests.
HasRoom(buf, max) == Len(buf) <= max

\* A request in a buffer; age counts cycles as far as ATLAS tells them apart.
Entry(r) == [req |-> r, arrive |-> arrivals, age |-> 0]
RefreshEntry == [req |-> RefreshRequest, arrive |-> -1, age |-> 0]
Places(buf) == 1 .. Len(buf)
Remove(buf, i) == SubSeq(buf, 1, i - 1) \o SubSeq(buf, i + 1, Len(buf))

-----------------------------------------------------------------------------

Init ==
    /\ scheduler \in Schedulers
    /\ dev = NewDevice
    /\ activeBuf = <<>> /\ priorityBuf = <<>>
    /\ readBuf = <<>> /\ writeBuf = <<>> /\ pending = <<>>
    /\ writeMode = FALSE
    /\ untilRefresh = RefreshInterval
    /\ arrivals = 0
    /\ bliss = BlissStart
    /\ atlas = AtlasStart
    /\ failed = FALSE
    /\ accepted = {}
    /\ done = [r \in Requests |-> 0]

(***************************************************************************)
(* send.  A read of an address the write buffer holds is answered from     *)
(* there; it departs in the next cycle.  A request that finds its buffer   *)
(* full is refused and its sender tries again.                             *)
(***************************************************************************)

Forwarded(r) ==
    r.type = "read" /\ \E i \in Places(writeBuf) : SameAddress(writeBuf[i].req, r)

Enqueue(r) ==
    IF r.type = "read"
    THEN /\ HasRoom(readBuf, BufferMax)
         /\ readBuf' = Append(readBuf, Entry(r))
         /\ UNCHANGED <<writeBuf, pending>>
    ELSE /\ HasRoom(writeBuf, BufferMax)
         /\ writeBuf' = Append(writeBuf, Entry(r))
         /\ UNCHANGED <<readBuf, pending>>

Forward(r) ==
    /\ pending' = Append(pending, [req |-> r, depart |-> 1])
    /\ UNCHANGED <<readBuf, writeBuf>>

Send(r) ==
    /\ ~ failed
    /\ r \notin accepted
    /\ IF Forwarded(r) THEN Forward(r) ELSE Enqueue(r)
    /\ accepted' = accepted \cup {r}
    /\ UNCHANGED <<scheduler, dev, activeBuf, priorityBuf, writeMode, untilRefresh,
                   arrivals, bliss, atlas, failed, done>>

-----------------------------------------------------------------------------
(***************************************************************************)
(* schedule_request, on the device d of this cycle and the priority buffer *)
(* p the refresh manager has just filled.                                  *)
(***************************************************************************)

Command(d, e) == GetPreqCommand(d, FinalCommand(e.req), e.req)
Ready(d, e) == CheckReady(d, Command(d, e), e.req)

Before(d, e, f) ==
    LET candidate(g) == [source |-> g.req.source, arrive |-> g.arrive,
                         age |-> g.age, ready |-> Ready(d, g)]
    IN  CASE scheduler = "FRFCFS" -> FrfcfsBefore(candidate(e), candidate(f))
          [] scheduler = "BLISS"  -> BlissBefore(bliss, candidate(e), candidate(f))
          [] scheduler = "ATLAS"  -> AtlasBefore(atlas, candidate(e), candidate(f))

\* get_best_request compares from the front and keeps the earlier of two equals.
IsBest(d, buf, i) ==
    \A j \in Places(buf) \ {i} :
        \/ Before(d, buf[i], buf[j])
        \/ i < j /\ ~ Before(d, buf[j], buf[i])

BestIsReady(d, buf) == \E i \in Places(buf) : IsBest(d, buf, i) /\ Ready(d, buf[i])

\* Mutation of SetWriteMode: write mode is never left.
SetWriteModeForGood == writeMode \/ Len(writeBuf) > HighWatermark \/ readBuf = <<>>

\* set_write_mode, reached only if neither of the first two buffers decides.
SetWriteMode ==
    IF writeMode
    THEN ~ (Len(writeBuf) < LowWatermark /\ readBuf # <<>>)
    ELSE Len(writeBuf) > HighWatermark \/ readBuf = <<>>

\* Mutation of ServedBuffer: reads and writes go on while a refresh waits to be ready.
ServedBufferFallsThrough(d, p) ==
    CASE BestIsReady(d, activeBuf) -> "active"
      [] ~ BestIsReady(d, activeBuf) /\ BestIsReady(d, p) -> "priority"
      [] OTHER -> IF SetWriteMode THEN "write" ELSE "read"

\* Mutation of ServedBuffer: the active buffer comes last.
ServedBufferActiveLast(d, p) ==
    LET mode == IF SetWriteMode THEN "write" ELSE "read"
    IN  CASE p # <<>> -> "priority"
          [] p = <<>> /\ BestIsReady(d, IF SetWriteMode THEN writeBuf ELSE readBuf) -> mode
          [] OTHER -> "active"

\* The buffer that schedule_request ends up with.
ServedBuffer(d, p) ==
    CASE BestIsReady(d, activeBuf) -> "active"
      [] ~ BestIsReady(d, activeBuf) /\ p # <<>> -> "priority"
      [] OTHER -> IF SetWriteMode THEN "write" ELSE "read"

Contents(which, p) ==
    CASE which = "active"   -> activeBuf
      [] which = "priority" -> p
      [] which = "write"    -> writeBuf
      [] which = "read"     -> readBuf

\* A command that closes the row of a bank with a request in the active buffer is
\* called off.  A PREA has no bank, so it is never called off.
InterruptsActive(d, e) ==
    /\ IsClosing(Command(d, e))
    /\ \E i \in Places(activeBuf) : activeBuf[i].req.bank = e.req.bank

\* The request that is found, if any.
FoundRequest(d, which, p) ==
    LET buf == Contents(which, p)
    IN  {i \in Places(buf) :
            /\ IF which = "priority" THEN i = 1 ELSE IsBest(d, buf, i)
            /\ Ready(d, buf[i])
            /\ ~ InterruptsActive(d, buf[i])}

-----------------------------------------------------------------------------
(***************************************************************************)
(* tick.                                                                   *)
(***************************************************************************)

\* serve_completed_reads looks at the head of pending only.
HeadDeparts == pending # <<>> /\ Head(pending).depart <= 1
Answered == IF HeadDeparts THEN {Head(pending).req} ELSE {}

\* Mutation of StillPending: an answered read is not popped.
StillPendingAll == [i \in Places(pending) |-> [pending[i] EXCEPT !.depart = Less(@)]]

StillPending ==
    LET left == IF HeadDeparts THEN Tail(pending) ELSE pending
    IN  [i \in Places(left) |-> [left[i] EXCEPT !.depart = Less(@)]]

\* Mutation of RefreshDue: one cycle too late.
RefreshDueLate == untilRefresh = 0

RefreshDue == untilRefresh = 1
Refreshed == IF RefreshDue
             THEN Append(priorityBuf, RefreshEntry) ELSE priorityBuf

Finished(S) == done' = [r \in Requests |-> IF r \in S THEN done[r] + 1 ELSE done[r]]

\* The cycles a request has waited, which only ATLAS asks for.
Older(buf) ==
    [i \in Places(buf) |->
        IF scheduler = "ATLAS" /\ buf[i].age <= AtlasThreshold
        THEN [buf[i] EXCEPT !.age = @ + 1] ELSE buf[i]]

\* Nothing is issued in this cycle.
IssueNothing(d, p) ==
    /\ dev' = d
    /\ activeBuf' = Older(activeBuf) /\ priorityBuf' = p
    /\ readBuf' = Older(readBuf) /\ writeBuf' = Older(writeBuf)
    /\ pending' = StillPending
    /\ Finished(Answered)
    /\ bliss' = IF scheduler = "BLISS" THEN BlissUpdate(bliss, FALSE, NoSource, FALSE)
                ELSE bliss
    /\ atlas' = IF scheduler = "ATLAS" THEN AtlasUpdate(atlas, FALSE, "ACT", NoBank, NoSource)
                ELSE atlas

\* The command of request i of the buffer which is issued.  The last command of
\* a request takes it out of its buffer; an ACT moves it to the active buffer,
\* if that has room, and takes it out of its own in any case.
Issue(d, p, which, i) ==
    LET e == Contents(which, p)[i]
        cmd == Command(d, e)
        finishes == cmd = FinalCommand(e.req)
        leaves == finishes \/ IsOpening(cmd)
        Left(w) == IF w = which /\ leaves
                   THEN Remove(Contents(w, p), i) ELSE Contents(w, p)
        activated == IsOpening(cmd) /\ HasRoom(activeBuf, ActiveMax)
        departing == finishes /\ e.req.type = "read"
        written == IF finishes /\ e.req.type = "write" THEN {e.req} ELSE {}
    IN  /\ dev' = IssueCommand(d, cmd, e.req)
        /\ activeBuf' = Older(IF activated THEN Append(Left("active"), e) ELSE Left("active"))
        /\ priorityBuf' = Left("priority")
        /\ readBuf' = Older(Left("read"))
        /\ writeBuf' = Older(Left("write"))
        /\ pending' = IF departing
                      THEN Append(StillPending, [req |-> e.req, depart |-> ReadLatency])
                      ELSE StillPending
        /\ Finished(Answered \cup written)
        /\ bliss' = IF scheduler = "BLISS"
                    THEN BlissUpdate(bliss, TRUE, e.req.source, finishes) ELSE bliss
        /\ atlas' = IF scheduler = "ATLAS"
                    THEN AtlasUpdate(atlas, TRUE, cmd, e.req.bank, e.req.source)
                    ELSE atlas

Serve(d, p) ==
    \E which \in {ServedBuffer(d, p)} :
        /\ IF FoundRequest(d, which, p) = {}
           THEN IssueNothing(d, p)
           ELSE \E i \in FoundRequest(d, which, p) : Issue(d, p, which, i)
        /\ writeMode' = IF which \in {"read", "write"} THEN SetWriteMode ELSE writeMode

\* The refresh manager finds no room for its request and throws.
NoRoomForRefresh == RefreshDue /\ ~ HasRoom(priorityBuf, PriorityMax)

RefreshThrows ==
    /\ failed' = TRUE
    /\ pending' = StillPending
    /\ Finished(Answered)
    /\ UNCHANGED <<dev, activeBuf, priorityBuf, readBuf, writeBuf, writeMode, bliss, atlas>>

\* The clock of the refresh manager, which moves in every tick.
Clock ==
    /\ ~ failed
    /\ untilRefresh' = IF RefreshDue THEN RefreshInterval ELSE untilRefresh - 1

Tick ==
    /\ Clock
    /\ IF NoRoomForRefresh
       THEN RefreshThrows
       ELSE /\ \E d \in {Elapse(dev)}, p \in {Refreshed} : Serve(d, p)
            /\ UNCHANGED failed
    /\ arrivals' = IF \E buf \in {readBuf, writeBuf} : \E i \in Places(buf) :
                          buf[i].arrive = arrivals
                   THEN arrivals + 1 ELSE arrivals
    /\ UNCHANGED <<scheduler, accepted>>

Next ==
    \/ \E r \in Requests : Send(r)
    \/ Tick

Spec == Init /\ [][Next]_vars

\* The simulation loop ticks the memory system for ever.  Only a tick moves the
\* clock, and nothing else of a tick can disable it.
FairSpec == Spec /\ WF_untilRefresh(Clock)

-----------------------------------------------------------------------------
(***************************************************************************)
(* Properties.                                                             *)
(***************************************************************************)

\* Type invariant of the controller, the device and the plugins; done stays at
\* most 1, so no request is answered or performed twice.
TypeOK ==
    /\ scheduler \in Schedulers
    /\ dev.row \in [Banks -> Rows \cup {Closed}]
    /\ dev.rank \in [Commands -> Nat]
    /\ dev.bank \in [Banks -> [Commands -> Nat]]
    /\ \A buf \in {activeBuf, readBuf, writeBuf} : \A i \in Places(buf) :
          buf[i].req \in accepted /\ buf[i].arrive \in Nat /\ buf[i].age \in Nat
    /\ \A i \in Places(priorityBuf) : priorityBuf[i].req = RefreshRequest
    /\ \A i \in Places(pending) :
          pending[i].req \in accepted /\ pending[i].depart \in 0 .. ReadLatency
    /\ writeMode \in BOOLEAN /\ failed \in BOOLEAN
    /\ untilRefresh \in 1 .. RefreshInterval
    /\ arrivals \in Nat
    /\ bliss.blacklist \subseteq Sources \cup {NoSource}
    /\ bliss.consecutive \in 0 .. BlissThreshold + 1
    /\ bliss.sinceClearing \in 0 .. ClearingInterval - 1
    /\ atlas.owner \in [Banks -> Sources \cup {NoSource}]
    /\ atlas.inQuantum \in 0 .. QuantumLength - 1
    /\ accepted \subseteq Requests
    /\ done \in [Requests -> 0 .. 1]

Copies(buf, r) == Cardinality({i \in Places(buf) : buf[i].req = r})

\* A request the controller has accepted is in exactly one of its buffers or in
\* pending until it is done, and a request that is done is in none.  The result
\* of the enqueue into the active buffer is ignored, so this rests on the active
\* buffer never being full (generic_dram_controller.cpp:127-129): it has room
\* for a request of every bank, and it never holds more.
NoRequestLost ==
    \A r \in Requests :
        Copies(readBuf, r) + Copies(writeBuf, r) + Copies(activeBuf, r)
          + Copies(pending, r) + done[r] = IF r \in accepted THEN 1 ELSE 0

\* The active buffer never holds two requests of one bank, and the
\* bank of an active request has the request's row open or no row at all: were
\* another row open, the request would need a precharge that is called off
\* because of the request itself, for ever (generic_dram_controller.cpp:226-239).
\* A refresh closes rows under the active requests; that they get their rows back
\* before another request takes the bank is up to the order of the buffers.
ActiveOwnsItsBank ==
    \A i \in Places(activeBuf) :
        LET e == activeBuf[i].req
        IN  /\ dev.row[e.bank] \in {Closed, e.row}
            /\ \A j \in Places(activeBuf) \ {i} : activeBuf[j].req.bank # e.bank

\* A refresh is issued before the next one is due, in spite of the
\* requests in the active buffer that go first, so that the priority buffer
\* never fills up and the refresh manager never throws
\* (all_bank_refresh.cpp:51-54).
RefreshKeepsUp == Len(priorityBuf) <= 1 /\ ~ failed

\* ATLAS counts for each thread the banks it owns, and every bank with an open
\* row has an owner.  The converse fails: a PREA closes banks and releases none
\* (plugin/atlas.cpp:85-93), so a thread may be counted for closed banks.
BanksAreCounted ==
    scheduler = "ATLAS" =>
        /\ \A t \in Sources :
              atlas.count[t] = Cardinality({b \in Banks : atlas.owner[b] = t})
        /\ \A b \in Banks : dev.row[b] # Closed => atlas.owner[b] # NoSource

Promise == INSTANCE MemoryPromise

\* The controller keeps what a memory promises: every accepted request is
\* answered or performed once, whatever the scheduler.
KeepsPromise == Promise!Spec

\* Every request the controller has accepted is answered or
\* performed at last, refreshes and write mode notwithstanding.
Drains == []<>(\A r \in accepted : done[r] = 1)
=============================================================================
