------------------------------- MODULE SimpleO3 -------------------------------
(***************************************************************************)
(* lab5: the trace-driven frontend of Ramulator (simpleO3.cpp, core.cpp)   *)
(* with its shared last-level cache (llc.cpp) and the random translation.  *)
(* The memory behind the cache is external: it accepts a request if it has *)
(* room and answers reads at any time and in any order, once each, which   *)
(* is what RamulatorController is shown to keep.                           *)
(*                                                                         *)
(* An address is a page and an offset; a page is one line, and the cache   *)
(* is one of its sets.  A tick of the frontend is a tick of the cache and  *)
(* then of every core in turn; the operators below take what they work on, *)
(* the cache l, a core k or both in s = [llc, core], and return it changed.*)
(***************************************************************************)
EXTENDS Integers, SequencesExt

CONSTANTS
    NumCores,        \* m_num_cores
    Trace,           \* per core, a sequence of [bubbles, load, store]
    VirtualPages,    \* the pages in the traces
    Pages,           \* the physical pages
    Translations,    \* the translations that a run may draw
    Offsets,         \* the addresses in a page
    Ipc,             \* m_ipc
    Depth,           \* m_depth of the instruction window
    Latency,         \* m_latency of the cache
    Associativity,   \* m_associativity
    MshrsPerCore,    \* llc_num_mshr_per_core
    ReadRoom,        \* how many reads the memory takes at a time
    WriteRoom,       \* how many writes the memory takes at a time
    MissMax,         \* bound: while the miss list is longer, the memory writes first
    NoAddr           \* the address -1

Cores == 1 .. NumCores
VirtualAddresses == [page : VirtualPages, offset : Offsets]
NumMshrs == MshrsPerCore * NumCores      \* m_num_mshrs
Addresses == [page : Pages, offset : Offsets]

ASSUME FrontendAssumption ==
    /\ NumCores \in Nat \ {0}
    /\ Ipc \in Nat \ {0} /\ Depth \in Nat \ {0} /\ Latency \in Nat \ {0}
    /\ Associativity \in Nat \ {0} /\ MshrsPerCore \in Nat \ {0}
    /\ ReadRoom \in Nat \ {0} /\ WriteRoom \in Nat \ {0}
    /\ Translations \subseteq [Cores -> [VirtualPages -> Pages]]
    /\ NoAddr \notin Addresses

\* A trace that cannot be read is refused (core.cpp:20-50).  A store is optional.
ASSUME TraceAssumption ==
    \A c \in Cores :
        /\ Trace[c] \in Seq([bubbles : Nat, load : VirtualAddresses \cup {NoAddr},
                             store : VirtualAddresses \cup {NoAddr}])
        /\ Trace[c] # <<>>

VARIABLES
    pageOf,      \* m_translation: the physical page of each core's pages
    llc,         \* [lines, mshrs, waiting, missList, hitList] of the cache
    core,        \* per core [window, bubbles, load, store, next]
    memory,      \* the reads the memory has yet to answer and its writes
    clk,         \* m_clk, modulo 2
    overtaken    \* history: a hit was answered after its line had gone

vars == <<pageOf, llc, core, memory, clk, overtaken>>

-----------------------------------------------------------------------------
(***************************************************************************)
(* llc.cpp.  The lines of the set are in the order of their use; mshrs     *)
(* holds the address of each MSHR, whose line is the one of its page, and  *)
(* waiting is m_receive_requests, of which the set of requests is kept: to *)
(* be woken twice is to be woken.  send works on the cache l alone.        *)
(***************************************************************************)

LinesOf(lines, page) == {i \in DOMAIN lines : lines[i].page = page}
MshrsOf(mshrs, page) == {m \in mshrs : m.page = page}
IsHit(lines, page) == \E i \in LinesOf(lines, page) : lines[i].ready

Later(req) == [wait |-> Latency, req |-> req]

\* Mutation of SendHit: the line is as dirty as the last request.
SendHitOverwritesDirty(l, req) ==
    LET i == CHOOSE j \in LinesOf(l.lines, req.addr.page) : TRUE
        line == [l.lines[i] EXCEPT !.offset = req.addr.offset, !.dirty = req.type = "write"]
    IN  [l EXCEPT !.lines = Append(RemoveAt(@, i), line),
                  !.hitList = Append(@, Later(req))]

\* A hit makes the line the most recent one, gives it the address of the request, and
\* is answered after the latency.
SendHit(l, req) ==
    LET i == CHOOSE j \in LinesOf(l.lines, req.addr.page) : TRUE
        line == [l.lines[i] EXCEPT !.offset = req.addr.offset,
                                   !.dirty = @ \/ req.type = "write"]
    IN  [l EXCEPT !.lines = Append(RemoveAt(@, i), line),
                  !.hitList = Append(@, Later(req))]

\* The lines after a request on one that is in flight.
Stored(lines, req) ==
    [i \in DOMAIN lines |->
        IF lines[i].page = req.addr.page
        THEN [lines[i] EXCEPT !.dirty = @ \/ req.type = "write"] ELSE lines[i]]

\* Mutation of SendMerged: the request waits for its own address, not for the MSHR's.
SendMergedByAddress(l, req) ==
    [l EXCEPT !.waiting[req.addr] = @ \cup {[req EXCEPT !.type = "read"]},
              !.lines = Stored(@, req)]

\* A miss on a line that is in flight joins the requests of its MSHR.
SendMerged(l, req) ==
    LET m == CHOOSE a \in MshrsOf(l.mshrs, req.addr.page) : TRUE
    IN  [l EXCEPT !.waiting[m] = @ \cup {[req EXCEPT !.type = "read"]},
                  !.lines = Stored(@, req)]

HasVictim(lines) == \E i \in DOMAIN lines : lines[i].ready
Victim(lines) == CHOOSE i \in DOMAIN lines :
                    lines[i].ready /\ \A j \in 1 .. i - 1 : ~ lines[j].ready

WriteBack(line) ==
    [type |-> "write", source |-> 0, addr |-> [page |-> line.page, offset |-> line.offset]]

\* evict_line: the least recent line that has arrived goes, a dirty one as a
\* request to write it back.
Evicted(l) ==
    LET v == Victim(l.lines)
    IN  IF Len(l.lines) < Associativity THEN l
        ELSE [l EXCEPT !.lines = RemoveAt(@, v),
                       !.missList = IF l.lines[v].dirty
                                    THEN Append(@, Later(WriteBack(l.lines[v]))) ELSE @]

\* A miss that takes an MSHR, a line and a place in the miss list.
Allocated(l, req, read) ==
    [l EXCEPT !.lines = Append(@, [page |-> req.addr.page, offset |-> req.addr.offset,
                                   dirty |-> req.type = "write", ready |-> FALSE]),
              !.mshrs = @ \cup {req.addr},
              !.waiting[req.addr] = {read},
              !.missList = Append(@, Later(read))]

SendMiss(l, req) == Allocated(Evicted(l), req, [req EXCEPT !.type = "read"])

\* Mutation of CanMiss: one MSHR more than there are.
CanMissOneMore(l) ==
    /\ Cardinality(l.mshrs) <= NumMshrs
    /\ Len(l.lines) < Associativity \/ HasVictim(l.lines)

CanMiss(l) ==
    /\ Cardinality(l.mshrs) < NumMshrs
    /\ Len(l.lines) < Associativity \/ HasVictim(l.lines)

\* Mutation of Merges: the MSHRs are searched for the address and not for its line.
MergesAddress(l, req) == req.addr \in l.mshrs

Merges(l, req) == MshrsOf(l.mshrs, req.addr.page) # {}

\* send returns false if it can neither hit, nor merge, nor allocate.
Accepts(l, req) == IsHit(l.lines, req.addr.page) \/ Merges(l, req) \/ CanMiss(l)

Send(l, req) ==
    CASE IsHit(l.lines, req.addr.page) -> SendHit(l, req)
      [] ~ IsHit(l.lines, req.addr.page) /\ Merges(l, req) -> SendMerged(l, req)
      [] OTHER -> SendMiss(l, req)

-----------------------------------------------------------------------------
(***************************************************************************)
(* Answers, from the memory and from the hit list.                         *)
(***************************************************************************)

\* SimpleO3LLC::receive and the end of SimpleO3::receive: the line of the MSHR, if
\* there is one, is ready, and nobody waits for the address.
Arrived(l, addr) ==
    LET mine == MshrsOf(l.mshrs, addr.page)
    IN  [l EXCEPT
          !.lines = [i \in DOMAIN @ |->
                       IF l.lines[i].page = addr.page /\ mine # {}
                       THEN [l.lines[i] EXCEPT !.ready = TRUE] ELSE l.lines[i]],
          !.mshrs = @ \ mine,
          !.waiting[addr] = {}]

\* set_ready: the instructions of a core with the address of an answered request.
Woken(k, c, answered) ==
    [k EXCEPT !.window = [i \in DOMAIN @ |->
        IF \E r \in answered : r.source = c /\ r.addr = k.window[i].addr
        THEN [k.window[i] EXCEPT !.ready = TRUE] ELSE k.window[i]]]

Receive(s, addr) ==
    [llc |-> Arrived(s.llc, addr),
     core |-> [c \in Cores |-> Woken(s.core[c], c, s.llc.waiting[addr])]]

\* What is left of a latency after a cycle; an entry whose time has come stays due.
Aged(entry) == [entry EXCEPT !.wait = IF @ > 1 THEN @ - 1 ELSE 1]

\* A miss whose time has come goes to the memory, if that has room.
MemoryTakes(m, req) ==
    IF req.type = "read" THEN Len(m.reads) < ReadRoom ELSE m.writes < WriteRoom

Goes(o, entry) == entry.wait = 1 /\ MemoryTakes(o.memory, entry.req)

Offer(o, entry) ==
    LET m == o.memory
    IN  CASE ~ Goes(o, entry) -> [o EXCEPT !.left = Append(@, Aged(entry))]
          [] Goes(o, entry) /\ entry.req.type = "read" ->
                [o EXCEPT !.memory = [m EXCEPT !.reads = Append(@, entry.req.addr)]]
          [] Goes(o, entry) /\ entry.req.type = "write" ->
                [o EXCEPT !.memory = [m EXCEPT !.writes = @ + 1]]

\* The first loop of the cache's tick: what the memory does not take is left.
Offers(list, m) ==
    LET after[k \in 0 .. Len(list)] ==
          IF k = 0 THEN [left |-> <<>>, memory |-> m] ELSE Offer(after[k - 1], list[k])
    IN  after[Len(list)]

\* A hit whose time has come is answered as if it came from memory: what waits
\* for its address is replaced by the hit.
AnswerHit(s, req) ==
    Receive([llc |-> [s.llc EXCEPT !.waiting[req.addr] = {req}], core |-> s.core], req.addr)

AnswerOrKeep(s, entry) ==
    IF entry.wait = 1 THEN AnswerHit(s, entry.req)
    ELSE [llc |-> [s.llc EXCEPT !.hitList = Append(@, Aged(entry))], core |-> s.core]

\* The second loop.
Answers(list, start) ==
    LET after[k \in 0 .. Len(list)] ==
          IF k = 0 THEN start ELSE AnswerOrKeep(after[k - 1], list[k])
    IN  after[Len(list)]

\* The tick of the cache, when the memory has been offered the miss list.
LlcTick(left) ==
    Answers(llc.hitList,
            [llc |-> [llc EXCEPT !.missList = left, !.hitList = <<>>], core |-> core])

-----------------------------------------------------------------------------
(***************************************************************************)
(* core.cpp.  The window holds its instructions from the oldest on.        *)
(***************************************************************************)

Bubble == [ready |-> TRUE, addr |-> NoAddr]

Smallest(S) == CHOOSE n \in S : \A m \in S : n <= m

Retired(window) ==
    LET n == Smallest({Ipc, Len(window)} \cup
                      {i - 1 : i \in {j \in DOMAIN window : ~ window[j].ready}})
    IN  SubSeq(window, n + 1, Len(window))

Request(c, type, vaddr) ==
    [type |-> type, source |-> c,
     addr |-> [page |-> pageOf[c][vaddr.page], offset |-> vaddr.offset]]

NextInst(k, c) ==
    LET inst == Trace[c][k.next]
    IN  [k EXCEPT !.bubbles = inst.bubbles, !.load = inst.load, !.store = inst.store,
                  !.next = IF @ = Len(Trace[c]) THEN 1 ELSE @ + 1]

\* The core c is in state k, the cache has taken a request.
Sent(s, c, req, k) == [llc |-> Send(s.llc, req), core |-> [s.core EXCEPT ![c] = k]]

\* The load in the window, to be made ready by its answer.
Loading(k, addr) == [k EXCEPT !.window = Append(@, [ready |-> FALSE, addr |-> addr])]

\* Mutation of TryLoad: a load that a store follows stays to be sent.
TryLoadAgain(s, c) ==
    LET req == Request(c, "read", s.core[c].load)
        k == Loading(s.core[c], req.addr)
    IN  CASE ~ Accepts(s.llc, req) -> s
          [] Accepts(s.llc, req) /\ k.store # NoAddr -> Sent(s, c, req, k)
          [] OTHER -> Sent(s, c, req, NextInst(k, c))

\* The load enters the window when the cache has accepted it; a store of the
\* same instruction is left to the next cycle.
TryLoad(s, c) ==
    LET req == Request(c, "read", s.core[c].load)
        k == Loading(s.core[c], req.addr)
    IN  CASE ~ Accepts(s.llc, req) -> s
          [] Accepts(s.llc, req) /\ k.store # NoAddr ->
                Sent(s, c, req, [k EXCEPT !.load = NoAddr])
          [] OTHER -> Sent(s, c, req, NextInst(k, c))

TryStore(s, c) ==
    LET k == s.core[c]
        req == Request(c, "write", k.store)
    IN  CASE k.store = NoAddr -> [s EXCEPT !.core[c] = NextInst(k, c)]
          [] k.store # NoAddr /\ Accepts(s.llc, req) -> Sent(s, c, req, NextInst(k, c))
          [] OTHER -> s

\* The window after retiring and n bubbles.
Filled(k, n) ==
    [k EXCEPT !.window = Retired(@) \o [i \in 1 .. n |-> Bubble], !.bubbles = @ - n]

\* SimpleO3Core::tick.
CoreTick(s, c) ==
    LET k == s.core[c]
        room == Depth - Len(Retired(k.window))
        n == Smallest({k.bubbles, Ipc, room})
        filled == [s EXCEPT !.core[c] = Filled(k, n)]
    IN  CASE n < k.bubbles -> filled
          [] n = k.bubbles /\ k.load # NoAddr ->
                IF n < Ipc /\ n < room THEN TryLoad(filled, c) ELSE filled
          [] OTHER -> TryStore(filled, c)

\* The loop over the cores in SimpleO3::tick.
CoreTicks(start) ==
    LET after[c \in 0 .. NumCores] ==
          IF c = 0 THEN start ELSE CoreTick(after[c - 1], c)
    IN  after[NumCores]

-----------------------------------------------------------------------------

Start(c) == [window |-> <<>>, bubbles |-> Trace[c][1].bubbles, load |-> Trace[c][1].load,
             store |-> Trace[c][1].store, next |-> IF Len(Trace[c]) = 1 THEN 1 ELSE 2]

\* RandomTranslation draws a page when a virtual page is first used; drawing them
\* all at the start gives the same behaviours.  No page is ever taken out of the
\* free ones, so two cores may be given the same page.
Init ==
    /\ pageOf \in Translations
    /\ llc = [lines |-> <<>>, mshrs |-> {}, waiting |-> [a \in Addresses |-> {}],
              missList |-> <<>>, hitList |-> <<>>]
    /\ core = [c \in Cores |-> Start(c)]
    /\ memory = [reads |-> <<>>, writes |-> 0]
    /\ clk = 0
    /\ overtaken = FALSE

\* The clock is a formula of its own for the sake of fairness: a step that moves
\* clk is a whole Tick, and that it can be taken is told by the clock alone.
Clock ==
    /\ Len(llc.missList) <= MissMax \/ memory.writes = 0
    /\ clk' = 1 - clk

Tick ==
    /\ Clock
    /\ LET offered == Offers(llc.missList, memory)
           s == CoreTicks(LlcTick(offered.left))
       IN  llc' = s.llc /\ core' = s.core /\ memory' = offered.memory
    /\ overtaken' = (overtaken \/ \E k \in DOMAIN llc.hitList :
                        /\ llc.hitList[k].wait = 1
                        /\ ~ IsHit(llc.lines, llc.hitList[k].req.addr.page))
    /\ UNCHANGED pageOf

\* The memory answers one of its reads, the oldest or another.
MemoryReads(i) ==
    /\ i \in DOMAIN memory.reads
    /\ memory' = [memory EXCEPT !.reads = RemoveAt(@, i)]

MemoryAnswers(i) ==
    /\ MemoryReads(i)
    /\ LET s == Receive([llc |-> llc, core |-> core], memory.reads[i])
       IN  llc' = s.llc /\ core' = s.core
    /\ UNCHANGED <<pageOf, clk, overtaken>>

MemoryWrites ==
    /\ memory.writes > 0
    /\ memory' = [memory EXCEPT !.writes = @ - 1]
    /\ UNCHANGED <<pageOf, llc, core, clk, overtaken>>

Next ==
    \/ Tick
    \/ \E i \in 1 .. ReadRoom : MemoryAnswers(i)
    \/ MemoryWrites

Spec == Init /\ [][Next]_vars

\* main ticks the frontend for ever; the memory answers its oldest read and performs a
\* write at last.
FairSpec ==
    /\ Spec
    /\ WF_clk(Clock)
    /\ WF_memory(MemoryReads(1))
    /\ WF_memory(MemoryWrites)

-----------------------------------------------------------------------------

ReadsOf(page) ==
    {k \in DOMAIN llc.missList :
        llc.missList[k].req.type = "read" /\ llc.missList[k].req.addr.page = page}
FetchesOf(page) == {k \in DOMAIN memory.reads : memory.reads[k].page = page}
WritesBack(l, page) ==
    \E k \in DOMAIN l.missList :
        l.missList[k].req.type = "write" /\ l.missList[k].req.addr.page = page

\* The state has its type: the set never holds more lines than ways, nor more MSHRs
\* than there are, of which send makes sure (llc.cpp:107-129), and no window more than
\* its depth.
TypeOK ==
    LET Source == [type : {"read", "write"}, source : Cores \cup {0}, addr : Addresses]
        Entry(e) == e.wait \in 1 .. Latency /\ e.req \in Source
    IN  /\ llc.lines \in Seq([page : Pages, offset : Offsets, dirty : BOOLEAN, ready : BOOLEAN])
        /\ Len(llc.lines) <= Associativity
        /\ llc.mshrs \subseteq Addresses /\ Cardinality(llc.mshrs) <= NumMshrs
        /\ \A a \in Addresses : llc.waiting[a] \subseteq Source
        /\ \A k \in DOMAIN llc.missList : Entry(llc.missList[k])
        /\ \A k \in DOMAIN llc.hitList : Entry(llc.hitList[k])
        /\ \A c \in Cores :
              /\ Len(core[c].window) <= Depth
              /\ core[c].bubbles \in Nat /\ core[c].next \in DOMAIN Trace[c]
        /\ Len(memory.reads) <= ReadRoom /\ memory.writes \in 0 .. WriteRoom
        /\ clk \in 0 .. 1 /\ overtaken \in BOOLEAN

\* No page has two lines, which allocating a line asserts (llc.cpp:191-196), and the
\* lines that have not arrived are exactly those of the MSHRs, each of which has a
\* read on its way to the memory or in it.  While every hit is answered before its line
\* goes, that is its only one: merged misses are fetched once.
LinesAndMshrs ==
    /\ \A i, j \in DOMAIN llc.lines : llc.lines[i].page = llc.lines[j].page => i = j
    /\ \A m, n \in llc.mshrs : m.page = n.page => m = n
    /\ {m.page : m \in llc.mshrs} =
          {llc.lines[i].page : i \in {j \in DOMAIN llc.lines : ~ llc.lines[j].ready}}
    /\ \A m \in llc.mshrs : ReadsOf(m.page) # {} \/ FetchesOf(m.page) # {}
    /\ ~ overtaken =>
          \A p \in Pages : Cardinality(ReadsOf(p)) + Cardinality(FetchesOf(p)) =
                           Cardinality(MshrsOf(llc.mshrs, p))

\* While every hit is answered before its line goes, somebody will make every load of a
\* window ready: the load waits in the MSHR of its line or in the hit list.
\* A late answer replaces what waits for its address (llc.cpp:44), and a request
\* forgotten so stalls its core for ever.
LoadsAreAwaited ==
    ~ overtaken =>
        \A c \in Cores : \A i \in DOMAIN core[c].window :
            LET addr == core[c].window[i].addr
                Wakes(r) == r.source = c /\ r.addr = addr
            IN  \/ core[c].window[i].ready
                \/ \E m \in MshrsOf(llc.mshrs, addr.page) : \E r \in llc.waiting[m] : Wakes(r)
                \/ \E k \in DOMAIN llc.hitList : Wakes(llc.hitList[k].req)

\* A store is never lost: a dirty line stays dirty as it moves
\* in the set, arrives or is hit again, until it is evicted, and then a write of its
\* page is in the miss list.
DirtyIsWrittenBack ==
    [][\A i \in DOMAIN llc.lines :
          llc.lines[i].dirty =>
              \/ \E j \in DOMAIN llc'.lines :
                    llc'.lines[j].page = llc.lines[i].page /\ llc'.lines[j].dirty
              \/ WritesBack(llc', llc.lines[i].page)]_vars

\* While every hit is answered before its line goes, every core reads on in
\* its trace: no core starves behind the others, which tick before it and share the
\* MSHRs, the lines and the memory with it.
CoresProgress ==
    [](~ overtaken) => \A c \in Cores : []<><<core'[c].next # core[c].next>>_vars

=============================================================================
