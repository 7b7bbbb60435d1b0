---------------------------- MODULE ChampSimCache ----------------------------
(***************************************************************************)
(* lab4: a cache of ChampSim (src/cache.cc) with the channels from the     *)
(* levels above it (src/channel.cc) and LRU replacement (replacement/lru). *)
(*                                                                         *)
(* Between two cycles the levels above add requests to their channels, the *)
(* prefetcher asks for lines, and the level below and the TLB take and     *)
(* answer requests, in any order.  A cycle is the whole of operate().      *)
(* Time points are cycles still to wait.                                   *)
(***************************************************************************)
EXTENDS Integers, FiniteSets, SequencesExt

CONSTANTS
  Kinds,           \* which caches to model: "L1D", "L2C" or both
  Prefetching,     \* the kinds that have a prefetcher
  UppersOf,        \* the number of upper levels of each kind
  Addresses,       \* of the requests to each kind, natural numbers
  BlockSize,       \* 2^OFFSET_BITS
  PageSize,        \* in bytes, a multiple of BlockSize
  NumSet,          \* NUM_SET
  NumWay,          \* NUM_WAY
  MshrSize,        \* MSHR_SIZE of each kind
  QueueSize,       \* RQ_SIZE, WQ_SIZE and PQ_SIZE of the channels from above
  PqSize,          \* PQ_SIZE of the internal prefetch queue
  LowerSize,       \* the same sizes of the channel to the level below
  TlbSize,         \* RQ_SIZE of the channel to the TLB
  HitLatency,      \* HIT_LATENCY in cycles
  FillLatency,     \* FILL_LATENCY in cycles
  MaxTag,          \* MAX_TAG
  MaxFill,         \* MAX_FILL
  PrefetchAsLoad,  \* prefetch_as_load
  MaxRequests      \* bound of the requests, from above and of the prefetcher

ASSUME CacheAssumption ==
  /\ Kinds \subseteq {"L1D", "L2C"} /\ Prefetching \subseteq Kinds
  /\ UppersOf \in [Kinds -> Nat \ {0}]
  /\ DOMAIN Addresses = Kinds /\ \A k \in Kinds : Addresses[k] \subseteq Nat
  /\ MshrSize \in [Kinds -> Nat \ {0}]
  /\ {BlockSize, PageSize, NumSet, NumWay, QueueSize, LowerSize,
      HitLatency, MaxTag, MaxFill} \subseteq Nat \ {0}
  /\ PageSize % BlockSize = 0
  /\ {PqSize, TlbSize, FillLatency} \subseteq Nat
  /\ MaxRequests \in [Kinds -> Nat]
  /\ PrefetchAsLoad \in BOOLEAN

VARIABLES
  kind,      \* the cache of the configuration
  uppers,    \* the queues WQ, RQ and PQ of each upper level
  clock,     \* the cycle, as far as it tells whose turn it is
  pq,        \* internal_PQ
  tags,      \* inflight_tag_check
  stash,     \* translation_stash
  mshrs,     \* MSHR
  writes,    \* inflight_writes
  lines,     \* block
  lru,       \* the ways of each set, by last_used_cycles
  lower,     \* the channel to the level below and what that level works on
  tlb,       \* the channel to the TLB
  stats,     \* pf_issued, pf_useful and pf_useless
  sent,      \* the number of requests from above
  owed       \* the loads from above that have not been answered

cacheVars == <<clock, uppers, pq, tags, stash, mshrs, writes, lines, lru, lower, tlb>>
vars == <<kind, cacheVars, stats, sent, owed>>

BlockOf(addr) == addr \div BlockSize
PageOf(block) == (block * BlockSize) \div PageSize
SetOf(block) == block % NumSet
Blocks == {BlockOf(addr) : addr \in UNION {Addresses[k] : k \in Kinds}}
Pages == {PageOf(b) : b \in Blocks}

\* Only an L1D has a TLB, is sent virtual addresses, and distinguishes the writes
\* (stores) by their full address.
MatchOffsetBits == kind = "L1D"
Translates == kind = "L1D"
Uppers == 1 .. UppersOf[kind]

Unknown == -1
Invalid == [valid |-> FALSE, block |-> 0, dirty |-> FALSE, prefetch |-> FALSE]

Init ==
  /\ kind \in Kinds
  /\ clock = 0
  /\ uppers = [u \in Uppers |-> [wq |-> <<>>, rq |-> <<>>, pq |-> <<>>]]
  /\ pq = <<>> /\ tags = <<>> /\ stash = <<>> /\ mshrs = <<>> /\ writes = <<>>
  /\ lines = [k \in 0 .. NumSet - 1 |-> [w \in 1 .. NumWay |-> Invalid]]
  /\ lru = [k \in 0 .. NumSet - 1 |-> [w \in 1 .. NumWay |-> w]]
  /\ lower = [wq |-> <<>>, rq |-> <<>>, pq |-> <<>>, returned |-> <<>>,
              working |-> [b \in Blocks |-> 0]]
  /\ tlb = [rq |-> <<>>, returned |-> <<>>]
  /\ stats = [issued |-> 0, useful |-> 0, useless |-> 0]
  /\ sent = 0
  /\ owed = {}

-----------------------------------------------------------------------------
(***************************************************************************)
(* Loops over queues.  A turn takes from the queue what it is done with,   *)
(* or passes over it.                                                      *)
(***************************************************************************)
\* The n-th value of a loop.
Repeat(n, start, Turn(_)) ==
  LET after[k \in 0 .. n] == IF k = 0 THEN start ELSE Turn(after[k - 1])
  IN  after[n]

\* The elements of the queue that are in S, in their order.
Those(queue, S) ==
  LET kept[k \in 0 .. Len(queue)] ==
        IF k = 0 THEN <<>>
        ELSE IF queue[k] \in S THEN Append(kept[k - 1], queue[k]) ELSE kept[k - 1]
  IN  kept[Len(queue)]

From(queue, i) == SubSeq(queue, i, Len(queue))

Least(m, n) == IF m < n THEN m ELSE n
Greatest(m, n) == IF m > n THEN m ELSE n

\* The longest prefix of the first n elements that is in S (get_span_p).
SpanLength(queue, n, S) ==
  LET first == SelectInSeq(queue, LAMBDA e : e \notin S)
  IN  Least(IF first = 0 THEN Len(queue) ELSE first - 1, n)

-----------------------------------------------------------------------------
(***************************************************************************)
(* channel::check_collision                                                *)
(***************************************************************************)
\* 2^write_shamt; reads are compared by their block.
WriteGrain == IF MatchOffsetBits THEN 1 ELSE BlockSize

SameSlice(addr, other, grain) == addr \div grain = other \div grain

\* Where in the queue the request collides: at the first of its address, if
\* both have been translated or neither.
Collision(queue, r, grain) ==
  LET i == SelectInSeq(queue, LAMBDA x : SameSlice(x.addr, r.addr, grain))
  IN  IF i # 0 /\ queue[i].translated = r.translated THEN i ELSE 0

\* A read of what is about to be written is answered at once.
Forwarded(wq, r) == Collision(wq, r, WriteGrain) # 0

\* do_collision_for_merge
MergedRequest(r, other) == [r EXCEPT !.wants = @ \/ other.wants, !.ids = @ \cup other.ids]

\* The next request of a queue leaves it, answered by a write of wq or merged with
\* an earlier one, or is passed over.
CheckNext(at, wq, grain) ==
  LET r == at.queue[at.next]
      i == Collision(SubSeq(at.queue, 1, at.next - 1), r, grain)
      others == RemoveAt(at.queue, at.next)
  IN  IF r.checked THEN [at EXCEPT !.next = at.next + 1]
      ELSE IF Forwarded(wq, r)
      THEN [at EXCEPT !.queue = others, !.answered = at.answered \cup IF r.wants THEN r.ids ELSE {}]
      ELSE IF i # 0
      THEN [at EXCEPT !.queue = [others EXCEPT ![i] = MergedRequest(at.queue[i], r)]]
      ELSE [at EXCEPT !.queue = [at.queue EXCEPT ![at.next] = [r EXCEPT !.checked = TRUE]],
                      !.next = at.next + 1]

CheckQueue(queue, wq, grain) ==
  Repeat(Len(queue), [queue |-> queue, next |-> 1, answered |-> {}],
         LAMBDA at : CheckNext(at, wq, grain))

CheckChannel(ch) ==
  LET wq == CheckQueue(ch.wq, <<>>, WriteGrain).queue
      rq == CheckQueue(ch.rq, wq, BlockSize)
      pref == CheckQueue(ch.pq, wq, BlockSize)
  IN  [channel |-> [wq |-> wq, rq |-> rq.queue, pq |-> pref.queue],
       answered |-> rq.answered \cup pref.answered]

CheckCollisions(s) ==
  LET checked == [u \in Uppers |-> CheckChannel(s.uppers[u])]
  IN  [s EXCEPT !.uppers = [u \in Uppers |-> checked[u].channel],
                !.owed = s.owed \ UNION {checked[u].answered : u \in Uppers}]

-----------------------------------------------------------------------------
(***************************************************************************)
(* What comes back from the TLB and from below.                            *)
(***************************************************************************)
\* The levels that wait for an answer get it.
Respond(s, to, ids) == [s EXCEPT !.owed = @ \ {id \in ids : id.upper \in to}]

MshrOf(s, block) == SelectInSeq(s.mshrs, LAMBDA m : m.block = block)

\* finish_packet without the swap.
FinishPacketInPlace(s) ==
  LET i == MshrOf(s, Head(s.lower.returned))
      seen == [s EXCEPT !.lower = [@ EXCEPT !.returned = Tail(@)]]
  IN  IF i = 0 THEN seen
      ELSE [seen EXCEPT !.mshrs = [@ EXCEPT ![i] = [@ EXCEPT !.wait = FillLatency]]]

\* The entry goes behind those that have returned before.
FinishPacket(s) ==
  LET i == MshrOf(s, Head(s.lower.returned))
      j == SelectInSeq(s.mshrs, LAMBDA m : m.wait = Unknown)
      done == [s.mshrs[i] EXCEPT !.wait = FillLatency]
      seen == [s EXCEPT !.lower = [s.lower EXCEPT !.returned = Tail(@)]]
  IN  IF i = 0 \/ j = 0 THEN seen   \* assert(0)
      ELSE [seen EXCEPT !.mshrs = [m \in DOMAIN s.mshrs |->
              IF m = j THEN done ELSE IF m = i THEN s.mshrs[j] ELSE s.mshrs[m]]]

FinishTranslation(s) ==
  LET page == Head(s.tlb.returned)
      Matches(e) == PageOf(e.block) = page /\ ~ e.translated
      Marked(q) == [i \in DOMAIN q |->
                      IF Matches(q[i]) THEN [q[i] EXCEPT !.translated = TRUE] ELSE q[i]]
      done == {e \in ToSet(s.stash) : e.translated \/ Matches(e)}
      first == Marked(Those(s.stash, done))
      last == Those(s.stash, ToSet(s.stash) \ done)
  IN  [s EXCEPT !.stash = first \o last, !.tags = Marked(s.tags),
                !.tlb = [s.tlb EXCEPT !.returned = Tail(@)]]

FinishPackets(s) == Repeat(Len(s.lower.returned), s, FinishPacket)
FinishTranslations(s) == Repeat(Len(s.tlb.returned), s, FinishTranslation)
FinishReturns(s) == FinishTranslations(FinishPackets(s))

-----------------------------------------------------------------------------
(***************************************************************************)
(* handle_fill                                                             *)
(***************************************************************************)
\* The way becomes the most recently used of its set.
Touch(order, way) ==
  RemoveAt(order, CHOOSE i \in DOMAIN order : order[i] = way) \o <<way>>

FirstInvalid(set) == {w \in DOMAIN set : ~ set[w].valid /\ \A v \in 1 .. w - 1 : set[v].valid}

Victim(s, set) ==
  IF FirstInvalid(s.lines[set]) = {} THEN Head(s.lru[set])
  ELSE CHOOSE w \in FirstInvalid(s.lines[set]) : TRUE

WritesBack(line) == line.valid /\ line.dirty

CanFill(s, m) ==
  LET set == SetOf(m.block)
  IN  WritesBack(s.lines[set][Victim(s, set)]) => Len(s.lower.wq) < LowerSize

FillBlock(m) ==
  [valid |-> TRUE, block |-> m.block, dirty |-> m.type = "WRITE", prefetch |-> m.local]

PutLine(ls, set, way, line) == [ls EXCEPT ![set] = [@ EXCEPT ![way] = line]]

HandleFill(s, m) ==
  LET set == SetOf(m.block)
      way == Victim(s, set)
      old == s.lines[set][way]
      filled == [s EXCEPT
        !.lower = IF WritesBack(old)
                  THEN [s.lower EXCEPT !.wq = Append(@, [block |-> old.block])] ELSE s.lower,
        !.stats = IF old.valid /\ old.prefetch
                  THEN [s.stats EXCEPT !.useless = @ + 1] ELSE s.stats,
        !.lines = PutLine(s.lines, set, way, FillBlock(m)),
        !.lru = [s.lru EXCEPT ![set] = Touch(@, way)]]
  IN  Respond(filled, m.to, m.ids)

\* The first entry of the MSHRs, or of the writes, leaves if it is ready and can
\* be filled; if not, nor can those behind it.
FillHead(s, name) ==
  IF s[name] # <<>> /\ Head(s[name]).wait = 0 /\ CanFill(s, Head(s[name]))
  THEN [HandleFill(s, Head(s[name])) EXCEPT ![name] = Tail(@)]
  ELSE s

PerformFills(s) ==
  LET reads == Repeat(MaxFill, s, LAMBDA x : FillHead(x, "mshrs"))
      used == Len(s.mshrs) - Len(reads.mshrs)
  IN  Repeat(MaxFill - used, reads, LAMBDA x : FillHead(x, "writes"))

-----------------------------------------------------------------------------
(***************************************************************************)
(* initiate_tag_check                                                      *)
(***************************************************************************)
TagOf(r, u) ==
  [block |-> BlockOf(r.addr), type |-> r.type, local |-> FALSE, skip |-> FALSE,
   translated |-> r.translated, issued |-> FALSE, wait |-> HitLatency,
   ids |-> r.ids, to |-> IF r.wants THEN {u} ELSE {}]

\* transform_while_n: how many elements of q begin their tag check.
Begins(q, bandwidth, avail) ==
  SpanLength(q, bandwidth, {e \in ToSet(q) : avail \/ e.translated})

Again(q, n) == [i \in 1 .. n |-> [q[i] EXCEPT !.wait = HitLatency]]

\* The queues of the upper levels, which are rotated by one in every cycle.
UpperAt(cycle, i) == ((((i - 1) \div 3) + cycle) % UppersOf[kind]) + 1
NameAt(i) == <<"wq", "rq", "pq">>[((i - 1) % 3) + 1]

PutQueue(up, u, name, q) == [up EXCEPT ![u] = [@ EXCEPT ![name] = q]]

\* The first n requests of the queue begin their tag check.
BeginRequests(s, u, name, n) ==
  LET q == s.uppers[u][name]
  IN  [s EXCEPT !.tags = s.tags \o [i \in 1 .. n |-> TagOf(q[i], u)],
                !.uppers = PutQueue(s.uppers, u, name, From(q, n + 1))]

InitiateNext(at, share, avail) ==
  LET u == UpperAt(at.s.clock, at.next)
      name == NameAt(at.next)
      n == Begins(at.s.uppers[u][name], Least(share, at.bandwidth), avail)
  IN  [s |-> BeginRequests(at.s, u, name, n),
       bandwidth |-> at.bandwidth - n, next |-> at.next + 1]

InitiateAbove(s, bandwidth, share, avail) ==
  Repeat(3 * UppersOf[kind], [s |-> s, bandwidth |-> bandwidth, next |-> 1],
         LAMBDA at : InitiateNext(at, share, avail))

BeginStash(s, n) ==
  [s EXCEPT !.tags = s.tags \o Again(s.stash, n), !.stash = From(s.stash, n + 1)]

BeginPrefetches(s, n) ==
  [s EXCEPT !.tags = s.tags \o Again(s.pq, n), !.pq = From(s.pq, n + 1)]

\* Stashed requests first, then the upper levels in turn, each with an equal
\* share, and the prefetches with what is left.
InitiateTagChecks(s) ==
  LET total == Least(Greatest(MaxTag * HitLatency - Len(s.tags), 0), MaxTag)
      avail == Len(s.stash) < MshrSize[kind]
      n == Begins(s.stash, total, FALSE)
      share == Greatest((total - n) \div UppersOf[kind], 1)
      above == InitiateAbove(BeginStash(s, n), total - n, share, avail)
  IN  BeginPrefetches(above.s, Begins(above.s.pq, above.bandwidth, avail))

-----------------------------------------------------------------------------
(***************************************************************************)
(* issue_translation, and the stash for those that wait for the TLB.       *)
(***************************************************************************)
\* The first that have not asked the TLB do, as many as its queue has room for.
IssueTranslations(s) ==
  LET queue == s.tags \o s.stash
      asking == {e \in ToSet(queue) : ~ e.translated /\ ~ e.issued}
      asked == Those(queue, asking)
      n == Least(Len(asked), Greatest(TlbSize - Len(s.tlb.rq), 0))
      Earlier(i) == {j \in 1 .. i - 1 : queue[j] \in asking}
      Issue(i) == IF queue[i] \in asking /\ Cardinality(Earlier(i)) < n
                  THEN [queue[i] EXCEPT !.issued = TRUE] ELSE queue[i]
      pages == [i \in 1 .. n |-> PageOf(asked[i].block)]
  IN  [s EXCEPT !.tags = [i \in DOMAIN s.tags |-> Issue(i)],
                !.stash = [i \in DOMAIN s.stash |-> Issue(Len(s.tags) + i)],
                !.tlb = [s.tlb EXCEPT !.rq = s.tlb.rq \o pages]]

StashMisses(s) ==
  LET missed == {e \in ToSet(s.tags) : e.wait = 0 /\ ~ e.translated}
  IN  [s EXCEPT !.tags = Those(@, ToSet(@) \ missed),
                !.stash = @ \o Those(s.tags, missed)]

-----------------------------------------------------------------------------
(***************************************************************************)
(* try_hit, handle_miss and handle_write                                   *)
(***************************************************************************)
WaysOf(s, block) ==
  {w \in 1 .. NumWay : s.lines[SetOf(block)][w].valid /\ s.lines[SetOf(block)][w].block = block}

Hits(s, t) == WaysOf(s, t.block) # {}

\* The prefetch bit stays.
AfterHitStillPrefetched(line, t) == [line EXCEPT !.dirty = @ \/ t.type = "WRITE"]

\* The dirty bit is assigned.
AfterHitAssigned(line, t) ==
  [line EXCEPT !.dirty = t.type = "WRITE", !.prefetch = @ /\ t.local]

AfterHit(line, t) ==
  [line EXCEPT !.dirty = @ \/ t.type = "WRITE", !.prefetch = @ /\ t.local]

\* try_hit of a tag check that hits.
TryHit(s, t) ==
  LET set == SetOf(t.block)
      way == CHOOSE w \in WaysOf(s, t.block) : \A v \in WaysOf(s, t.block) : w <= v
      line == s.lines[set][way]
      hit == [s EXCEPT
        !.lines = PutLine(s.lines, set, way, AfterHit(line, t)),
        !.lru = IF t.type = "WRITE" THEN s.lru ELSE [s.lru EXCEPT ![set] = Touch(@, way)],
        !.stats = IF line.prefetch /\ ~ t.local
                  THEN [s.stats EXCEPT !.useful = @ + 1] ELSE s.stats]
  IN  Respond(hit, t.to, t.ids)

MshrType(t) ==
  [block |-> t.block, type |-> t.type, local |-> t.local, wait |-> Unknown,
   ids |-> t.ids, to |-> t.to]

\* mshr_type::merge that takes the successor's promise, which is not ready.
MergeAnew(m, t) ==
  [IF t.type = "PREFETCH" THEN m ELSE MshrType(t)
     EXCEPT !.wait = Unknown, !.ids = m.ids \cup t.ids, !.to = m.to \cup t.to]

\* mshr_type::merge that answers only the successor.
MergeAnswersLast(m, t) ==
  [IF t.type = "PREFETCH" THEN m ELSE MshrType(t)
     EXCEPT !.wait = m.wait, !.ids = m.ids \cup t.ids]

\* mshr_type::merge
Merge(m, t) ==
  [IF t.type = "PREFETCH" THEN m ELSE MshrType(t)
     EXCEPT !.wait = m.wait, !.ids = m.ids \cup t.ids, !.to = m.to \cup t.to]

MergesUsefully(m, t) == m.type = "PREFETCH" /\ t.type # "PREFETCH" /\ m.local

LowerQueue(t) == IF PrefetchAsLoad \/ t.type # "PREFETCH" THEN "rq" ELSE "pq"
ResponseRequested(t) == ~ t.local \/ ~ t.skip

CanHandleMiss(s, t) ==
  \/ MshrOf(s, t.block) # 0
  \/ Len(s.mshrs) # MshrSize[kind] /\ Len(s.lower[LowerQueue(t)]) < LowerSize

HandleMiss(s, t) ==
  LET i == MshrOf(s, t.block)
      packet == [block |-> t.block, wants |-> ResponseRequested(t)]
  IN  IF i # 0
      THEN [s EXCEPT !.mshrs = [s.mshrs EXCEPT ![i] = Merge(@, t)],
                     !.stats = IF MergesUsefully(s.mshrs[i], t)
                               THEN [s.stats EXCEPT !.useful = @ + 1] ELSE s.stats]
      ELSE [s EXCEPT !.lower = [s.lower EXCEPT ![LowerQueue(t)] = Append(@, packet)],
                     !.mshrs = IF ResponseRequested(t) THEN Append(s.mshrs, MshrType(t))
                               ELSE s.mshrs]

\* Writebacks are filled without reading the block.
HandleWrite(s, t) ==
  [s EXCEPT !.writes = Append(@, [MshrType(t) EXCEPT !.wait = FillLatency])]

Without(s, i) == [s EXCEPT !.tags = RemoveAt(@, i)]

\* The next of the tag checks that are over leaves if it hits.
HitNext(at) ==
  LET t == at.s.tags[at.next]
  IN  IF Hits(at.s, t) THEN [at EXCEPT !.s = TryHit(Without(@, at.next), t)]
      ELSE [at EXCEPT !.next = @ + 1]

\* The next miss leaves if it can be handled; if not, those behind it are tried all the same.
MissNext(at) ==
  LET t == at.s.tags[at.next]
  IN  IF t.type = "WRITE" /\ ~ MatchOffsetBits
      THEN [at EXCEPT !.s = HandleWrite(Without(@, at.next), t)]
      ELSE IF CanHandleMiss(at.s, t)
      THEN [at EXCEPT !.s = HandleMiss(Without(@, at.next), t)]
      ELSE [at EXCEPT !.next = @ + 1]

CheckHits(s) ==
  LET n == SpanLength(s.tags, MaxTag, {t \in ToSet(s.tags) : t.wait = 0 /\ t.translated})
  IN  Repeat(n, [s |-> s, next |-> 1], HitNext)

CheckMisses(s, n) == Repeat(n, [s |-> s, next |-> 1], MissNext).s

\* All hits first, then the misses.
CheckTags(s) == LET hit == CheckHits(s) IN CheckMisses(hit.s, hit.next - 1)

-----------------------------------------------------------------------------
(***************************************************************************)
(* A cycle.                                                                *)
(***************************************************************************)
Tick(q) == [i \in DOMAIN q |-> IF q[i].wait > 0 THEN [q[i] EXCEPT !.wait = @ - 1] ELSE q[i]]

Turns == Greatest(UppersOf[kind], 2)
NextClock == (clock + 1) % Turns

State ==
  [clock |-> NextClock, uppers |-> uppers, pq |-> pq, tags |-> Tick(tags), stash |-> stash,
   mshrs |-> Tick(mshrs), writes |-> Tick(writes), lines |-> lines, lru |-> lru,
   lower |-> lower, tlb |-> tlb, stats |-> stats, owed |-> owed]

Cycle(s) ==
  LET filled == PerformFills(FinishReturns(CheckCollisions(s)))
      translated == IssueTranslations(InitiateTagChecks(filled))
  IN  CheckTags(StashMisses(translated))

Operate ==
  \E s \in {Cycle(State)} :
    /\ clock' = s.clock
    /\ uppers' = s.uppers
    /\ pq' = s.pq /\ tags' = s.tags /\ stash' = s.stash
    /\ mshrs' = s.mshrs /\ writes' = s.writes
    /\ lines' = s.lines /\ lru' = s.lru
    /\ lower' = s.lower /\ tlb' = s.tlb
    /\ stats' = s.stats /\ owed' = s.owed
    /\ UNCHANGED <<kind, sent>>

-----------------------------------------------------------------------------
(***************************************************************************)
(* The levels above: channel::add_rq, add_wq and add_pq.                   *)
(***************************************************************************)
MayAsk == sent + stats.issued < MaxRequests[kind]

AddQueue(u, name, r) ==
  /\ MayAsk
  /\ Len(uppers[u][name]) < QueueSize
  /\ uppers' = PutQueue(uppers, u, name, Append(uppers[u][name], r))
  /\ sent' = sent + 1
  /\ UNCHANGED <<kind, clock, pq, tags, stash, mshrs, writes, lines, lru, lower, tlb, stats>>

Request(addr, type, ids, wants) ==
  [addr |-> addr, type |-> type, ids |-> ids, wants |-> wants,
   translated |-> ~ Translates, checked |-> FALSE]

Id(u, addr) == [upper |-> u, block |-> BlockOf(addr), n |-> sent + 1]

\* A cache has one miss of a block at a time, a core may have several loads.
MayRead(u, addr) ==
  kind = "L2C" => \A id \in owed : ~ (id.upper = u /\ id.block = BlockOf(addr))

\* The first upper level of an L2C is an L1D, the others are an L1I and page table
\* walkers, which only read.
OnlyReads(u) == kind = "L2C" /\ u # 1

Load(u, addr) ==
  /\ MayRead(u, addr)
  /\ AddQueue(u, "rq", Request(addr, "LOAD", {Id(u, addr)}, TRUE))
  /\ owed' = owed \cup {Id(u, addr)}

\* A store of the core or a write-back of an upper cache.
Write(u, addr) ==
  /\ ~ OnlyReads(u)
  /\ AddQueue(u, "wq", Request(addr, "WRITE", {}, FALSE))
  /\ UNCHANGED owed

\* A prefetch of an upper cache for itself, or to be filled here.
Prefetch(u, addr) ==
  /\ kind = "L2C" /\ ~ OnlyReads(u)
  /\ \/ /\ MayRead(u, addr)
        /\ AddQueue(u, "pq", Request(addr, "PREFETCH", {Id(u, addr)}, TRUE))
        /\ owed' = owed \cup {Id(u, addr)}
     \/ /\ AddQueue(u, "pq", Request(addr, "PREFETCH", {}, FALSE))
        /\ UNCHANGED owed

\* prefetch_line, called by the prefetcher of this cache.
PrefetchLine(block, fillThisLevel) ==
  /\ kind \in Prefetching /\ MayAsk
  /\ Len(pq) < PqSize
  /\ pq' = Append(pq, [block |-> block, type |-> "PREFETCH", local |-> TRUE,
                       skip |-> ~ fillThisLevel, translated |-> TRUE, issued |-> FALSE,
                       wait |-> 0, ids |-> {}, to |-> {}])
  /\ stats' = [stats EXCEPT !.issued = @ + 1]
  /\ UNCHANGED <<kind, clock, uppers, tags, stash, mshrs, writes, lines, lru, lower, tlb, sent, owed>>

-----------------------------------------------------------------------------
(***************************************************************************)
(* The level below and the TLB, as this cache sees them.                   *)
(***************************************************************************)
LowerChanges ==
  UNCHANGED <<kind, clock, uppers, pq, tags, stash, mshrs, writes, lines, lru, tlb, stats,
              sent, owed>>

LowerTakes(name) ==
  /\ lower[name] # <<>>
  /\ LET r == Head(lower[name])
     IN  lower' = [lower EXCEPT ![name] = Tail(@),
                                !.working[r.block] = IF name # "wq" /\ r.wants THEN @ + 1 ELSE @]
  /\ LowerChanges

LowerReturns(block) ==
  /\ lower.working[block] > 0
  /\ lower' = [lower EXCEPT !.working[block] = @ - 1, !.returned = Append(@, block)]
  /\ LowerChanges

\* Requests of one page are merged and answered once.
TlbReturns(page) ==
  /\ page \in ToSet(tlb.rq)
  /\ tlb' = [rq |-> Those(tlb.rq, Pages \ {page}), returned |-> Append(tlb.returned, page)]
  /\ UNCHANGED <<kind, clock, uppers, pq, tags, stash, mshrs, writes, lines, lru, lower,
                 stats, sent, owed>>

-----------------------------------------------------------------------------
FromAbove ==
  \E u \in Uppers, addr \in Addresses[kind] : Load(u, addr) \/ Write(u, addr) \/ Prefetch(u, addr)

Next ==
  \/ FromAbove
  \/ \E b \in Blocks, fill \in BOOLEAN : PrefetchLine(b, fill)
  \/ \E name \in {"rq", "pq", "wq"} : LowerTakes(name)
  \/ \E b \in Blocks : LowerReturns(b)
  \/ \E p \in Pages : TlbReturns(p)
  \/ Operate

Spec == Init /\ [][Next]_vars

\* Only Operate moves the clock, and nothing can disable it.
Advance == clock' = NextClock

\* The simulation operates every component every cycle; a memory and a TLB that are
\* operated take their requests and answer them.
FairSpec ==
  /\ Spec
  /\ WF_clock(Advance)
  /\ \A name \in {"rq", "pq", "wq"} : WF_vars(LowerTakes(name))
  /\ \A b \in Blocks : WF_vars(LowerReturns(b))
  /\ \A p \in Pages : WF_vars(TlbReturns(p))

-----------------------------------------------------------------------------
(***************************************************************************)
(* Properties.                                                             *)
(***************************************************************************)
Count(q, Test(_)) == Cardinality({i \in DOMAIN q : Test(q[i])})

\* Prefetches of this cache that are neither done with nor counted.
Unsettled ==
  LET Local(e) == e.local
      Prefetched == {k \in (0 .. NumSet - 1) \X (1 .. NumWay) :
                       lines[k[1]][k[2]].valid /\ lines[k[1]][k[2]].prefetch}
  IN  Count(pq, Local) + Count(tags, Local) + Count(mshrs, Local) + Cardinality(Prefetched)

\* Every queue keeps its bound, the tag checks in flight theirs (cache.cc:453-455),
\* the translated requests of the stash come first, where they are looked for, and no
\* prefetch is counted as useful or useless twice, of which the accuracy is made that
\* the prefetchers throttle themselves by (cache.cc:226-228, 287-290, 340-345).
TypeOK ==
  /\ kind \in Kinds
  /\ \A u \in Uppers : \A name \in {"wq", "rq", "pq"} : Len(uppers[u][name]) <= QueueSize
  /\ clock \in 0 .. Turns - 1
  /\ Len(pq) <= PqSize /\ Len(mshrs) <= MshrSize[kind]
  /\ Len(tags) <= MaxTag * HitLatency
  /\ \A t \in ToSet(tags) : t.wait \in 0 .. HitLatency
  /\ \A i, j \in DOMAIN stash : i < j /\ stash[j].translated => stash[i].translated
  /\ \A m \in ToSet(mshrs) : m.wait \in {Unknown} \cup 0 .. FillLatency
  /\ \A m \in ToSet(writes) : m.wait \in 0 .. FillLatency
  /\ \A k \in DOMAIN lru : ToSet(lru[k]) = 1 .. NumWay
  /\ Len(lower.rq) <= LowerSize /\ Len(lower.pq) <= LowerSize /\ Len(lower.wq) <= LowerSize
  /\ Len(tlb.rq) <= TlbSize
  /\ stats.useful + stats.useless + Unsettled <= stats.issued

\* The requests for a block below that want an answer, and the answers.
Below(block) ==
  LET Wanted(r) == r.block = block /\ r.wants
  IN  Count(lower.rq, Wanted) + Count(lower.pq, Wanted) + lower.working[block]
        + Count(lower.returned, LAMBDA b : b = block)

\* A block has at most one MSHR; those that have returned come first, in the order in
\* which they become ready, so that the fills find them; and each of the others
\* has exactly one request or answer below, and none is below without an MSHR, which
\* finish_packet would fail on (cache.cc:610-633).
MshrsAwaitAnswers ==
  /\ \A i, j \in DOMAIN mshrs :
       i < j => /\ mshrs[i].block # mshrs[j].block
                /\ mshrs[j].wait # Unknown =>
                     mshrs[i].wait # Unknown /\ mshrs[i].wait <= mshrs[j].wait
  /\ \A b \in Blocks :
       Below(b) = Count(mshrs, LAMBDA m : m.block = b /\ m.wait = Unknown)

\* Where a load is waiting that an answer would reach.
Places(id) ==
  LET Holds(r) == r.wants /\ id \in r.ids
      Returns(e) == id \in e.ids /\ id.upper \in e.to
  IN  Count(uppers[id.upper].rq, Holds) + Count(uppers[id.upper].pq, Holds)
        + Count(tags, Returns) + Count(stash, Returns) + Count(mshrs, Returns)

\* A load that has not been answered is in exactly one place, from which it will be, and
\* it is answered once: merging in a queue or an MSHR, moving to the stash and back,
\* or a failed miss neither lose nor double it.
OwedOnce == \A id \in owed : Places(id) = 1

\* A write of the block has yet to reach the level below.
HoldsWrite(block) ==
  LET Writes(e) == e.type = "WRITE" /\ e.block = block
      Queued(r) == r.type = "WRITE" /\ BlockOf(r.addr) = block
  IN  \/ \E u \in Uppers : Count(uppers[u].wq, Queued) > 0
      \/ Count(tags, Writes) + Count(stash, Writes) + Count(mshrs, Writes)
           + Count(writes, Writes) > 0
      \/ \E w \in 1 .. NumWay :
           LET line == lines[SetOf(block)][w]
           IN  line.valid /\ line.dirty /\ line.block = block

\* A write-back from above is never lost, although it is filled beside the MSHRs without
\* looking whether the block is there already: it stays in the cache, dirty,
\* until it is written back below.
WritesAreKept ==
  [][kind = "L2C" =>
       \A b \in Blocks :
         HoldsWrite(b) => HoldsWrite(b)' \/ \E r \in ToSet(lower'.wq) : r.block = b]_vars

\* Every load from above is answered at last, whatever fails on the way.
LoadsAnswered == owed # {} ~> owed = {}

=============================================================================
