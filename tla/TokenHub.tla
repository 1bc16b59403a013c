------------------------------- MODULE TokenHub -------------------------------
(***************************************************************************)
(* The token stream hub (sse/tokenstream/): upstream events grow the text  *)
(* of live parts, a flush loop publishes the growth as revisioned frames,  *)
(* and memory budgets, removals, idle sessions and reconnects cut streams  *)
(* off.  Every handler is synchronous, so each is one action.              *)
(*                                                                         *)
(* Text is its length in bytes.  The per-session replay log is a counter   *)
(* of published bytes here; ReplayLog models its window and barriers.      *)
(***************************************************************************)
EXTENDS Integers, Sequences, FiniteSets, SequencesExt, FiniteSetsExt

CONSTANTS
    Parts,            \* part keys, ordered like sorted() orders them
    Sids, SidOf,      \* sessions, and the session of a part
    Messages, MsgOf,  \* messages, and the message of a part
    SidOfMsg,         \* the session of a message
    Subs, SubSid,     \* token subscribers, and the session each one reads
    MaxSubs,          \* max_subscribers
    QueueItems,       \* queue_items of a subscriber
    PartMax, LiveMax, LivePartsMax, PendingMax, FlushBytes,  \* TOKEN_* budgets
    TombstonesMax,    \* TOKEN_DISABLED_MAX
    DeletedMax,       \* TOKEN_REMOVED_MESSAGES_MAX
    ResyncCap,        \* TOKEN_RESYNC_QUEUE_CAP
    IdleBurst,        \* bound: idle events between two ticks of the flush loop
    Sizes,            \* sizes of a delta
    Watched,          \* the parts whose evictions are remembered
    MaxText,          \* bound: bytes of each part's text
    Scenarios         \* which parts are not text, and bound: which troubles happen, how many

Kinds == {"part_removed", "message_removed", "status", "deleted", "reconnect",
          "minute", "minutes", "day", "log"}

ASSUME PartsAssumption == Parts \subseteq Nat
ASSUME KeysAssumption == /\ SidOf \in [Parts -> Sids] /\ MsgOf \in [Parts -> Messages]
                         /\ SubSid \in [Subs -> Sids] /\ SidOfMsg \in [Messages -> Sids]
                         /\ \A p \in Parts : SidOfMsg[MsgOf[p]] = SidOf[p]
ASSUME BudgetAssumption == /\ {PartMax, LiveMax, PendingMax} \subseteq Nat
                           /\ {LivePartsMax, FlushBytes, TombstonesMax} \subseteq Nat \ {0}
                           /\ {DeletedMax, ResyncCap, QueueItems} \subseteq Nat \ {0}
                           /\ Sizes \subseteq Nat \ {0} /\ PartMax <= LiveMax
                           /\ IdleBurst \in Nat /\ MaxText \in [Parts -> Nat]
ASSUME ScenarioAssumption ==
    Scenarios \subseteq [tools : SUBSET Parts, kinds : SUBSET Kinds, max : Nat]

(***************************************************************************)
(* The state s:                                                            *)
(*   live      live_parts, least recent delta first, and whether that was  *)
(*             more than TOKEN_ACC_IDLE_MS ago; bytes their byte_count     *)
(*   pend      byte_count of the part's accumulator in _pending            *)
(*   total, ptotal      _total_live_bytes, _total_pending_bytes            *)
(*   disabled, nontext  the tombstones, oldest first, with their expiry    *)
(*   rev       _part_revisions (-1: no entry), without its cap             *)
(*   status    _session_status; retired  _retired_messages                 *)
(*   deleted   _deleted_sids; resinks  _pending_session_resinks            *)
(*   sub, q    each subscriber and the length of its queue                 *)
(*   count     total_subscribers; loop  a flush task runs                  *)
(*   broken    the replay log refuses to append                            *)
(* and what the properties speak of:                                       *)
(*   text      the length of the part's text upstream                      *)
(*   pub       bytes of it published; gap  bytes a live part's stream omits*)
(*   evicted   watched parts evicted for memory at some time               *)
(*   due       subscribers that were attached when their session went idle *)
(*   late      those a tick of the flush loop left attached                *)
(*   burst     idle events since the last tick                             *)
(***************************************************************************)
VARIABLES s, scenario, troubles

vars == <<s, scenario, troubles>>

Init ==
    /\ scenario \in Scenarios /\ troubles = 0
    /\ s = [live |-> <<>>, bytes |-> [p \in Parts |-> 0], pend |-> [p \in Parts |-> 0],
             total |-> 0, ptotal |-> 0, disabled |-> <<>>, nontext |-> <<>>,
             rev |-> [p \in Parts |-> -1],
             status |-> [i \in Sids |-> "unknown"], retired |-> {}, deleted |-> <<>>,
             resinks |-> <<>>, sub |-> [c \in Subs |-> "off"], q |-> [c \in Subs |-> 0],
             count |-> 0, loop |-> FALSE, broken |-> FALSE,
             text |-> [p \in Parts |-> 0], pub |-> [p \in Parts |-> 0],
             gap |-> [p \in Parts |-> 0], evicted |-> {}, due |-> {}, late |-> {}, burst |-> 0]

Fresh(k) == [k |-> k, old |-> FALSE]
Keys(store) == {e.k : e \in ToSet(store)}
Forget(store, ks) == SelectSeq(store, LAMBDA e : e.k \notin ks)
Aged(store) == [i \in DOMAIN store |-> [store[i] EXCEPT !.old = TRUE]]
Newest(store, n) == SubSeq(store, Max({1, Len(store) - n + 1}), Len(store))
Minus(a, b) == Max({0, a - b})

Live(S) == Keys(S.live)
PartsOf(i) == {p \in Parts : SidOf[p] = i}
Attached(S) == {c \in Subs : S.sub[c] # "off"}
Readers(S, i) == {c \in Attached(S) : SubSid[c] = i}
SumOver(f, ps) == MapThenSumSet(LAMBDA p : f[p], ps)

-----------------------------------------------------------------------------
(* Subscribers and publication.                                             *)

Terminate(S, cs) == [S EXCEPT !.sub = [c \in Subs |-> IF c \in cs THEN "closed" ELSE @[c]],
                              !.q = [c \in Subs |-> IF c \in cs THEN 0 ELSE @[c]],
                              !.due = @ \ cs]

\* put: a full queue closes its subscriber, a closed one ignores the frame.
Put(S, cs) ==
    LET open == {c \in cs : S.sub[c] = "open"}
        full == {c \in open : S.q[c] >= QueueItems}
    IN  Terminate([S EXCEPT !.q = [c \in Subs |-> @[c] + (IF c \in open THEN 1 ELSE 0)]], full)

\* Each frame consumes a revision, published or not.  The map's cap (TOKEN_DISABLED_MAX, 128
\* times the live parts) is left out.
NextPartRevision(S, p) == [S EXCEPT !.rev[p] = @ + 1]

FanoutDelta(S, p, n) ==
    LET T == NextPartRevision(S, p)
    IN  IF T.broken THEN [T EXCEPT !.gap[p] = @ + n]
        ELSE Put([T EXCEPT !.pub[p] = @ + n], Readers(T, SidOf[p]))

FanoutMessageRemoved(S, m) == IF S.broken THEN S ELSE Put(S, Readers(S, SidOfMsg[m]))

\* A resync that cannot be logged closes the session's subscribers.
FanoutReplayableResync(S, i) == IF S.broken THEN Terminate(S, Readers(S, i))
                                ELSE Put(S, Readers(S, i))

\* Variant: the gauge keeps counting the drained bytes.
DrainUncounted(S, p) == [S EXCEPT !.pend[p] = 0]

Drain(S, p) == [S EXCEPT !.pend[p] = 0, !.ptotal = Minus(@, S.pend[p])]

Publish(S, p) == IF S.pend[p] = 0 THEN S ELSE FanoutDelta(Drain(S, p), p, S.pend[p])

Sorted == SetToSortSeq(Parts, <)

PublishAll(S, ps) == FoldLeft(Publish, S, SelectSeq(Sorted, LAMBDA p : p \in ps /\ S.pend[p] > 0))

FlushSid(S, i) == PublishAll(S, PartsOf(i))

DrainSessionResyncs(S) ==
    Terminate([S EXCEPT !.resinks = <<>>],
              UNION {Readers(S, i) : i \in ToSet(S.resinks)})

Flush(S) == DrainSessionResyncs(PublishAll(S, Parts))

-----------------------------------------------------------------------------
(* Part lifecycle and memory budgets.                                       *)

\* _prune_bounded: expired entries at the head go, then the oldest over the cap.
PruneBounded(store) ==
    LET young == {j \in DOMAIN store : ~store[j].old}
        tail == IF young = {} THEN <<>> ELSE SubSeq(store, Min(young), Len(store))
    IN  Newest(tail, TombstonesMax)

Remember(store, p) == IF p \in Keys(store) THEN store ELSE PruneBounded(Append(store, Fresh(p)))

\* The accumulator, the live part and the revision of each of ps go, and the gauges with them.
Clear(S, ps) ==
    [S EXCEPT !.live = Forget(@, ps), !.nontext = Forget(@, ps),
              !.bytes = [p \in Parts |-> IF p \in ps THEN 0 ELSE @[p]],
              !.pend = [p \in Parts |-> IF p \in ps THEN 0 ELSE @[p]],
              !.rev = [p \in Parts |-> IF p \in ps THEN -1 ELSE @[p]],
              !.gap = [p \in Parts |-> IF p \in ps THEN 0 ELSE @[p]],
              !.total = Minus(@, SumOver(S.bytes, ps)),
              !.ptotal = Minus(@, SumOver(S.pend, ps))]

DropPart(S, p) == [Clear(S, {p}) EXCEPT !.disabled = Remember(@, p)]

EvictPartForMemory(S, p) ==
    LET T == DropPart(S, p)
    IN  IF p \in Keys(S.disabled) THEN T
        ELSE FanoutReplayableResync(FlushSid([T EXCEPT !.evicted = @ \cup ({p} \cap Watched)], SidOf[p]), SidOf[p])

\* Evict the least recent parts, never skip, until n more bytes fit, or one more
\* part does, or no other part is left.
EvictForBytes(S, n, skip) ==
    FoldLeft(LAMBDA T, e : IF T.total + n <= LiveMax THEN T ELSE EvictPartForMemory(T, e.k),
             S, Forget(S.live, {skip}))

EvictForCount(S, skip) ==
    FoldLeft(LAMBDA T, e : IF Len(T.live) < LivePartsMax THEN T ELSE EvictPartForMemory(T, e.k),
             S, Forget(S.live, {skip}))

\* The part is still live in the result iff the reservation succeeds.
Reserve(S, p, n) ==
    IF S.bytes[p] + n > PartMax THEN DropPart(S, p)
    ELSE LET T == EvictForBytes(S, n, p)
         IN  IF T.total + n > LiveMax THEN DropPart(T, p) ELSE T

CheckPendingBudget(S, p) ==
    LET T == Flush(S)
        others == Forget(T.live, {p})
    IN  IF S.ptotal <= PendingMax THEN S
        ELSE IF (Attached(S) = {} \/ T.ptotal > PendingMax) /\ others # <<>>
             THEN EvictPartForMemory(T, Head(others).k)
             ELSE T

\* Variant: the text the part already has is not seeded.
StartPartUnseeded(S, p, seed) ==
    LET T == EvictForCount(S, p)
    IN  [T EXCEPT !.live = Append(@, Fresh(p)), !.gap[p] = seed - T.pub[p]]

StartPart(S, p, seed) ==
    LET T == EvictForCount(S, p)
        U == [T EXCEPT !.live = Append(@, Fresh(p)), !.gap[p] = seed - T.pub[p]]
    IN  IF seed > PartMax THEN DropPart(U, p)
        ELSE EvictForBytes([U EXCEPT !.bytes[p] = seed, !.total = @ + seed], 0, p)

FinishPart(S, p) == DropPart(Publish(S, p), p)

-----------------------------------------------------------------------------
(* Upstream events.                                                         *)

IsDeletedSid(S, i) == \E e \in ToSet(S.deleted) : e.k = i /\ ~e.old
Gated(S, p) == IsDeletedSid(S, SidOf[p]) \/ MsgOf[p] \in S.retired

PartUpdated(S, p, ended) ==
    IF Gated(S, p) THEN S
    ELSE IF p \in scenario.tools THEN [S EXCEPT !.nontext = Remember(@, p)]
    ELSE IF p \in Keys(S.disabled) THEN S
    ELSE IF ended THEN FinishPart(S, p)
    ELSE IF p \in Live(S) THEN S
    ELSE StartPart(S, p, S.text[p])

OnPartUpdated(p, ended) == s' = PartUpdated(s, p, ended)

\* A delta that was reserved: appended, flushed at FlushBytes, then the pending budget.
AppendDelta(S, p, n) ==
    LET T == [S EXCEPT !.live = Append(Forget(@, {p}), Fresh(p)), !.bytes[p] = @ + n,
                       !.total = @ + n, !.pend[p] = @ + n, !.ptotal = @ + n]
    IN  CheckPendingBudget(IF T.pend[p] >= FlushBytes THEN Publish(T, p) ELSE T, p)

PartDelta(S, p, n) ==
    IF Gated(S, p) \/ p \in Keys(S.nontext) \cup Keys(S.disabled) \/ p \notin Live(S) THEN S
    ELSE LET T == Reserve(S, p, n) IN IF p \in Live(T) THEN AppendDelta(T, p, n) ELSE T

OnPartDelta(p, n) == /\ s.text[p] + n <= MaxText[p]
                     /\ s' = PartDelta(IF p \in scenario.tools THEN s ELSE [s EXCEPT !.text[p] = @ + n], p, n)

\* Variant: pending text of the message is left for the next flush.
RetireMessageKeepingPending(S, m) ==
    LET ps == {p \in Parts : MsgOf[p] = m}
    IN  [Clear(S, ps) EXCEPT !.disabled = Forget(@, ps), !.retired = @ \cup {m},
                             !.pend = S.pend, !.ptotal = S.ptotal]

RetireMessage(S, m) ==
    LET ps == {p \in Parts : MsgOf[p] = m}
    IN  [Clear(S, ps) EXCEPT !.disabled = Forget(@, ps), !.retired = @ \cup {m}]

OnMessageRemoved(m) == s' = FanoutMessageRemoved(RetireMessage(s, m), m)

OnPartRemoved(p) == s' = IF Gated(s, p) THEN s ELSE DropPart(s, p)

RetireSession(S, i) == [Clear(S, PartsOf(i)) EXCEPT !.disabled = Forget(@, PartsOf(i))]

\* Variant: a full queue refuses the newest entry.
EnqueueUnlessFull(S, i) ==
    [S EXCEPT !.resinks = IF Len(@) < ResyncCap THEN Append(@, i) ELSE @]

EnqueueSessionResync(S, i) ==
    LET longer == Append(S.resinks, i)
    IN  [S EXCEPT !.resinks = Newest(longer, ResyncCap)]

OnSessionBusy(i) == s' = [s EXCEPT !.status[i] = "busy"]

\* A tick of the running loop is never more than IdleBurst idle events away.
OnSessionIdle(i) ==
    /\ s.loop => s.burst < IdleBurst
    /\ LET S == [s EXCEPT !.status[i] = "idle", !.burst = IF s.loop THEN @ + 1 ELSE 0,
                          !.due = @ \cup {c \in Readers(s, i) : s.sub[c] = "open"}]
       IN  s' = EnqueueSessionResync(RetireSession(S, i), i)

RememberDeletedSid(S, i) ==
    LET others == SelectSeq(S.deleted, LAMBDA e : e.k # i /\ ~e.old)
    IN  [S EXCEPT !.deleted = Newest(Append(others, Fresh(i)), DeletedMax)]

OnSessionDeleted(i) ==
    LET S == [RetireSession(s, i) EXCEPT !.status[i] = "unknown",
                                         !.retired = {m \in @ : SidOfMsg[m] # i}]
    IN  s' = Terminate(RememberDeletedSid(S, i), Readers(S, i))

\* Revisions survive; the attached subscribers are sent reconnect_no_replay.
OnUpstreamReconnect ==
    s' = Put([s EXCEPT !.live = <<>>, !.nontext = <<>>, !.disabled = <<>>,
                       !.bytes = [p \in Parts |-> 0], !.pend = [p \in Parts |-> 0],
                       !.gap = [p \in Parts |-> 0], !.total = 0, !.ptotal = 0, !.status = [i \in Sids |-> "unknown"],
                       !.resinks = <<>>, !.retired = {}, !.deleted = <<>>, !.due = {}],
             Attached(s))

-----------------------------------------------------------------------------
(* The flush loop, subscribers, time and the log.                           *)

TtlSweep(S) == Clear(S, {e.k : e \in {x \in ToSet(S.live) : x.old /\ S.status[SidOf[x.k]] = "idle"}})

\* Some ticks of flush_loop also sweep, some send a heartbeat.
FlushTick(sweep, beat) ==
    /\ s.loop
    /\ LET flushed == Flush(s)
           F == [flushed EXCEPT !.burst = 0, !.late = flushed.due]
           T == IF sweep THEN TtlSweep(F) ELSE F
       IN  s' = IF beat THEN Put(T, Attached(T)) ELSE T

Subscribe(c) ==
    /\ s.sub[c] = "off" /\ s.count < MaxSubs
    /\ s' = [s EXCEPT !.sub[c] = "open", !.count = @ + 1, !.loop = TRUE, !.burst = 0]

Unsubscribe(c) ==
    /\ c \in Attached(s)
    /\ s' = [s EXCEPT !.sub[c] = "off", !.q[c] = 0, !.count = @ - 1, !.loop = s.count > 1,
                      !.due = @ \ {c}]

Consume(c) == s.q[c] > 0 /\ s' = [s EXCEPT !.q[c] = @ - 1]

\* Time: a minute makes live parts idle, five expire the tombstones, a day the deleted sessions.
Elapse(span) ==
    s' = [s EXCEPT !.live = Aged(@),
                   !.disabled = IF span # "minute" THEN Aged(@) ELSE @,
                   !.nontext = IF span # "minute" THEN Aged(@) ELSE @,
                   !.deleted = IF span = "day" THEN Aged(@) ELSE @]

LogBreaks == s' = [s EXCEPT !.broken = TRUE]
LogHeals == s' = [s EXCEPT !.broken = FALSE]

\* What the upstream and the environment do besides growing parts.
Trouble ==
    \/ "part_removed" \in scenario.kinds /\ \E p \in Parts : OnPartRemoved(p)
    \/ "message_removed" \in scenario.kinds /\ \E m \in Messages : OnMessageRemoved(m)
    \/ "status" \in scenario.kinds /\ \E i \in Sids : OnSessionBusy(i) \/ OnSessionIdle(i)
    \/ "deleted" \in scenario.kinds /\ \E i \in Sids : OnSessionDeleted(i)
    \/ "reconnect" \in scenario.kinds /\ OnUpstreamReconnect
    \/ \E span \in {"minute", "minutes", "day"} \cap scenario.kinds : Elapse(span)
    \/ "log" \in scenario.kinds /\ LogBreaks

Ordinary ==
    \/ \E p \in Parts, ended \in BOOLEAN : OnPartUpdated(p, ended)
    \/ \E p \in Parts, n \in Sizes : OnPartDelta(p, n)
    \/ \E sweep, beat \in BOOLEAN : FlushTick(sweep, beat)
    \/ \E c \in Subs : Subscribe(c) \/ Unsubscribe(c) \/ Consume(c)
    \/ LogHeals

Next == /\ UNCHANGED scenario
        /\ \/ Ordinary /\ UNCHANGED troubles
           \/ Trouble /\ troubles < scenario.max /\ troubles' = troubles + 1

Spec == Init /\ [][Next]_vars

-----------------------------------------------------------------------------
(* Properties.                                                              *)

\* The gauges the budgets are decided on are the sums they stand for after every handler,
\* text is pending for live parts only, and every budget and cap holds between two handlers: the
\* chains of evictions and flushes inside a handler neither leak nor double-count a byte.
GaugesAreExact ==
    /\ s.total = SumOver(s.bytes, Parts) /\ s.ptotal = SumOver(s.pend, Parts)
    /\ \A p \in Parts : s.bytes[p] <= PartMax /\ (p \notin Live(s) => s.bytes[p] + s.pend[p] = 0)
    /\ s.total <= LiveMax /\ Len(s.live) <= LivePartsMax
    /\ s.ptotal <= PendingMax
    /\ {Len(s.disabled), Len(s.nontext)} \subseteq 0..TombstonesMax
    /\ Len(s.deleted) <= DeletedMax /\ Len(s.resinks) <= ResyncCap
    /\ s.count = Cardinality(Attached(s)) /\ s.loop = (s.count > 0)

\* The stream of a live part is its text: what was published, what waits for the next flush
\* and what the stream knowingly omits (its seed, frames the log refused) add up to the text
\* upstream, so no delta is lost or sent twice by an early flush, a flush for a sibling's
\* eviction or a tick.
StreamIsWhole ==
    \A p \in Live(s) : s.bytes[p] = s.text[p] /\ s.text[p] = s.pub[p] + s.pend[p] + s.gap[p]

\* Once a message is removed or its session deleted, none of its text is published, however
\* late its part events arrive and whatever was pending, until a reconnect or the gate's expiry.
GoneIsSilent == [][\A p \in Parts : Gated(s, p) => s'.pub[p] = s.pub[p]]_vars

\* A subscriber attached when its session goes idle is disconnected by the next tick of the
\* flush loop, unless it left or was told of a reconnect before: the entry that ends its
\* stream survives a queue full of older entries and ticks with nothing else to flush.
IdleEndsStreams == s.late = {}

\* What the comment on _evict_part_for_memory says: an evicted part never streams again.
EvictedNeverResumes == [][\A p \in s.evicted : s'.pub[p] = s.pub[p]]_vars
===============================================================================
