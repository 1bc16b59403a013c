----------------------------- MODULE EventStream -----------------------------
(***************************************************************************)
(* The /slimapi/events stream end to end: the hub's single upstream        *)
(* connection and its loss handling (sse/global_hub.py), the replay log,   *)
(* one bounded queue per connected client (sse/hub_types.py), the route    *)
(* that classifies a cursor, subscribes and streams (routes/events.py),    *)
(* and the clients, which lose connections, reconnect with Last-Event-ID   *)
(* and align over HTTP when they are told to.                              *)
(*                                                                         *)
(* Client fields: cursor is the Last-Event-ID it holds, must_align that it *)
(* owes an HTTP alignment, covered the newest frame whose content it has,  *)
(* aligned_in and loss_seen the epoch and the losses it last aligned in.   *)
(*                                                                         *)
(* Two history counters say what the stream did not see of the upstream:   *)
(* losses counts the ends of observation and the events that nobody read   *)
(* after them, due the ones among them that a client has to be told of.    *)
(***************************************************************************)
EXTENDS ReplayLogOps, Sequences, Functions

CONSTANTS
    GLOBAL_DOMAIN,
    Clients,
    Sizes,             \* sizes of business frames
    QueueItems,        \* queue_items of a Subscriber
    BufferBytes,       \* buffer_bytes
    MaxFrameBytes,     \* max_frame_bytes
    MaxSeq,            \* bound: frames published per process
    MaxLoss,           \* bound: ends of observation and events nobody read
    MaxDrops,          \* bound: client connections that break
    MaxTime,           \* bound: clock readings
    MaxEpoch           \* bound: process restarts

ASSUME DomainAssumption == GLOBAL_DOMAIN \in Domains
ASSUME QueueAssumption == QueueItems \in Nat \ {0}
ASSUME FrameSizeAssumption == Sizes \subseteq Nat /\ MaxFrameBytes \in Nat \ {0}

VARIABLES
    log, now, epoch,      \* ReplayLog, its clock, the boot nonce
    hub,                  \* the registry holds a GlobalHub
    connected,            \* run() is reading /global/event
    ever_connected,       \* GlobalHub.ever_connected
    loss_notified,        \* GlobalHub._upstream_loss_notified
    pending,              \* a digest waits for the debounce flush
    conn,                 \* per client: NoConn or the state of its connection
    client,               \* per client: what the app knows
    losses, due, drops    \* history counters

vars == <<log, now, epoch, hub, connected, ever_connected, loss_notified, pending,
          conn, client, losses, due, drops>>
hubVars == <<hub, connected, ever_connected, loss_notified, pending>>

\* Queue items: a business frame with its id, or a control frame.
Frame(seq, size) == [kind |-> "frame", seq |-> seq, size |-> size]
Control(kind) == [kind |-> kind, seq |-> 0, size |-> IF kind = "STOP" THEN 0 ELSE 1]
META == Control("meta")
RESYNC == Control("resync")
STOP == Control("STOP")

NoConn == [open |-> FALSE]
NoCursor == [epoch |-> 0, seq |-> 0]

published == log.last_seq[GLOBAL_DOMAIN]

subscribers == {c \in Clients : conn[c].open}

Init ==
    /\ log = EmptyLog /\ now = 0 /\ epoch = 1
    /\ hub = FALSE /\ connected = FALSE /\ ever_connected = FALSE
    /\ loss_notified = FALSE /\ pending = FALSE
    /\ conn = [c \in Clients |-> NoConn]
    /\ client = [c \in Clients |->
                   [cursor |-> NoCursor, must_align |-> TRUE, covered |-> 0,
                    aligned_in |-> 0, loss_seen |-> 0]]
    /\ losses = 0 /\ due = 0 /\ drops = 0

-----------------------------------------------------------------------------
(* Subscriber.put and the fan-out.                                         *)

Bytes(q) == FoldFunction(LAMBDA item, sum : item.size + sum, 0, q)

\* Variant: an overflow closes the subscriber without a STOP.
PutWithoutStop(s, item) ==
    IF s.closed \/ item.size > MaxFrameBytes THEN s
    ELSE IF Len(s.queue) < QueueItems /\ Bytes(s.queue) + item.size <= BufferBytes
         THEN [s EXCEPT !.queue = Append(@, item)]
         ELSE [s EXCEPT !.closed = TRUE, !.queue = <<>>]

\* Variant: an overflow drops the item and nothing else.
PutKeepingQueue(s, item) ==
    IF s.closed \/ item.size > MaxFrameBytes THEN s
    ELSE IF Len(s.queue) < QueueItems /\ Bytes(s.queue) + item.size <= BufferBytes
         THEN [s EXCEPT !.queue = Append(@, item)]
         ELSE s

Put(s, item) ==
    IF s.closed \/ item.size > MaxFrameBytes THEN s
    ELSE IF Len(s.queue) < QueueItems /\ Bytes(s.queue) + item.size <= BufferBytes
         THEN [s EXCEPT !.queue = Append(@, item)]
         ELSE [s EXCEPT !.closed = TRUE, !.queue = <<STOP>>]

PutAll(cs, item) ==
    [c \in Clients |-> IF cs[c].open THEN Put(cs[c], item) ELSE cs[c]]

\* _emit_directory_frame: append to the log, then to every queue.
Emit(size) ==
    /\ published < MaxSeq
    /\ log' = AppendNext(log, GLOBAL_DOMAIN, size, now)
    /\ conn' = PutAll(conn, Frame(published + 1, size))
    /\ UNCHANGED <<now, epoch, client, losses, due, drops>>

\* publish() of an event that is pushed at once (questions, errors).
PublishImmediate(size) ==
    /\ connected
    /\ Emit(size)
    /\ UNCHANGED hubVars

\* publish() of an event that waits for the debounce window.
PublishDebounced ==
    /\ connected /\ ~ pending
    /\ pending' = TRUE
    /\ UNCHANGED <<log, now, epoch, hub, connected, ever_connected, loss_notified,
                   conn, client, losses, due, drops>>

\* flush_loop: also while the upstream is down.
Flush(size) ==
    /\ pending
    /\ Emit(size)
    /\ pending' = FALSE
    /\ UNCHANGED <<hub, connected, ever_connected, loss_notified>>

-----------------------------------------------------------------------------
(* The upstream connection: run() and the teardown of an idle hub.         *)

\* Variant: the barrier is not written.
NotifyWithoutBarrier(cs) ==
    /\ conn' = PutAll(cs, RESYNC)
    /\ log' = log

\* _notify_upstream_loss / notify_idle_recycle_loss: resync every queue,
\* then write the barrier in every domain.
Notify(cs) ==
    /\ conn' = PutAll(cs, RESYNC)
    /\ log' = WriteBarrier(log, Domains)

NoNotify == UNCHANGED <<conn, log>>

\* Observation ends: a loss every client is to be told of.
Lose ==
    /\ losses < MaxLoss
    /\ losses' = losses + 1 /\ due' = losses + 1

\* The upstream is down and the next connect will notify nobody: the loss
\* was notified when it began, or there was no observation to lose.
Quiet == ~ connected /\ (loss_notified \/ ~ ever_connected)

\* Variant: a reconnect notifies nobody.
UpstreamConnectSilently ==
    /\ hub /\ ~ connected
    /\ NoNotify
    /\ connected' = TRUE /\ ever_connected' = TRUE /\ loss_notified' = FALSE
    /\ UNCHANGED <<now, epoch, hub, pending, client, losses, due, drops>>

\* run(): the connect succeeded.  The loop checks has_consumers() before an
\* attempt, so one that is under way may succeed after the last client left.
UpstreamConnect ==
    /\ hub /\ ~ connected
    /\ IF ever_connected /\ ~ loss_notified THEN Notify(conn) ELSE NoNotify
    /\ connected' = TRUE /\ ever_connected' = TRUE /\ loss_notified' = FALSE
    /\ UNCHANGED <<now, epoch, hub, pending, client, losses, due, drops>>

\* run(): EOF or an exception while reading.
UpstreamLost ==
    /\ connected /\ Lose
    /\ IF ever_connected /\ ~ loss_notified THEN Notify(conn) ELSE NoNotify
    /\ connected' = FALSE /\ loss_notified' = TRUE
    /\ UNCHANGED <<now, epoch, hub, ever_connected, pending, client, drops>>

\* run() is cancelled because a sibling task died; ensure_upstream starts a
\* new group on the same hub.  CancelledError passes through un-notified.
RunCancelled ==
    /\ connected /\ Lose
    /\ connected' = FALSE
    /\ UNCHANGED <<log, now, epoch, hub, ever_connected, loss_notified, pending,
                   conn, client, drops>>

\* run(): a connect attempt fails.
ConnectFails ==
    /\ hub /\ ~ connected
    /\ ever_connected /\ ~ loss_notified
    /\ Notify(conn)
    /\ loss_notified' = TRUE
    /\ UNCHANGED <<now, epoch, hub, connected, ever_connected, pending, client, losses, due, drops>>

\* Something happens upstream while nobody reads it.
UpstreamMisses ==
    /\ ~ connected /\ losses < MaxLoss
    /\ losses' = losses + 1
    /\ due' = IF Quiet THEN due ELSE losses + 1
    /\ UNCHANGED <<log, now, epoch, hubVars, conn, client, drops>>

\* _remove_hub_after_grace on an idle hub: cancel, notify, drop the hub.
IdleRecycle ==
    /\ hub /\ subscribers = {}
    /\ IF connected THEN Lose ELSE UNCHANGED <<losses, due>>
    /\ Notify(conn)
    /\ hub' = FALSE /\ connected' = FALSE /\ ever_connected' = FALSE
    /\ loss_notified' = FALSE /\ pending' = FALSE
    /\ UNCHANGED <<now, epoch, client, drops>>

-----------------------------------------------------------------------------
(* One client's connection: routes/events.py.                              *)

\* classify_reconnect and what the generator yields for its outcome.
Plan(c) ==
    LET k == client[c].cursor
        answer == Replay(log, GLOBAL_DOMAIN, k.seq, k.epoch = epoch, now)
    IN IF k = NoCursor \/ answer.kind = "ignore_reset" THEN <<>>
       ELSE IF answer.kind = "frames"
            THEN [i \in 1..Cardinality(answer.entries) |->
                    LET e == Nth(answer.entries, i) IN Frame(e.seq, e.size)]
            ELSE <<RESYNC>>

\* events(): classification, subscription and the frozen meta, in one step.
Connect(c) ==
    /\ ~ conn[c].open
    /\ conn' = [conn EXCEPT ![c] = [open |-> TRUE, closed |-> FALSE,
                                    queue |-> <<>>, head |-> <<META>> \o Plan(c)]]
    /\ hub' = TRUE
    /\ log' = IF client[c].cursor = NoCursor THEN log
              ELSE AfterReplay(log, GLOBAL_DOMAIN, client[c].cursor.epoch = epoch, now)
    /\ UNCHANGED <<now, epoch, connected, ever_connected, loss_notified, pending,
                   client, losses, due, drops>>

\* How the app takes an item off the wire.
Received(k, item) ==
    CASE item.kind = "frame" ->
            [k EXCEPT !.cursor = [epoch |-> epoch, seq |-> item.seq],
                      !.covered = IF item.seq > @ THEN item.seq ELSE @]
      [] item.kind = "resync" -> [k EXCEPT !.must_align = TRUE]
      [] item.kind = "meta" -> [k EXCEPT !.must_align = @ \/ k.cursor = NoCursor]

\* Variant: the queue first, then what the plan holds.
DeliverLiveFirst(c) ==
    /\ conn[c].open
    /\ \/ /\ conn[c].queue # <<>> /\ Head(conn[c].queue) # STOP
          /\ client' = [client EXCEPT ![c] = Received(@, Head(conn[c].queue))]
          /\ conn' = [conn EXCEPT ![c].queue = Tail(@)]
       \/ /\ conn[c].queue = <<>> /\ conn[c].head # <<>>
          /\ client' = [client EXCEPT ![c] = Received(@, Head(conn[c].head))]
          /\ conn' = [conn EXCEPT ![c].head = Tail(@)]
       \/ /\ conn[c].queue # <<>> /\ Head(conn[c].queue) = STOP
          /\ conn' = [conn EXCEPT ![c] = NoConn]
          /\ UNCHANGED client
    /\ UNCHANGED <<log, now, epoch, hubVars, losses, due, drops>>

\* generate(): what the plan holds first, then the queue, until STOP.
Deliver(c) ==
    /\ conn[c].open
    /\ \/ /\ conn[c].head # <<>>
          /\ client' = [client EXCEPT ![c] = Received(@, Head(conn[c].head))]
          /\ conn' = [conn EXCEPT ![c].head = Tail(@)]
       \/ /\ conn[c].head = <<>> /\ conn[c].queue # <<>>
          /\ Head(conn[c].queue) # STOP
          /\ client' = [client EXCEPT ![c] = Received(@, Head(conn[c].queue))]
          /\ conn' = [conn EXCEPT ![c].queue = Tail(@)]
       \/ /\ conn[c].head = <<>> /\ conn[c].queue # <<>>
          /\ Head(conn[c].queue) = STOP
          /\ conn' = [conn EXCEPT ![c] = NoConn]
          /\ UNCHANGED client
    /\ UNCHANGED <<log, now, epoch, hubVars, losses, due, drops>>

\* The connection breaks; the generator's finally unsubscribes.
Drop(c) ==
    /\ conn[c].open /\ drops < MaxDrops
    /\ conn' = [conn EXCEPT ![c] = NoConn]
    /\ drops' = drops + 1
    /\ UNCHANGED <<log, now, epoch, hubVars, client, losses, due>>

\* The app refetches everything over HTTP.
Align(c) ==
    /\ client[c].must_align
    /\ client' = [client EXCEPT ![c] = [@ EXCEPT !.must_align = FALSE,
                      !.covered = published, !.aligned_in = epoch, !.loss_seen = losses]]
    /\ UNCHANGED <<log, now, epoch, hubVars, conn, losses, due, drops>>

-----------------------------------------------------------------------------
SweepLog ==
    /\ log' = Sweep(log, now)
    /\ UNCHANGED <<now, epoch, hubVars, conn, client, losses, due, drops>>

Tick ==
    /\ now < MaxTime /\ now' = now + 1
    /\ UNCHANGED <<log, epoch, hubVars, conn, client, losses, due, drops>>

\* The process restarts: a new epoch and an empty log.
Restart ==
    /\ epoch < MaxEpoch
    /\ epoch' = epoch + 1
    /\ log' = EmptyLog /\ now' = now
    /\ conn' = [c \in Clients |-> NoConn]
    /\ hub' = FALSE /\ connected' = FALSE /\ ever_connected' = FALSE
    /\ loss_notified' = FALSE /\ pending' = FALSE
    /\ UNCHANGED <<client, losses, due, drops>>

Next ==
    \/ \E size \in Sizes : PublishImmediate(size) \/ Flush(size)
    \/ PublishDebounced
    \/ UpstreamConnect \/ ConnectFails \/ UpstreamLost \/ RunCancelled \/ UpstreamMisses
    \/ IdleRecycle
    \/ \E c \in Clients : Connect(c) \/ Deliver(c) \/ Drop(c) \/ Align(c)
    \/ SweepLog \/ Tick \/ Restart

Spec == Init /\ [][Next]_vars

\* The event loop serves every open connection; a client that may connect or
\* owes an alignment eventually does so; run() keeps retrying.
Fairness ==
    /\ WF_vars(UpstreamConnect)
    /\ \A c \in Clients : WF_vars(Connect(c)) /\ WF_vars(Deliver(c)) /\ WF_vars(Align(c))

FairSpec == Spec /\ Fairness

-----------------------------------------------------------------------------
Wire(c) == conn[c].head \o conn[c].queue

WireSeqs(c) == {Wire(c)[i].seq : i \in {j \in DOMAIN Wire(c) : Wire(c)[j].kind = "frame"}}

OnWire(c, item) == \E i \in DOMAIN Wire(c) : Wire(c)[i] = item

\* The client knows, or is bound to learn from its connection or from its
\* next one, that it must align.
Told(c) ==
    \/ client[c].must_align
    \/ ~ conn[c].open \/ conn[c].closed
    \/ OnWire(c, RESYNC)
    \/ OnWire(c, META) /\ client[c].cursor = NoCursor

\* events(): classification before subscription, the snapshot of the plan and
\* the queue together hold every published frame an untold client has not
\* seen: none falls into the gap between replay and live delivery.
NothingFallsInTheGap ==
    \A c \in Clients :
        Told(c) \/ client[c].covered + 1..published \subseteq WireSeqs(c)

\* _notify_upstream_loss and the barrier: once an end of observation has been
\* notified, or the upstream is being read again, every client is told or has
\* aligned since observation ended and, where run() still owed the notice,
\* since the last event that nobody read -- whether the client was connected,
\* overflowed, or away.  Not due are the events that go by after the notice,
\* or before the hub's first connect: run() says that observation ended, once,
\* and not again that it is back.
LossIsSignalled ==
    connected \/ loss_notified =>
        \A c \in Clients : Told(c) \/ client[c].loss_seen >= due

\* The stronger promise that run() does not keep: a client that aligned while
\* the upstream was down lacks what went by until the reconnect, untold.
OutageIsSignalled ==
    connected => \A c \in Clients : Told(c) \/ client[c].loss_seen = losses

\* A client that is away and comes back now is answered with a resync or
\* with the exact continuation of what it has; its cursor is never taken
\* for one of the future, which would silently reset it.
ReturningClientIsSafe ==
    \A c \in Clients :
        LET k == client[c]
            answer == Replay(log, GLOBAL_DOMAIN, k.cursor.seq, k.cursor.epoch = epoch, now)
        IN ~ conn[c].open /\ k.cursor # NoCursor /\ ~ k.must_align =>
            /\ answer.kind # "ignore_reset"
            /\ answer.kind = "frames" =>
                 /\ k.aligned_in = epoch
                 /\ k.covered + 1..published \subseteq {e.seq : e \in answer.entries}
                 /\ connected \/ loss_notified => k.loss_seen >= due

\* The stream implements the promise of Feed.
F == INSTANCE Feed WITH
        covered <- [c \in Clients |-> client[c].covered],
        told <- {c \in Clients : client[c].must_align},
        stale <- {c \in Clients : client[c].aligned_in # epoch}
ImplementsFeed == F!Spec

\* Once connections stop breaking and frames stop coming, every client has
\* everything: no combination of overflow, barrier and resync leaves it
\* behind or in an endless resync.
EveryoneCatchesUp ==
    \A c \in Clients :
        []<>(~ client[c].must_align /\ client[c].aligned_in = epoch
             /\ client[c].covered = published)
=============================================================================
