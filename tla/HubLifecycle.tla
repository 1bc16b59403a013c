----------------------------- MODULE HubLifecycle -----------------------------
(***************************************************************************)
(* Who keeps the single upstream connection alive, and who tears it down:  *)
(* HubRegistry (sse/registry.py), GlobalHub's supervised task group and    *)
(* its revival waiter (sse/global_hub.py), and the admission of control    *)
(* and token subscribers, on asyncio's event loop.                         *)
(*                                                                         *)
(* The loop is modelled as it runs: `ready' is its FIFO queue of handles   *)
(* (task steps, done-callbacks, gather completions, request handlers), and *)
(* a step of the model executes the head.  Timers, I/O and clients append. *)
(* A handler touches loop, hub and registry together, so the state is one  *)
(* record s and every method an operator from state to state.              *)
(*                                                                         *)
(* flush_loop and heartbeat_loop are alike for the supervisor: one task    *)
(* `side' stands for both.                                                 *)
(***************************************************************************)
EXTENDS Integers, Sequences, FiniteSets, FiniteSetsExt

CONSTANTS
    Controls,       \* clients of /slimapi/events
    TokenClients,   \* clients of /sessions/{sid}/stream
    Calm,           \* clients outstay the loop turn they arrive in, and an
                    \* upstream cleanup is shorter than GRACE_SECONDS
    MaxTotal,       \* max_total_subscribers
    MaxRequests,    \* bound: subscribe requests
    MaxDeaths,      \* bound: tasks killed by an exception
    Scenarios       \* which clients come, how often, and how many tasks die

ASSUME CalmAssumption == Calm \in BOOLEAN
ASSUME MaxTotalAssumption == MaxTotal \in Nat \ {0}
ASSUME ScenariosAssumption ==
    Scenarios \subseteq [clients : SUBSET (Controls \cup TokenClients),
                         requests : 0..MaxRequests, deaths : 0..MaxDeaths]

VARIABLE s

Groups == 1..MaxRequests + MaxDeaths
Removals == 1..MaxRequests
Hubs == 1..MaxRequests + 1

Task(kind, id) == [kind |-> kind, id |-> id]
NoTask == Task("none", 0)
CloseTask == Task("close", 0)
Run(g) == Task("run", g)
Side(g) == Task("side", g)
Members(g) == IF g = 0 THEN {} ELSE {Run(g), Side(g)}
Tasks == {CloseTask} \cup [kind : {"run", "side", "revive"}, id : Groups]
                     \cup [kind : {"removal"}, id : Removals]

Handle(kind, task) == [kind |-> kind, task |-> task]
Request(kind, c) == [kind |-> kind, task |-> c]
Internal(h) == h.kind \in {"step", "done", "gathered"}

Init == \E scenario \in Scenarios :
    s = [scenario |-> scenario,
         ready    |-> <<>>,
         left     |-> 0,                         \* handles left in this iteration
         st       |-> [t \in Tasks |-> "none"],
         waits    |-> [t \in Tasks |-> {}],      \* children a gather still awaits
         waiters  |-> <<>>,                      \* gathers, in order of registration
         hub      |-> 1,                         \* HubRegistry._global; 0 for None
         wired    |-> {1},                       \* hubs app.py configured at startup
         hubs     |-> 1,
         slot     |-> NoTask,                    \* HubRegistry._removal_task
         removals |-> 0,
         doomed   |-> [i \in Removals |-> 0],    \* the hub a removal task is for
         total    |-> 0,                         \* total_subscribers
         group    |-> [h \in Hubs |-> 0],        \* the hub's task slots
         owner    |-> [g \in Groups |-> 0],
         groups   |-> 0,
         revive   |-> [h \in Hubs |-> NoTask],   \* _revive_task
         closing  |-> {},                        \* hubs whose _closing is set
         subs     |-> [h \in Hubs |-> {}],
         tokens   |-> {},                        \* subscribers of the token hub
         phase    |-> "serving",                 \* of the process: serving, closing, closed
         deaths   |-> 0,
         requests |-> 0]

-----------------------------------------------------------------------------
(* asyncio.                                                                *)

Done(S, t) == S.st[t] \in {"none", "returned", "cancelled", "died"}
Cancelling(S, t) == S.st[t] \in {"cancelling", "unwinding", "unwound", "aborting"}
Live(S, ts) == {t \in ts : ~ Done(S, t)}

CallSoon(S, h) == [S EXCEPT !.ready = Append(@, h)]

Start(S, t) == CallSoon([S EXCEPT !.st[t] = "new"], Handle("step", t))

\* A task ends: its done-callbacks are scheduled in order of registration,
\* the supervisor's first, then those of the gathers it completes.
Finish(S, t, how) ==
    LET completed == SelectSeq(S.waiters, LAMBDA x : S.waits[x] = {t})
        watched == IF t.kind \in {"run", "side"} THEN <<Handle("done", t)>> ELSE <<>>
    IN [S EXCEPT
          !.st[t] = how,
          !.waits = [x \in Tasks |-> @[x] \ {t}],
          !.waiters = SelectSeq(@, LAMBDA x : S.waits[x] # {t}),
          !.ready = @ \o watched \o [i \in DOMAIN completed |-> Handle("gathered", completed[i])]]

\* await gather(*ts): a gather of finished tasks still takes one turn.
Gather(S, t, ts) ==
    IF Live(S, ts) = {}
    THEN CallSoon([S EXCEPT !.st[t] = "gathering"], Handle("gathered", t))
    ELSE [S EXCEPT !.st[t] = "gathering", !.waits[t] = Live(S, ts), !.waiters = Append(@, t)]

\* Task.cancel() of a task that is not itself a gather.
CancelLeaf(S, t) ==
    CASE S.st[t] \in {"parked", "slept"} ->
            CallSoon([S EXCEPT !.st[t] = "cancelling"], Handle("step", t))
      [] S.st[t] = "woken" -> [S EXCEPT !.st[t] = "cancelling"]
      [] S.st[t] = "new" -> [S EXCEPT !.st[t] = "aborting"]
      [] S.st[t] = "unwinding" ->
            CallSoon([S EXCEPT !.st[t] = "aborting"], Handle("step", t))
      [] S.st[t] = "unwound" -> [S EXCEPT !.st[t] = "aborting"]
      [] OTHER -> S

\* A pass over tasks takes run first, as every such loop in the code does.
CancelAll(S, ts) ==
    LET pass(T, us) == FoldSet(LAMBDA u, X : CancelLeaf(X, u), T, us)
        runs == {t \in ts : t.kind = "run"}
    IN pass(pass(S, runs), ts \ runs)

\* ... of a task that may be: the cancellation goes through to the children,
\* and the task resumes, cancelled, when they have ended.
Cancel(S, t) ==
    IF S.st[t] = "gathering"
    THEN CancelAll([S EXCEPT !.st[t] = "cancelling"], S.waits[t])
    ELSE CancelLeaf(S, t)

\* _cancel_live_members, and the guarded passes of removal and close.
CancelUnguarded(S, ts) == CancelAll(S, Live(S, ts))

CancelGuarded(S, ts) == CancelAll(S, {t \in Live(S, ts) : ~ Cancelling(S, t)})

-----------------------------------------------------------------------------
(* GlobalHub.                                                              *)

HasConsumers(S, h) == S.subs[h] # {} \/ S.tokens # {}

SpawnGroup(S, h) ==
    LET g == S.groups + 1
        T == [S EXCEPT !.groups = g, !.group[h] = g, !.owner[g] = h]
    IN Start(Start(T, Run(g)), Side(g))

\* Variant: the group is rebuilt without waiting for the old one.
EnsureAtOnce(S, h) ==
    LET g == S.group[h]
    IN IF h \in S.closing \/ (g # 0 /\ ~ Done(S, Run(g)) /\ ~ Cancelling(S, Run(g))) THEN S
       ELSE SpawnGroup(CancelGuarded(S, Members(g)), h)

EnsureUpstream(S, h) ==
    LET g == S.group[h]
        waiter == Task("revive", g)
    IN IF h \in S.closing \/ S.revive[h] # NoTask THEN S
       ELSE IF g # 0 /\ ~ Done(S, Run(g)) /\ ~ Cancelling(S, Run(g)) THEN S
       ELSE IF Live(S, Members(g)) = {} THEN SpawnGroup(S, h)
       ELSE Start([CancelGuarded(S, Members(g)) EXCEPT !.revive[h] = waiter], waiter)

\* _revive_after_group: its first step gathers the old group, its last one
\* rebuilds it; the slot is released on every way out.
ReviveStep(S, t) ==
    LET g == t.id
        h == S.owner[g]
        out == [Finish(S, t, "returned") EXCEPT !.revive[h] = IF @ = t THEN NoTask ELSE @]
    IN IF S.st[t] = "new" THEN Gather(S, t, Members(g))
       ELSE IF S.st[t] \in {"cancelling", "aborting"} \/ h \in S.closing \/ S.group[h] # g \/ ~ HasConsumers(S, h)
            THEN out
       ELSE [Finish(SpawnGroup(S, h), t, "returned") EXCEPT !.revive[h] = NoTask]

\* Variant: a task's death takes the group down and nothing revives it.
OnDoneNoRevival(S, t) ==
    IF S.st[t] = "cancelled" \/ S.group[S.owner[t.id]] # t.id THEN S
    ELSE CancelGuarded(S, Members(t.id))

\* _make_group_done_callback
OnDone(S, t) ==
    LET g == t.id
        h == S.owner[g]
    IN IF S.st[t] = "cancelled" \/ S.group[h] # g THEN S
       ELSE IF S.st[t] = "returned"
            THEN IF t = Run(g) THEN CancelUnguarded(S, {Side(g)}) ELSE S
       ELSE LET T == CancelGuarded(S, Members(g))
            IN IF HasConsumers(T, h) THEN EnsureUpstream(T, h) ELSE T

-----------------------------------------------------------------------------
(* HubRegistry.                                                            *)

\* get(): the lazily built hub gets token hub, turn registry and callbacks.
Get(S) == IF S.hub # 0 THEN S
          ELSE [S EXCEPT !.hub = S.hubs + 1, !.hubs = @ + 1]

MaybeArmGrace(S) ==
    IF S.hub = 0 \/ HasConsumers(S, S.hub) \/ S.slot # NoTask THEN S
    ELSE LET i == S.removals + 1
             t == Task("removal", i)
         IN Start([S EXCEPT !.removals = i, !.doomed[i] = S.hub, !.slot = t], t)

ClearSlotIfCurrent(S, t) == [S EXCEPT !.slot = IF @ = t THEN NoTask ELSE @]

CancelPendingRemoval(S) ==
    IF S.slot = NoTask THEN S ELSE [Cancel(S, S.slot) EXCEPT !.slot = NoTask]

Leave(S, t) == ClearSlotIfCurrent(Finish(S, t, "returned"), t)

\* _remove_hub_after_grace, after the gather: re-check, then notify the loss
\* (see EventStream!IdleRecycle) and drop the hub, without an await.
RecheckAndRemove(S, t) ==
    LET h == S.doomed[t.id]
    IN IF h # S.hub THEN Leave(S, t)
       ELSE IF HasConsumers(S, h) THEN EnsureUpstream(Leave(S, t), h)
       ELSE Leave([S EXCEPT !.hub = 0], t)

RemovalStep(S, t) ==
    LET h == S.doomed[t.id]
        tasks == Live(S, Members(S.group[h]))
    IN CASE S.st[t] = "new" -> [S EXCEPT !.st[t] = "parked"]
         [] S.st[t] \in {"cancelling", "aborting"} -> Leave(S, t)
         [] S.st[t] = "gathering" -> RecheckAndRemove(S, t)
         [] S.st[t] = "woken" ->
              IF h # S.hub \/ HasConsumers(S, h) THEN Leave(S, t)
              ELSE IF tasks = {} THEN RecheckAndRemove(S, t)
              ELSE Gather(CancelGuarded(S, tasks), t, tasks)

\* Variant: the admission slot is not given back.
UnsubscribeKeepingSlot(S, c) ==
    IF S.hub = 0 THEN S ELSE MaybeArmGrace([S EXCEPT !.subs[S.hub] = @ \ {c}])

\* subscribe() and unsubscribe() of the control plane.
Subscribe(S, c) ==
    LET T == Get(S)
    IN IF T.total >= MaxTotal THEN T
       ELSE EnsureUpstream([T EXCEPT !.subs[T.hub] = @ \cup {c}, !.total = @ + 1], T.hub)

Unsubscribe(S, c) ==
    IF S.hub = 0 \/ c \notin S.subs[S.hub] THEN S
    ELSE MaybeArmGrace([S EXCEPT !.subs[S.hub] = @ \ {c}, !.total = @ - 1])

\* TokenStreamRegistry.subscribe, its rollback and unsubscribe.
TokenSubscribe(S, c) ==
    LET T == CancelPendingRemoval(Get(S))
    IN [EnsureUpstream(T, T.hub) EXCEPT !.tokens = @ \cup {c}]

TokenAttachFails(S, c) ==
    LET T == CancelPendingRemoval(Get(S))
    IN MaybeArmGrace(EnsureUpstream(T, T.hub))

\* Variant: the last token client to leave does not arm the removal.
TokenUnsubscribeNoGrace(S, c) == [S EXCEPT !.tokens = @ \ {c}]

TokenUnsubscribe(S, c) ==
    IF c \notin S.tokens THEN S ELSE MaybeArmGrace([S EXCEPT !.tokens = @ \ {c}])

\* close(): the barrier, then the removal task (awaited if it owns an unwind,
\* else cancelled), then the guarded pass over the captured tasks.
HubTasks(S, h) == Members(S.group[h]) \cup ({S.revive[h]} \ {NoTask})

Closed(S) == [S EXCEPT !.hub = 0, !.total = 0, !.phase = "closed", !.st[CloseTask] = "returned"]

CloseRest(S, tasks, removal) ==
    LET targets == {t \in Live(S, tasks) : ~ Cancelling(S, t)}
        revives == {t \in targets : t.kind = "revive"}
        T == FoldSet(LAMBDA t, X : Cancel(X, t), CancelAll(S, targets \ revives), revives)
        pending == targets \cup Live(T, removal \ {NoTask})
    IN IF pending = {} THEN Closed(T)
       ELSE [Gather(T, CloseTask, pending) EXCEPT !.phase = "gathering"]

\* Variant: no closing barrier.
CloseNoBarrier(S) ==
    IF S.hub = 0 THEN [CancelPendingRemoval(S) EXCEPT !.phase = "closed"]
    ELSE IF S.slot # NoTask
         THEN [Gather([S EXCEPT !.slot = NoTask], CloseTask, {S.slot}) EXCEPT !.phase = "awaiting_removal"]
    ELSE CloseRest(S, HubTasks(S, S.hub), {})

Close(S) ==
    LET removal == S.slot
        T == [S EXCEPT !.closing = @ \cup {S.hub}, !.slot = NoTask]
        tasks == HubTasks(S, S.hub)
        alive == removal # NoTask /\ ~ Done(S, removal) /\ ~ Cancelling(S, removal)
        unwinding == \E t \in Live(S, tasks) : Cancelling(S, t)
    IN IF S.hub = 0 THEN [CancelPendingRemoval(S) EXCEPT !.phase = "closed"]
       ELSE IF alive /\ unwinding
            THEN [Gather(T, CloseTask, {removal}) EXCEPT !.phase = "awaiting_removal"]
       ELSE CloseRest(IF alive THEN Cancel(T, removal) ELSE T, tasks, {removal})

CloseStep(S) ==
    IF S.phase = "awaiting_removal"
    THEN CloseRest(S, UNION {HubTasks(S, h) : h \in S.closing}, {})
    ELSE Closed(S)

-----------------------------------------------------------------------------
(* The event loop executes the head of its queue.                          *)

\* 30 seconds of grace outlast whatever the loop had queued when the sleep
\* began: the timer can only fire once the queue has been empty since.
Turn(next) == \E S \in {next} :
    s' = IF S.ready # <<>> \/ (Calm /\ \E t \in Tasks : S.st[t] = "unwinding") THEN S
         ELSE [S EXCEPT !.st = [t \in Tasks |-> IF t.kind = "removal" /\ @[t] = "parked"
                                                THEN "slept" ELSE @[t]]]

\* An iteration runs the handles that were queued when it began.
Popped == [s EXCEPT !.ready = Tail(@), !.left = (IF @ = 0 THEN Len(s.ready) ELSE @) - 1]
HeadIs(kind) == s.ready # <<>> /\ Head(s.ready).kind = kind
Current == Head(s.ready).task
StepOf(kinds) == HeadIs("step") /\ Current.kind \in kinds

\* run(): first turn and every later loop head check has_consumers().
RunStep ==
    /\ StepOf({"run"})
    /\ LET t == Current
           h == s.owner[t.id]
       IN \/ /\ s.st[t] \in {"new", "woken"} /\ HasConsumers(s, h)
             /\ Turn([Popped EXCEPT !.st[t] = "parked"])
          \/ /\ s.st[t] \in {"new", "woken"} /\ ~ HasConsumers(s, h)
             /\ Turn(Finish(Popped, t, "returned"))
          \/ /\ s.st[t] = "woken" /\ s.deaths < s.scenario.deaths
             /\ Turn([Finish(Popped, t, "died") EXCEPT !.deaths = @ + 1])
          \/ /\ s.st[t] \in {"cancelling", "unwound", "aborting"}
             /\ Turn(Finish(Popped, t, "cancelled"))
          \/ /\ s.st[t] = "cancelling"
             /\ Turn([Popped EXCEPT !.st[t] = "unwinding"])

\* flush_loop / heartbeat_loop
SideStep ==
    /\ StepOf({"side"})
    /\ LET t == Current
       IN \/ /\ s.st[t] \in {"new", "woken"}
             /\ Turn([Popped EXCEPT !.st[t] = "parked"])
          \/ /\ s.st[t] = "woken" /\ s.deaths < s.scenario.deaths
             /\ Turn([Finish(Popped, t, "died") EXCEPT !.deaths = @ + 1])
          \/ /\ s.st[t] \in {"cancelling", "aborting"}
             /\ Turn(Finish(Popped, t, "cancelled"))

TaskStep ==
    /\ StepOf({"removal", "revive", "close"})
    /\ Turn(CASE Current.kind = "removal" -> RemovalStep(Popped, Current)
              [] Current.kind = "revive" -> ReviveStep(Popped, Current)
              [] Current.kind = "close" -> CloseStep(Popped))

Callback ==
    \/ HeadIs("done") /\ Turn(OnDone(Popped, Current))
    \/ HeadIs("gathered") /\ Turn(CallSoon(Popped, Handle("step", Current)))

Serve ==
    \/ HeadIs("subscribe") /\ Turn(Subscribe(Popped, Current))
    \/ HeadIs("unsubscribe") /\ Turn(Unsubscribe(Popped, Current))
    \/ HeadIs("token_subscribe") /\ Turn(TokenSubscribe(Popped, Current))
    \/ HeadIs("token_subscribe") /\ Turn(TokenAttachFails(Popped, Current))
    \/ HeadIs("token_unsubscribe") /\ Turn(TokenUnsubscribe(Popped, Current))
    \/ HeadIs("close") /\ Turn(Close(Popped))

\* A request takes any number of turns before its handler runs.
Defer ==
    /\ s.ready # <<>> /\ ~ Internal(Head(s.ready))
    /\ Len(s.ready) > 1
    /\ Turn(CallSoon(Popped, Head(s.ready)))

LoopTurn == RunStep \/ SideStep \/ TaskStep \/ Callback \/ Serve \/ Defer

-----------------------------------------------------------------------------
(* What reaches the loop from outside, polled between two iterations.      *)

Queued(h) == \E i \in DOMAIN s.ready : s.ready[i] = h

Poll == s.left = 0

Wake(t, from) ==
    /\ Poll /\ s.st[t] = from
    /\ s' = CallSoon([s EXCEPT !.st[t] = "woken"], Handle("step", t))

\* The upstream socket delivers, breaks or a back-off ends; a flush period.
Io(g) == \E t \in Members(g) : Wake(t, "parked")

GraceExpires(i) == Wake(Task("removal", i), "slept")

\* The upstream stream's __aexit__ completes.
CleanupEnds(g) ==
    /\ Poll /\ s.st[Run(g)] = "unwinding"
    /\ s' = CallSoon([s EXCEPT !.st[Run(g)] = "unwound"], Handle("step", Run(g)))

Arrive(h) == ~ Queued(h) /\ s' = CallSoon(s, h)

ClientRequests(c) ==
    /\ Poll /\ s.phase = "serving" /\ s.requests < s.scenario.requests /\ c \in s.scenario.clients
    /\ \/ /\ c \in Controls /\ \A h \in Hubs : c \notin s.subs[h]
          /\ ~ Queued(Request("subscribe", c))
          /\ s' = [CallSoon(s, Request("subscribe", c)) EXCEPT !.requests = @ + 1]
       \/ /\ c \in TokenClients /\ c \notin s.tokens
          /\ ~ Queued(Request("token_subscribe", c))
          /\ s' = [CallSoon(s, Request("token_subscribe", c)) EXCEPT !.requests = @ + 1]

ClientLeaves(c) ==
    /\ Poll /\ (~ Calm \/ s.ready = <<>>)
    /\ \/ (\E h \in Hubs : c \in s.subs[h]) /\ Arrive(Request("unsubscribe", c))
       \/ c \in s.tokens /\ Arrive(Request("token_unsubscribe", c))

\* Shutdown: the server has stopped taking requests.
Shutdown ==
    /\ Poll /\ s.phase = "serving"
    /\ \A i \in DOMAIN s.ready : s.ready[i].kind \notin {"subscribe", "token_subscribe"}
    /\ s' = [CallSoon(s, Request("close", NoTask)) EXCEPT !.phase = "closing"]

Next ==
    \/ LoopTurn
    \/ \E g \in Groups : Io(g) \/ CleanupEnds(g)
    \/ \E i \in Removals : GraceExpires(i)
    \/ \E c \in Controls \cup TokenClients : ClientRequests(c) \/ ClientLeaves(c)
    \/ Shutdown

Spec == Init /\ [][Next]_s

(***************************************************************************)
(* The loop runs what it has queued, a request's handler eventually runs,  *)
(* an upstream stream's cleanup ends and the grace timer fires.  The first *)
(* two are WF_s(LoopTurn) and SF_s(Serve) with ENABLED written out.        *)
(* Nothing is assumed of clients or of the upstream.                       *)
(***************************************************************************)
Fairness ==
    /\ <>[](s.ready # <<>>) => []<><<LoopTurn>>_s
    /\ []<>(s.ready # <<>> /\ ~ Internal(Head(s.ready))) => []<><<Serve>>_s
    /\ \A g \in Groups : WF_s(CleanupEnds(g))
    /\ \A i \in Removals : WF_s(GraceExpires(i))

FairSpec == Spec /\ Fairness

-----------------------------------------------------------------------------
(* Properties.                                                             *)

Reading(t) == s.st[t] \in {"new", "parked", "woken"}
Alive(g) == Live(s, Members(g)) # {}

\* A hub the registry no longer refers to has no task left.
DroppedHubIsQuiet ==
    s.phase # "closed" => \A g \in Groups : s.owner[g] \notin {0, s.hub} => ~ Alive(g)

\* Up to the first death of a task by an exception, epochs are strictly
\* serial: the members of two task groups are never alive together, over all
\* hubs, and the registry drops its reference to a hub only after every task of
\* the hub has ended, so nobody is left reading upstream without an owner
\* (ensure_upstream, _revive_after_group and _remove_hub_after_grace wait for
\* full quiescence before they go on, INV-2).
GroupsAreSerial ==
    s.deaths = 0 =>
        /\ Cardinality({g \in Groups : Alive(g)}) <= 1
        /\ DroppedHubIsQuiet

\* The cap counter is exact and within max_total_subscribers, and every
\* admitted client sits on the registered hub (subscribe, unsubscribe and the
\* removal's re-check).
TotalIsExact ==
    s.phase # "closed" =>
        /\ s.total = Cardinality(UNION {s.subs[h] : h \in Hubs})
        /\ s.total <= MaxTotal
        /\ \A h \in Hubs : s.subs[h] # {} => h = s.hub

\* close() is terminal: when it has returned no group reads upstream, and
\* none does later (the _closing barrier of ensure_upstream and the waiter),
\* unless a task died of an exception before.
CloseIsTerminal ==
    s.phase = "closed" /\ s.deaths = 0 => s.hub = 0 /\ \A g \in Groups : ~ Reading(Run(g))

Wanted == s.phase = "serving" /\ s.hub # 0 /\ HasConsumers(s, s.hub)

\* No zombie hub: as long as somebody is subscribed, the registered hub gets
\* back to a group that reads upstream (ensure_upstream and its waiter).
NoZombie == []<>(Wanted => \E g \in Groups : s.owner[g] = s.hub /\ Reading(Run(g)))

\* An upstream connection nobody wants is given up: every last unsubscribe,
\* of either kind, arms the grace removal, and no finished removal task stays
\* in the slot (maybe_arm_grace_if_idle, _clear_removal_task_if_current).
IdleIsReleased == []<>(s.deaths = 0 /\ ~ Wanted => \A g \in Groups : ~ Alive(g))

\* The hub that serves carries what the application configured at startup
\* (directory observer and filter, q/p activity table).
HubIsWired == s.hub # 0 => s.hub \in s.wired
=============================================================================
