------------------------------ MODULE Aggregate ------------------------------
(***************************************************************************)
(* GET /slimapi/questions and /slimapi/permissions: discovery of the       *)
(* working directories, then a sliding window of one GET per directory     *)
(* (routes/_aggregate_fanout.py), merged into one envelope.                *)
(*                                                                         *)
(* Requests share the route's semaphore and, through the leased registry   *)
(* (module SingleFlight), the GETs of a directory: a task leads the flight *)
(* of its directory, joins the one that is open, is served by one in its   *)
(* grace window, or goes past the registry when its budget is full.  A     *)
(* request that is truncated or cancelled takes its tasks with it, the     *)
(* leaders of flights that other requests wait for included.               *)
(***************************************************************************)
EXTENDS Integers, Sequences, FiniteSets, SequencesExt, FiniteSetsExt

CONSTANTS
    Requests,        \* requests that may be under way
    SessionLists,    \* what GET /experimental/session may list: directories, or Malformed
    Malformed,       \* an entry without a usable directory
    DiscoveryLimit,  \* _DISCOVERY_LIMIT
    Bodies,          \* what each directory may answer: bytes and items
    Broken,          \* directories that may fail, or answer something else than a list
    Window,          \* questions_fanout_concurrency
    RoutePermits,    \* the route's semaphore
    AggregateCap,    \* questions_max_aggregate_bytes
    ItemCap          \* _MAX_AGGREGATE_ITEMS

ASSUME AggregateAssumption ==
    /\ {Window, RoutePermits, DiscoveryLimit} \subseteq Nat \ {0}
    /\ \A d \in DOMAIN Bodies : \A b \in Bodies[d] : b.bytes \in Nat /\ b.items \in Nat

VARIABLES
    reqs,       \* the requests and their tasks
    flights,    \* the registry: per directory none, open or grace, with the body
    slots       \* free permits of the route's semaphore

aggregateVars == <<reqs, flights, slots>>

Directories == UNION {ToSet(l) : l \in SessionLists} \ {Malformed}

\* What a directory's GET came to: an accepted list, or a failure.
Failure == [ok |-> FALSE, bytes |-> 0, items |-> 0]
Accepted(b) == [ok |-> TRUE, bytes |-> b.bytes, items |-> b.items]
Outcomes(d) == {Accepted(b) : b \in Bodies[d]} \cup (IF d \in Broken THEN {Failure} ELSE {})

NoTask == [st |-> "none", lead |-> FALSE, got |-> Failure]
NoFlight == [st |-> "none", body |-> Failure]

NewRequest == [pc |-> "idle", out |-> "none", dirs |-> <<>>, complete |-> FALSE, task |-> <<>>,
               launched |-> 0, consumed |-> 0, succeeded |-> <<>>, errors |-> <<>>,
               bytes |-> 0, items |-> 0, truncated |-> FALSE]

AggregateInit ==
    /\ reqs = [r \in Requests |-> NewRequest]
    /\ flights = [d \in Directories |-> NoFlight]
    /\ slots = RoutePermits

-----------------------------------------------------------------------------
(* Discovery.                                                              *)

\* _directories_from_sessions: distinct, in the order first seen.
DirectoriesFromSessions(page) ==
    FoldLeft(LAMBDA acc, d : IF d = Malformed \/ Contains(acc, d) THEN acc ELSE Append(acc, d), <<>>, page)

BeginRequest(r) ==
    /\ reqs[r].pc = "idle"
    /\ reqs' = [reqs EXCEPT ![r].pc = "discover"]
    /\ UNCHANGED <<flights, slots>>

\* Any failure of the discovery fails the request.
DiscoveryFails(r) ==
    /\ reqs[r].pc = "discover"
    /\ reqs' = [reqs EXCEPT ![r].pc = "done", ![r].out = "unavailable"]
    /\ UNCHANGED <<flights, slots>>

Launch(q) == IF q.launched < Len(q.dirs)
             THEN [q EXCEPT !.launched = @ + 1, !.task[q.launched + 1].st = "start"] ELSE q

\* A body, this request's own or one shared with others, and the first window.
Discovered(r, list) ==
    /\ reqs[r].pc = "discover"
    /\ LET page == SubSeq(list, 1, Min({Len(list), DiscoveryLimit}))
           dirs == DirectoriesFromSessions(page)
           first == Min({Window, Len(dirs)})
       IN reqs' = [reqs EXCEPT ![r] =
              [@ EXCEPT !.pc = IF dirs = <<>> THEN "done" ELSE "collect", !.out = "ok", !.dirs = dirs,
                        !.complete = Len(page) < DiscoveryLimit, !.launched = first,
                        !.task = [i \in DOMAIN dirs |-> [NoTask EXCEPT !.st = IF i <= first THEN "start" ELSE "none"]]]]
    /\ UNCHANGED <<flights, slots>>

-----------------------------------------------------------------------------
(* fetch_items_for_dir: the task of one directory.                         *)

TaskAt(r, i, st) == i \in DOMAIN reqs[r].task /\ reqs[r].task[i].st = st
DirOf(r, i) == reqs[r].dirs[i]

\* It looks for a flight of its directory.
StartTask(r, i, bypass) ==
    /\ TaskAt(r, i, "start")
    /\ LET d == DirOf(r, i)
           open == flights[d].st
       IN /\ bypass => open = "none"
          /\ reqs' = [reqs EXCEPT ![r].task[i] =
                CASE open = "grace" -> [@ EXCEPT !.st = "ended", !.got = flights[d].body]
                  [] open = "open" -> [@ EXCEPT !.st = "join"]
                  [] OTHER -> [@ EXCEPT !.st = "queue", !.lead = ~bypass]]
          /\ flights' = IF open = "none" /\ ~bypass THEN [flights EXCEPT ![d].st = "open"] ELSE flights
    /\ UNCHANGED slots

TakeSlot(r, i) ==
    /\ TaskAt(r, i, "queue") /\ slots > 0
    /\ slots' = slots - 1
    /\ reqs' = [reqs EXCEPT ![r].task[i].st = "get"]
    /\ UNCHANGED flights

\* The tasks that wait for the flight of d go on, with what they got.
Joiners(Q, d, st, got) ==
    [r \in Requests |-> [Q[r] EXCEPT !.task =
        [i \in DOMAIN @ |-> IF @[i].st = "join" /\ Q[r].dirs[i] = d
                            THEN [@[i] EXCEPT !.st = st, !.got = got] ELSE @[i]]]]

\* The upstream answers.  A leader's success stays in the grace window, its
\* failure is everybody's; both are handed to the joiners.
Answers(r, i, got) ==
    /\ TaskAt(r, i, "get")
    /\ slots' = slots + 1
    /\ LET d == DirOf(r, i)
           lead == reqs[r].task[i].lead
           Q == [reqs EXCEPT ![r].task[i].st = "ended", ![r].task[i].got = got]
       IN IF lead
          THEN /\ reqs' = Joiners(Q, d, "ended", got)
               /\ flights' = [flights EXCEPT ![d] = IF got.ok THEN [st |-> "grace", body |-> got] ELSE NoFlight]
          ELSE reqs' = Q /\ UNCHANGED flights

GraceExpires(d) ==
    /\ flights[d].st = "grace"
    /\ flights' = [flights EXCEPT ![d] = NoFlight]
    /\ UNCHANGED <<reqs, slots>>

\* t.cancel(): a task that holds a response closes it first.
CancelTask(t) == CASE t.st = "get" -> [t EXCEPT !.st = "closing"]
                   [] t.st \in {"start", "join"} -> [t EXCEPT !.st = "ended", !.got = Failure]
                   [] t.st = "queue" -> [t EXCEPT !.st = IF t.lead THEN "failing" ELSE "ended"]
                   [] OTHER -> t

CancelTasks(q, which) == [q EXCEPT !.task = [i \in DOMAIN @ |-> IF i \in which THEN CancelTask(@[i]) ELSE @[i]]]

\* The cancellation reaches the end of the task: the response is closed and
\* the permit returned; the joiners of a leader start over, one of them leads.
CancelledTaskEnds(r, i) ==
    \E st \in {"closing", "failing"} :
        /\ TaskAt(r, i, st)
        /\ slots' = IF st = "closing" THEN slots + 1 ELSE slots
        /\ LET d == DirOf(r, i)
               Q == [reqs EXCEPT ![r].task[i].st = "ended"]
           IN IF reqs[r].task[i].lead
              THEN /\ reqs' = Joiners(Q, d, "start", Failure)
                   /\ flights' = [flights EXCEPT ![d] = NoFlight]
              ELSE reqs' = Q /\ UNCHANGED flights

-----------------------------------------------------------------------------
(* collect_with_byte_budget.                                               *)

Over(q, got) == q.bytes + got.bytes > AggregateCap \/ q.items + got.items > ItemCap
Later(q) == {j \in DOMAIN q.task : j > q.consumed + 1}

Charge(q, d, got) == [q EXCEPT !.succeeded = Append(@, d), !.bytes = @ + got.bytes, !.items = @ + got.items]

\* After a result, which is not looked at again: the next task is launched and
\* the index moves on.
MoveOn(q) == LET n == [Launch(q) EXCEPT !.consumed = @ + 1, !.task[q.consumed + 1] = [@ EXCEPT !.got = Failure, !.lead = FALSE]]
             IN IF n.consumed = Len(n.dirs) THEN [n EXCEPT !.pc = "done"] ELSE n

\* Variant: the result that would exceed the budget is dropped, the rest is not.
ConsumedSkipping(q) ==
    LET d == q.dirs[q.consumed + 1]
        got == q.task[q.consumed + 1].got
    IN CASE ~got.ok -> MoveOn([q EXCEPT !.errors = Append(@, d)])
         [] got.ok /\ Over(q, got) -> MoveOn(q)
         [] OTHER -> MoveOn(Charge(q, d, got))

\* The result of the next directory, in the order of the directories.
Consumed(q) ==
    LET d == q.dirs[q.consumed + 1]
        got == q.task[q.consumed + 1].got
    IN CASE ~got.ok -> MoveOn([q EXCEPT !.errors = Append(@, d)])
         [] got.ok /\ Over(q, got) -> [CancelTasks(q, Later(q)) EXCEPT !.truncated = TRUE, !.pc = "drain"]
         [] OTHER -> MoveOn(Charge(q, d, got))

Consume(r) ==
    /\ reqs[r].pc = "collect" /\ TaskAt(r, reqs[r].consumed + 1, "ended")
    /\ reqs' = [reqs EXCEPT ![r] = Consumed(@)]
    /\ UNCHANGED <<flights, slots>>

\* gather: every cancelled task has ended.
Drained(r) ==
    /\ reqs[r].pc = "drain" /\ \A i \in DOMAIN reqs[r].task : reqs[r].task[i].st \in {"none", "ended"}
    /\ reqs' = [reqs EXCEPT ![r].pc = "done"]
    /\ UNCHANGED <<flights, slots>>

\* The client goes away.  The await of a task cancels that task and returns
\* when it has ended; only then does the finally clause see to the others.
Disconnect(r) ==
    /\ reqs[r].pc \in {"discover", "collect", "drain"} /\ reqs[r].out # "cancelled"
    /\ reqs' = [reqs EXCEPT ![r] =
          LET q == [@ EXCEPT !.out = "cancelled"]
          IN CASE q.pc = "discover" -> [q EXCEPT !.pc = "done"]
               [] q.pc = "collect" -> [CancelTasks(q, {q.consumed + 1}) EXCEPT !.pc = "unwind"]
               [] OTHER -> q]
    /\ UNCHANGED <<flights, slots>>

Unwind(r) ==
    /\ reqs[r].pc = "unwind" /\ TaskAt(r, reqs[r].consumed + 1, "ended")
    /\ reqs' = [reqs EXCEPT ![r] = [CancelTasks(@, Later(@)) EXCEPT !.pc = "drain"]]
    /\ UNCHANGED <<flights, slots>>

\* The envelope: null, "replace all", only if nothing was missed.
NothingMissed(q) == q.errors = <<>> /\ q.complete /\ ~q.truncated
Authoritative(q) == IF NothingMissed(q) THEN "all" ELSE "listed"

AggregateNext ==
    \/ \E r \in Requests :
          \/ BeginRequest(r) \/ DiscoveryFails(r) \/ (\E l \in SessionLists : Discovered(r, l))
          \/ Consume(r) \/ Drained(r) \/ Disconnect(r) \/ Unwind(r)
          \/ \E i \in DOMAIN reqs[r].task :
                \/ (\E bypass \in BOOLEAN : StartTask(r, i, bypass)) \/ TakeSlot(r, i)
                \/ (\E got \in Outcomes(DirOf(r, i)) : Answers(r, i, got))
                \/ CancelledTaskEnds(r, i)
    \/ \E d \in Directories : GraceExpires(d)

-----------------------------------------------------------------------------
\* An answered envelope accounts for every directory: the succeeded and the
\* failed ones are the consumed prefix of what discovery found, in its order,
\* the rest is covered by truncated; the merged bodies keep within both caps;
\* only a directory whose own GET failed is an error, whatever other requests
\* cancelled; and "replace all" is said only if every discovered directory is in.
EnvelopeIsHonest ==
    \A r \in Requests : reqs[r].pc = "done" /\ reqs[r].out = "ok" =>
        LET q == reqs[r]
            seen == ToSet(q.succeeded) \cup ToSet(q.errors)
        IN /\ seen = ToSet(SubSeq(q.dirs, 1, q.consumed))
           /\ Len(q.succeeded) + Len(q.errors) = q.consumed
           /\ q.truncated \/ q.consumed = Len(q.dirs)
           /\ q.bytes <= AggregateCap /\ q.items <= ItemCap
           /\ ToSet(q.errors) \subseteq Broken
           /\ Authoritative(q) = "all" => q.complete /\ ToSet(q.succeeded) = ToSet(q.dirs)

\* The fan-out is bounded and nothing of it outlives the request: no more than
\* the window are under way, the semaphore counts exactly the tasks that hold a
\* response, an open flight has exactly one leader, and a request that ended in
\* any way has no task left.
FanoutIsBounded ==
    LET tasks(sts) == {<<r, i>> \in Requests \X (1..Cardinality(Directories)) :
                          i \in DOMAIN reqs[r].task /\ reqs[r].task[i].st \in sts}
        running == tasks({"start", "queue", "get", "join", "closing", "failing"})
        leaders(d) == {t \in running : DirOf(t[1], t[2]) = d /\ reqs[t[1]].task[t[2]].lead
                                           /\ reqs[t[1]].task[t[2]].st \in {"queue", "get", "closing", "failing"}}
    IN /\ slots = RoutePermits - Cardinality(tasks({"get", "closing"}))
       /\ \A r \in Requests : /\ Cardinality({t \in running : t[1] = r}) <= Window
                              /\ reqs[r].pc = "done" => ~\E t \in running : t[1] = r
       /\ \A d \in Directories : Cardinality(leaders(d)) = IF flights[d].st = "open" THEN 1 ELSE 0
=============================================================================
