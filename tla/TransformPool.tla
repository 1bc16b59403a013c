---------------------------- MODULE TransformPool ----------------------------
(***************************************************************************)
(* The transform pool (transform.py): an admission semaphore in front of a *)
(* thread pool of the same size, and the three ways the routes use it:     *)
(*   plain   async with pool: GET, offload (catalog, list, sessions);      *)
(*   strict  GET /file/raw: acquire, GET, offload_strict, which takes over *)
(*           the permit and keeps it until the worker is done;             *)
(*   free    offload without admission (the aggregating routes).           *)
(* A request may be cancelled at each of its awaits; what a worker thread  *)
(* has begun goes on.                                                      *)
(***************************************************************************)
EXTENDS Integers, Sequences, FiniteSets, SequencesExt

CONSTANTS
    Users,            \* requests that may be under way
    MaxTransforms     \* max_transforms: permits, and worker threads

ASSUME PoolAssumption == MaxTransforms \in Nat \ {0}

VARIABLES
    users,       \* the requests: kind, pc, the job they submitted
    free,        \* permits of _semaphore
    gauges,      \* _active and _waiting
    backlog,     \* the executor's queue
    down         \* shutdown() was called

poolVars == <<users, free, gauges, backlog, down>>

Kinds == {"plain", "strict", "free"}

\* handed: the done-callback of offload_strict will return the permit.
NoUser == [kind |-> "plain", pc |-> "idle", job |-> "none", handed |-> FALSE]

PoolInit ==
    /\ users = [u \in Users |-> NoUser]
    /\ free = MaxTransforms /\ gauges = [active |-> 0, waiting |-> 0]
    /\ backlog = <<>> /\ down = FALSE

Busy == {u \in Users : users[u].job = "running"}
UserAt(u, pcs) == users[u].pc \in pcs
To(u, pc) == users' = [users EXCEPT ![u].pc = pc]

\* release, __aexit__
Release == free' = free + 1 /\ gauges' = [gauges EXCEPT !.active = @ - 1]
KeepPermits == UNCHANGED <<free, gauges>>
KeepExecutor == UNCHANGED <<backlog, down>>

-----------------------------------------------------------------------------
(* acquire.                                                                *)

AskAdmission(u, k) ==
    /\ UserAt(u, {"idle"}) /\ k # "free"
    /\ users' = [users EXCEPT ![u].kind = k, ![u].pc = "parked"]
    /\ gauges' = [gauges EXCEPT !.waiting = @ + 1]
    /\ UNCHANGED free /\ KeepExecutor

Admit(u) ==
    /\ UserAt(u, {"parked"}) /\ free > 0
    /\ free' = free - 1
    /\ gauges' = [active |-> gauges.active + 1, waiting |-> gauges.waiting - 1]
    /\ To(u, "fetch") /\ KeepExecutor

\* TransformBusy, or a cancellation: the finally clause.
AdmissionEnds(u, how) ==
    /\ UserAt(u, {"parked"}) /\ (how = "busy" => free = 0)
    /\ gauges' = [gauges EXCEPT !.waiting = @ - 1]
    /\ To(u, "done") /\ UNCHANGED free /\ KeepExecutor

-----------------------------------------------------------------------------
(* Under the permit: the upstream GET, then the worker.                    *)

\* The GET of a plain request fails before there is a response to close.
SendFails(u) ==
    /\ UserAt(u, {"fetch"}) /\ users[u].kind = "plain"
    /\ Release /\ To(u, "done") /\ KeepExecutor

\* It fails, is over the cap or is cancelled with the response open.
FetchEnds(u) ==
    /\ UserAt(u, {"fetch"}) /\ users[u].kind = "plain"
    /\ To(u, "close") /\ KeepPermits /\ KeepExecutor

\* file_raw before the worker: refused or failed with or without a response.
RawEnds(u, opened) ==
    /\ UserAt(u, {"fetch"}) /\ users[u].kind = "strict"
    /\ To(u, IF opened THEN "close" ELSE "done")
    /\ IF opened THEN KeepPermits ELSE Release
    /\ KeepExecutor

\* run_in_executor; after shutdown() it raises, and offload_strict releases.
Submit(u) ==
    /\ \/ UserAt(u, {"fetch"})
       \/ UserAt(u, {"idle"})
    /\ LET kind == IF UserAt(u, {"idle"}) THEN "free" ELSE users[u].kind
       IN IF down
          THEN /\ users' = [users EXCEPT ![u].kind = kind,
                                         ![u].pc = CASE kind = "plain" -> "close"
                                                     [] kind = "strict" -> "shut"
                                                     [] OTHER -> "done"]
               /\ IF kind = "strict" THEN Release ELSE KeepPermits
               /\ UNCHANGED backlog
          ELSE /\ users' = [users EXCEPT ![u].kind = kind, ![u].pc = "work", ![u].job = "queued"]
               /\ backlog' = Append(backlog, u)
               /\ KeepPermits
    /\ UNCHANGED down

WorkerTakes ==
    /\ backlog # <<>> /\ Cardinality(Busy) < MaxTransforms
    /\ backlog' = Tail(backlog)
    /\ users' = [users EXCEPT ![Head(backlog)].job = "running"]
    /\ UNCHANGED down /\ KeepPermits

\* A result or an exception; a request that went away left a callback.
WorkerEnds(u) ==
    /\ users[u].job = "running"
    /\ users' = [users EXCEPT ![u].job = IF UserAt(u, {"work"}) THEN "ended" ELSE "none",
                              ![u].handed = FALSE]
    /\ IF users[u].handed THEN Release ELSE KeepPermits
    /\ KeepExecutor

\* The await of the future is over: offload_strict releases, the others still
\* hold what they hold while the response is closed.
Worked(u) ==
    /\ UserAt(u, {"work"}) /\ users[u].job = "ended"
    /\ users' = [users EXCEPT ![u].job = "none",
                              ![u].pc = CASE users[u].kind = "plain" -> "close"
                                          [] users[u].kind = "strict" -> "shut"
                                          [] OTHER -> "done"]
    /\ IF users[u].kind = "strict" THEN Release ELSE KeepPermits
    /\ KeepExecutor

\* Variant: the strict permit comes back with the cancellation.
CancelWorkReleasing(u) ==
    /\ UserAt(u, {"work"})
    /\ users' = [users EXCEPT ![u].pc = IF users[u].kind = "free" THEN "done" ELSE "close"]
    /\ KeepPermits /\ KeepExecutor

\* Cancelled while the worker has the job.  A plain offload gives up a job
\* that has not begun; offload_strict leaves the job and its permit together.
CancelWork(u) ==
    /\ UserAt(u, {"work"})
    /\ LET job == users[u].job
           strict == users[u].kind = "strict"
           left == CASE job = "ended" -> "none"
                     [] job = "queued" /\ ~strict -> "none"
                     [] OTHER -> job
       IN /\ users' = [users EXCEPT ![u].job = left, ![u].handed = strict /\ left # "none",
                                    ![u].pc = CASE users[u].kind = "plain" -> "close"
                                                [] strict -> "shut"
                                                [] OTHER -> "done"]
          /\ IF strict /\ left = "none" THEN Release ELSE KeepPermits
          /\ backlog' = IF left = "none" THEN SelectSeq(backlog, LAMBDA x : x # u) ELSE backlog
    /\ UNCHANGED down

-----------------------------------------------------------------------------
(* The response is closed: "close" with the permit, "shut" without.        *)

Close(u) ==
    /\ UserAt(u, {"close", "shut"})
    /\ To(u, "done")
    /\ IF UserAt(u, {"close"}) THEN Release ELSE KeepPermits
    /\ KeepExecutor

\* Cancelled in aclose(): __aexit__ still runs, but in file_raw the release
\* stands after the await in the same finally clause.
CancelClose(u) ==
    /\ UserAt(u, {"close", "shut"})
    /\ To(u, IF UserAt(u, {"close"}) /\ users[u].kind = "strict" THEN "lost" ELSE "done")
    /\ IF UserAt(u, {"close"}) /\ users[u].kind = "plain" THEN Release ELSE KeepPermits
    /\ KeepExecutor

Again(u) ==
    /\ UserAt(u, {"done"}) /\ users[u].job = "none"
    /\ users' = [users EXCEPT ![u] = NoUser]
    /\ KeepPermits /\ KeepExecutor

\* shutdown: what has not begun is cancelled, and with it the awaits on it.
Shutdown ==
    /\ ~down /\ down' = TRUE /\ backlog' = <<>>
    /\ LET dropped == ToSet(backlog)
           gone == {u \in dropped : users[u].kind = "strict"}
       IN /\ users' = [u \in Users |->
                 IF u \notin dropped THEN users[u]
                 ELSE [users[u] EXCEPT !.job = "none", !.handed = FALSE,
                          !.pc = CASE @ # "work" -> @
                                   [] @ = "work" /\ users[u].kind = "plain" -> "close"
                                   [] @ = "work" /\ users[u].kind = "strict" -> "shut"
                                   [] OTHER -> "done"]]
          /\ free' = free + Cardinality(gone)
          /\ gauges' = [gauges EXCEPT !.active = @ - Cardinality(gone)]

PoolNext ==
    \/ \E u \in Users : \/ (\E k \in Kinds : AskAdmission(u, k)) \/ Admit(u)
                        \/ (\E how \in {"busy", "cancelled"} : AdmissionEnds(u, how))
                        \/ SendFails(u) \/ FetchEnds(u) \/ (\E opened \in BOOLEAN : RawEnds(u, opened))
                        \/ Submit(u) \/ WorkerEnds(u) \/ Worked(u)
                        \/ CancelWork(u) \/ Close(u) \/ CancelClose(u) \/ Again(u)
    \/ WorkerTakes
    \/ Shutdown

-----------------------------------------------------------------------------
HoldsPermit(u) == \/ UserAt(u, {"fetch", "close", "lost"})
                  \/ UserAt(u, {"work"}) /\ users[u].kind # "free"
                  \/ users[u].handed

\* Admission keeps its books whatever is cancelled when: a permit is out for
\* each request that is between acquire and release and for each strict job
\* that a worker still has, even after its request has gone, and for nothing
\* else (except the one file_raw loses); the two gauges say the same, and a
\* queued or running strict job always has its permit.
PermitsAreExact ==
    /\ free = MaxTransforms - Cardinality({u \in Users : HoldsPermit(u)})
    /\ gauges = [active |-> MaxTransforms - free, waiting |-> Cardinality({u \in Users : UserAt(u, {"parked"})})]
    /\ \A u \in Users : users[u].kind = "strict" /\ users[u].job \in {"queued", "running"} => HoldsPermit(u)

\* When every request is over and no worker is busy, all the permits are back,
\* as acquire's "exactly one release" and the comment on file_raw's finally
\* clause have it.
RestIsWhole ==
    (\A u \in Users : UserAt(u, {"idle", "done", "lost"}) /\ users[u].job = "none") => free = MaxTransforms
=============================================================================
