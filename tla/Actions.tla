------------------------------- MODULE Actions -------------------------------
(***************************************************************************)
(* The whitelisted host actions (actions.py, routes/actions.py): the       *)
(* catalog loaded from the manifest, admission (single flight per action,  *)
(* minimum interval, a semaphore), and the subprocess executor with its    *)
(* clean-up on every way out, among them a client that disconnects while   *)
(* the call is at any of its awaits, even twice.                           *)
(***************************************************************************)
EXTENDS Integers, FiniteSets

CONSTANTS
    Manifests,       \* manifests the process may be started with
    Callers,         \* requests that may be under way
    MaxConcurrent,   \* actions_max_concurrent
    MaxCancels       \* bound: cancellations delivered to one call

ASSUME ActionsAssumption == MaxConcurrent \in Nat \ {0} /\ MaxCancels \in Nat

VARIABLES
    catalog,     \* _actions: name -> kind and require_confirm; empty when disabled
    inFlight,    \* _in_flight
    permits,     \* _semaphore
    lastRun,     \* _last_run: "never", "recent" (inside min_interval) or "past"
    calls        \* the calls of invoke()

actionVars == <<catalog, inFlight, permits, lastRun, calls>>

-----------------------------------------------------------------------------
(* The manifest.                                                           *)

\* _validate_action: each rule drops the one action that breaks it.
ValidAction(raw) ==
    /\ raw.kind \in {"exec", "query"}
    /\ raw.wellFormed
    /\ raw.kind = "exec" => "max_output_bytes" \notin raw.fields
    /\ raw.kind = "query" => "require_confirm" \notin raw.fields

ActionSpec(raw) == [kind |-> raw.kind, confirm |-> raw.kind = "exec" /\ "require_confirm" \in raw.fields]

\* load_registry: a file that is not configured or is rejected disables all.
LoadRegistry(m) ==
    LET valid == IF m.accepted THEN {n \in DOMAIN m.actions : ValidAction(m.actions[n])} ELSE {}
    IN [n \in valid |-> ActionSpec(m.actions[n])]

NoCall == [pc |-> "idle", name |-> "none", outcome |-> "none", audits |-> 0, cancels |-> 0,
           proc |-> "none", group |-> FALSE]

ActionsInit ==
    /\ catalog \in {LoadRegistry(m) : m \in Manifests}
    /\ inFlight = {} /\ permits = MaxConcurrent
    /\ lastRun = [n \in DOMAIN catalog |-> "never"]
    /\ calls = [c \in Callers |-> NoCall]

-----------------------------------------------------------------------------
(* invoke: admission.                                                      *)

At(c, pcs) == calls[c].pc \in pcs
Name(c) == calls[c].name

\* A call that ended; out is what its caller sees.
End(call, out, audits) == [call EXCEPT !.pc = "done", !.outcome = out, !.audits = @ + audits]
New(n) == [NoCall EXCEPT !.name = n]

\* Disabled and unknown names are refused without a record.
InvokeUnknown(c, n) ==
    /\ At(c, {"idle"}) /\ n \notin DOMAIN catalog
    /\ calls' = [calls EXCEPT ![c] = End(New(n), "unknown", 0)]
    /\ UNCHANGED <<catalog, inFlight, permits, lastRun>>

\* The gates before the first await, in order; each refusal is audited.
InvokeRefused(c, n, confirmed) ==
    /\ At(c, {"idle"}) /\ n \in DOMAIN catalog
    /\ \/ n \in inFlight
       \/ n \notin inFlight /\ catalog[n].confirm /\ ~confirmed
       \/ n \notin inFlight /\ (catalog[n].confirm => confirmed) /\ lastRun[n] = "recent"
    /\ calls' = [calls EXCEPT ![c] = End(New(n), "refused", 1)]
    /\ UNCHANGED <<catalog, inFlight, permits, lastRun>>

\* Past the gates: the action is marked and the call waits for the semaphore.
InvokeAdmitted(c, n, confirmed) ==
    /\ At(c, {"idle"}) /\ n \in DOMAIN catalog \ inFlight
    /\ (catalog[n].confirm => confirmed) /\ lastRun[n] # "recent"
    /\ inFlight' = inFlight \cup {n}
    /\ calls' = [calls EXCEPT ![c] = [New(n) EXCEPT !.pc = "park"]]
    /\ UNCHANGED <<catalog, permits, lastRun>>

\* The permit is there: the run is stamped and the spawn task started.
Acquire(c) ==
    /\ At(c, {"park"}) /\ permits > 0
    /\ permits' = permits - 1
    /\ lastRun' = [lastRun EXCEPT ![Name(c)] = "recent"]
    /\ calls' = [calls EXCEPT ![c].pc = "spawn", ![c].proc = "spawning"]
    /\ UNCHANGED <<catalog, inFlight>>

\* The two finally clauses of invoke.
Leave(c) == inFlight' = inFlight \ {Name(c)}
LeaveWithPermit(c) == Leave(c) /\ permits' = permits + 1

\* Two seconds without a permit, or the client goes away while waiting.
AdmissionFails(c, out) ==
    /\ At(c, {"park"}) /\ (out = "busy" => permits = 0)
    /\ calls' = [calls EXCEPT ![c] = End(@, out, 1)]
    /\ Leave(c)
    /\ UNCHANGED <<catalog, permits, lastRun>>

-----------------------------------------------------------------------------
(* _execute.                                                               *)

Alive(c) == calls[c].proc = "running" \/ calls[c].group
Killed(call) == [call EXCEPT !.proc = IF @ = "running" THEN "gone" ELSE @, !.group = FALSE]

\* create_subprocess_exec fails: audited, nothing to clean up.  The await of a
\* cancelled call finds the failure when it recovers the spawn task.
SpawnFails(c) ==
    /\ calls[c].proc = "spawning"
    /\ IF At(c, {"spawn", "recover"})
       THEN /\ calls' = [calls EXCEPT ![c] = End([@ EXCEPT !.proc = "none"],
                                                 IF At(c, {"spawn"}) THEN "unavailable" ELSE "cancelled", 1)]
            /\ LeaveWithPermit(c)
       ELSE calls' = [calls EXCEPT ![c].proc = "none"] /\ UNCHANGED <<inFlight, permits>>
    /\ UNCHANGED <<catalog, lastRun>>

\* The process is there.  A call that was cancelled meanwhile recovers the
\* handle and goes straight to the clean-up: killpg, then the reap.
Spawned(c, forks) ==
    /\ calls[c].proc = "spawning"
    /\ LET born == [calls[c] EXCEPT !.proc = "running", !.group = forks]
       IN calls' = [calls EXCEPT ![c] = CASE At(c, {"spawn"}) -> [born EXCEPT !.pc = "wait"]
                                          [] At(c, {"recover"}) -> [Killed(born) EXCEPT !.pc = "reap"]
                                          [] OTHER -> born]
    /\ UNCHANGED <<catalog, inFlight, permits, lastRun>>

\* The child exits by itself; what it forked lives on.
Exits(c) ==
    /\ calls[c].proc = "running"
    /\ calls' = [calls EXCEPT ![c].proc = "exited"]
    /\ UNCHANGED <<catalog, inFlight, permits, lastRun>>

\* _wait_exit sees the return code; the group is killed so the pipes close.
WaitExit(c) ==
    /\ At(c, {"wait"}) /\ calls[c].proc = "exited"
    /\ calls' = [calls EXCEPT ![c] = [Killed(@) EXCEPT !.pc = "drain"]]
    /\ UNCHANGED <<catalog, inFlight, permits, lastRun>>

\* _drain_with_deadline: the pipes end, or the deadline cancels the readers;
\* then _cleanup without an outcome, which kills the group once more.
Drain(c) ==
    /\ At(c, {"drain"})
    /\ calls' = [calls EXCEPT ![c] = [Killed(@) EXCEPT !.pc = "quiet"]]
    /\ UNCHANGED <<catalog, inFlight, permits, lastRun>>

\* _cleanup with an outcome: killpg, and the reap unless the code is known.
Cleanup(call, out) ==
    LET dead == [Killed(call) EXCEPT !.outcome = out]
    IN IF call.proc = "exited" THEN [dead EXCEPT !.pc = "quiet", !.audits = @ + 1]
       ELSE [dead EXCEPT !.pc = "reap"]

Timeout(c) ==
    /\ At(c, {"wait"}) /\ calls[c].proc = "running"
    /\ calls' = [calls EXCEPT ![c] = Cleanup(@, "timeout")]
    /\ UNCHANGED <<catalog, inFlight, permits, lastRun>>

\* The reap ends: the failure is audited; a call cancelled while it spawned
\* has no reader tasks to wait for.
Reaped(call) ==
    IF call.outcome = "recovered" THEN End(call, "cancelled", 1)
    ELSE [call EXCEPT !.pc = "quiet", !.audits = @ + 1]

Reap(c) ==
    /\ At(c, {"reap"})
    /\ calls' = [calls EXCEPT ![c] = Reaped(@)]
    /\ IF calls[c].outcome = "recovered" THEN LeaveWithPermit(c) ELSE UNCHANGED <<inFlight, permits>>
    /\ UNCHANGED <<catalog, lastRun>>

\* _cancel_quietly is over; invoke audits a result.
Quiet(c) ==
    /\ At(c, {"quiet"})
    /\ calls' = [calls EXCEPT ![c] = IF @.outcome = "none" THEN End(@, "result", 1) ELSE End(@, @.outcome, 0)]
    /\ LeaveWithPermit(c)
    /\ UNCHANGED <<catalog, lastRun>>

-----------------------------------------------------------------------------
(* The client disconnects: CancelledError at the await the call is at.     *)

Cancellable(c) == calls[c].cancels < MaxCancels
Cancelled(call) == [call EXCEPT !.cancels = @ + 1]

\* Waiting for the permit, or for the child or its output: killpg and audit.
CancelRunning(c) ==
    /\ At(c, {"wait", "drain"}) /\ Cancellable(c)
    /\ calls' = [calls EXCEPT ![c] = Cleanup(Cancelled(@), "cancelled")]
    /\ UNCHANGED <<catalog, inFlight, permits, lastRun>>

CancelParked(c) == Cancellable(c) /\ AdmissionFails(c, "cancelled")

\* Variant: the spawn task is cancelled together with the call.
CancelSpawnUnshielded(c) ==
    /\ At(c, {"spawn"}) /\ Cancellable(c)
    /\ calls' = [calls EXCEPT ![c] = End(Cancelled(@), "cancelled", 1)]
    /\ LeaveWithPermit(c)
    /\ UNCHANGED <<catalog, lastRun>>

\* During the spawn, which is shielded: the call waits for the handle.
CancelSpawn(c) ==
    /\ At(c, {"spawn"}) /\ Cancellable(c)
    /\ calls' = [calls EXCEPT ![c] = [Cancelled(@) EXCEPT !.pc = "recover", !.outcome = "recovered"]]
    /\ UNCHANGED <<catalog, inFlight, permits, lastRun>>

\* Again while it waits for the handle: the spawn goes on without an owner.
CancelRecover(c) ==
    /\ At(c, {"recover"}) /\ Cancellable(c)
    /\ calls' = [calls EXCEPT ![c] = End(Cancelled(@), "cancelled", 1)]
    /\ LeaveWithPermit(c)
    /\ UNCHANGED <<catalog, lastRun>>

\* During the reap the cancellation is swallowed.
CancelReap(c) ==
    /\ At(c, {"reap"}) /\ Cancellable(c)
    /\ calls' = [calls EXCEPT ![c] = Reaped(Cancelled(@))]
    /\ IF calls[c].outcome = "recovered" THEN LeaveWithPermit(c) ELSE UNCHANGED <<inFlight, permits>>
    /\ UNCHANGED <<catalog, lastRun>>

\* In the very last await the result of a finished run is dropped.
CancelQuiet(c) ==
    /\ At(c, {"quiet"}) /\ Cancellable(c)
    /\ calls' = [calls EXCEPT ![c] = End(Cancelled(@), IF @.outcome = "none" THEN "late" ELSE "cancelled", 0)]
    /\ LeaveWithPermit(c)
    /\ UNCHANGED <<catalog, lastRun>>

Forget(c) ==
    /\ At(c, {"done"}) /\ calls[c].proc # "spawning" /\ ~Alive(c)
    /\ calls' = [calls EXCEPT ![c] = NoCall]
    /\ UNCHANGED <<catalog, inFlight, permits, lastRun>>

IntervalPasses(n) ==
    /\ lastRun[n] = "recent"
    /\ lastRun' = [lastRun EXCEPT ![n] = "past"]
    /\ UNCHANGED <<catalog, inFlight, permits, calls>>

Names == UNION {DOMAIN m.actions : m \in Manifests}

ActionsNext ==
    \/ \E c \in Callers, n \in Names :
          \/ InvokeUnknown(c, n)
          \/ \E confirmed \in BOOLEAN : InvokeRefused(c, n, confirmed) \/ InvokeAdmitted(c, n, confirmed)
    \/ \E c \in Callers :
          \/ Acquire(c) \/ AdmissionFails(c, "busy")
          \/ SpawnFails(c) \/ (\E forks \in BOOLEAN : Spawned(c, forks)) \/ Exits(c)
          \/ WaitExit(c) \/ Drain(c) \/ Timeout(c) \/ Reap(c) \/ Quiet(c)
          \/ CancelParked(c) \/ CancelRunning(c) \/ CancelSpawn(c) \/ CancelRecover(c)
          \/ CancelReap(c) \/ CancelQuiet(c) \/ Forget(c)
    \/ \E n \in DOMAIN catalog : IntervalPasses(n)

-----------------------------------------------------------------------------
\* No process outlives its call: whenever a call has ended, by a result, a
\* timeout or a disconnection at any await, its child and everything the child
\* forked in its group are dead.  Only a second cancellation that meets the
\* spawn still under way leaves one behind, as the comment in _execute accepts.
NoOrphan ==
    \A c \in Callers : At(c, {"reap", "quiet", "done"}) /\ (calls[c].proc = "spawning" \/ Alive(c))
                           => At(c, {"done"}) /\ calls[c].cancels >= 2

\* Admission keeps its books on every way out: each call that started holds one
\* permit, each active call its action's mark, no two run the same action, and
\* none waits for a permit inside the action's minimum interval.
AdmissionIsExact ==
    LET active == {c \in Callers : ~At(c, {"idle", "done"})}
    IN /\ permits = MaxConcurrent - Cardinality({c \in active : ~At(c, {"park"})})
       /\ inFlight = {Name(c) : c \in active}
       /\ \A c, d \in active : Name(c) = Name(d) => c = d
       /\ \A c \in active : At(c, {"park"}) => lastRun[Name(c)] # "recent"

\* Every call of a known action leaves exactly one audit record, except one that
\* is cancelled in its very last await, after the run succeeded: that run leaves
\* none (_audit, _cleanup, the end of invoke).
AuditedOnce ==
    \A c \in Callers : At(c, {"done"}) =>
        calls[c].audits = IF calls[c].outcome \in {"unknown", "late"} THEN 0 ELSE 1

\* A call that has ended, in whatever way, is settled: nothing of it runs any more and
\* its audit record is written, once.
CallsAreSettled == NoOrphan /\ AuditedOnce
=============================================================================
