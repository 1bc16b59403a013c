------------------------------ MODULE Lifespan ------------------------------
(***************************************************************************)
(* The application's start and stop (app.py, lifespan): the parts of the   *)
(* sidecar are created one after the other, each with a cleanup on an exit *)
(* stack; a step that raises, a cancellation at an await, or the shutdown  *)
(* unwinds the stack, last part first.  A cleanup may fail without holding *)
(* up the others.                                                          *)
(***************************************************************************)
EXTENDS Integers, Sequences, FiniteSets, SequencesExt

CONSTANTS
    Answers,    \* what opencode answers to the smoke test
    MaxBroken   \* bound: parts whose cleanup fails

VARIABLES
    phase,    \* starting, up, stopping or down
    settings, \* the optional parts that are switched on
    made,     \* number of the parts of Wiring that were dealt with
    alive,    \* parts that run or hold resources
    stack,    \* AsyncExitStack: parts whose cleanup is registered
    smoked,   \* smoke_status
    broken    \* ghost: parts whose cleanup failed

lifespanVars == <<phase, settings, made, alive, stack, smoked, broken>>

-----------------------------------------------------------------------------
(* The steps of lifespan in order: the parts it creates, and the awaits of *)
(* the start.  A part needs, from its start until it has stopped, the      *)
(* parts that its constructor is given and, for the token hub, the hubs    *)
(* (NB-C4).  Calls the other way, which the hubs make through what is set  *)
(* on them later (set_directory_observer, set_token_hub), may meet a part  *)
(* that has stopped: the token hub and the shadow sweep stop first.        *)

Part(name, needs) == [name |-> name, needs |-> needs]

Foundations == <<Part("access_log", {}), Part("snapshotter", {}),
                 Part("upstream", {}), Part("transforms", {})>>
Caches == <<Part("fulls", {"upstream"}), Part("catalog_cache", {"upstream"}),
            Part("raw_fetch", {"upstream"})>>
Replay == <<Part("replay_log", {}), Part("replay_sweep", {"replay_log"})>>
\* Variant: the hubs are registered after the token hub.
HubsAfterTokens == <<Part("token_hub", {"replay_log", "hubs"}), Part("qp_sweep", {"hubs"}),
                     Part("hubs", {"upstream", "replay_log", "catalog_cache"})>>

Hubs == <<Part("hubs", {"upstream", "replay_log", "catalog_cache"}),
          Part("qp_sweep", {"hubs"}),
          Part("token_hub", {"replay_log", "hubs"})>>
Auxiliary == <<Part("dbaux", {})>>
Background == <<Part("smoke", {"upstream"}), Part("health", {"upstream"}),
                Part("maintenance", {"access_log"}), Part("snapshots", {"snapshotter"})>>

Wiring == Foundations \o Caches \o Replay \o Hubs \o Auxiliary \o Background

Checks == {"smoke", "health"}   \* steps that leave nothing behind
OptionalParts == {"raw_fetch", "qp_sweep", "maintenance", "snapshots"}
NeedsOf(n) == UNION {Wiring[i].needs : i \in {j \in DOMAIN Wiring : Wiring[j].name = n}}

LifespanInit ==
    /\ phase = "starting" /\ settings \in SUBSET OptionalParts /\ made = 0
    /\ alive = {} /\ stack = <<>> /\ smoked = "not_run" /\ broken = {}

-----------------------------------------------------------------------------
(* Start.                                                                  *)

AtPart == IF phase = "starting" /\ made < Len(Wiring) THEN Wiring[made + 1].name ELSE "none"
IsWanted(n) == n \in OptionalParts => n \in settings
Special == Checks \cup {"dbaux", "snapshots"}   \* steps with actions of their own

\* A part is created and its cleanup registered, with no await in between.
CreatePart ==
    /\ AtPart \notin Special \cup {"none"}
    /\ alive' = IF IsWanted(AtPart) THEN alive \cup {AtPart} ELSE alive
    /\ stack' = IF IsWanted(AtPart) THEN Append(stack, AtPart) ELSE stack
    /\ made' = made + 1
    /\ UNCHANGED <<phase, settings, smoked, broken>>

CreationFails ==
    /\ AtPart \notin Special \cup {"none", "access_log"} /\ IsWanted(AtPart)
    /\ phase' = "stopping"
    /\ UNCHANGED <<settings, made, alive, stack, smoked, broken>>

\* dbaux: its start is awaited, then its cleanup registered.
StartDbaux ==
    /\ AtPart = "dbaux" /\ "dbaux" \notin alive /\ alive' = alive \cup {"dbaux"}
    /\ UNCHANGED <<phase, settings, made, stack, smoked, broken>>

RegisterDbaux ==
    /\ AtPart = "dbaux" /\ "dbaux" \in alive
    /\ stack' = Append(stack, "dbaux") /\ made' = made + 1
    /\ UNCHANGED <<phase, settings, alive, smoked, broken>>

\* smoke, the classification of an answer; "alien" is a list whose first message, or one
\* of its parts, is not an object: the check of its fields raises.
SmokeStatus(answer) ==
    CASE answer = "no_session" -> "not_run"
      [] answer \in {"unreachable", "error_status", "not_json"} -> "upstream_unavailable"
      [] answer \in {"messages", "empty"} -> "valid"
      [] answer \in {"not_a_list", "wrong_fields"} -> "invalid_schema"
      [] answer = "alien" -> "raises"

Smoke(answer) ==
    /\ AtPart = "smoke"
    /\ smoked' = SmokeStatus(answer)
    /\ phase' = IF SmokeStatus(answer) = "raises" THEN "stopping" ELSE phase
    /\ made' = made + 1
    /\ UNCHANGED <<settings, alive, stack, broken>>

\* The answer to /global/health, or an exception that is swallowed.
HealthCheck ==
    /\ AtPart = "health" /\ made' = made + 1
    /\ UNCHANGED <<phase, settings, alive, stack, smoked, broken>>

\* The snapshotter's loop, whose cleanup is registered long since; without a first
\* frame (ok) there is no loop.
StartSnapshots(ok) ==
    /\ AtPart = "snapshots" /\ made' = made + 1
    /\ alive' = IF IsWanted("snapshots") /\ ok THEN alive \cup {"snapshots"} ELSE alive
    /\ UNCHANGED <<phase, settings, stack, smoked, broken>>

\* The task is cancelled at an await of the start that suspends.
CancelStart ==
    /\ AtPart \in Checks \/ (AtPart = "dbaux" /\ "dbaux" \in alive)
    /\ phase' = "stopping"
    /\ UNCHANGED <<settings, made, alive, stack, smoked, broken>>

-----------------------------------------------------------------------------
(* Stop.                                                                   *)

Serve ==
    /\ phase = "starting" /\ made = Len(Wiring) /\ phase' = "up"
    /\ UNCHANGED <<settings, made, alive, stack, smoked, broken>>

Shutdown ==
    /\ phase = "up" /\ phase' = "stopping"
    /\ UNCHANGED <<settings, made, alive, stack, smoked, broken>>

Stops(n) == IF n = "snapshotter" THEN {"snapshotter", "snapshots"} ELSE {n}

\* The cleanup registered last; when it fails, that is logged and the next one runs.
StopPart(ok) ==
    /\ phase = "stopping" /\ stack # <<>> /\ (ok \/ Cardinality(broken) < MaxBroken)
    /\ alive' = IF ok THEN alive \ Stops(Last(stack)) ELSE alive
    /\ broken' = IF ok THEN broken ELSE broken \cup Stops(Last(stack))
    /\ stack' = Front(stack)
    /\ UNCHANGED <<phase, settings, made, smoked>>

Exit ==
    /\ phase = "stopping" /\ stack = <<>> /\ phase' = "down"
    /\ UNCHANGED <<settings, made, alive, stack, smoked, broken>>

LifespanNext ==
    \/ CreatePart \/ CreationFails \/ StartDbaux \/ RegisterDbaux \/ HealthCheck \/ CancelStart
    \/ Serve \/ Shutdown \/ Exit
    \/ \E answer \in Answers : Smoke(answer)
    \/ \E ok \in BOOLEAN : StartSnapshots(ok) \/ StopPart(ok)

-----------------------------------------------------------------------------
(* Properties.                                                             *)

\* The step at which the start broke off.
Interrupted == IF made < Len(Wiring) THEN {Wiring[made + 1].name} ELSE {}

\* Wherever the start breaks off and whichever cleanups fail: a part that runs finds
\* the parts it needs alive, from its start until it has stopped, and in the end every
\* part is stopped, except those whose own cleanup failed and the one at whose start
\* the start broke off (lifespan, the order of the registrations).
StartAndStopAreOrdered ==
    /\ \A n \in alive \ broken : NeedsOf(n) \subseteq alive
    /\ phase = "down" => alive \subseteq broken \cup Interrupted
    /\ phase = "up" => \A i \in DOMAIN Wiring :
          IsWanted(Wiring[i].name) => Wiring[i].name \in alive \cup Checks \cup {"snapshots"}

\* No partial start leaks a part: every one that runs has its cleanup registered, and
\* every way out runs the cleanups ("a partial startup cannot leak an httpx client,
\* executor, hub task, or maintenance task").
EveryExitCleansUp == phase = "down" => alive \subseteq broken
=============================================================================
