------------------------------ MODULE TurnFence ------------------------------
(***************************************************************************)
(* The turn fence (turn_registry.py): the pair (turnIncarnation, turn)     *)
(* that the sidecar stamps on session digests so that a client can discard *)
(* what belongs to an earlier turn or an earlier process.  The module      *)
(* covers the persisted incarnation counter across crashes and power       *)
(* losses, the turn counter bumped before each collected write is sent,    *)
(* and the stamp frozen onto a pending digest at ingest and emitted at     *)
(* the next flush.                                                         *)
(*                                                                         *)
(* A stamp is a pair <<incarnation, turn>>; clients compare stamps         *)
(* lexicographically.  A process whose counter was never confirmed on disk *)
(* stamps Withheld: both fields are left out of the frame.                 *)
(***************************************************************************)
EXTENDS Integers, Sequences

CONSTANTS
    Sids,
    FaultModels,    \* what may fail: sets of faults, one of which holds
    Legacy,         \* incarnation in the legacy state directory, 0 if none
    WriteAttempts,  \* _WRITE_ATTEMPTS
    TurnsMax,       \* _TURNS_MAX
    MaxBoots,       \* bound: starts of the process
    MaxTurn         \* bound: turns of a session in one process

AllFaults == {"write", "dir_fsync", "read", "power"}

ASSUME FaultsAssumption == FaultModels \subseteq SUBSET AllFaults
ASSUME LegacyAssumption == Legacy \in Nat
ASSUME BoundsAssumption == /\ WriteAttempts \in Nat \ {0} /\ TurnsMax \in Nat \ {0}
                           /\ MaxBoots \in Nat /\ MaxTurn \in Nat

VARIABLES
    faults,     \* what may fail in this behaviour
    proc,       \* "down", "writing", "syncing" (renamed, not yet synced) or "up"
    inc,        \* the incarnation of this process
    durable,    \* was it confirmed?
    attempts,   \* failed writes of this start
    file,       \* the primary file as a reader sees it, 0 if missing
    disk,       \* the primary file as a power loss would leave it
    turns,      \* TurnRegistry._turns
    order,      \* its keys, least recently bumped first
    pending,    \* pending digests: their stamp, and the work their status is of
    sending,    \* writes between the bump and the upstream's answer
    work,       \* stamp of the turn the upstream last accepted, per session
    digest,     \* stamp of the last stamped digest emitted, per session
    boots,      \* history: starts of the process,
    highest,    \* the highest incarnation a process has published,
    evicted     \* and the sessions this process has evicted from turns

store == <<file, disk>>
registry == <<turns, order, evicted>>
wire == <<pending, sending, work, digest>>
vars == <<faults, proc, inc, durable, attempts, store, registry, wire, boots, highest>>

Withheld == <<0, 0>>
NoEntry == [stamp |-> Withheld, status |-> Withheld, present |-> FALSE]

Leq(a, b) == a[1] < b[1] \/ (a[1] = b[1] /\ a[2] <= b[2])

Init ==
    /\ faults \in FaultModels
    /\ proc = "down" /\ inc = 0 /\ durable = FALSE /\ attempts = 0
    /\ file = 0 /\ disk = 0
    /\ turns = [s \in Sids |-> 0] /\ order = <<>> /\ evicted = {}
    /\ pending = [s \in Sids |-> NoEntry] /\ sending = {}
    /\ work = [s \in Sids |-> Withheld]
    /\ digest = [s \in Sids |-> Withheld]
    /\ boots = 0 /\ highest = Legacy

-----------------------------------------------------------------------------
(* IncarnationStore.                                                       *)

\* The high watermark of the files that can be read.
Base(readable) == IF readable /\ file > Legacy THEN file ELSE Legacy

LoadOrBump ==
    /\ proc = "down" /\ boots < MaxBoots
    /\ \E readable \in BOOLEAN :
          /\ readable \/ "read" \in faults
          /\ inc' = Base(readable) + 1
    /\ proc' = "writing" /\ attempts' = 0 /\ durable' = FALSE
    /\ boots' = boots + 1
    /\ UNCHANGED <<store, registry, wire, highest>>

Up(confirmed) ==
    /\ proc' = "up" /\ durable' = confirmed
    /\ highest' = IF confirmed /\ inc > highest THEN inc ELSE highest

\* The temporary file cannot be written, synced or renamed.
WriteFails ==
    /\ proc = "writing" /\ "write" \in faults
    /\ attempts' = attempts + 1
    /\ IF attempts + 1 < WriteAttempts
       THEN UNCHANGED <<proc, durable, highest>>
       ELSE Up(FALSE)
    /\ UNCHANGED <<inc, store, registry, wire, boots>>

Rename ==
    /\ proc = "writing"
    /\ file' = inc /\ proc' = "syncing"
    /\ UNCHANGED <<inc, durable, attempts, disk, registry, wire, boots, highest>>

\* Variant: the parent directory is not synced.
DirFsyncSkipped ==
    /\ proc = "syncing" /\ Up(TRUE)
    /\ UNCHANGED <<inc, attempts, store, registry, wire, boots>>

DirFsync ==
    /\ proc = "syncing" /\ Up(TRUE)
    /\ disk' = file
    /\ UNCHANGED <<inc, attempts, file, registry, wire, boots>>

\* The failure is logged; the write still counts as confirmed.
DirFsyncFails ==
    /\ proc = "syncing" /\ "dir_fsync" \in faults /\ Up(TRUE)
    /\ UNCHANGED <<inc, attempts, store, registry, wire, boots>>

-----------------------------------------------------------------------------
(* TurnRegistry, and the write and digest paths that use it.               *)

\* Variant: the durability gate is left out.
SnapshotUngated(s) == <<inc, turns[s]>>

Snapshot(s) == IF durable THEN <<inc, turns[s]>> ELSE Withheld

\* The least recently bumped session is evicted when the map is full.
BumpTurn(s) ==
    LET moved == Append(SelectSeq(order, LAMBDA x : x # s), s)
        out == IF Len(moved) > TurnsMax THEN {Head(moved)} ELSE {}
    IN /\ turns' = [x \in Sids |-> IF x \in out THEN 0 ELSE IF x = s THEN turns[x] + 1 ELSE turns[x]]
       /\ order' = IF out = {} THEN moved ELSE Tail(moved)
       /\ evicted' = evicted \cup out

Send(s) == sending' = sending \cup {<<s, IF durable THEN <<inc, turns'[s]>> ELSE Withheld>>}

\* Variant: the turn is not bumped before the write is sent.
SendPromptUnbumped(s) ==
    /\ proc = "up" /\ turns[s] < MaxTurn
    /\ UNCHANGED registry
    /\ sending' = sending \cup {<<s, IF durable THEN <<inc, turns[s] + 1>> ELSE Withheld>>}
    /\ UNCHANGED <<proc, inc, durable, attempts, store, pending, work, digest, boots, highest>>

\* _write_passthrough of a prompt or an abort, up to its await.
SendPrompt(s) ==
    /\ proc = "up" /\ turns[s] < MaxTurn
    /\ BumpTurn(s) /\ Send(s)
    /\ UNCHANGED <<proc, inc, durable, attempts, store, pending, work, digest, boots, highest>>

\* The upstream takes up the write, or the connection fails and leaves a hole.
Answered(w) ==
    /\ sending' = sending \ {w}
    /\ \/ work' = [work EXCEPT ![w[1]] = w[2]]
       \/ UNCHANGED work
    /\ UNCHANGED <<proc, inc, durable, attempts, store, registry, pending, digest, boots, highest>>

\* publish() of a session.status event: the stamp is taken here.
IngestStatus(s) ==
    /\ proc = "up"
    /\ pending' = [pending EXCEPT ![s] = [stamp |-> Snapshot(s), status |-> work[s], present |-> TRUE]]
    /\ UNCHANGED <<proc, inc, durable, attempts, store, registry, sending, work, digest, boots, highest>>

\* Any other event of the session (a message of whatever turn, an update)
\* joins the pending digest, or starts one without a stamp: neither the stamp
\* nor the status it goes with changes.
IngestOther(s) ==
    /\ proc = "up"
    /\ pending' = [pending EXCEPT ![s] = [@ EXCEPT !.present = TRUE]]
    /\ UNCHANGED <<proc, inc, durable, attempts, store, registry, sending, work, digest, boots, highest>>

\* publish() of the busy status that clears a recorded error: stamped and
\* flushed in one go.
IngestClearing(s) ==
    /\ proc = "up"
    /\ pending' = [pending EXCEPT ![s] = NoEntry]
    /\ digest' = [digest EXCEPT ![s] = IF durable THEN Snapshot(s) ELSE @]
    /\ UNCHANGED <<proc, inc, durable, attempts, store, registry, sending, work, boots, highest>>

\* The pending digests of ss go out with their frozen stamps.
Emit(ss) ==
    /\ digest' = [s \in Sids |-> IF s \in ss /\ pending[s].stamp # Withheld
                                 THEN pending[s].stamp ELSE digest[s]]
    /\ pending' = [s \in Sids |-> IF s \in ss THEN NoEntry ELSE pending[s]]
    /\ UNCHANGED <<proc, inc, durable, attempts, store, registry, sending, work, boots, highest>>

\* publish() of an error or of a question: flush_sid() of its session.
IngestFlushing(s) == proc = "up" /\ Emit({s})

\* flush(), from the debounce loop.
Flush == (\E s \in Sids : pending[s].present) /\ Emit(Sids)

-----------------------------------------------------------------------------
(* Crashes.  The turn registry and the pending digests are not persisted;  *)
(* a write on its way may still reach the upstream.                        *)

Gone ==
    /\ proc # "down" /\ proc' = "down"
    /\ turns' = [s \in Sids |-> 0] /\ order' = <<>> /\ evicted' = {}
    /\ pending' = [s \in Sids |-> NoEntry]
    /\ UNCHANGED <<inc, durable, attempts, sending, work, digest, boots, highest>>

Crash == Gone /\ UNCHANGED store

\* Without a directory sync the rename may or may not survive.
PowerLoss ==
    /\ "power" \in faults /\ Gone
    /\ file' \in {file, disk} /\ disk' = file'

Step ==
    \/ LoadOrBump \/ WriteFails \/ Rename \/ DirFsync \/ DirFsyncFails
    \/ \E s \in Sids : SendPrompt(s) \/ IngestStatus(s) \/ IngestOther(s)
                       \/ IngestClearing(s) \/ IngestFlushing(s)
    \/ \E w \in sending : Answered(w)
    \/ Flush \/ Crash \/ PowerLoss

Next == Step /\ UNCHANGED faults

Spec == Init /\ [][Next]_vars

-----------------------------------------------------------------------------
(* Properties.                                                             *)

Stamps == Nat \X Nat

TypeOK ==
    /\ faults \in FaultModels
    /\ proc \in {"down", "writing", "syncing", "up"}
    /\ inc \in Nat /\ durable \in BOOLEAN /\ attempts \in 0..WriteAttempts
    /\ file \in Nat /\ disk \in Nat /\ boots \in 0..MaxBoots /\ highest \in Nat
    /\ turns \in [Sids -> 0..MaxTurn] /\ order \in Seq(Sids) /\ evicted \subseteq Sids
    /\ Len(order) <= TurnsMax
    /\ pending \in [Sids -> [stamp : Stamps, status : Stamps, present : BOOLEAN]]
    /\ sending \subseteq Sids \X Stamps
    /\ work \in [Sids -> Stamps] /\ digest \in [Sids -> Stamps]

Confirming == (proc # "up" /\ proc' = "up" /\ durable') => inc' > highest

\* A process publishes an incarnation above every one published before, over
\* any sequence of crashes, power losses and failed writes, and above what the
\* legacy directory holds (load_or_bump and the durability gate).
IncarnationIsFresh == [][Confirming]_vars

DigestsAdvance == \A s \in Sids : s \in evicted \/ Leq(digest[s], digest'[s])

\* The stamps a client sees on a session's digests never go back, restarts
\* included; only a session evicted from the turn map is exempt.
DigestNeverRegresses == [][DigestsAdvance]_vars

\* No turn the upstream works on is ahead of the registry, so that the status in
\* a digest is of its stamp's turn or an earlier one: the bump comes before the
\* send, and the stamp is taken with the status.  Nothing is said of a message
\* that joins a digest stamped before: its stamp stays frozen.
StampCoversStatus ==
    \A s \in Sids \ evicted :
        /\ pending[s].stamp # Withheld => Leq(pending[s].status, pending[s].stamp)
        /\ proc = "up" /\ durable => Leq(work[s], Snapshot(s))

\* What sessions/status merges into its answer, the current snapshot, is never
\* behind a digest that has already been sent.
StatusIsNewest ==
    \A s \in Sids : proc = "up" /\ durable /\ s \notin evicted => Leq(digest[s], Snapshot(s))
=============================================================================
