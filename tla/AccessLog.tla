------------------------------ MODULE AccessLog ------------------------------
(***************************************************************************)
(* The daily access log (access_log.py): the handler that the event loop   *)
(* writes rows through, and the maintenance that archives and deletes old  *)
(* files in a worker thread.  The two share one directory.  A file is the  *)
(* set of rows in it.  Copying a file into its archive takes long and      *)
(* holds no lock; renaming the copy into place and deleting the source     *)
(* hold _ACTIVE_TRANSITION_LOCK, as does every change of the handler's     *)
(* open file.  The wall clock that dates a row may be set back.            *)
(***************************************************************************)
EXTENDS Integers, Sequences, FiniteSets, FiniteSetsExt

CONSTANTS
    LastDay,     \* bound: days 1..LastDay
    RetainDays,  \* access_log_retain_days; 0 keeps everything
    MaxLogRows,  \* bound: rows written
    MaxSetBacks, \* bound: times the clock is set back
    MaxStarts    \* bound: starts of the application

ASSUME LogAssumption ==
    LastDay \in Nat \ {0} /\ {RetainDays, MaxLogRows, MaxSetBacks, MaxStarts} \subseteq Nat

Days == 1..LastDay

VARIABLES
    clock,    \* now: the day, the latest day so far, how often it was set back
    app,      \* the application: down, starting (no request is served yet) or up
    starts,   \* how often it was started
    handler,  \* _active_handler_ref, its _current_date (0: none), _current_fh is open
    logs,     \* access-<day>.jsonl
    archives, \* access-<day>.jsonl.gz
    temps,    \* days with a leftover .gz.tmp file
    legacy,   \* access.jsonl of old versions (dated day 1) and its archive
    maint,    \* the maintenance under way, which holds _MAINT_LOCK
    written,  \* ghost: for every row that was written, its day
    late      \* ghost: rows written to a file after it was copied and before the commit

logVars == <<clock, app, starts, handler, logs, archives, temps, legacy, maint, written, late>>

NoFile == [there |-> FALSE, rows |-> {}]
NoHandler == [installed |-> FALSE, date |-> 0, open |-> FALSE]
NoMaint == [pc |-> "idle", today |-> 0, held |-> 0, todo |-> {}, day |-> 0, copy |-> {}]

LogInit ==
    /\ clock = [day |-> 1, latest |-> 1, setBacks |-> 0]
    /\ app = "down" /\ starts = 0 /\ handler = NoHandler
    /\ logs = [d \in Days |-> NoFile] /\ archives = [d \in Days |-> NoFile] /\ temps = {}
    /\ legacy = [source |-> TRUE, archive |-> FALSE]
    /\ maint = NoMaint /\ written = <<>> /\ late = {}

\* The commit of an archive holds _ACTIVE_TRANSITION_LOCK between its two steps.
TransitionLockFree == maint.pc # "committed"

\* The answer of the advisory snapshot, taken on entry without the lock.
IsActiveAtEntry(d) == maint.held = d

\* Variant: the snapshot of the entry decides.
IsActiveSourceAdvisory(d) == IsActiveAtEntry(d)

\* _is_active_source, asked under the lock.
IsActiveSource(d) == handler.open /\ handler.date = d

-----------------------------------------------------------------------------
(* The handler.                                                            *)

\* emit: a row of another day than the last one switches files, under the lock.
\* A row that finds its own day's file not open is dropped (line 267).
Emit ==
    LET d == clock.day
        switch == handler.date # d
        row == Len(written) + 1
    IN /\ app = "up" /\ handler.installed /\ Len(written) < MaxLogRows
       /\ IF switch THEN TransitionLockFree ELSE handler.open
       /\ handler' = [handler EXCEPT !.date = d, !.open = TRUE]
       /\ written' = Append(written, d)
       /\ logs' = IF switch \/ logs[d].there   \* else: into a deleted file
                    THEN [logs EXCEPT ![d] = [there |-> TRUE, rows |-> @.rows \cup {row}]]
                    ELSE logs
       /\ late' = IF maint.pc = "copied" /\ maint.day = d THEN late \cup {row} ELSE late
       /\ UNCHANGED <<clock, app, starts, archives, temps, legacy, maint>>

\* emit, opening the new day's file fails: the old one is closed already, its date stays.
EmitFails ==
    /\ app = "up" /\ handler.installed /\ handler.date # clock.day /\ TransitionLockFree
    /\ handler' = [handler EXCEPT !.open = FALSE]
    /\ UNCHANGED <<clock, app, starts, logs, archives, temps, legacy, maint, written, late>>

\* lifespan, start: setup_access_log.  When it is disabled or fails there is no
\* handler, and then no maintenance.
SetupAccessLog(installed) ==
    /\ app = "down" /\ starts < MaxStarts /\ TransitionLockFree
    /\ starts' = starts + 1
    /\ handler' = [NoHandler EXCEPT !.installed = installed]
    /\ app' = IF installed THEN "starting" ELSE "up"
    /\ UNCHANGED <<clock, logs, archives, temps, legacy, maint, written, late>>

\* lifespan, end: _close_access_log_handlers; a maintenance thread runs on.
CloseHandlers ==
    /\ app = "up" /\ app' = "down" /\ handler' = NoHandler
    /\ UNCHANGED <<clock, starts, logs, archives, temps, legacy, maint, written, late>>

\* The process dies: files stay as they are, a temporary file is left behind.
Crash ==
    /\ app # "down" \/ maint.pc # "idle"
    /\ app' = "down" /\ handler' = NoHandler /\ maint' = NoMaint
    /\ temps' = IF maint.pc = "copied" THEN temps \cup {maint.day} ELSE temps
    /\ UNCHANGED <<clock, starts, logs, archives, legacy, written, late>>

NextDay ==
    /\ clock.day < LastDay
    /\ clock' = [clock EXCEPT !.day = @ + 1, !.latest = IF @ > clock.day THEN @ ELSE clock.day + 1]
    /\ UNCHANGED <<app, starts, handler, logs, archives, temps, legacy, maint, written, late>>

SetBack ==
    /\ clock.day > 1 /\ clock.setBacks < MaxSetBacks
    /\ clock' = [clock EXCEPT !.day = @ - 1, !.setBacks = @ + 1]
    /\ UNCHANGED <<app, starts, handler, logs, archives, temps, legacy, maint, written, late>>

-----------------------------------------------------------------------------
(* Maintenance: at the start migrate, compress and prune; then from time   *)
(* to time compress and prune, with one reading of the date.               *)

Startup ==
    /\ app = "starting" /\ maint.pc = "idle"
    /\ maint' = [NoMaint EXCEPT !.pc = "migrate"]
    /\ UNCHANGED <<clock, app, starts, handler, logs, archives, temps, legacy, written, late>>

\* _migrate_one, up to the rename; nothing happens when the archive exists or the copy fails.
Migrate(ok) ==
    LET moves == ok /\ legacy.source /\ ~legacy.archive
    IN /\ maint.pc = "migrate"
       /\ legacy' = [legacy EXCEPT !.archive = @ \/ moves]
       /\ maint' = [maint EXCEPT !.pc = IF moves THEN "migrated" ELSE "due"]
       /\ UNCHANGED <<clock, app, starts, handler, logs, archives, temps, written, late>>

MigrateUnlink(ok) ==
    /\ maint.pc = "migrated"
    /\ legacy' = [legacy EXCEPT !.source = ~ok]
    /\ maint' = [maint EXCEPT !.pc = "due"]
    /\ UNCHANGED <<clock, app, starts, handler, logs, archives, temps, written, late>>

\* compress_old_access_logs, entry: leftovers are removed, the open file is noted and
\* the older files are listed.
CompressStart ==
    /\ maint.pc = "due" \/ (app = "up" /\ handler.installed /\ maint.pc = "idle")
    /\ maint' = [NoMaint EXCEPT !.pc = "compress", !.today = clock.day,
                                !.held = IF handler.open THEN handler.date ELSE 0,
                                !.todo = {d \in Days : logs[d].there /\ d < clock.day}]
    /\ temps' = {}
    /\ UNCHANGED <<clock, app, starts, handler, logs, archives, legacy, written, late>>

\* The oldest file listed: skipped when it has an archive, was open on entry, or fails.
CompressCopy(ok) ==
    LET d == Min(maint.todo)
        copies == ok /\ ~archives[d].there /\ ~IsActiveAtEntry(d)
    IN /\ maint.pc = "compress" /\ maint.todo # {}
       /\ maint' = IF copies THEN [maint EXCEPT !.pc = "copied", !.day = d, !.copy = logs[d].rows]
                             ELSE [maint EXCEPT !.todo = @ \ {d}]
       /\ UNCHANGED <<clock, app, starts, handler, logs, archives, temps, legacy, written, late>>

Copied(m) == [m EXCEPT !.pc = "compress", !.todo = @ \ {m.day}, !.day = 0, !.copy = {}]

\* _commit_archive, the source is open again: the copy is discarded, or left over.
CommitDefers(discarded) ==
    /\ maint.pc = "copied" /\ IsActiveSource(maint.day)
    /\ temps' = IF discarded THEN temps ELSE temps \cup {maint.day}
    /\ maint' = Copied(maint)
    /\ UNCHANGED <<clock, app, starts, handler, logs, archives, legacy, written, late>>

\* _commit_archive, the rename.
CommitArchive ==
    /\ maint.pc = "copied" /\ ~IsActiveSource(maint.day)
    /\ archives' = [archives EXCEPT ![maint.day] = [there |-> TRUE, rows |-> maint.copy]]
    /\ maint' = [maint EXCEPT !.pc = "committed"]
    /\ UNCHANGED <<clock, app, starts, handler, logs, temps, legacy, written, late>>

\* _commit_archive, the source is deleted; a failure leaves it beside the archive.
CommitUnlink(ok) ==
    /\ maint.pc = "committed"
    /\ logs' = IF ok THEN [logs EXCEPT ![maint.day] = NoFile] ELSE logs
    /\ maint' = Copied(maint)
    /\ UNCHANGED <<clock, app, starts, handler, archives, temps, legacy, written, late>>

\* Variant: the boundary day is deleted too.
ExpiredInclusive(d) == RetainDays > 0 /\ d <= maint.today - RetainDays

\* prune_old_access_logs: what is older than the last RetainDays days.
Expired(d) == RetainDays > 0 /\ d < maint.today - RetainDays

PruneStart ==
    /\ maint.pc = "compress" /\ maint.todo = {}
    /\ maint' = [maint EXCEPT !.pc = "prune",
           !.todo = {<<"log", d>> : d \in {e \in Days : Expired(e) /\ logs[e].there}}
               \cup {<<"archive", d>> : d \in {e \in Days : Expired(e) /\ archives[e].there}}
               \cup {<<"legacy", d>> : d \in {e \in {1} : Expired(e) /\ legacy.archive}}]
    /\ UNCHANGED <<clock, app, starts, handler, logs, archives, temps, legacy, written, late>>

\* _prune_one: under the lock, unless the file is open; the deletion may fail.
PruneOne(f, ok) ==
    /\ maint.pc = "prune" /\ f \in maint.todo
    /\ f[1] # "log" => \A g \in maint.todo : g[1] # "log"
    /\ LET gone == ok /\ ~(f[1] = "log" /\ IsActiveSource(f[2]))
       IN /\ logs' = IF gone /\ f[1] = "log" THEN [logs EXCEPT ![f[2]] = NoFile] ELSE logs
          /\ archives' = IF gone /\ f[1] = "archive" THEN [archives EXCEPT ![f[2]] = NoFile] ELSE archives
          /\ legacy' = [legacy EXCEPT !.archive = @ /\ ~(gone /\ f[1] = "legacy")]
    /\ maint' = [maint EXCEPT !.todo = @ \ {f}]
    /\ UNCHANGED <<clock, app, starts, handler, temps, written, late>>

MaintenanceDone ==
    /\ maint.pc = "prune" /\ maint.todo = {}
    /\ maint' = NoMaint
    /\ app' = IF app = "starting" THEN "up" ELSE app
    /\ UNCHANGED <<clock, starts, handler, logs, archives, temps, legacy, written, late>>

LogNext ==
    \/ Emit \/ EmitFails \/ CloseHandlers \/ Crash \/ NextDay \/ SetBack
    \/ Startup \/ CompressStart \/ CommitArchive \/ PruneStart \/ MaintenanceDone
    \/ \E ok \in BOOLEAN :
          \/ SetupAccessLog(ok) \/ Migrate(ok) \/ MigrateUnlink(ok)
          \/ CompressCopy(ok) \/ CommitDefers(ok) \/ CommitUnlink(ok)
          \/ \E f \in maint.todo : PruneOne(f, ok)

-----------------------------------------------------------------------------
(* Properties.                                                             *)

\* No row is ever written into a deleted file: whatever maintenance archives or
\* prunes while days change and the clock is set back, the file that the handler
\* holds open is still in the directory (_commit_archive, _prune_one, emit).
OpenFileIsLinked == handler.open => logs[handler.date].there

IsKept(i) == i \in logs[written[i]].rows \cup archives[written[i]].rows

Retained(d) == RetainDays = 0 \/ d >= clock.latest - RetainDays

\* A row of the retention window survives: crashes at any step of maintenance, failed
\* deletions, restarts and a clock set back leave it in the file of its day or in the
\* archive, and the legacy file in one of its two places.  Excepted are rows written
\* between the copy of their file and its commit (see NoRowIsLost).
RowsAreKept ==
    /\ \A i \in DOMAIN written : Retained(written[i]) /\ i \notin late => IsKept(i)
    /\ Retained(1) => legacy.source \/ legacy.archive

\* The comment on _commit_archive: a source that became active again during the gzip
\* window is deferred, so that no row is lost.
NoRowIsLost == \A i \in DOMAIN written : Retained(written[i]) => IsKept(i)
==============================================================================
