-------------------------------- MODULE DbAux --------------------------------
(***************************************************************************)
(* The read-only database behind the v4 sessions routes                    *)
(* (dbaux/lifecycle.py, dbaux/path_resolution.py): one SQLite connection   *)
(* owned by a single worker thread, a latency breaker, a periodic task     *)
(* that swaps, probes and reopens, and the requests of routes/sessions.py  *)
(* that query it or degrade.                                               *)
(*                                                                         *)
(* Two threads run.  The event loop submits jobs and receives their        *)
(* results, both in FIFO order; the worker executes one job at a time.     *)
(* Whatever the loop does between two awaits is one action, and the worker *)
(* may be anywhere in its job meanwhile: the breaker is written by both.   *)
(***************************************************************************)
EXTENDS Integers, Sequences, FiniteSets, SequencesExt

CONSTANTS
    Clients,         \* requests that may be under way at the same time
    Environments,    \* settings resolve_db_path may find
    MinSamples, RecoverProbes, RecoverQueries,   \* LatencyBreaker
    MaxWindow,       \* bound: samples inside one 60 s window
    MaxChanges       \* bound: changes of the file or of its latency

ASSUME BreakerAssumption == /\ MinSamples \in Nat \ {0} /\ RecoverProbes \in Nat \ {0}
                            /\ RecoverQueries \in Nat \ {0} /\ MaxWindow \in Nat \ {0}
                            /\ MaxChanges \in Nat
\* A setting is absent, ":memory:" or a path; candidates counts the database
\* files found in the data directory.
ASSUME EnvironmentAssumption ==
    Environments \subseteq [explicit : {"absent", "memory", "path"}, upstream : {"absent", "memory", "path"},
                            candidates : Nat]

VARIABLES
    file,        \* the file at the path: its marker (inode and mtime), whether the
                 \* schema gate and SQL succeed on it, and whether it is slow
    conn,        \* _conn: is there one?
    held,        \* the file it is on, once another one has taken its path
    fds,         \* connections that are open
    inode,       \* _inode
    state,       \* _state
    res,         \* _resolution
    br,          \* the LatencyBreaker
    jobs, work,  \* the executor's queue, and the job in execution
    results,     \* results on their way to the loop
    task,        \* the periodic task (and start() before it)
    life,        \* start() and stop()
    req,         \* a request: idle, waiting for its query
    crashed,     \* history: before stop(), a request ended with an exception nobody
                 \* expects
    exposed,     \* history: slow queries executed since probation began
    changes

vars == <<file, conn, held, fds, inode, state, res, br, jobs, work, results, task, life, req, crashed,
          exposed, changes>>

connVars == <<conn, held, fds>>
breakerVars == <<br, exposed>>
threadVars == <<jobs, work, results>>

Idle == [kind |-> "none"]
Job(kind, who) == [kind |-> kind, who |-> who]
Result(j, r, slow) == [kind |-> j.kind, who |-> j.who, r |-> r, slow |-> slow]
Query(c) == Job("query", c)
Mine(kind) == Job(kind, "task")

\* The connection is on the file at the path.
None == [good |-> FALSE, slow |-> FALSE, gone |-> FALSE]

Closed == [phase |-> "closed", streak |-> 0, good |-> 0, total |-> 0, window |-> <<>>]

\* resolve_db_path: the first setting that is there decides.
ResolveDbPath(env) ==
    CASE env.explicit # "absent" -> env.explicit
      [] env.explicit = "absent" /\ env.upstream # "absent" -> env.upstream
      [] OTHER -> IF env.candidates = 1 THEN "path" ELSE "unresolved"

Init ==
    /\ file \in [ino : {1}, good : BOOLEAN, slow : {FALSE}]
    /\ conn = FALSE /\ held = None /\ fds = 0 /\ inode = 0
    /\ state = "disabled"
    /\ res \in {ResolveDbPath(env) : env \in Environments}
    /\ br = Closed
    /\ jobs = IF res = "path" THEN <<Mine("open")>> ELSE <<>>
    /\ work = Idle /\ results = <<>>
    /\ task = IF res = "path" THEN "open" ELSE "sleep"
    /\ life = IF res = "path" THEN "starting" ELSE "running"
    /\ req = [c \in Clients |-> "idle"] /\ crashed = FALSE
    /\ exposed = 0 /\ changes = 0

-----------------------------------------------------------------------------
(* LatencyBreaker.  A sample is TRUE when it reached the trip threshold.   *)

Slow(w) == Cardinality({i \in DOMAIN w : w[i]})

\* _p99() >= _trip_ms: the nearest-rank percentile of the window.
P99Trips(w) ==
    LET n == Len(w)
        rank == (99 * n + 99) \div 100
    IN n > 0 /\ Slow(w) > n - rank

Trip(b) == [b EXCEPT !.phase = "open", !.streak = 0, !.good = 0]

\* record(), up to its verdict: samples older than the window are dropped
\* first, here down to the last k.
Sample(b, slow, k) ==
    LET kept == SubSeq(b.window, Len(b.window) - k + 1, Len(b.window))
    IN [b EXCEPT !.window = Append(kept, slow), !.total = IF @ > MinSamples THEN @ ELSE @ + 1]

Verdict(b, slow) ==
    CASE b.phase = "open" -> "none"
      [] b.phase = "probation" -> IF slow THEN "trip" ELSE "good"
      [] b.phase = "closed" ->
            IF b.total > MinSamples /\ Len(b.window) >= MinSamples /\ P99Trips(b.window)
            THEN "trip" ELSE "none"

\* record(), from its verdict on.
Judge(b, v) ==
    CASE v = "trip" -> Trip(b)
      [] v = "good" -> IF b.good + 1 >= RecoverQueries THEN [b EXCEPT !.phase = "closed", !.good = 0]
                       ELSE [b EXCEPT !.good = @ + 1]
      [] v = "none" -> b

NoteProbe(b, slow) ==
    IF b.phase # "open" THEN b
    ELSE IF slow THEN [b EXCEPT !.streak = 0]
    ELSE IF b.streak + 1 >= RecoverProbes THEN [b EXCEPT !.phase = "probation", !.streak = 0]
    ELSE [b EXCEPT !.streak = @ + 1]

ProbeFailed(b) == [b EXCEPT !.streak = IF b.phase = "open" THEN 0 ELSE @]

-----------------------------------------------------------------------------
(* The worker.                                                             *)

Answer(r, slow) ==
    /\ results' = Append(results, Result(Head(jobs), r, slow))
    /\ jobs' = Tail(jobs) /\ work' = Idle

First == Head(jobs)
Take(kind) == work = Idle /\ jobs # <<>> /\ First.kind = kind

\* Variant: the breaker is not looked at again when the query leaves the queue.
RunQueryUnchecked ==
    /\ Take("query")
    /\ IF ~conn THEN Answer("assert", FALSE)
       ELSE jobs' = Tail(jobs) /\ work' = [First EXCEPT !.kind = "sql"] /\ UNCHANGED results
    /\ UNCHANGED <<file, connVars, inode, state, res, br, task, life, req, crashed, exposed, changes>>

\* _run_query before BEGIN.
RunQuery ==
    /\ Take("query")
    /\ IF br.phase = "open" THEN Answer("unavailable", FALSE)
       ELSE IF ~conn THEN Answer("assert", FALSE)
       ELSE jobs' = Tail(jobs) /\ work' = [First EXCEPT !.kind = "sql"] /\ UNCHANGED results
    /\ UNCHANGED <<file, connVars, inode, state, res, br, task, life, req, crashed, exposed, changes>>

\* What SQLite may answer over the connection, and how fast: for the file it is
\* on, as that file is now.
Reads == IF held.gone THEN held ELSE file
Outcomes == (IF Reads.good THEN {"ok"} ELSE {"ok", "fatal"}) \cup (IF Reads.slow THEN {"busy"} ELSE {})
Latencies == IF Reads.slow THEN BOOLEAN ELSE {FALSE}

\* The SQL and, in the finally clause, record() up to its verdict.
Execute(r, slow, k) ==
    /\ work.kind = "sql" /\ r \in Outcomes /\ slow \in Latencies /\ (r = "busy" => slow)
    /\ k \in 0..Len(br.window) /\ k < MaxWindow
    /\ br' = Sample(br, slow, k)
    /\ exposed' = IF slow /\ br.phase # "closed" THEN exposed + 1 ELSE exposed
    /\ work' = [kind |-> "judge", who |-> work.who, r |-> r, v |-> Verdict(Sample(br, slow, k), slow)]
    /\ UNCHANGED <<file, connVars, inode, state, res, jobs, results, task, life, req, crashed, changes>>

Finish ==
    /\ work.kind = "judge"
    /\ br' = Judge(br, work.v)
    /\ results' = IF work.who = "gone" THEN results
                  ELSE Append(results, Result(Query(work.who), work.r, FALSE))
    /\ work' = Idle
    /\ UNCHANGED <<file, connVars, inode, state, res, jobs, task, life, req, crashed, exposed, changes>>

\* _close_conn.
CloseConn ==
    /\ Take("close")
    /\ conn' = FALSE /\ held' = None /\ fds' = fds - (IF conn THEN 1 ELSE 0)
    /\ Answer("ok", FALSE)
    /\ UNCHANGED <<file, inode, state, res, breakerVars, task, life, req, crashed, changes>>

\* _open_and_gate_sync: the old connection is closed first; a file that cannot
\* be opened or fails the gate leaves none.
OpenAndGateSync ==
    /\ Take("open")
    /\ conn' = FALSE /\ held' = None
    /\ LET closed == fds - (IF conn THEN 1 ELSE 0)
       IN IF res = "path" /\ file.good
          THEN /\ jobs' = Tail(jobs) /\ work' = [First EXCEPT !.kind = "stat"]
               /\ fds' = closed + 1 /\ UNCHANGED results
          ELSE fds' = closed /\ Answer("failed", FALSE)
    /\ UNCHANGED <<file, inode, state, res, breakerVars, task, life, req, crashed, changes>>

\* The marker is read after the open: the file may have been replaced since.
StatInodeMarker ==
    /\ work.kind = "stat"
    /\ conn' = TRUE /\ inode' = file.ino
    /\ results' = Append(results, Result(Mine("open"), "ok", FALSE)) /\ work' = Idle
    /\ UNCHANGED <<file, held, fds, state, res, breakerVars, jobs, task, life, req, crashed, changes>>

\* _probe_sync (SELECT 1) and _canary_sync.
ProbeSync(r) ==
    /\ Take("probe")
    /\ r \in IF ~conn THEN {"failed"} ELSE IF Reads.good THEN {"ok"} ELSE {"ok", "failed"}
    /\ Answer(r, FALSE)
    /\ UNCHANGED <<file, connVars, inode, state, res, breakerVars, task, life, req, crashed, changes>>

CanarySync(r, slow) ==
    /\ Take("canary")
    /\ r \in IF ~conn THEN {"failed"} ELSE IF Reads.good THEN {"ok"} ELSE {"ok", "failed"}
    /\ slow \in Latencies
    /\ Answer(r, slow)
    /\ UNCHANGED <<file, connVars, inode, state, res, breakerVars, task, life, req, crashed, changes>>

Worker ==
    \/ RunQuery \/ Finish \/ CloseConn \/ OpenAndGateSync \/ StatInodeMarker
    \/ \E r \in {"ok", "busy", "fatal"}, slow \in BOOLEAN, k \in 0..MaxWindow : Execute(r, slow, k)
    \/ \E r \in {"ok", "failed"} : ProbeSync(r) \/ (\E slow \in BOOLEAN : CanarySync(r, slow))

-----------------------------------------------------------------------------
(* The event loop.                                                         *)

\* status(): a breaker that tripped in the worker is noticed here.
CheckBreakerState(st) == IF br.phase = "open" /\ st = "available" THEN "circuit_open" ELSE st

Submit(j) == jobs' = Append(jobs, j) /\ UNCHANGED <<work, results>>

\* A sessions route: refused at once, or its query queued.  Requests are served
\* until the process is gone, stop() or not.
Ask(c) ==
    /\ life # "starting" /\ req[c] = "idle"
    /\ state' = CheckBreakerState(state)
    /\ IF state' = "available"
       THEN /\ Submit(Query(c)) /\ req' = [req EXCEPT ![c] = "waiting"] 
       ELSE UNCHANGED <<threadVars, req>>
    /\ UNCHANGED <<file, connVars, inode, res, breakerVars, task, life, crashed, changes>>

\* The client goes away: a queued job is cancelled with its future, a running
\* one runs on and its result is dropped.
Abandon(c) ==
    /\ req[c] = "waiting"
    /\ req' = [req EXCEPT ![c] = "idle"]
    /\ jobs' = SelectSeq(jobs, LAMBDA j : j # Query(c))
    /\ results' = SelectSeq(results, LAMBDA r : ~(r.kind = "query" /\ r.who = c))
    /\ work' = IF work.kind \in {"sql", "judge"} /\ work.who = c THEN [work EXCEPT !.who = "gone"]
               ELSE work
    /\ UNCHANGED <<file, connVars, inode, state, res, breakerVars, task, life, crashed, changes>>

Got == Head(results)
Receive(kind) == results # <<>> /\ Got.kind = kind /\ results' = Tail(results)

\* query() and the route after the await: an SQLite error other than busy
\* disables and degrades, busy is a 503; an exception that is neither an
\* SQLite error nor AuxiliaryUnavailableError reaches the client as a 500.
Answered ==
    /\ Receive("query")
    /\ req' = [req EXCEPT ![Got.who] = "idle"]
    /\ crashed' = (crashed \/ (Got.r = "assert" /\ life = "running"))
    /\ state' = CASE Got.r = "ok" -> CheckBreakerState(state)
                  [] Got.r = "fatal" -> "disabled"
                  [] Got.r \in {"busy", "unavailable", "assert"} -> state
    /\ UNCHANGED <<file, connVars, inode, res, breakerVars, jobs, work, task, life, changes>>

Begin(kind) == Submit(Mine(kind)) /\ task' = kind

\* Variant: only an open circuit is probed.
TickProbesOnly ==
    /\ life = "running" /\ task = "sleep"
    /\ \/ state = "available" /\ conn /\ file.ino # inode /\ Begin("open")
       \/ state = "circuit_open" /\ Begin("probe")
    /\ UNCHANGED <<file, connVars, inode, state, res, breakerVars, life, req, crashed, changes>>

\* tick(): a changed marker swaps, an open circuit probes, a disabled
\* database is opened again.
Tick ==
    /\ life = "running" /\ task = "sleep"
    /\ \/ state = "available" /\ conn /\ file.ino # inode /\ Begin("open")
       \/ state = "circuit_open" /\ Begin("probe")
       \/ state = "disabled" /\ res # "memory" /\ Begin("open")
    /\ UNCHANGED <<file, connVars, inode, state, res, breakerVars, life, req, crashed, changes>>

\* _open_and_gate after the await, for start(), swap() and reprobe().
Opened ==
    /\ Receive("open")
    /\ IF task # "open" THEN UNCHANGED <<state, br, exposed, task, life>>
       ELSE /\ task' = "sleep" /\ life' = IF life = "starting" THEN "running" ELSE life
            /\ IF Got.r = "ok" THEN state' = "available" /\ br' = Closed /\ exposed' = 0
               ELSE state' = "disabled" /\ UNCHANGED breakerVars
    /\ UNCHANGED <<file, connVars, inode, res, jobs, work, req, crashed, changes>>

\* probe() between and after its two awaits.
Probed ==
    /\ Receive("probe")
    /\ IF task # "probe" THEN UNCHANGED <<jobs, task, br>>
       ELSE IF Got.r = "ok" THEN /\ jobs' = Append(jobs, Mine("canary")) /\ task' = "canary"
                                 /\ UNCHANGED br
       ELSE br' = ProbeFailed(br) /\ task' = "sleep" /\ UNCHANGED jobs
    /\ UNCHANGED <<file, connVars, inode, state, res, exposed, work, life, req, crashed, changes>>

Canaried ==
    /\ Receive("canary")
    /\ IF task # "canary" THEN UNCHANGED <<task, breakerVars, state>>
       ELSE /\ task' = "sleep"
            /\ br' = IF Got.r = "ok" THEN NoteProbe(br, Got.slow) ELSE ProbeFailed(br)
            /\ LET recovered == Got.r = "ok" /\ br'.phase # "open"
               IN /\ state' = IF recovered THEN "available" ELSE state
                  /\ exposed' = IF recovered /\ br.phase = "open" THEN 0 ELSE exposed
    /\ UNCHANGED <<file, connVars, inode, res, jobs, work, life, req, crashed, changes>>

\* stop(): the periodic task is given time to finish, then cancelled ...
Stop ==
    /\ life = "running"
    /\ life' = "draining"
    /\ UNCHANGED <<file, connVars, inode, state, res, breakerVars, threadVars, task, req, crashed, changes>>

\* ... the connection is closed by the worker, behind whatever it still runs ...
Drained ==
    /\ life = "draining" /\ life' = "closing" /\ task' = "ended"
    /\ jobs' = Append(SelectSeq(jobs, LAMBDA j : j.who # "task"), Mine("close"))
    /\ UNCHANGED <<file, connVars, inode, state, res, breakerVars, work, results, req, crashed, changes>>

\* ... and what is still queued is cancelled, the requests that wait for it too.
Stopped ==
    /\ Receive("close")
    /\ life' = "stopped" /\ state' = "disabled" /\ jobs' = <<>>
    /\ req' = [c \in Clients |-> IF Query(c) \in Range(jobs) THEN "idle" ELSE req[c]]
    /\ UNCHANGED <<file, connVars, inode, res, breakerVars, work, task, crashed, changes>>

Loop ==
    \/ Answered \/ Tick \/ Opened \/ Probed \/ Canaried \/ Stop \/ Drained \/ Stopped
    \/ \E c \in Clients : Ask(c) \/ Abandon(c)

\* The database is replaced by another file, or rewritten, broken, repaired,
\* slowed down or sped up where it is.  A file that was replaced lives on, as it
\* was, under a connection that is on it.
FileChange ==
    /\ changes < MaxChanges /\ changes' = changes + 1
    /\ \/ /\ \E g, s \in BOOLEAN : file' = [ino |-> file.ino + 1, good |-> g, slow |-> s]
          /\ held' = IF (conn \/ work.kind = "stat") /\ ~held.gone
                     THEN [good |-> file.good, slow |-> file.slow, gone |-> TRUE] ELSE held
       \/ file' = [file EXCEPT !.ino = @ + 1] /\ UNCHANGED held
       \/ file' = [file EXCEPT !.good = ~@] /\ UNCHANGED held
       \/ file' = [file EXCEPT !.slow = ~@] /\ UNCHANGED held
    /\ UNCHANGED <<conn, fds, inode, state, res, breakerVars, threadVars, task, life, req, crashed>>

Next == Worker \/ Loop \/ FileChange

Spec == Init /\ [][Next]_vars

\* The worker thread runs, the loop delivers results, and the periodic task's
\* timer fires; nothing obliges a client, an operator or the file.
Fairness ==
    /\ WF_vars(Worker)
    /\ WF_vars(Answered \/ Opened \/ Probed \/ Canaried)
    /\ WF_vars(Tick)

FairSpec == Spec /\ Fairness

-----------------------------------------------------------------------------
\* Once the breaker lets real queries through on trial, at most one of them can
\* be slow before the rest are refused, however many were queued meanwhile
\* (_run_query's second look at the breaker).
ExposureIsOne == exposed <= 1

\* Every open connection is the one the worker owns, so swaps and failed gates
\* leak no descriptor, and after stop() there is none and the source stays
\* disabled, whatever was still queued or running when stop() was called.
ConnectionIsOwned ==
    /\ fds = (IF conn \/ work.kind = "stat" THEN 1 ELSE 0)
    /\ life = "stopped" => ~conn /\ fds = 0 /\ state = "disabled" /\ jobs = <<>>

\* What the executor's one thread and the loop share stays consistent, in the order
\* their steps interleave: the breaker's trial, the connection and the shutdown.
WorkerAndLoopAgree == ExposureIsOne /\ ConnectionIsOwned

\* A circuit that is open or a gate that failed is not forever: while the file
\* stays readable and fast the source becomes available again and again (the
\* periodic task's probe and reprobe), unless its connection is stranded on a
\* file that has been replaced and was not.
Healthy == file.good /\ ~file.slow /\ res = "path" /\ life = "running"
Stranded == held.gone /\ ~(held.good /\ ~held.slow)
Recovers == <>[](Healthy /\ ~Stranded) => []<>(state = "available")

\* A changed marker is noticed and the path opened again, also while the circuit
\* is open: the check and the probe are steps of one periodic task (tick, "the
\* check finds it, reopens and gates again, on the breaker's cycle").
ReplacedFileIsReopened ==
    (Healthy /\ state = "circuit_open" /\ file.ino # inode) ~> (file.ino = inode \/ ~Healthy)

\* A query that meets an unavailable database degrades; it never fails with
\* anything else ("raced into unavailable between status and query").
QueryNeverCrashes == ~crashed
=============================================================================
