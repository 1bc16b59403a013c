# Verification of oc-slimapi

oc-slimapi is a sidecar between the ocdroid client and the opencode server: one
Python process on one asyncio event loop. It holds a single upstream event
connection, curates and replays its events to SSE clients, coalesces token
deltas, stamps digests with causal turn numbers, and shares and slims upstream
GETs. This directory holds TLA+ models of its stateful parts, TLC
configurations that check them on small instances, and proofs that TLAPS checks
for every instance. Paths below are relative to `src/src/oc_slimapi/`, those that
start with `docs/` to the repository's root.

The code between two `await`s runs without interruption, so it is one action
here: a handler that calls an eviction, which calls a flush, which closes a
subscriber, is one step that does all of it. What interleaves is what the event
loop interleaves: requests, task turns, done callbacks, timers, the upstream's
events and the outside world (crashes, power, clients that leave).

## Inventory

| part | state | operations | interacts with |
|---|---|---|---|
| replay log `sse/replay_log.py` | per domain: sequence, window, barrier, invalidation flag; shared byte budget | reserve, append, rollback, replay, write_barrier, mark_invalidated, recycle, sweep, close | global hub, token hub, both SSE routes |
| event stream `sse/global_hub.py`, `sse/hub_types.py`, `sse/replay_wire.py`, `routes/events.py` | subscriber queues, pending digests | publish, put, overflow, resync, connect with a cursor, idle recycle | replay log, registry, turn registry |
| hub registry and supervision `sse/registry.py`, `sse/global_hub.py` | the hub, its task group, removal task, admission counter | subscribe, unsubscribe, grace removal, close, spawn, revive | token registry, app lifespan |
| turn registry `turn_registry.py` | incarnation file, per-session turns | load_or_bump, bump_turn, snapshot | write routes, digests |
| single flight `singleflight.py` | entries, leases, byte ledger, timers | fetch, fetch_or_bypass, release, expire, shutdown | messages, catalog, aggregation |
| token hub `sse/tokenstream/` | live parts, accumulators, tombstones, gauges, subscribers | ten upstream handlers, flush loop, budgets, subscribe | global hub, replay log |
| dbaux `dbaux/` | connection, availability, breaker, worker queue | query, swap, probe, reprobe, stop | session routes |
| session pages `routes/sessions.py` | none of its own; cursors live in clients | page, degraded page, details batch | dbaux, upstream |
| actions `actions.py` | in-flight set, last runs, processes | load, invoke, spawn, timeout, cleanup, audit | — |
| messages and since cursors `routes/messages/_list.py`, `since_cache.py` | generation-fenced snapshots | observe, fetch, diff, commit | single flight, transform pool |
| full bodies `routes/messages/_full_merge.py` | byte budget of a page | reserve, fetch or join, refund, retry, splice | single flight |
| catalog cache `catalog_cache.py` | bodies, generation | get, refresh, store, evict, invalidate | single flight, global hub |
| aggregation `routes/_aggregate_fanout.py` | a window of tasks per request, route permits | discover, launch, consume, truncate, unwind | single flight |
| transform pool `transform.py` | permits, gauges, worker threads | acquire, offload, offload_strict, release | most routes, `routes/file_raw.py` |
| q/p sweep `qp_sweep.py` | shared activity table, due times, daily budget | observe, record, run_once, evict, start, stop | global hub |
| access log `access_log.py` | open file, daily files, archives | emit, switch, compress, commit, prune | a maintenance thread |
| lifespan `app.py` | what runs, the exit stack | start each part, smoke test, health check, stop | all of the above |
| traffic `traffic.py`, `traffic_snapshot.py` | counters, snapshot files | account, snapshot | middleware |
| routes without state, projection, selector, support code | none between requests | — | — |

The hard behaviours are losses nobody numbers (the upstream bus has no replay),
clients that return with old cursors, processes and machines that stop between
two writes, cancellations that arrive while something unwinds, budgets that are
reached in the middle of a handler, and events that arrive after the thing they
are about is gone. `PROJECT.json` lists them one by one under `hazards`, each at
its line, with the properties that would catch it.

## Modules

| module | models | notes |
|---|---|---|
| `ReplayLogOps` | the log as a value and its operations | shared by the next two |
| `ReplayLog` | the log driven by any caller | invariant in `ReplayLogInv`, proved in `ReplayLogProofs` over `ReplayLogOpsProofs` |
| `Feed` | what a stream promises a client: the next frame, or a notice to align | abstract specification |
| `EventStream` | hub, log, queues and clients with cursors, composed | implements `Feed`; invariant in `EventStreamInv`, proved in `EventWireProofs`, `EventStepProofs`, `EventStreamProofs` |
| `HubLifecycle` | registry, hubs, task groups and the asyncio mechanics they rely on | the event loop's ready queue is state |
| `TurnFence` | incarnation persistence, turns, pending digests | proved in `TurnFenceProofs` |
| `SingleFlight` | both profiles of the class | a caller suspends at its three awaits |
| `TokenHub` | ingest, budgets, flush loop, subscribers | text is its length |
| `DbAux` | the auxiliary database: event loop, worker thread and file | both threads interleave |
| `SessionPages` | the session list and the details batch over a changing table | rows are keys and kinds |
| `Actions` | host actions from manifest to audit | a call is cancelled at any await, even twice |
| `Aggregate` | discovery, window of GETs, envelope | tasks of two requests share flights |
| `TransformPool` | permits and worker threads, and three ways to use them | |
| `CatalogCache` | the body cache beside the process whose bodies it holds | |
| `MessageList` | list window, since cache and clients that apply diffs | |
| `FullMerge` | merged pages and direct requests sharing flights of different caps | |
| `AccessLog` | the handler, the maintenance thread and the directory | the clock may be set back |
| `QpSweep` | the scheduler task beside hub and routes | |
| `Lifespan` | start sequence, exit stack, smoke test, health check, snapshot loop | |
| `MCServices`, `MCSupport` | the ten modules after `DbAux`, of which a behaviour runs one | see below |

Most models keep the component's state in one record, so a helper of the code
is an operator from state to state and a handler is their composition in the
code's order. `map` in `PROJECT.json` gives the lines behind every definition.
Definitions headed "Variant" are the bugs each property is tried against: with
the variant in place of the definition, the property named in `mutants` fails.

**ReplayLog / EventStream.** An entry has a domain, a sequence number, a size,
an append time and an append counter. Publication reserves, encodes and appends
in one step, or fails and rolls back. A client has a position, and what it
believes to be complete (`covered`) is compared with what was published. The
upstream may end, and events may go by while nobody reads it (`UpstreamMisses`);
`losses` counts both. The hub resyncs its clients and writes the barrier once per
outage, when it notices that observation ended, and `due` counts what that notice
has to cover: the end itself and whatever went by before it. What goes by between
the notice and the reconnect is not due, because `run()` does not repeat itself
when it is back; see `MCOutageAlign.cfg` below. `Feed` has no connections, queues, logs or losses: a client that was not
told to align receives exactly the next frame. The refinement mapping hides the
rest.

**HubLifecycle.** Tasks have the states asyncio gives them, including being
cancelled while awaiting a `gather`, whose children then receive the
cancellation. Callbacks and wakeups wait in the ready queue in order. A client
request is a turn on the same queue. `Calm` says that a client outstays the loop
turn it arrives in and that an upstream cleanup is shorter than the grace period.

**TurnFence.** The file and what would survive a power loss are separate
(`file`, `disk`). `faults`, chosen initially from `FaultModels`, says which
system calls may fail in a behaviour. A pending digest has the turn of its status
and a stamp, which is taken when a status arrives and frozen until the flush; a
message event that joins the digest changes neither.

**SingleFlight.** `leased`, chosen initially, selects the profile. Flight
numbers stand for object identity.

**TokenHub.** Each part has an upstream text, a published prefix and a pending
tail. The replay log is reduced to whether it accepts a frame. `scenario`,
chosen initially, says which parts are not text and which troubles (removals,
status changes, deletions, reconnects, expiry, a refusing log) may happen, up to
`max` of them. Two live parts whose last delta falls into the same millisecond
are ordered by that delta.

**DbAux.** `jobs` and `results` are the executor's two FIFO queues. The worker
takes, runs and answers a job; the loop submits and receives, and both write the
breaker. The file's owner replaces, rewrites, breaks, repairs or slows it. A
connection stays on the file it was opened on: once another has taken the path,
`held` is that file as it was, and queries and probes see it (`Reads`). Requests
go on while `stop()` closes the source. `Environments` holds the settings from which the path is resolved at start.

**Services.** `Actions`, `Aggregate`, `TransformPool`, `CatalogCache`,
`MessageList` and `FullMerge` share no state that a property of theirs depends
on: what they share in the code (flights, permits) is in each module as that
module uses it, after `SingleFlight`. `MCServices` extends all six; a behaviour
picks one (`part`) and the others keep their initial state. A request suspends at
each `await` and may be cancelled there. In `MessageList` a client applies every
answer it gets; `Undated` messages have a malformed creation time, which makes
the diff withhold removals.

**Support.** `MCSupport` composes `AccessLog`, `SessionPages`, `QpSweep` and
`Lifespan` the same way (`piece`). In `AccessLog` copying into an archive is a
step of its own, between which the handler may do anything; `written` and `late`
remember which rows were written and which of them after their file was copied.
In `QpSweep`, `touched` and `hits` remember true activity and the decisions taken.
In `Lifespan` a part names the parts it needs: what its constructor is given, and
the hubs for the token hub. Calls in the other direction, which the hubs make
through what is set on them later, are not needs, as the token hub and the shadow
sweep stop first. The start can be cancelled where it really suspends: inside
`dbaux.start()`, the smoke test and the health check. The snapshotter's `start()`
is awaited too but never suspends.

## Runs

| run | shows | size |
|---|---|---|
| `replay_log` | two domains, shared budget: a cursor gets its exact continuation or a notice and no number is burned (`CursorIsServed`), budgets hold, an accepted entry is retained | 180 000 states |
| `event_stream` | two clients, overflow, losses, reconnects: nothing falls between replay and live | 650 000 states |
| `event_stream_epochs` | one client across a restart, with two ends of observation or events nobody read: each is signalled (`LossIsSignalled`), returning cursors safe, `Feed` implemented, everyone catches up | 250 000 states |
| `hub_lifecycle` | two scenarios (three arrivals of a control and a token client; two control clients and a task death): serial groups, exact cap, terminal close, no zombie, idle released | 260 000 states |
| `turn_fence` | two starts, one turn, two sessions over a map of one: stamps cover the status they go with, status newest, incarnations fresh, digests never regress | 1 150 000 states |
| `single_flight` | three callers, two keys, two cancellations, a shutdown: all books exact, one fetch per key | 200 000 states |
| `single_flight_progress` | waiters are served although leaders are cancelled | 60 000 states |
| `token_hub` | three parts, budgets of two bytes, two troubles: gauges exact and caps held, streams whole, removed text silent, idle streams ended | 220 000 states |
| `dbaux` | two requests, two changes of the file, stop at any time: one slow query per trial and no leaked connection (`WorkerAndLoopAgree`), recovery | 360 000 states |
| `services` | six services: books exact, calls settled, envelopes honest, cached bodies live, merges fair, direct bodies whole, clients hold the window they were told, removals true | 540 000 states |
| `support` | four parts: the open log file is linked and rows kept, walks exact, degraded answers faithful, sweeps due, start and stop ordered | 810 000 states |
| `dbaux_lost_connection` (violated) | a query accepted while a reopen fails runs into an assertion instead of degrading | finding |

A property named for several books is a conjunction of definitions above it in
its module, each with its own comment.

**Bounds.** Every bound is a constant with a comment. Budgets are small enough
to be exceeded by the third frame, delta or body, so eviction, overflow and
rejection all happen; windows of two entries, queues of one or two and caps of
one reach both sides of each comparison. Two clients (or callers, or domains)
suffice for every pairwise race; `SingleFlight` has three because re-leading
involves a cancelled leader, a waiter that leads and a waiter that joins.
`HubLifecycle`, `TurnFence`, `DbAux` and the two composed runs may stop when
their bounded arrivals, starts, changes or requests are used up, so deadlock is
not checked there; the other models always have a step. In `services` each
service has two requests (the pool three, for two permits), caches and permits of
one or two, bodies on both sides of each cap, and two cancellations per call. In
`support` a page has one row of five, of which two do not parse and neighbours
share a time stamp; the log has three days, two rows, one setback and two starts;
the sweep has two directories, an activity table of one and a day of four ticks;
two parts of the start may break. In `event_stream_epochs` the log holds one
frame, so a cursor expires by count; expiry by age is checked by `replay_log`, and
that several replayed frames come in order is part of `StreamImplementsFeed` below.

**Fairness.** A connected upstream, clients that deliver, reconnect and align
(`EventStream`); the event loop takes turns and serves requests, a cancelled
task's cleanup and a grace sleep end (`HubLifecycle`); a fetch, a semaphore wait
and a held lease end, and a resolved future wakes its waiters (`SingleFlight`);
the worker thread runs, results are delivered and the periodic task's timer fires
(`DbAux`).
These are timeouts of the HTTP client, timers and asyncio's FIFO scheduling.
Nothing is assumed about the upstream's events or about cancellations.
`IdleEndsStreams` needs no fairness: it speaks of each tick of the flush loop.

## Proofs

TLAPS checks the following for any constants satisfying the named assumptions.

`ReplayLogProofs`: type correctness (`TypeCorrect`), contiguous windows
(`WindowAlwaysContiguous`), no burned numbers (`NoSeqBurned`), exact replay
(`ReplayCorrect`), the unreachable gap answer (`GapIsDead`), all three together
as the run checks them (`CursorsAreServed`), monotone counters
(`Monotone`) and retention of an accepted entry (`Retention`). The properties are
not inductive. `Inv` adds that a window's entries are ordered alike by sequence
and by append counter, and that no append counter exceeds the log's, so a new
entry is the newest; and it says what is still true of a domain after `sweep`
has dropped its barrier. Each eviction loop leaves a set that with an entry
contains all newer ones of its domain (`Survives`), which keeps windows
contiguous; the proof of each action then only deals with what it adds.

`EventStreamProofs`: nothing falls in the gap (`GapFree`), ends of observation are
signalled (`LossNeverSilent`), a returning client is safe (`ReturnIsSafe`), and the
stream implements `Feed` (`StreamImplementsFeed`: initial states map to initial
states and every step to a step of `Feed` or a stutter), all assuming `FramesFit`:
no frame exceeds `max_frame_bytes`. `Inv` in `EventStreamInv` looks at a connection
as one wire, plan and queue together: frames come in order, an unmarked wire (no
resync on it, not closed) holds every frame its client lacks, and a client that has
not aligned since a notified loss has a dead cursor, one the log refuses to replay
from, and gets only frames that are dead cursors too before it is told.
`ReplayLogOpsProofs` shows what each operation of the log
preserves, in particular which cursors stay dead; `EventWireProofs` what appending to
and delivering from a wire preserves; `EventStepProofs` treats the steps of one
client and those that change no wire; `EventStreamProofs` the rest and the theorems.

`TurnFenceProofs`: fresh incarnations (`FreshIncarnation`), digests that never go
back (`DigestsNeverGoBack`), stamps not behind the turn of their status
(`StampsCoverStatus`) and status answers never behind a digest
(`StatusNeverBehind`), all assuming `Sound`: existing files can be read and a
directory sync does not fail in a behaviour with power losses. `CounterInv`
relates what a start will read, and what power loss would leave, to the highest
published incarnation; `StampInv` relates the turn map, the pending digests and
the last digest sent.

Only model-checked: everything about the other modules; `WithinBudget` of the log (a
sum over a set of entries); all liveness, which this prover does not do, so
`EveryoneCatchesUp` too.

## What does not hold

Besides the finding, these were met and can be reproduced with a configuration
of this directory or by changing a constant; the runs exclude them and `hazards`
names the lines of the most important ones.

- `MCHubHastyClient.cfg`: a client that subscribes after the old task group has
  ended but before the removal task resumes, and leaves in the same turn, leaves
  a running group on a hub the registry drops (`DroppedHubIsQuiet`).
  `sse/registry.py:347-348` says "await full exit so the old run() releases
  /global/event BEFORE we null the reference".
- `MCHubUnwired.cfg`: a hub built after an idle recycle lacks the directory
  observer, the filter and the activity table `app.py:542-562` gave the first
  (`HubIsWired`).
- `MCTokenEvicted.cfg`: an evicted part streams again after a reconnect
  (`EvictedNeverResumes`), against `sse/tokenstream/budgets.py:187-190`.
- `MCFileRaw.cfg`: `GET /file/raw` cancelled while its response is being closed
  never returns its transform permit (`RestIsWhole`), against
  `transform.py:229-230`.
- `MCStaleWindow.cfg`: a joined list body older than the observed baseline makes
  the diff report an existing message as removed (`NoFalseRemoval`), against
  `routes/messages/_list.py:489-490`. `RemovalsAreTrue` shows it is the only way.
- `MCLogReopened.cfg`: a row written to an older day's file while that file is
  compressed is deleted with it if the handler has left the file again before the
  commit (`NoRowIsLost`), against `access_log.py:608-611`.
- `MCOutageAlign.cfg`: a client that aligned while the upstream was down, after the
  notice, is not told of what went by until the reconnect (`OutageIsSignalled`). The
  contract has it so (`docs/specs/design-v4-sse-replay.md:114`): a loss is notified
  once, when it is noticed.
- `MCDbAuxReplaced.cfg`: a file replaced while the circuit is open is not opened
  (`ReplacedFileIsReopened`): `tick()` compares the marker only while the source is
  available (`dbaux/lifecycle.py:731`), and the probes run over the connection to the
  deleted file, so a slow one keeps the circuit open although the file at the path is
  fast. `docs/operations.md:550-551` says the check "挂熔断器周期", on the breaker's
  cycle. `Recovers` excepts a connection stranded like this.
- `MCLifespanCancelled.cfg`: a cancellation inside `dbaux.start()` comes before its
  cleanup is registered and leaves executor and connection (`EveryExitCleansUp`),
  against `app.py:217-221`, "a partial startup cannot leak an httpx client, executor,
  hub task, or maintenance task".
- A frame above `max_frame_bytes` leaves a silent hole: `MCEventStream.cfg` with
  `Sizes = {1, 3}` violates `NothingFallsInTheGap`.
- A dead task of a replaced hub revives it, because token subscribers count as
  consumers of every hub. With a scenario of a token client and a death two
  groups run, and `close()` or the grace removal leaves one behind:
  `GroupsAreSerial`, `CloseIsTerminal` and `IdleIsReleased` speak of behaviours
  up to the first death.
- A failed directory sync followed by a power loss, or an unreadable file,
  repeats an incarnation: `MCTurnFence.cfg` with
  `FaultModels = {{"dir_fsync", "power"}}` or `{{"read"}}` violates
  `IncarnationIsFresh`.
- A plain flight detached by `shutdown()` that fails later drops its successor:
  `OneFetchDespiteShutdown` is violated with `Profiles = {FALSE}`.
- A session flapping more often between two ticks than the queue is long keeps
  another session's streams open: `MCTokenHub.cfg` with `IdleBurst = 2` violates
  `IdleEndsStreams`.

Seen while modelling, kept in the models as the code has them:

- `actions.py`: a call cancelled in its last await, after its run succeeded,
  leaves no audit record (`AuditedOnce` excepts it); a second cancellation during
  the spawn orphans the process, which a comment accepts (`NoOrphan`); an empty
  manifest raises `KeyError` in `_load_manifest`, which "never raises".
- `dbaux`: a path that could not be resolved at start is reprobed but never
  resolved again; the inode is taken after the open, so a file replaced between
  the two is noticed only at its next replacement; a query queued behind the close of
  `stop()` fails its assertion like the one of the finding.
- `sse/global_hub.py`: a message event merged into a pending digest leaves with the
  stamp of the status before it, also when a later prompt caused it; the contract
  freezes the stamp at ingest (v2-contract §3.y.5).
- `transform.py`: a plain `offload` that is cancelled gives its permit back while
  its worker still runs, so there may be more jobs than permits; only the strict
  one waits.
- Aggregation and catalog: a request that joins a flight in its grace window may
  be answered with a body up to a second older than itself; the cache does not
  keep it.
- `access_log.py`: after a failed open a row of the same day is dropped; a file
  reopened after its archive exists is never compressed; a crash between rename
  and unlink keeps the rows twice.
- `qp_sweep.py`: `_ingest_activity_directories` may set `_seen_at` back to an
  older activity, so a directory observed since can be evicted.
- `app.py`: `StartAndStopAreOrdered` excepts the part at whose start the start broke
  off, for the reason above; the smoke test raises on messages whose `info` or
  `parts` are not of the expected shape.

## Not modelled

Routes without state between requests, projections and entity tags, the version
selector, configuration, formatting and logging have nothing for a state machine.
Traffic accounting counts; nothing depends on the counts. Of the modelled parts
these operations are left out:

- event stream: what a digest contains beside turn and status; the caps per directory
  at admission; a frame sent live without an id when the log refuses it; the token
  stream route, which forwards a plan and a queue as `routes/events.py` does;
- `SessionPages`: a list filtered by one parent id (roots and children only);
- `FullMerge`: the second admission to the pool when it is busy, and expand's
  choice of parts inside a body;
- `MessageList`: `before` pages, which do not touch the since cache, and merged
  windows with a since cursor;
- `AccessLog`: `compress_on_startup` off, pruning of traffic snapshots;
- `QpSweep`: a clock set back, which resets the day's budget.

Proofs still worth having: `GaugesAreExact` and `StreamIsWhole` of `TokenHub`,
`BooksAreExact` of `SingleFlight`, and the permits of `TransformPool`.
