------------------------------- MODULE QpSweep -------------------------------
(***************************************************************************)
(* The shadow scheduler of the question and permission sweep (qp_sweep.py):*)
(* a task that sleeps until the next directory is due, beside the hub and  *)
(* the routes that tell it of directories and of activity in them.  The    *)
(* activity table is shared with the hub and keeps the directories that    *)
(* were touched last.  Time is counted in ticks.                           *)
(***************************************************************************)
EXTENDS Integers, Sequences, FiniteSets, SequencesExt, FiniteSetsExt

CONSTANTS
    SweepDirs,    \* directories, numbered in their sorting order
    Interval,     \* interval_seconds
    Delays,       \* interval_seconds with jitter: what next_delay may return
    MaxSleep,     \* _MAX_SLEEP_SECONDS
    EvictAfter,   \* eviction_after_seconds
    DailyBudget,  \* daily_budget
    DayLength,    \* ticks of a day
    ActivityMax,  \* QP_LAST_ACTIVITY_MAX
    MaxTime       \* bound: ticks

ASSUME SweepAssumption ==
    /\ SweepDirs \subseteq Nat /\ Delays \subseteq Nat \ {0} /\ {DailyBudget, MaxTime} \subseteq Nat
    /\ {Interval, MaxSleep, EvictAfter, DayLength, ActivityMax} \subseteq Nat \ {0}

VARIABLES
    time,      \* now
    activity,  \* _activity: directories and times, the one touched last at the end
    seen,      \* _seen_at, whose domain is _known_dirs
    due,       \* _next_run
    budget,    \* _budget_day and _budget_used
    sweeper,   \* _task: off, or asleep until a time; whether _wake_event is set
    touched,   \* ghost: when a directory last had activity
    hits       \* ghost: the sweeps it decided on

sweepVars == <<time, activity, seen, due, budget, sweeper, touched, hits>>

SweeperOff == [running |-> FALSE, until |-> 0, woken |-> FALSE]

SweepInit ==
    /\ time = 0 /\ activity = <<>> /\ seen = <<>> /\ due = <<>>
    /\ budget = [day |-> -1, used |-> 0] /\ sweeper = SweeperOff
    /\ touched = [d \in SweepDirs |-> -3 * Interval] /\ hits = {}

Known(S) == DOMAIN S
Without(S, ds) == [d \in DOMAIN S \ ds |-> S[d]]
With(S, d, v) == [e \in DOMAIN S \cup {d} |-> IF e = d THEN v ELSE S[e]]

\* The task and the tables it works on.
Tables == [activity |-> activity, seen |-> seen, due |-> due, woken |-> sweeper.woken]

-----------------------------------------------------------------------------
(* What the hub and the routes report.                                     *)

\* Variant: a new directory does not wake the task.
ObserveSilently(S, d, t) ==
    IF d \in Known(S.seen) THEN [S EXCEPT !.seen[d] = t]
    ELSE [S EXCEPT !.seen = With(@, d, t), !.due = With(@, d, t)]

\* observe_directory: a new directory is due at once and wakes the task.
Observe(S, d, t) ==
    IF d \in Known(S.seen)
      THEN [S EXCEPT !.seen[d] = t]
      ELSE [S EXCEPT !.seen = With(@, d, t), !.due = With(@, d, t), !.woken = @ \/ sweeper.running]

\* record_qp_activity: to the end of the table, which drops what is over the limit.
TouchActivity(table, d, t) ==
    LET longer == Append(SelectSeq(table, LAMBDA a : a.dir # d), [dir |-> d, at |-> t])
    IN IF Len(longer) > ActivityMax THEN Tail(longer) ELSE longer

RecordActivity(S, d, t) == Observe([S EXCEPT !.activity = TouchActivity(@, d, t)], d, t)

Update(S) ==
    /\ activity' = S.activity /\ seen' = S.seen /\ due' = S.due
    /\ sweeper' = [sweeper EXCEPT !.woken = S.woken]

\* The hub: any event names its directory; a question or permission event is activity.
HubEvent(d, qp) ==
    /\ sweeper.running
    /\ LET S == Observe(Tables, d, time)
       IN Update(IF qp THEN [S EXCEPT !.activity = TouchActivity(@, d, time)] ELSE S)
    /\ touched' = IF qp THEN [touched EXCEPT ![d] = time] ELSE touched
    /\ UNCHANGED <<time, budget, hits>>

\* record_request_activity: a questions or permissions request, for its directories.
RequestActivity(ds) ==
    /\ sweeper.running
    /\ Update(FoldLeft(LAMBDA S, d : RecordActivity(S, d, time), Tables, ds))
    /\ touched' = [d \in SweepDirs |-> IF d \in ToSet(ds) THEN time ELSE touched[d]]
    /\ UNCHANGED <<time, budget, hits>>

-----------------------------------------------------------------------------
(* The task.                                                               *)

\* _ingest_activity_directories
Ingest(S) == FoldLeft(LAMBDA T, a : Observe(T, a.dir, a.at), S, S.activity)

\* _evict_stale_directories: from the shared activity table too.
EvictStale(S) ==
    LET stale == {d \in Known(S.seen) : time - S.seen[d] >= EvictAfter}
    IN [S EXCEPT !.seen = Without(@, stale), !.due = Without(@, stale),
                 !.activity = SelectSeq(@, LAMBDA a : a.dir \notin stale)]

\* _reset_budget_if_needed
ResetBudget(b) == IF b.day # time \div DayLength THEN [day |-> time \div DayLength, used |-> 0] ELSE b

\* _due_directories, in sorting order
DueDirectories(S) == SetToSortSeq({d \in Known(S.seen) : S.due[d] <= time}, <)

LastActivity(S, d) ==
    LET entry == SelectSeq(S.activity, LAMBDA a : a.dir = d)
    IN IF entry # <<>> THEN entry[1].at ELSE S.seen[d]

IsCold(S, d) == time - LastActivity(S, d) >= 3 * Interval

\* run_once, the directories it would sweep: the cold ones that the budget still allows.
ColdHits(S, b) ==
    LET cold == SelectSeq(DueDirectories(S), LAMBDA d : IsCold(S, d))
    IN SubSeq(cold, 1, Min({Len(cold), Max({0, DailyBudget - b.used})}))

\* _next_sleep, after the evictions
SleepUntil(S) ==
    IF Known(S.due) = {} THEN time + Min({Interval, MaxSleep})
    ELSE Min({Max({time, Min(Range(S.due))}), time + MaxSleep})

\* A turn of _run from the end of a sleep to the start of the next: run_once, then
\* _next_sleep; there is no await in between.
RunOnce ==
    /\ sweeper.running /\ (sweeper.woken \/ time >= sweeper.until)
    /\ LET S == EvictStale(Ingest(Tables))
           b == ResetBudget(budget)
           swept == ColdHits(S, b)
       IN \E delay \in [ToSet(DueDirectories(S)) -> Delays] :
          LET T == EvictStale([S EXCEPT !.due = [d \in DOMAIN @ |->
                                 IF d \in DOMAIN delay THEN time + delay[d] ELSE @[d]]])
          IN /\ activity' = T.activity /\ seen' = T.seen /\ due' = T.due
             /\ budget' = [b EXCEPT !.used = @ + Len(swept)]
             /\ sweeper' = [sweeper EXCEPT !.until = SleepUntil(T), !.woken = FALSE]
             /\ hits' = hits \cup {[dir |-> d, at |-> time, idle |-> time - touched[d]] : d \in ToSet(swept)}
    /\ UNCHANGED <<time, touched>>

\* start, which app.py calls once, before the hub and the routes run; the first turn of
\* _run computes a sleep too.
StartSweep ==
    /\ ~sweeper.running /\ sweeper.until = 0
    /\ LET S == EvictStale(Tables)
       IN /\ activity' = S.activity /\ seen' = S.seen /\ due' = S.due
          /\ sweeper' = [running |-> TRUE, until |-> SleepUntil(S), woken |-> FALSE]
    /\ UNCHANGED <<time, budget, touched, hits>>

StopSweep ==
    /\ sweeper.running /\ sweeper' = [sweeper EXCEPT !.running = FALSE]
    /\ UNCHANGED <<time, activity, seen, due, budget, touched, hits>>

TickSweep ==
    /\ sweeper.running /\ time < MaxTime /\ time' = time + 1
    /\ UNCHANGED <<activity, seen, due, budget, sweeper, touched, hits>>

SweepNext ==
    \/ \E d \in SweepDirs, qp \in BOOLEAN : HubEvent(d, qp)
    \/ \E ds \in {SetToSortSeq(D, <) : D \in SUBSET SweepDirs \ {{}}} : RequestActivity(ds)
    \/ RunOnce \/ StartSweep \/ StopSweep \/ TickSweep

-----------------------------------------------------------------------------
(* Properties.                                                             *)

\* No directory is swept that had a question, a permission or a request for them within
\* three intervals, even when the shared table has dropped it (run_once, record_qp_activity).
SweepSparesTheActive == \A h \in hits : h.idle >= 3 * Interval

\* No day has more sweeps than the budget, and the task never sleeps past a directory's
\* time: a directory that becomes known during the sleep wakes it (run_once, _run).
SweepIsPunctual ==
    /\ \A h \in hits : Cardinality({g \in hits : g.at \div DayLength = h.at \div DayLength}) <= DailyBudget
    /\ sweeper.running /\ ~sweeper.woken => \A d \in Known(due) : sweeper.until <= Max({due[d], time})

\* The scheduler sweeps neither a directory too early nor the due ones too late, and no
\* more of them a day than it may.
SweepsAreDue == SweepSparesTheActive /\ SweepIsPunctual
==============================================================================
