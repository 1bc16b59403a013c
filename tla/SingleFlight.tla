----------------------------- MODULE SingleFlight -----------------------------
(***************************************************************************)
(* Sharing of upstream GETs (singleflight.py), both profiles of the class: *)
(* plain (fetch: join or lead, completed bodies retained for a grace       *)
(* window within count and byte bounds) and leased (fetch_or_bypass: byte  *)
(* budget, reference counted leases, tombstones).                          *)
(*                                                                         *)
(* Code between two awaits is one action.  A caller suspends in three      *)
(* places: for the network semaphore, in its factory, and on the shared    *)
(* future of a flight it joined; a waiter resumes some time after the      *)
(* future is resolved, and other callers run in between.                   *)
(*                                                                         *)
(* Callers are reused.  So are the numbers of flights nobody refers to any *)
(* more: they stand for object identity, the code never looks at them.     *)
(***************************************************************************)
EXTENDS Integers, Sequences, FiniteSets, SequencesExt, FiniteSetsExt

CONSTANTS
    Callers, Keys,
    Profiles,      \* the profiles to consider: {TRUE} leased, {FALSE} plain, or both
    Reserve,       \* leased: reserve_bytes of a key's route
    MaxBytes,      \* leased: the budget; plain: bound on retained bytes
    MaxEntries,    \* plain: bound on retained entries
    Sizes,         \* plain: sizes of bodies
    Concurrency,   \* leased: network_concurrency
    Flights,       \* numbers for flights, enough for all that can coexist
    MaxCancels,    \* bound: cancellations
    MaxShutdowns   \* bound: calls of shutdown()

ASSUME ProfileAssumption == Profiles \subseteq BOOLEAN /\ Reserve \in [Keys -> Nat]
ASSUME LimitsAssumption == /\ MaxBytes \in Nat /\ MaxEntries \in Nat \ {0} /\ Sizes \subseteq Nat
                           /\ Concurrency \in Nat \ {0} /\ Flights \subseteq Nat \ {0}
                           /\ MaxCancels \in Nat /\ MaxShutdowns \in Nat

(***************************************************************************)
(* The state s:                                                            *)
(*   leased    _leased, the profile                                        *)
(*   active    _entries, as flight numbers in insertion order              *)
(*   retired   _retired                                                    *)
(*   fl        the _Entry objects                                          *)
(*   bytes     _leased_bytes, retained  _retained_bytes                    *)
(*   calls     where each caller is: pc, and the flight it refers to       *)
(***************************************************************************)
VARIABLE s

None == 0

\* fut is the shared future; state "grace" stands for a set expires_at.
Unused(k) == [key |-> k, state |-> "in_flight", refs |-> 0, accounted |-> FALSE, size |-> 0,
              timer |-> FALSE, fut |-> "pending", detached |-> FALSE]

AnyKey == CHOOSE k \in Keys : TRUE
Idle == [pc |-> "idle", e |-> None]

Init == s \in {[leased |-> p, active |-> <<>>, retired |-> {}, bytes |-> 0, retained |-> 0,
                fl |-> [e \in Flights |-> Unused(AnyKey)],
                calls |-> [c \in Callers |-> Idle], cancels |-> 0, shutdowns |-> 0] : p \in Profiles}

Active(S) == ToSet(S.active)
Without(q, e) == SelectSeq(q, LAMBDA x : x # e)

\* The joinable flight of a key.
Entry(S, k) == IF \E e \in Active(S) : S.fl[e].key = k
               THEN CHOOSE e \in Active(S) : S.fl[e].key = k ELSE None

Leading(S) == {c \in Callers : S.calls[c].pc \in {"queued", "fetching"}}
Fetching(S) == {c \in Callers : S.calls[c].pc = "fetching"}

\* Flights nobody can reach any more are recycled.
Reachable(S, e) == e \in Active(S) \cup S.retired \cup {S.calls[c].e : c \in Callers}
Collect(S) == [S EXCEPT !.fl = [e \in Flights |-> IF Reachable(S, e) THEN S.fl[e] ELSE Unused(AnyKey)]]

Goto(S, c, pc, e) == [S EXCEPT !.calls[c] = [pc |-> pc, e |-> e]]
Finish(S, c) == Goto(S, c, "idle", None)

-----------------------------------------------------------------------------
(* The leased ledger.                                                      *)

Refund(S, e) ==
    IF S.fl[e].accounted
    THEN [S EXCEPT !.fl[e].accounted = FALSE, !.bytes = @ - Reserve[S.fl[e].key]]
    ELSE S

Reap(S, e) == [Refund(S, e) EXCEPT !.retired = @ \ {e}, !.active = Without(@, e)]

ReleaseCaller(S, e) ==
    IF ~S.leased THEN S
    ELSE LET T == [S EXCEPT !.fl[e].refs = IF @ > 0 THEN @ - 1 ELSE 0]
         IN IF T.fl[e].refs = 0 /\ T.fl[e].state \in {"retained", "failed"} THEN Reap(T, e) ELSE T

\* _expire_grace with _drop_grace, also the conversion of a grace entry by
\* shutdown().
ExpireGrace(S, e) ==
    LET T == [S EXCEPT !.active = Without(@, e), !.retired = @ \cup {e},
                       !.fl[e].state = "retained", !.fl[e].timer = FALSE]
    IN IF T.fl[e].refs = 0 THEN Reap(T, e) ELSE T

\* The least number of elements of q to give up before fits holds, or all.
Fewest(q, fits(_)) == Min({n \in 0..Len(q) : fits(n)} \cup {Len(q)})
First(q, n) == ToSet(SubSeq(q, 1, n))

\* Variant: entries whose body a caller still holds are evicted as well.
EvictGraceInUse(S, needed) ==
    LET spare == SelectSeq(S.active, LAMBDA e : S.fl[e].state = "grace")
        freed(n) == MapThenSumSet(LAMBDA e : Reserve[S.fl[e].key], First(spare, n))
        out == First(spare, Fewest(spare, LAMBDA n : S.bytes - freed(n) + needed <= MaxBytes))
    IN FoldSet(LAMBDA e, T : Reap(ExpireGrace(T, e), e), S, out)

\* _try_reserve: zero-caller grace entries give way, oldest first.
EvictGrace(S, needed) ==
    LET spare == SelectSeq(S.active, LAMBDA e : S.fl[e].state = "grace" /\ S.fl[e].refs = 0)
        freed(n) == MapThenSumSet(LAMBDA e : Reserve[S.fl[e].key], First(spare, n))
        out == First(spare, Fewest(spare, LAMBDA n : S.bytes - freed(n) + needed <= MaxBytes))
    IN FoldSet(LAMBDA e, T : ExpireGrace(T, e), S, out)

-----------------------------------------------------------------------------
(* Plain retention.                                                        *)

DropFlight(S, e) == [S EXCEPT !.active = Without(@, e), !.fl[e].timer = FALSE,
                              !.retained = @ - S.fl[e].size]

\* By key: whatever flight is registered under it.
Drop(S, k) == IF Entry(S, k) = None THEN S ELSE DropFlight(S, Entry(S, k))

EvictOverBudget(S) ==
    LET done == SelectSeq(S.active, LAMBDA e : S.fl[e].state = "grace")
        freed(n) == MapThenSumSet(LAMBDA e : S.fl[e].size, First(done, n))
        out == First(done, Fewest(done, LAMBDA n : /\ Len(S.active) - n <= MaxEntries
                                                   /\ S.retained - freed(n) <= MaxBytes))
    IN FoldSet(LAMBDA e, T : DropFlight(T, e), S, out)

-----------------------------------------------------------------------------
(* fetch and fetch_or_bypass: the serial point, from the check for a due   *)
(* grace deadline to the next await.                                       *)

Expired(S, e) == IF S.leased THEN ExpireGrace(S, e) ELSE DropFlight(S, e)

\* A caller that has its result: a lease to release, or just a value.
Served(S, c, e) == IF S.leased THEN Goto(S, c, "holding", e) ELSE Finish(S, c)

Join(S, c, e) ==
    LET T == [S EXCEPT !.fl[e].refs = IF S.leased THEN @ + 1 ELSE @]
    IN IF T.fl[e].fut = "ok" THEN Served(T, c, e) ELSE Goto(T, c, "waiting", e)

Fresh(S) == Min({e \in Flights : ~Reachable(S, e)})

\* The semaphore is taken at once if it is free and nobody queues for it.
Lead(S, c, k) ==
    LET e == Fresh(S)
        T == [S EXCEPT !.active = Append(@, e),
                       !.fl[e] = [Unused(k) EXCEPT !.refs = IF S.leased THEN 1 ELSE 0,
                                                   !.accounted = S.leased],
                       !.bytes = IF S.leased THEN @ + Reserve[k] ELSE @]
        free == ~S.leased \/ Cardinality(Leading(S)) < Concurrency
    IN Goto(IF S.leased THEN T ELSE EvictOverBudget(T), c, IF free THEN "fetching" ELSE "queued", e)

Fits(S, k) == S.bytes + Reserve[k] <= MaxBytes

\* Without room the caller bypasses: it fetches by itself, outside.
ReserveAndLead(S, c, k) ==
    IF ~S.leased THEN Lead(S, c, k)
    ELSE IF Reserve[k] > MaxBytes THEN Finish(S, c)
    ELSE LET T == EvictGrace(S, Reserve[k])
         IN IF Fits(T, k) THEN Lead(T, c, k) ELSE Finish(T, c)

\* Variant: a flight that is still running is not joined.
EnterAlone(S, c, k, due) ==
    LET e == Entry(S, k)
        T == IF e # None /\ S.fl[e].state = "grace" /\ due THEN Expired(S, e) ELSE S
    IN IF Entry(T, k) # None /\ T.fl[e].state = "grace" THEN Join(T, c, Entry(T, k))
       ELSE ReserveAndLead(T, c, k)

Enter(S, c, k, due) ==
    LET e == Entry(S, k)
        T == IF e # None /\ S.fl[e].state = "grace" /\ due THEN Expired(S, e) ELSE S
    IN IF Entry(T, k) # None THEN Join(T, c, Entry(T, k)) ELSE ReserveAndLead(T, c, k)

Fetch(c, k, due) ==
    /\ s.calls[c].pc = "idle"
    /\ s' = Collect(Enter(s, c, k, due))

\* A queued leader gets the semaphore.
Acquire(c) ==
    /\ s.calls[c].pc = "queued" /\ Cardinality(Fetching(s)) < Concurrency
    /\ s' = [s EXCEPT !.calls[c].pc = "fetching"]

-----------------------------------------------------------------------------
(* _lead after its factory.                                                *)

\* Plain: a completed body is retained if the flight is still registered; it
\* may be evicted by its own arrival.
Retain(S, e, size) ==
    IF e \notin Active(S) THEN S
    ELSE LET T == EvictOverBudget([S EXCEPT !.fl[e].state = "grace", !.fl[e].size = size,
                                            !.retained = @ + size])
         IN [T EXCEPT !.fl[e].timer = e \in Active(T)]

ConvertSuccess(S, e, size) ==
    IF ~S.leased THEN Retain(S, e, size)
    ELSE IF e \in Active(S) THEN [S EXCEPT !.fl[e].state = "grace", !.fl[e].timer = TRUE]
    ELSE [S EXCEPT !.fl[e].state = "retained"]

Succeeds(c, size) ==
    /\ s.calls[c].pc = "fetching"
    /\ LET e == s.calls[c].e
       IN s' = Collect(Served(ConvertSuccess([s EXCEPT !.fl[e].fut = "ok"], e, size), c, e))

\* Variant: the future is left as it is.
FailSilently(S, e, how) ==
    IF ~S.leased THEN Drop(S, S.fl[e].key)
    ELSE LET T == ReleaseCaller(S, e)
             U == Refund([T EXCEPT !.active = Without(@, e), !.retired = @ \cup {e},
                                   !.fl[e].state = "failed"], e)
         IN IF U.fl[e].refs = 0 THEN Reap(U, e) ELSE U

\* _fail: how is "failed" for an exception, "cancelled" for a cancellation.
Fail(S, e, how) ==
    IF ~S.leased THEN [Drop(S, S.fl[e].key) EXCEPT !.fl[e].fut = how]
    ELSE LET T == ReleaseCaller(S, e)
             U == Refund([T EXCEPT !.active = Without(@, e), !.retired = @ \cup {e},
                                   !.fl[e].state = "failed", !.fl[e].fut = how], e)
         IN IF U.fl[e].refs = 0 THEN Reap(U, e) ELSE U

Fails(c) ==
    /\ s.calls[c].pc = "fetching"
    /\ s' = Collect(Finish(Fail(s, s.calls[c].e, "failed"), c))

LeaderCancelled(c) ==
    /\ c \in Leading(s) /\ s.cancels < MaxCancels
    /\ s' = Collect(Finish(Fail([s EXCEPT !.cancels = @ + 1], s.calls[c].e, "cancelled"), c))

-----------------------------------------------------------------------------
(* _join after its await, and the end of a lease.                          *)

\* The result, the leader's exception, or another turn at the serial point.
Resume(c, due) ==
    LET e == s.calls[c].e
        S == ReleaseCaller(s, e)
    IN /\ s.calls[c].pc = "waiting" /\ s.fl[e].fut # "pending"
       /\ s' = Collect(CASE s.fl[e].fut = "ok" -> Served(s, c, e)
                         [] s.fl[e].fut = "failed" -> Finish(S, c)
                         [] OTHER -> Enter(Finish(S, c), c, s.fl[e].key, due))

WaiterCancelled(c) ==
    /\ s.calls[c].pc = "waiting" /\ s.cancels < MaxCancels
    /\ s' = Collect(Finish(ReleaseCaller([s EXCEPT !.cancels = @ + 1], s.calls[c].e), c))

\* The end of async with, by completion or cancellation.
Release(c) ==
    /\ s.calls[c].pc = "holding"
    /\ s' = Collect(Finish(ReleaseCaller(s, s.calls[c].e), c))

TimerFires(e) ==
    /\ s.fl[e].timer
    /\ s' = Collect(IF e \in Active(s) THEN Expired(s, e) ELSE [s EXCEPT !.fl[e].timer = FALSE])

ShutdownOne(S, e) ==
    IF ~S.leased THEN [DropFlight(S, e) EXCEPT !.fl[e].detached = TRUE]
    ELSE IF S.fl[e].state = "grace" THEN ExpireGrace(S, e)
    ELSE [S EXCEPT !.active = Without(@, e), !.retired = @ \cup {e}, !.fl[e].detached = TRUE]

Shutdown ==
    /\ s.shutdowns < MaxShutdowns
    /\ s' = Collect(FoldSet(LAMBDA e, T : ShutdownOne(T, e),
                            [s EXCEPT !.shutdowns = @ + 1], Active(s)))

Next ==
    \/ \E c \in Callers : \/ \E k \in Keys, due \in BOOLEAN : Fetch(c, k, due)
                          \/ Acquire(c) \/ Fails(c) \/ LeaderCancelled(c)
                          \/ \E size \in Sizes : Succeeds(c, size)
                          \/ \E due \in BOOLEAN : Resume(c, due)
                          \/ WaiterCancelled(c) \/ Release(c)
    \/ \E e \in Flights : TimerFires(e)
    \/ Shutdown

Spec == Init /\ [][Next]_s

\* Fairness, with what enables each action written out: a factory ends (the
\* upstream client has timeouts), the semaphore is handed on in the order of
\* arrival, a waiter whose future is resolved is scheduled, a lease is released
\* at the end of its block.
Resumable(c) == s.calls[c].pc = "waiting" /\ s.fl[s.calls[c].e].fut # "pending"

FairSpec ==
    /\ Spec
    /\ \A c \in Callers : /\ []<>(s.calls[c].pc # "fetching")
                          /\ []<>(s.calls[c].pc # "queued")
                          /\ []<>~Resumable(c)
                          /\ []<>(s.calls[c].pc # "holding")

-----------------------------------------------------------------------------
(* Properties.                                                             *)

Known == Active(s) \cup s.retired
Referring(e) == {c \in Callers : s.calls[c].e = e}

\* caller_refs of a flight counts exactly the callers that lead it, wait for it
\* or hold its body: every reference is released exactly once on every path
\* (_join's three branches, Lease._release, _fail).
RefsAreExact == s.leased => \A e \in Known : s.fl[e].refs = Cardinality(Referring(e))

\* The ledger of the module's docstring: leased_bytes is the sum of the reserves
\* of the flights in flight (detached ones too), in grace and retained, though
\* reserves come back at five places; and the budget is never exceeded.
LedgerIsExact ==
    s.leased => /\ s.bytes = MapThenSumSet(LAMBDA e : Reserve[s.fl[e].key],
                                           {e \in Known : s.fl[e].state # "failed"})
                /\ s.bytes <= MaxBytes

\* A body that a caller holds is paid for until that caller releases it, across
\* grace expiry, eviction and shutdown.
HeldBodyIsPaid ==
    \A c \in Callers : s.calls[c].pc = "holding" =>
        /\ s.calls[c].e \in Known
        /\ s.fl[s.calls[c].e].accounted

\* Two callers fetch the same key at once only if shutdown() detached one of
\* them: a late end of the detached flight leaves its successor registered.
OneFetchDespiteShutdown ==
    \A c, d \in Leading(s) :
        c # d /\ s.fl[s.calls[c].e].key = s.fl[s.calls[d].e].key
            => s.fl[s.calls[c].e].detached \/ s.fl[s.calls[d].e].detached

\* One upstream GET per key at a time, through failures and cancellations; in
\* the leased profile, which checks identity in _fail, through shutdown() too.
OneFetchPerKey == s.leased \/ s.shutdowns = 0 => OneFetchDespiteShutdown

\* A completed flight is joinable only while its expiry timer is armed, and with
\* no caller left and nothing joinable nothing is kept (_reap, shutdown).
NothingLeaks ==
    /\ \A e \in Active(s) : s.fl[e].state = "grace" <=> s.fl[e].timer
    /\ (\A c \in Callers : s.calls[c] = Idle) /\ s.active = <<>>
            => s.retired = {} /\ s.bytes = 0 /\ s.retained = 0

\* Plain: retained bytes are those of the completed entries, and the bounds hold
\* unless only running flights are left (_evict_over_budget).
RetentionIsExact ==
    ~s.leased => /\ s.retained = MapThenSumSet(LAMBDA e : s.fl[e].size, Active(s))
                 /\ s.retained <= MaxBytes
                 /\ \/ Len(s.active) <= MaxEntries
                    \/ \A e \in Active(s) : s.fl[e].state = "in_flight"

\* The books of both profiles: references, reserves and retained bytes are exact on
\* every path, a body in use is paid for, and nothing is kept for nobody.
BooksAreExact == RefsAreExact /\ LedgerIsExact /\ HeldBodyIsPaid /\ NothingLeaks /\ RetentionIsExact

\* A waiter is served, also when its leaders are cancelled one after another and
\* it has to join or lead again.
WaitersAreServed ==
    \A c \in Callers : s.calls[c].pc = "waiting" ~> s.calls[c].pc \in {"idle", "holding"}
===============================================================================
