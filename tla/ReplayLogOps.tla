----------------------------- MODULE ReplayLogOps -----------------------------
(***************************************************************************)
(* The bounded replay log of sse/replay_log.py as a data type: a record L  *)
(* holding the per-domain state and the retained entries of every domain,  *)
(* and one operator per method.  Methods run to completion between two     *)
(* awaits of the event loop, so each is a function from log to log.        *)
(*                                                                         *)
(* The deque of one domain is the set of its entries; an entry's position  *)
(* is its append counter (`order').  Payloads are reduced to their size.   *)
(***************************************************************************)
EXTENDS Integers, FiniteSets, FiniteSetsExt

CONSTANTS
    Domains,     \* "g" and the per-session "t:<sid>" domains
    MaxCount,    \* max_count: entries retained per domain
    MaxBytes,    \* max_bytes: summed sizes over all domains
    Ttl          \* ttl_s

ASSUME MaxCountAssumption == MaxCount \in Nat \ {0}
ASSUME MaxBytesAssumption == MaxBytes \in Nat \ {0}
ASSUME TtlAssumption == Ttl \in Nat \ {0}

\* barrier_watermark is None: below every cursor.
NoBarrier == -1

\* __init__ and, for each domain, _DomainState.__init__; a domain outside
\* `created' has no state yet and reads as a fresh one.
EmptyLog ==
    [created     |-> {},
     next_seq    |-> [d \in Domains |-> 1],
     last_seq    |-> [d \in Domains |-> 0],
     watermark   |-> [d \in Domains |-> NoBarrier],
     invalidated |-> {},
     entries     |-> {},
     order       |-> 0,
     closed      |-> FALSE]

\* _Entry and the fields of the log.
Entry == [domain : Domains, seq : Nat \ {0}, size : Nat,
          appended_at : Nat, order : Nat]

LogType ==
    [created : SUBSET Domains, next_seq : [Domains -> Nat \ {0}],
     last_seq : [Domains -> Nat], watermark : [Domains -> Nat \cup {NoBarrier}],
     invalidated : SUBSET Domains, entries : SUBSET Entry,
     order : Nat, closed : BOOLEAN]

EntriesOf(E, d) == {e \in E : e.domain = d}

Newer(E, e) == {x \in E : x.order >= e.order}

-----------------------------------------------------------------------------
(* Eviction.  Every loop pops heads until it meets an entry at which its   *)
(* condition fails; what survives is that entry and all newer ones.        *)

KeepFrom(E, stops) == {e \in E : \E s \in stops : s.order <= e.order}

InDomain(E, d, kept) == (E \ EntriesOf(E, d)) \cup kept

TtlEvictHead(E, d, now) ==
    LET Ed == EntriesOf(E, d)
    IN InDomain(E, d, KeepFrom(Ed, {e \in Ed : now - e.appended_at <= Ttl}))

\* Variant: the count cap is off by one.
EvictForCountLate(E, d) ==
    LET Ed == EntriesOf(E, d)
    IN InDomain(E, d, KeepFrom(Ed, {e \in Ed : Cardinality(Newer(Ed, e)) <= MaxCount + 1}))

EvictForCount(E, d) ==
    LET Ed == EntriesOf(E, d)
    IN InDomain(E, d, KeepFrom(Ed, {e \in Ed : Cardinality(Newer(Ed, e)) <= MaxCount}))

SumBytes(E) == MapThenSumSet(LAMBDA e : e.size, E)

\* Variant: an oversized newest entry is evicted as well.
EvictToEmpty(E) == KeepFrom(E, {e \in E : SumBytes(Newer(E, e)) <= MaxBytes})

EvictForBytes(E) ==
    KeepFrom(E, {e \in E : SumBytes(Newer(E, e)) <= MaxBytes
                           \/ Cardinality(Newer(E, e)) = 1})

-----------------------------------------------------------------------------
(* Write path.                                                             *)

\* The lazy creation shared by append, reserve_seq and mark_invalidated.
Create(L, d) == [L EXCEPT !.created = @ \cup {d}]

\* append up to the size computation: what it leaves behind when it raises.
Touch(L, d, now) ==
    [Create(L, d) EXCEPT !.entries = TtlEvictHead(@, d, now)]

\* append from the order increment to its end.
Store(L, d, seq, size, now) ==
    LET entry == [domain |-> d, seq |-> seq, size |-> size,
                  appended_at |-> now, order |-> L.order + 1]
    IN [L EXCEPT !.order = @ + 1,
                 !.last_seq[d] = seq,
                 !.entries = EvictForBytes(EvictForCount(@ \cup {entry}, d))]

\* append(domain, payload)
AppendNext(L, d, size, now) ==
    Store([Touch(L, d, now) EXCEPT !.next_seq[d] = @ + 1],
          d, L.next_seq[d], size, now)

ReserveSeq(L, d) == [Create(L, d) EXCEPT !.next_seq[d] = @ + 1]

RollbackSeq(L, d, seq) ==
    IF d \in L.created /\ L.next_seq[d] = seq + 1 /\ seq > L.last_seq[d]
    THEN [L EXCEPT !.next_seq[d] = seq]
    ELSE L

\* append(domain, payload, seq=...): the value must be the outstanding
\* reservation; ValueError otherwise, after the head eviction.
AppendReserved(L, d, seq, size, now) ==
    IF seq = L.next_seq[d] - 1 /\ seq > L.last_seq[d]
    THEN Store(Touch(L, d, now), d, seq, size, now)
    ELSE Touch(L, d, now)

-----------------------------------------------------------------------------
(* Read path.                                                              *)

Frames(E) == [kind |-> "frames", entries |-> E]
Resync(reason) == [kind |-> reason, entries |-> {}]
IgnoreReset == [kind |-> "ignore_reset", entries |-> {}]

IsFirst(A, e) == \A x \in A : e.order <= x.order

Adjacent(A, x, y) ==
    /\ x.order < y.order
    /\ ~ \E z \in A : x.order < z.order /\ z.order < y.order

HasHole(A) == \E x, y \in A : Adjacent(A, x, y) /\ y.seq # x.seq + 1

\* replay(): the classification of cursor `seq', in the frozen order.
Replay(L, d, seq, sameEpoch, now) ==
    LET after == {e \in EntriesOf(TtlEvictHead(L.entries, d, now), d) : e.seq > seq}
    IN IF ~ sameEpoch THEN Resync("epoch_changed")
       ELSE IF seq <= L.watermark[d] THEN Resync("reconnect_no_replay")
       ELSE IF seq > L.last_seq[d] THEN IgnoreReset
       ELSE IF after = {} /\ seq = L.last_seq[d] THEN Frames({})
       ELSE IF ~ \E e \in after : IsFirst(after, e) /\ e.seq = seq + 1
            THEN Resync("replay_expired")
       ELSE IF HasHole(after) THEN Resync("replay_gap")
       ELSE Frames(after)

\* The i-th entry of the list replay() answers with, in append order.
Nth(E, i) == CHOOSE e \in E : Cardinality({x \in E : x.order <= e.order}) = i

\* What replay() does to the log: a foreign epoch returns before the lookup,
\* an unknown domain has no head to evict.
AfterReplay(L, d, sameEpoch, now) ==
    IF sameEpoch THEN [L EXCEPT !.entries = TtlEvictHead(@, d, now)] ELSE L

-----------------------------------------------------------------------------
(* Barriers, invalidation, recycling, sweep, close.                        *)

\* write_barrier(domain) for the domains ds; unknown domains are skipped.
WriteBarrier(L, ds) ==
    [L EXCEPT !.watermark =
        [d \in Domains |-> IF d \in ds \cap L.created /\ @[d] < L.last_seq[d]
                           THEN L.last_seq[d] ELSE @[d]]]

MarkInvalidated(L, d) == [Create(L, d) EXCEPT !.invalidated = @ \cup {d}]

RecycleDomain(L, d) == [L EXCEPT !.entries = @ \ EntriesOf(@, d)]

TtlEvictAll(E, now) == {e \in E : e \in TtlEvictHead(E, e.domain, now)}

\* Variant: the barrier goes as soon as the window starts past the watermark.
SweepEarlyGc(L, now) ==
    LET E == TtlEvictAll(L.entries, now)
    IN [L EXCEPT !.entries = E,
                 !.watermark = [d \in Domains |->
                     IF EntriesOf(E, d) # {} /\ \A e \in EntriesOf(E, d) : e.seq > @[d]
                     THEN NoBarrier ELSE @[d]]]

\* sweep(): a barrier is dropped once the window starts past watermark + 1.
Sweep(L, now) ==
    LET E == TtlEvictAll(L.entries, now)
    IN [L EXCEPT !.entries = E,
                 !.watermark = [d \in Domains |->
                     IF EntriesOf(E, d) # {} /\ \A e \in EntriesOf(E, d) : e.seq > @[d] + 1
                     THEN NoBarrier ELSE @[d]]]

Close(L) == [EmptyLog EXCEPT !.order = L.order, !.closed = TRUE]
=============================================================================
