------------------------------ MODULE ReplayLog ------------------------------
(***************************************************************************)
(* The replay log under every sequence of calls its owners make: the       *)
(* global hub's append, the token hub's reserve / append / rollback, cursor*)
(* classification on reconnect, upstream-loss barriers, recycling, the     *)
(* periodic sweep and shutdown, with time passing in between.              *)
(***************************************************************************)
EXTENDS ReplayLogOps

CONSTANTS
    Sizes,       \* payload sizes that occur
    MaxSeq,      \* bound: frames published per domain
    MaxTime      \* bound: clock readings

ASSUME SizesAssumption == Sizes \subseteq Nat
ASSUME MaxSeqAssumption == MaxSeq \in Nat
ASSUME MaxTimeAssumption == MaxTime \in Nat

VARIABLES
    log,     \* the ReplayLog object
    now,     \* its monotonic clock
    loss     \* history: per domain, last_seq at the latest upstream loss

vars == <<log, now, loss>>

Cursors == 0..MaxSeq + 1

Init ==
    /\ log = EmptyLog
    /\ now = 0
    /\ loss = [d \in Domains |-> NoBarrier]

MayPublish(d) == ~ log.closed /\ log.last_seq[d] < MaxSeq

\* GlobalHub._replay_publish
AppendFrame(d, size) ==
    /\ MayPublish(d)
    /\ log' = AppendNext(log, d, size, now)
    /\ UNCHANGED <<now, loss>>

\* ... whose append raised while computing the size (caught by the caller).
AppendFails(d) ==
    /\ MayPublish(d)
    /\ log' = Touch(log, d, now)
    /\ UNCHANGED <<now, loss>>

\* FanoutMixin._publish_seq_frame: reserve, build, append in one step.
PublishSeqFrame(d, size) ==
    /\ MayPublish(d)
    /\ log' = AppendReserved(ReserveSeq(log, d), d, log.next_seq[d], size, now)
    /\ UNCHANGED <<now, loss>>

\* ... when building the frame raises, and when the append raises.
PublishSeqFrameFails(d, built) ==
    /\ MayPublish(d)
    /\ LET reserved == ReserveSeq(log, d)
           left == IF built THEN Touch(reserved, d, now) ELSE reserved
       IN log' = RollbackSeq(left, d, log.next_seq[d])
    /\ UNCHANGED <<now, loss>>

\* A client presents cursor `seq'.
ReplayCursor(d, seq, sameEpoch) ==
    /\ log' = AfterReplay(log, d, sameEpoch, now)
    /\ UNCHANGED <<now, loss>>

\* Upstream loss (all domains) or an invalidation of one session's domain.
Barrier(ds) ==
    /\ log' = WriteBarrier(log, ds)
    /\ loss' = [d \in Domains |-> IF d \in ds \cap log.created
                                  THEN log.last_seq[d] ELSE loss[d]]
    /\ UNCHANGED now

Invalidate(d) == log' = MarkInvalidated(log, d) /\ UNCHANGED <<now, loss>>

Recycle(d) == log' = RecycleDomain(log, d) /\ UNCHANGED <<now, loss>>

SweepAll == log' = Sweep(log, now) /\ UNCHANGED <<now, loss>>

Shutdown ==
    /\ log' = Close(log)
    /\ loss' = [d \in Domains |-> NoBarrier]
    /\ UNCHANGED now

Tick == now < MaxTime /\ now' = now + 1 /\ UNCHANGED <<log, loss>>

Next ==
    \/ \E d \in Domains :
        \/ \E size \in Sizes : AppendFrame(d, size) \/ PublishSeqFrame(d, size)
        \/ AppendFails(d)
        \/ \E built \in BOOLEAN : PublishSeqFrameFails(d, built)
        \/ \E seq \in Cursors, e \in BOOLEAN : ReplayCursor(d, seq, e)
        \/ Barrier({d})
        \/ Invalidate(d)
        \/ Recycle(d)
    \/ Barrier(Domains)
    \/ SweepAll
    \/ Shutdown
    \/ Tick

Spec == Init /\ [][Next]_vars

-----------------------------------------------------------------------------
\* The counters stay in their ranges: in particular next_seq, which
\* rollback_seq decrements, never falls below the first sequence number.
TypeOK ==
    /\ log \in LogType
    /\ now \in Nat
    /\ loss \in [Domains -> Nat \cup {NoBarrier}]

\* The retained entries of a domain are an unbroken run of sequence numbers
\* ending at its last published one, in append order, whatever mix of count,
\* byte, age evictions, failed publishes and recycles produced them.
WindowContiguous ==
    \A e \in log.entries :
        LET d == e.domain
        IN /\ e.seq \in 1..log.last_seq[d]
           /\ \A s \in e.seq..log.last_seq[d] :
                \E x \in EntriesOf(log.entries, d) : x.seq = s
           /\ \A x \in EntriesOf(log.entries, d) :
                (e.seq < x.seq <=> e.order < x.order)

\* replay(): whatever it answers with frames is the complete and only
\* continuation of the cursor, and lies after every upstream loss the domain
\* has lived through -- also when sweep() has garbage-collected the barrier.
ReplayIsExact ==
    \A d \in Domains, seq \in Cursors :
        LET answer == Replay(log, d, seq, TRUE, now)
        IN answer.kind = "frames" =>
            /\ {e.seq : e \in answer.entries} = (seq + 1)..log.last_seq[d]
            /\ seq > loss[d]

\* replay(): the defensive replay_gap branch (open item 5 of the replay
\* design) cannot be taken.
ReplayGapUnreachable ==
    \A d \in Domains, seq \in Cursors :
        Replay(log, d, seq, TRUE, now).kind # "replay_gap"

\* append() and rollback_seq(): between two calls no sequence number is
\* reserved or burned, so the next frame always extends the last one.
SeqHoleFree ==
    \A d \in Domains : log.next_seq[d] = log.last_seq[d] + 1

\* What replay() promises a returning client: an exact continuation or a notice,
\* never a hole, which presupposes that failed publications burn no number.
CursorIsServed == ReplayIsExact /\ ReplayGapUnreachable /\ SeqHoleFree

\* _evict_for_count / _evict_for_bytes: the log is within both budgets,
\* except that one frame larger than the whole byte budget may stand alone.
WithinBudget ==
    /\ \A d \in Domains : Cardinality(EntriesOf(log.entries, d)) <= MaxCount
    /\ SumBytes(log.entries) <= MaxBytes \/ Cardinality(log.entries) = 1

\* "the log never drops the frame it just accepted": the step that publishes
\* a frame leaves that frame in the log, even if it is oversized.
Accepting ==
    log'.order # log.order => \E e \in log'.entries : e.order = log'.order

AcceptedIsRetained == [][Accepting]_vars

\* No call short of close() moves a sequence number backwards or lifts the
\* invalidation flag; recycling a domain does neither.
Forward ==
    ~ log'.closed =>
        /\ \A d \in Domains : log'.last_seq[d] \in {log.last_seq[d], log.last_seq[d] + 1}
        /\ log.invalidated \subseteq log'.invalidated

NeverRegresses == [][Forward]_vars
=============================================================================
