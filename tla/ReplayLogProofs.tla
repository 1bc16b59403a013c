--------------------------- MODULE ReplayLogProofs ---------------------------
(***************************************************************************)
(* Proofs about ReplayLog, for any number of domains, any budgets and any  *)
(* bounds.  The inductive invariant Inv adds to the checked properties     *)
(* that append counters never exceed the log's own (so a new entry is the  *)
(* newest) and what remains true of a domain whose barrier sweep() has     *)
(* garbage-collected (BarrierInv).                                         *)
(***************************************************************************)
EXTENDS ReplayLog, ReplayLogOpsProofs

\* The inductive invariant.
Inv ==
    /\ TypeOK
    /\ LogInv(log)
    /\ BarrierInv(log, loss)

-----------------------------------------------------------------------------
LEMMA InitInv == Init => Inv
  <1> SUFFICES ASSUME Init PROVE Inv
    BY Zenon
  <1>1. /\ EmptyLog \in LogType /\ EmptyLog.entries = {}
        /\ EmptyLog.watermark = [d \in Domains |-> NoBarrier]
        /\ \A d \in Domains : EmptyLog.next_seq[d] = EmptyLog.last_seq[d] + 1
    BY DEF EmptyLog, LogType, NoBarrier
  <1>2. log = EmptyLog /\ now = 0 /\ loss = [d \in Domains |-> NoBarrier]
    BY Zenon DEF Init
  <1>3. TypeOK
    BY <1>1, <1>2, Zenon DEF TypeOK
  <1>4. LogInv(log)
    BY <1>1, <1>2, FS_EmptySet, Zenon DEF LogInv, Window
  <1>5. BarrierInv(log, loss)
    BY <1>1, <1>2 DEF BarrierInv, Dead, NoBarrier
  <1>6. QED
    BY <1>3, <1>4, <1>5, Zenon DEF Inv

\* Inv is inductive, and no step moves a counter backwards.
LEMMA StepInv == Inv /\ [Next]_vars => Inv' /\ ((Forward /\ Accepting) \/ UNCHANGED vars)
  <1> SUFFICES ASSUME Inv, [Next]_vars PROVE Inv' /\ ((Forward /\ Accepting) \/ UNCHANGED vars)
    BY Zenon
  <1>1. /\ log \in LogType /\ now \in Nat /\ loss \in [Domains -> Nat \cup {NoBarrier}]
        /\ LogInv(log) /\ BarrierInv(log, loss)
        /\ log.next_seq \in [Domains -> Nat \ {0}] /\ log.last_seq \in [Domains -> Nat]
        /\ \A d \in Domains : log.next_seq[d] = log.last_seq[d] + 1
    BY Zenon DEF Inv, TypeOK, LogInv, LogType
  <1>2. ASSUME LogInv(log'), BarrierInv(log', loss'), now' \in Nat,
               loss' \in [Domains -> Nat \cup {NoBarrier}]
        PROVE  Inv'
    BY <1>2, Zenon DEF Inv, TypeOK, LogInv
  <1>3. ASSUME log'.last_seq = log.last_seq, log.invalidated \subseteq log'.invalidated,
               log'.order = log.order
        PROVE  Forward /\ Accepting
    BY <1>3, Zenon DEF Forward, Accepting
  <1>4. ASSUME NEW d \in Domains, NEW size \in Sizes,
               log' = AppendNext(log, d, size, now), UNCHANGED <<now, loss>>
        PROVE  Inv' /\ Forward /\ Accepting
    <2> size \in Nat
      BY SizesAssumption, Zenon
    <2>1. LogInv(log') /\ BarrierInv(log', loss')
      BY <1>1, <1>4, AppendInv, Zenon
    <2>2. log'.last_seq = [log.last_seq EXCEPT ![d] = log.next_seq[d]]
          /\ log'.invalidated = log.invalidated
      <3>1. LogInv(log) /\ now \in Nat
        BY <1>1, Zenon
      <3>2. /\ AppendNext(log, d, size, now).last_seq
                 = [log.last_seq EXCEPT ![d] = log.next_seq[d]]
            /\ AppendNext(log, d, size, now).invalidated = log.invalidated
        BY <3>1, AppendSeqEffect
      <3>3. QED
        BY <1>4, <3>2, Zenon
    <2>3. Forward
      BY <1>1, <2>2, Zenon DEF Forward
    <2>4. Accepting
      <3>1. LogInv(log) /\ now \in Nat
        BY <1>1, Zenon
      <3>2. \E e \in AppendNext(log, d, size, now).entries :
               e.order = AppendNext(log, d, size, now).order
        BY <3>1, AppendRetains, Zenon
      <3>3. QED
        BY <1>4, <3>2, Zenon DEF Accepting
    <2>5. QED
      BY <1>1, <1>2, <1>4, <2>1, <2>3, <2>4, Zenon
  <1>5. ASSUME NEW d \in Domains, NEW size \in Sizes, AppendFrame(d, size)
        PROVE  Inv' /\ Forward /\ Accepting
    BY <1>4, <1>5, Zenon DEF AppendFrame
  <1>6. ASSUME NEW d \in Domains, NEW size \in Sizes, PublishSeqFrame(d, size)
        PROVE  Inv' /\ Forward /\ Accepting
    <2>1. log' = AppendNext(log, d, size, now)
      <3>1. LogInv(log) /\ now \in Nat /\ size \in Nat
        BY <1>1, SizesAssumption, Zenon
      <3>2. AppendReserved(ReserveSeq(log, d), d, log.next_seq[d], size, now)
              = AppendNext(log, d, size, now)
        BY <3>1, AppendEffect, ZenonT(60)
      <3>3. QED
        BY <1>6, <3>2, Zenon DEF PublishSeqFrame
    <2>2. QED
      BY <1>4, <1>6, <2>1, Zenon DEF PublishSeqFrame
  <1>7. ASSUME NEW d \in Domains, AppendFails(d)
        PROVE  Inv' /\ Forward /\ Accepting
    <2>1. log' = Touch(log, d, now) /\ now' = now /\ loss' = loss
      BY <1>7, Zenon DEF AppendFails
    <2>2. LogInv(log') /\ BarrierInv(log', loss')
      BY <1>1, <2>1, TouchInv, Zenon
    <2>3. log'.last_seq = log.last_seq /\ log'.invalidated = log.invalidated
          /\ log'.order = log.order
      BY <1>1, <2>1, TouchEffect
    <2>4. QED
      BY <1>1, <1>2, <1>3, <2>1, <2>2, <2>3, Zenon
  <1>8. ASSUME NEW d \in Domains, NEW built \in BOOLEAN, PublishSeqFrameFails(d, built)
        PROVE  Inv' /\ Forward /\ Accepting
    <2> DEFINE left == IF built THEN Touch(ReserveSeq(log, d), d, now) ELSE ReserveSeq(log, d)
    <2>1. log' = RollbackSeq(left, d, log.next_seq[d]) /\ now' = now /\ loss' = loss
      BY <1>8, Zenon DEF PublishSeqFrameFails
    <2>2. LogInv(log') /\ BarrierInv(log', loss') /\ log'.last_seq = log.last_seq
          /\ log'.invalidated = log.invalidated /\ log'.order = log.order
      <3>1. LogInv(log) /\ BarrierInv(log, loss) /\ loss \in [Domains -> Nat \cup {NoBarrier}]
        BY <1>1, Zenon
      <3>2. LET R == ReserveSeq(log, d)
                M == RollbackSeq(IF built THEN Touch(R, d, now) ELSE R, d, log.next_seq[d])
            IN LogInv(M) /\ BarrierInv(M, loss) /\ M.last_seq = log.last_seq
               /\ M.invalidated = log.invalidated /\ M.order = log.order
        BY <3>1, FailedPublishInv
      <3>3. QED
        BY <2>1, <3>2, Zenon
    <2>3. QED
      BY <1>1, <1>2, <1>3, <2>1, <2>2, Zenon
  <1>9. ASSUME NEW d \in Domains, NEW seq \in Cursors, NEW same \in BOOLEAN,
               ReplayCursor(d, seq, same)
        PROVE  Inv' /\ Forward /\ Accepting
    <2>1. log' = AfterReplay(log, d, same, now) /\ now' = now /\ loss' = loss
      BY <1>9, Zenon DEF ReplayCursor
    <2>2. LogInv(log') /\ BarrierInv(log', loss') /\ log'.last_seq = log.last_seq
          /\ log'.invalidated = log.invalidated /\ log'.order = log.order
      BY <1>1, <2>1, AfterReplayInv
    <2>3. QED
      BY <1>1, <1>2, <1>3, <2>1, <2>2, Zenon
  <1>10. ASSUME NEW ds \in SUBSET Domains, Barrier(ds)
         PROVE  Inv' /\ Forward /\ Accepting
    <2> DEFINE ns == [d \in Domains |-> IF d \in ds \cap log.created
                                        THEN log.last_seq[d] ELSE loss[d]]
    <2>1. log' = WriteBarrier(log, ds) /\ now' = now /\ loss' = ns
      BY <1>10, Zenon DEF Barrier
    <2>2. LogInv(log') /\ BarrierInv(log', loss') /\ log'.last_seq = log.last_seq
          /\ log'.invalidated = log.invalidated /\ log'.order = log.order
          /\ loss' \in [Domains -> Nat \cup {NoBarrier}]
      BY <1>1, <2>1, WriteBarrierInv
    <2>3. QED
      BY <1>1, <1>2, <1>3, <2>1, <2>2, Zenon
  <1>11. ASSUME NEW d \in Domains, Invalidate(d)
         PROVE  Inv' /\ Forward /\ Accepting
    <2>1. log' = MarkInvalidated(log, d) /\ now' = now /\ loss' = loss
      BY <1>11, Zenon DEF Invalidate
    <2>2. LogInv(log') /\ BarrierInv(log', loss') /\ log'.last_seq = log.last_seq
          /\ log'.invalidated = log.invalidated \cup {d} /\ log'.order = log.order
      BY <1>1, <2>1, InvalidateInv, Zenon
    <2>3. QED
      BY <1>1, <1>2, <1>3, <2>1, <2>2, Zenon
  <1>12. ASSUME NEW d \in Domains, Recycle(d)
         PROVE  Inv' /\ Forward /\ Accepting
    <2>1. log' = RecycleDomain(log, d) /\ now' = now /\ loss' = loss
      BY <1>12, Zenon DEF Recycle
    <2>2. LogInv(log') /\ BarrierInv(log', loss') /\ log'.last_seq = log.last_seq
          /\ log'.invalidated = log.invalidated /\ log'.order = log.order
      BY <1>1, <2>1, RecycleInv, Zenon
    <2>3. QED
      BY <1>1, <1>2, <1>3, <2>1, <2>2, Zenon
  <1>13. ASSUME SweepAll
         PROVE  Inv' /\ Forward /\ Accepting
    <2>1. log' = Sweep(log, now) /\ now' = now /\ loss' = loss
      BY <1>13, Zenon DEF SweepAll
    <2>2. LogInv(log') /\ BarrierInv(log', loss') /\ log'.last_seq = log.last_seq
          /\ log'.invalidated = log.invalidated /\ log'.order = log.order
      BY <1>1, <2>1, SweepInv, Zenon
    <2>3. QED
      BY <1>1, <1>2, <1>3, <2>1, <2>2, Zenon
  <1>14. ASSUME Shutdown
         PROVE  Inv' /\ Forward /\ Accepting
    <2>1. /\ log' = [EmptyLog EXCEPT !.order = log.order, !.closed = TRUE]
          /\ now' = now /\ loss' = [d \in Domains |-> NoBarrier] /\ log.order \in Nat
      BY <1>1, <1>14, Zenon DEF Shutdown, Close, LogType
    <2>2. LogInv(log') /\ BarrierInv(log', loss') /\ log'.closed /\ log'.order = log.order
      BY <2>1, CloseInv, Zenon
    <2>3. QED
      BY <1>1, <1>2, <2>1, <2>2, Zenon DEF Forward, Accepting
  <1>15. ASSUME Tick
         PROVE  Inv' /\ Forward /\ Accepting
    <2>1. log' = log /\ now' = now + 1 /\ loss' = loss
      BY <1>15, Zenon DEF Tick
    <2>2. QED
      BY <1>1, <1>2, <1>3, <2>1
  <1>16. ASSUME UNCHANGED vars
         PROVE  Inv'
    BY <1>16 DEF vars, Inv, TypeOK, LogInv, BarrierInv, Dead, Window
  <1>17. QED
    BY <1>5, <1>6, <1>7, <1>8, <1>9, <1>10, <1>11, <1>12, <1>13, <1>14, <1>15, <1>16, Zenon
       DEF Next

-----------------------------------------------------------------------------
LEMMA InvImpliesWindow == Inv => WindowContiguous
  BY DEF Inv, LogInv, Window, WindowContiguous, EntriesOf

LEMMA InvImpliesHoleFree == Inv => SeqHoleFree
  BY Zenon DEF Inv, LogInv, SeqHoleFree

LEMMA InvImpliesNoGap == Inv => ReplayGapUnreachable
  <1> SUFFICES ASSUME Inv, NEW d \in Domains, NEW seq \in Cursors
               PROVE  Replay(log, d, seq, TRUE, now).kind # "replay_gap"
    BY Zenon DEF ReplayGapUnreachable
  <1>1. LogInv(log) /\ seq \in Nat
    BY MaxSeqAssumption DEF Inv, Cursors
  <1>2. ~ HasHole(After(log, d, seq, now))
    BY <1>1, NoHole, Zenon
  <1>3. QED
    BY <1>2, Zenon DEF Replay, After, Resync, Frames, IgnoreReset

LEMMA InvImpliesExact == Inv => ReplayIsExact
  <1> SUFFICES ASSUME Inv, NEW d \in Domains, NEW seq \in Cursors,
                      Replay(log, d, seq, TRUE, now).kind = "frames"
               PROVE  /\ {e.seq : e \in Replay(log, d, seq, TRUE, now).entries}
                            = (seq + 1)..log.last_seq[d]
                      /\ seq > loss[d]
    BY Zenon DEF ReplayIsExact
  <1> DEFINE A == After(log, d, seq, now)
             R == Replay(log, d, seq, TRUE, now)
  <1>1. LogInv(log) /\ seq \in Nat /\ log.last_seq[d] \in Nat
        /\ loss[d] \in Int /\ log.watermark[d] \in Int
    BY MaxSeqAssumption DEF Inv, Cursors, TypeOK, LogType, NoBarrier
  <1>2. /\ ~ (seq <= log.watermark[d]) /\ ~ (seq > log.last_seq[d])
        /\ \/ A = {} /\ seq = log.last_seq[d] /\ R.entries = {}
           \/ /\ \E e \in A : IsFirst(A, e) /\ e.seq = seq + 1
              /\ R.entries = A
    BY Zenon DEF Replay, After, Resync, Frames, IgnoreReset
  <1>3. \A e \in A :
          /\ e.seq \in (seq + 1)..log.last_seq[d] /\ e \in EntriesOf(log.entries, d)
          /\ \A n \in e.seq..log.last_seq[d] : \E x \in A : x.seq = n
    BY <1>1, NoHole
  <1>4. \/ loss[d] <= log.watermark[d]
        \/ /\ loss[d] + 1 < log.last_seq[d]
           /\ \A e \in EntriesOf(log.entries, d) : e.seq > loss[d] + 1
    BY Zenon DEF Inv, BarrierInv, Dead
  <1> HIDE DEF A, R
  <1>5. CASE A = {} /\ seq = log.last_seq[d] /\ R.entries = {}
    <2>1. (seq + 1)..log.last_seq[d] = {}
      BY <1>1, <1>5
    <2>2. {e.seq : e \in R.entries} = {}
      BY <1>5, Zenon
    <2>3. seq > loss[d]
      BY <1>1, <1>2, <1>4, <1>5
    <2>4. QED
      BY <2>1, <2>2, <2>3, Zenon DEF R
  <1>6. CASE (\E e \in A : IsFirst(A, e) /\ e.seq = seq + 1) /\ R.entries = A
    <2>1. PICK e \in A : e.seq = seq + 1
      BY <1>6, Zenon
    <2>2. {x.seq : x \in A} = (seq + 1)..log.last_seq[d]
      BY <1>1, <1>3, <2>1, Zenon
    <2>3. seq > loss[d]
      BY <1>1, <1>2, <1>3, <1>4, <2>1
    <2>4. QED
      BY <1>6, <2>2, <2>3, Zenon DEF R
  <1>7. QED
    BY <1>2, <1>5, <1>6, Zenon

-----------------------------------------------------------------------------
\* The inductive invariant holds in every reachable state.
THEOREM Invariance == Spec => []Inv
  <1>1. Init => Inv
    BY InitInv, Zenon
  <1>2. Inv /\ [Next]_vars => Inv'
    BY StepInv, Zenon
  <1>3. QED
    BY <1>1, <1>2, PTL DEF Spec

\* The log's counters, entries and barriers always have their types; in
\* particular rollback_seq never drives next_seq below 1.
THEOREM TypeCorrect == Spec => []TypeOK
  <1>1. Inv => TypeOK
    BY Zenon DEF Inv
  <1>2. QED
    BY <1>1, Invariance, PTL

\* A domain's retained window has no hole and ends at the last frame.
THEOREM WindowAlwaysContiguous == Spec => []WindowContiguous
  BY InvImpliesWindow, Invariance, PTL

\* No reservation outlives a failed publish.
THEOREM NoSeqBurned == Spec => []SeqHoleFree
  BY InvImpliesHoleFree, Invariance, PTL

\* replay() answers frames only with the exact continuation of a cursor
\* that lies after every upstream loss.
THEOREM ReplayCorrect == Spec => []ReplayIsExact
  BY InvImpliesExact, Invariance, PTL

\* The replay_gap branch of replay() is dead code.
THEOREM GapIsDead == Spec => []ReplayGapUnreachable
  BY InvImpliesNoGap, Invariance, PTL

\* A returning cursor gets its exact continuation or a notice, and no failed
\* publication leaves a hole for replay() to meet.
THEOREM CursorsAreServed == Spec => []CursorIsServed
  <1>1. Inv => CursorIsServed
    BY InvImpliesExact, InvImpliesNoGap, InvImpliesHoleFree, Zenon DEF CursorIsServed
  <1>2. QED
    BY <1>1, Invariance, PTL

\* No step short of close() moves a sequence number back or clears the
\* invalidation flag.
THEOREM Monotone == Spec => NeverRegresses
  <1>1. Inv /\ [Next]_vars => [Forward]_vars
    BY StepInv, Zenon
  <1>2. QED
    BY <1>1, Invariance, PTL DEF Spec, NeverRegresses

\* An accepted frame is in the log after the step that accepted it, for every
\* byte and count budget.
THEOREM Retention == Spec => AcceptedIsRetained
  <1>1. Inv /\ [Next]_vars => [Accepting]_vars
    BY StepInv, Zenon
  <1>2. QED
    BY <1>1, Invariance, PTL DEF Spec, AcceptedIsRetained
=============================================================================
