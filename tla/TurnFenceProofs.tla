--------------------------- MODULE TurnFenceProofs ---------------------------
(***************************************************************************)
(* Proofs about TurnFence, for any sessions, bounds and legacy value, under *)
(* the faults the persistence code is written for: a file that exists can  *)
(* be read, and a directory sync fails only where power does not.          *)
(***************************************************************************)
EXTENDS TurnFence, TLAPS

Sound ==
    \A F \in FaultModels :
        "read" \notin F /\ ("dir_fsync" \notin F \/ "power" \notin F)

(***************************************************************************)
(* The incarnation counter.  What a start reads is at least what has been  *)
(* published, and so is what a power loss leaves, unless the directory     *)
(* sync of this start is still to come.                                    *)
(***************************************************************************)
Top(f) == IF f > Legacy THEN f ELSE Legacy

CounterInv ==
    /\ faults \in FaultModels
    /\ proc \in {"down", "writing", "syncing", "up"}
    /\ inc \in Nat /\ file \in Nat /\ disk \in Nat /\ highest \in Nat
    /\ durable \in BOOLEAN
    /\ highest <= Top(file)
    /\ "power" \in faults => highest <= Top(disk)
    /\ proc \in {"writing", "syncing"} => inc > highest /\ ~durable
    /\ proc = "syncing" => file = inc
    /\ proc = "up" /\ durable => inc = highest

LEMMA CounterInit == Init => CounterInv
<1> SUFFICES ASSUME Init PROVE CounterInv
  BY Zenon
<1>1. durable \in BOOLEAN /\ faults \in FaultModels
  BY Zenon DEF Init
<1>2. proc = "down" /\ inc = 0 /\ file = 0 /\ disk = 0 /\ highest = Legacy
  BY Zenon DEF Init
<1> QED BY <1>1, <1>2, LegacyAssumption DEF CounterInv, Top

LEMMA CounterStep == ASSUME Sound, CounterInv, [Next]_vars PROVE CounterInv' /\ Confirming
<1>0. faults' = faults /\ (Step \/ UNCHANGED vars)
  BY Zenon DEF Next, vars
<1> USE <1>0, LegacyAssumption DEF CounterInv, Top, Confirming
<1>1. CASE LoadOrBump
  <2>1. inc' = Top(file) + 1
    <3>1. PICK readable \in BOOLEAN : /\ readable \/ "read" \in faults
                                      /\ inc' = Base(readable) + 1
      BY <1>1, Zenon DEF LoadOrBump
    <3>2. readable = TRUE
      BY <3>1, Zenon DEF Sound
    <3>3. inc' = Base(TRUE) + 1
      BY <3>1, <3>2, Zenon
    <3>4. Base(TRUE) = Top(file)
      BY Zenon DEF Base, Top
    <3> QED BY <3>3, <3>4, Zenon
  <2>2. /\ proc = "down" /\ proc' = "writing" /\ ~durable' /\ durable' \in BOOLEAN
        /\ file' = file /\ disk' = disk /\ highest' = highest
    BY <1>1, Zenon DEF LoadOrBump, store
  <2> QED BY <2>1, <2>2
<1>2. CASE WriteFails
  BY <1>2, Zenon DEF WriteFails, Up, store
<1>3. CASE Rename
  BY <1>3 DEF Rename
<1>4. CASE DirFsync
  BY <1>4 DEF DirFsync, Up
<1>5. CASE DirFsyncFails
  BY <1>5 DEF DirFsyncFails, Up, store, Sound
<1>6. CASE UNCHANGED <<proc, inc, durable, store, highest>>
  BY <1>6, Zenon DEF store
<1>7. CASE Crash
  BY <1>7, Zenon DEF Crash, Gone, store
<1>8. CASE PowerLoss
  BY <1>8, Zenon DEF PowerLoss, Gone
<1>9. ASSUME NEW s \in Sids, SendPrompt(s) \/ IngestStatus(s) \/ IngestOther(s)
                           \/ IngestClearing(s) \/ IngestFlushing(s)
      PROVE  UNCHANGED <<proc, inc, durable, store, highest>>
  BY <1>9, Zenon DEF SendPrompt, IngestStatus, IngestOther, IngestClearing, IngestFlushing, Emit
<1>10. ASSUME NEW w \in sending, Answered(w)
       PROVE  UNCHANGED <<proc, inc, durable, store, highest>>
  BY <1>10, Zenon DEF Answered
<1>11. Flush => UNCHANGED <<proc, inc, durable, store, highest>>
  BY Zenon DEF Flush, Emit
<1>12. UNCHANGED vars => UNCHANGED <<proc, inc, durable, store, highest>>
  BY Zenon DEF vars
<1> QED
  BY <1>1, <1>2, <1>3, <1>4, <1>5, <1>6, <1>7, <1>8, <1>9, <1>10, <1>11, <1>12, Zenon DEF Step

LEMMA CounterAlways == ASSUME Sound PROVE Spec => []CounterInv
<1>1. CounterInv /\ [Next]_vars => CounterInv'
  BY CounterStep, Zenon
<1> QED BY CounterInit, <1>1, PTL DEF Spec

(***************************************************************************)
(* A process that publishes its incarnation publishes one above every      *)
(* incarnation published before it (load_or_bump with the durability gate), *)
(* whatever the crashes, the power losses and the failed writes.           *)
(***************************************************************************)
THEOREM FreshIncarnation == ASSUME Sound PROVE Spec => IncarnationIsFresh
<1>1. CounterInv /\ [Next]_vars => [Confirming]_vars
  BY CounterStep, Zenon
<1> QED BY CounterAlways, <1>1, PTL DEF Spec, IncarnationIsFresh

(***************************************************************************)
(* The stamps.  Everything stamped so far, by this process or an earlier   *)
(* one, is bounded by the current stamp of its session; a pending digest   *)
(* sits between what was emitted and the current stamp.  An evicted        *)
(* session keeps only the bound on the incarnation, which is what makes it *)
(* regular again after a restart.                                          *)
(***************************************************************************)
Entries == [stamp : Stamps, status : Stamps, present : BOOLEAN]

StampTypes ==
    /\ turns \in [Sids -> Nat]
    /\ pending \in [Sids -> Entries]
    /\ sending \subseteq Sids \X Stamps
    /\ work \in [Sids -> Stamps]
    /\ digest \in [Sids -> Stamps]

Published ==
    /\ \A s \in Sids : /\ digest[s][1] <= highest /\ work[s][1] <= highest
                       /\ pending[s].stamp[1] <= highest
    /\ \A w \in sending : w[2][1] <= highest

Bounded(s) ==
    /\ Leq(digest[s], <<inc, turns[s]>>)
    /\ Leq(work[s], <<inc, turns[s]>>)
    /\ \A w \in sending : w[1] = s => Leq(w[2], <<inc, turns[s]>>)
    /\ pending[s].stamp # Withheld =>
          /\ Leq(digest[s], pending[s].stamp)
          /\ Leq(pending[s].status, pending[s].stamp)
          /\ Leq(pending[s].stamp, <<inc, turns[s]>>)

StampInv ==
    /\ StampTypes /\ Published
    /\ ~(proc = "up" /\ durable) => \A s \in Sids : pending[s].stamp = Withheld
    /\ proc = "up" /\ durable => \A s \in Sids \ evicted : Bounded(s)

LEMMA WithheldIsStamp == Withheld \in Stamps /\ NoEntry \in Entries /\ NoEntry.stamp = Withheld
BY Zenon DEF Withheld, NoEntry, Entries, Stamps

LEMMA StampInit == Init => StampInv
<1> SUFFICES ASSUME Init PROVE StampInv
  BY Zenon
<1>1. proc = "down" /\ highest \in Nat /\ sending = {}
  BY LegacyAssumption, Zenon DEF Init
<1>2. turns \in [Sids -> Nat] /\ work \in [Sids -> Stamps] /\ digest \in [Sids -> Stamps]
      /\ pending \in [Sids -> Entries]
  BY WithheldIsStamp, Zenon DEF Init
<1>3. \A s \in Sids : digest[s] = Withheld /\ work[s] = Withheld /\ pending[s].stamp = Withheld
  BY WithheldIsStamp, Zenon DEF Init
<1> QED BY <1>1, <1>2, <1>3 DEF StampInv, StampTypes, Published, Withheld

LEMMA LeqOrder ==
    ASSUME NEW a \in Stamps, NEW b \in Stamps, NEW c \in Stamps
    PROVE  /\ Leq(a, a)
           /\ Leq(a, b) /\ Leq(b, c) => Leq(a, c)
           /\ a[1] < b[1] => Leq(a, b)
           /\ Leq(Withheld, a)
BY DEF Leq, Stamps, Withheld

LEMMA LeqTurn ==
    ASSUME NEW a \in Stamps, NEW i \in Nat, NEW m \in Nat, NEW n \in Nat, m <= n
    PROVE  /\ Leq(a, <<i, m>>) => Leq(a, <<i, n>>)
           /\ a[1] < i => Leq(a, <<i, n>>)
           /\ <<i, n>> \in Stamps
           /\ Leq(<<i, n>>, <<i, n>>)
BY DEF Leq, Stamps

LEMMA BumpTurnEffect ==
    ASSUME NEW s \in Sids, turns \in [Sids -> Nat], BumpTurn(s)
    PROVE  /\ turns' \in [Sids -> Nat]
           /\ evicted \subseteq evicted'
           /\ \A x \in Sids \ evicted' : turns'[x] >= turns[x]
<1> DEFINE moved == Append(SelectSeq(order, LAMBDA x : x # s), s)
           out == IF Len(moved) > TurnsMax THEN {Head(moved)} ELSE {}
<1>1. /\ turns' = [x \in Sids |-> IF x \in out THEN 0 ELSE IF x = s THEN turns[x] + 1 ELSE turns[x]]
      /\ evicted' = evicted \cup out
  BY Zenon DEF BumpTurn
<1> HIDE DEF out
<1> QED BY <1>1

\* The start-up actions leave the stamps alone; the one that ends the start
\* publishes an incarnation above all of them.
LEMMA StartKeepsStamps ==
    ASSUME StampInv, CounterInv, CounterInv', Confirming,
           UNCHANGED <<turns, pending, sending, work, digest, evicted>>,
           proc # "up", highest' >= highest
    PROVE  StampInv'
<1> USE DEF CounterInv
<1>1. StampTypes' /\ Published'
  BY DEF StampInv, StampTypes, Published, Entries, Stamps
<1>2. \A s \in Sids : pending'[s].stamp = Withheld
  BY Zenon DEF StampInv
<1>3. ASSUME proc' = "up" /\ durable', NEW s \in Sids PROVE Bounded(s)'
  <2>1. inc' \in Nat /\ inc' > highest /\ turns'[s] \in Nat
    BY <1>1, <1>3, Zenon DEF Confirming, StampTypes
  <2>2. Leq(digest'[s], <<inc', turns'[s]>>) /\ Leq(work'[s], <<inc', turns'[s]>>)
    <3>1. digest'[s] \in Stamps /\ work'[s] \in Stamps /\ digest'[s][1] < inc' /\ work'[s][1] < inc'
      BY <2>1 DEF StampInv, StampTypes, Published, Stamps
    <3> QED BY <3>1, <2>1, LeqTurn
  <2>3. \A w \in sending' : w[1] = s => Leq(w[2], <<inc', turns'[s]>>)
    <3>1. \A w \in sending' : w[2] \in Stamps /\ w[2][1] < inc'
      BY <2>1 DEF StampInv, StampTypes, Published, Stamps
    <3> QED BY <3>1, <2>1, LeqTurn
  <2> QED BY <1>2, <2>2, <2>3, Zenon DEF Bounded
<1> QED BY <1>1, <1>2, <1>3, Zenon DEF StampInv

LEMMA SendPromptKeepsStamps ==
    ASSUME StampInv, CounterInv, NEW s \in Sids, SendPrompt(s)
    PROVE  StampInv'
<1> USE DEF CounterInv
<1>1. /\ BumpTurn(s) /\ Send(s) /\ proc = "up"
      /\ UNCHANGED <<proc, inc, durable, pending, work, digest, highest>>
  BY Zenon DEF SendPrompt
<1>2. /\ turns \in [Sids -> Nat] /\ turns' \in [Sids -> Nat]
      /\ evicted \subseteq evicted'
      /\ \A x \in Sids \ evicted' : turns'[x] >= turns[x]
  BY <1>1, BumpTurnEffect, Zenon DEF StampInv, StampTypes
<1> DEFINE new == <<s, IF durable THEN <<inc, turns'[s]>> ELSE Withheld>>
<1>3. sending' = sending \cup {new}
  BY <1>1, Zenon DEF Send
<1>4. new[1] = s /\ new \in Sids \X Stamps /\ new[2][1] <= highest
      /\ (durable => new[2] = <<inc, turns'[s]>>)
  BY <1>1, <1>2 DEF Stamps, Withheld
<1> HIDE DEF new
<1>5. StampTypes' /\ Published'
  BY <1>1, <1>2, <1>3, <1>4, Zenon DEF StampInv, StampTypes, Published
<1>6. ASSUME durable, NEW x \in Sids \ evicted' PROVE Bounded(x)'
  <2>1. Bounded(x) /\ turns[x] \in Nat /\ turns'[x] \in Nat /\ turns[x] <= turns'[x]
    BY <1>1, <1>2, <1>6, Zenon DEF StampInv
  <2>2. digest[x] \in Stamps /\ work[x] \in Stamps /\ pending[x].stamp \in Stamps
    BY Zenon DEF StampInv, StampTypes, Entries
  <2>3. \A w \in sending' : w[1] = x => Leq(w[2], <<inc, turns'[x]>>)
    <3>1. \A w \in sending : w[2] \in Stamps
      BY Zenon DEF StampInv, StampTypes
    <3> QED BY <1>3, <1>4, <1>6, <2>1, <3>1, LeqTurn, Zenon DEF Bounded
  <2> QED BY <1>1, <2>1, <2>2, <2>3, LeqTurn, Zenon DEF Bounded
<1> QED BY <1>1, <1>5, <1>6, Zenon DEF StampInv

LEMMA AnsweredKeepsStamps ==
    ASSUME StampInv, CounterInv, NEW w \in sending, Answered(w)
    PROVE  StampInv'
<1>1. /\ sending' \subseteq sending
      /\ UNCHANGED <<proc, inc, durable, turns, evicted, pending, digest, highest>>
  BY Zenon DEF Answered, registry
<1>2. w[1] \in Sids /\ w[2] \in Stamps /\ w[2][1] <= highest
  BY Zenon DEF StampInv, StampTypes, Published
<1>3. /\ work' \in [Sids -> Stamps]
      /\ \A s \in Sids : work'[s] = work[s] \/ (w[1] = s /\ work'[s] = w[2])
  BY <1>2, Zenon DEF Answered, StampInv, StampTypes
<1>4. StampTypes' /\ Published'
  BY <1>1, <1>2, <1>3, Zenon DEF StampInv, StampTypes, Published
<1>5. ASSUME NEW s \in Sids, Bounded(s) PROVE Bounded(s)'
  BY <1>1, <1>3, <1>5, Zenon DEF Bounded
<1> QED BY <1>1, <1>4, <1>5, Zenon DEF StampInv

LEMMA IngestStatusKeepsStamps ==
    ASSUME StampInv, CounterInv, NEW s \in Sids, IngestStatus(s)
    PROVE  StampInv'
<1> USE DEF CounterInv
<1> DEFINE entry == [stamp |-> Snapshot(s), status |-> work[s], present |-> TRUE]
<1>1. /\ UNCHANGED <<proc, inc, durable, turns, evicted, sending, work, digest, highest>>
      /\ proc = "up" /\ pending' = [pending EXCEPT ![s] = entry]
  BY Zenon DEF IngestStatus, registry
<1>2. turns[s] \in Nat /\ work[s] \in Stamps /\ digest[s] \in Stamps
  BY Zenon DEF StampInv, StampTypes
<1>3. /\ Snapshot(s) \in Stamps
      /\ durable => Snapshot(s) = <<inc, turns[s]>> /\ Snapshot(s)[1] <= highest
      /\ ~durable => Snapshot(s) = Withheld
  BY <1>1, <1>2 DEF Snapshot, Stamps, Withheld
<1>4. entry \in Entries /\ entry.stamp = Snapshot(s) /\ entry.status = work[s]
  BY <1>2, <1>3, Zenon DEF Entries
<1> HIDE DEF entry
<1>5. /\ pending' \in [Sids -> Entries] /\ pending'[s] = entry
      /\ \A x \in Sids : x # s => pending'[x] = pending[x]
  BY <1>1, <1>4, Zenon DEF StampInv, StampTypes
<1>6. StampTypes'
  BY <1>1, <1>5, Zenon DEF StampInv, StampTypes
<1>7. Published'
  <2>1. Snapshot(s)[1] <= highest
    BY <1>3 DEF Withheld
  <2> QED BY <1>1, <1>4, <1>5, <2>1, Zenon DEF StampInv, Published
<1>8. ASSUME durable, NEW x \in Sids \ evicted PROVE Bounded(x)'
  <2>1. Bounded(x)
    BY <1>1, <1>8, Zenon DEF StampInv
  <2>2. CASE x = s
    BY <1>1, <1>2, <1>3, <1>4, <1>5, <1>8, <2>1, <2>2, LeqTurn DEF Bounded
  <2>3. CASE x # s
    BY <1>1, <1>5, <2>1, <2>3, Zenon DEF Bounded
  <2> QED BY <2>2, <2>3, Zenon
<1>9. ~durable => \A x \in Sids : pending'[x].stamp = Withheld
  BY <1>3, <1>4, <1>5, Zenon DEF StampInv
<1> QED BY <1>1, <1>6, <1>7, <1>8, <1>9, Zenon DEF StampInv

LEMMA IngestOtherKeepsStamps ==
    ASSUME StampInv, NEW s \in Sids, IngestOther(s)
    PROVE  StampInv'
<1> DEFINE entry == [pending[s] EXCEPT !.present = TRUE]
<1>1. /\ UNCHANGED <<proc, inc, durable, turns, evicted, sending, work, digest, highest>>
      /\ pending' = [pending EXCEPT ![s] = entry]
  BY Zenon DEF IngestOther, registry
<1>2. entry \in Entries /\ entry.stamp = pending[s].stamp /\ entry.status = pending[s].status
  BY Zenon DEF StampInv, StampTypes, Entries
<1> HIDE DEF entry
<1>3. /\ pending' \in [Sids -> Entries]
      /\ \A x \in Sids : /\ pending'[x].stamp = pending[x].stamp
                         /\ pending'[x].status = pending[x].status
  BY <1>1, <1>2, Zenon DEF StampInv, StampTypes
<1>4. StampTypes' /\ Published'
  BY <1>1, <1>3, Zenon DEF StampInv, StampTypes, Published
<1>5. ASSUME NEW x \in Sids, Bounded(x) PROVE Bounded(x)'
  BY <1>1, <1>3, <1>5, Zenon DEF Bounded
<1> QED BY <1>1, <1>3, <1>4, <1>5, Zenon DEF StampInv

LEMMA IngestClearingKeepsStamps ==
    ASSUME StampInv, CounterInv, NEW s \in Sids, IngestClearing(s)
    PROVE  StampInv' /\ DigestsAdvance
<1> USE DEF CounterInv
<1>1. /\ UNCHANGED <<proc, inc, durable, turns, evicted, sending, work, highest>>
      /\ proc = "up" /\ pending' = [pending EXCEPT ![s] = NoEntry]
      /\ digest' = [digest EXCEPT ![s] = IF durable THEN Snapshot(s) ELSE digest[s]]
  BY Zenon DEF IngestClearing, registry
<1>2. turns[s] \in Nat /\ digest \in [Sids -> Stamps] /\ pending \in [Sids -> Entries]
  BY Zenon DEF StampInv, StampTypes
<1>3. \A x \in Sids : /\ x # s => digest'[x] = digest[x] /\ pending'[x] = pending[x]
                      /\ pending'[s].stamp = Withheld
                      /\ durable => digest'[s] = <<inc, turns[s]>>
                      /\ ~durable => digest'[s] = digest[s]
  BY <1>1, <1>2, WithheldIsStamp, Zenon DEF Snapshot
<1>4. digest' \in [Sids -> Stamps] /\ pending' \in [Sids -> Entries]
  BY <1>1, <1>2, WithheldIsStamp, Zenon DEF Snapshot, Stamps
<1>5. StampTypes'
  BY <1>1, <1>4, Zenon DEF StampInv, StampTypes
<1>6. Published'
  BY <1>1, <1>3 DEF StampInv, Published, Withheld
<1>7. ASSUME NEW x \in Sids, durable, Bounded(x)
      PROVE  Bounded(x)' /\ Leq(digest[x], digest'[x])
  <2>1. CASE x = s
    BY <1>1, <1>2, <1>3, <1>7, <2>1, LeqTurn, SMTT(60) DEF Bounded
  <2>2. CASE x # s
    BY <1>1, <1>2, <1>3, <1>7, <2>2, LeqOrder, Zenon DEF Bounded
  <2> QED BY <2>1, <2>2, Zenon
<1>8. ~durable => \A x \in Sids : pending'[x].stamp = Withheld /\ digest'[x] = digest[x]
  BY <1>3, Zenon DEF StampInv
<1>9. DigestsAdvance
  BY <1>1, <1>2, <1>7, <1>8, LeqOrder, Zenon DEF StampInv, DigestsAdvance
<1> QED BY <1>1, <1>5, <1>6, <1>7, <1>8, <1>9, Zenon DEF StampInv

LEMMA EmitKeepsStamps ==
    ASSUME StampInv, CounterInv, NEW ss \in SUBSET Sids, Emit(ss)
    PROVE  StampInv' /\ DigestsAdvance
<1>1. UNCHANGED <<proc, inc, durable, turns, evicted, sending, work, highest>>
  BY Zenon DEF Emit, registry
<1>2. \A s \in Sids : /\ \/ digest'[s] = digest[s]
                         \/ digest'[s] = pending[s].stamp /\ pending[s].stamp # Withheld
                      /\ \/ pending'[s] = pending[s] /\ digest'[s] = digest[s]
                         \/ pending'[s] = NoEntry
  BY Zenon DEF Emit
<1>3. /\ digest' \in [Sids -> Stamps] /\ pending' \in [Sids -> Entries]
      /\ \A s \in Sids : digest'[s][1] <= highest
  <2>1. \A s \in Sids : pending[s].stamp \in Stamps
    BY Zenon DEF StampInv, StampTypes, Entries
  <2>2. digest' \in [Sids -> Stamps]
    BY <2>1, Zenon DEF Emit, StampInv, StampTypes
  <2>3. pending' \in [Sids -> Entries]
    BY WithheldIsStamp, Zenon DEF Emit, StampInv, StampTypes
  <2> QED BY <1>2, <2>2, <2>3, Zenon DEF StampInv, Published
<1>4. \A s \in Sids : pending'[s] = pending[s] \/ pending'[s].stamp = Withheld
  BY <1>2, WithheldIsStamp, Zenon
<1>5. \A s \in Sids : pending'[s].stamp[1] <= highest
  BY <1>4 DEF StampInv, Published, CounterInv, Withheld
<1>6. StampTypes' /\ Published'
  BY <1>1, <1>3, <1>5, Zenon DEF StampInv, StampTypes, Published
<1>7. ASSUME NEW s \in Sids, Bounded(s)
      PROVE  Bounded(s)' /\ Leq(digest[s], digest'[s])
  <2>1. Leq(digest[s], digest[s])
    BY LeqOrder, Zenon DEF StampInv, StampTypes
  <2>2. Leq(digest[s], digest'[s]) /\ Leq(digest'[s], <<inc, turns[s]>>)
    BY <1>2, <1>7, <2>1, Zenon DEF Bounded
  <2>3. CASE pending'[s] = pending[s] /\ digest'[s] = digest[s]
    BY <1>1, <1>7, <2>2, <2>3, Zenon DEF Bounded
  <2>4. CASE pending'[s].stamp = Withheld
    BY <1>1, <1>7, <2>2, <2>4, Zenon DEF Bounded
  <2> QED BY <1>2, <2>2, <2>3, <2>4, WithheldIsStamp, Zenon
<1>8. ~(proc = "up" /\ durable) => digest' = digest
  BY Zenon DEF StampInv, StampTypes, Emit
<1>9. DigestsAdvance
  <2>1. CASE proc = "up" /\ durable
    BY <1>7, <2>1, Zenon DEF StampInv, DigestsAdvance
  <2>2. CASE ~(proc = "up" /\ durable)
    BY <1>8, <2>2, LeqOrder, Zenon DEF StampInv, StampTypes, DigestsAdvance
  <2> QED BY <2>1, <2>2, Zenon
<1> QED BY <1>1, <1>4, <1>6, <1>7, <1>9, Zenon DEF StampInv

LEMMA GoneKeepsStamps ==
    ASSUME StampInv, CounterInv, Gone
    PROVE  StampInv'
<1>1. /\ UNCHANGED <<sending, work, digest, highest>> /\ proc' = "down"
      /\ turns' \in [Sids -> Nat]
  BY Zenon DEF Gone
<1>2. /\ pending' \in [Sids -> Entries]
      /\ \A s \in Sids : pending'[s].stamp = Withheld
  BY WithheldIsStamp, Zenon DEF Gone
<1>3. StampTypes' /\ Published'
  BY <1>1, <1>2 DEF StampInv, StampTypes, Published, CounterInv, Withheld
<1> QED BY <1>1, <1>2, <1>3, Zenon DEF StampInv

FenceInv == CounterInv /\ StampInv

LEMMA FenceStep ==
    ASSUME Sound, FenceInv, [Next]_vars
    PROVE  FenceInv' /\ DigestsAdvance
<1>1. CounterInv /\ StampInv /\ CounterInv' /\ Confirming
  BY CounterStep, Zenon DEF FenceInv
<1>2. digest' = digest => DigestsAdvance
  BY <1>1, LeqOrder, Zenon DEF StampInv, StampTypes, DigestsAdvance
<1>3. CASE LoadOrBump \/ WriteFails \/ Rename \/ DirFsync \/ DirFsyncFails
  <2>1. UNCHANGED <<turns, pending, sending, work, digest, evicted>>
    BY <1>3, Zenon DEF LoadOrBump, WriteFails, Rename, DirFsync, DirFsyncFails, registry, wire
  <2>2. proc # "up" /\ highest' >= highest
    BY <1>1, <1>3 DEF LoadOrBump, WriteFails, Rename, DirFsync, DirFsyncFails, Up, CounterInv
  <2> QED BY <1>1, <1>2, <2>1, <2>2, StartKeepsStamps, Zenon DEF FenceInv
<1>4. ASSUME NEW s \in Sids, SendPrompt(s) PROVE FenceInv' /\ DigestsAdvance
  BY <1>1, <1>2, <1>4, SendPromptKeepsStamps, Zenon DEF FenceInv, SendPrompt
<1>5. ASSUME NEW s \in Sids, IngestStatus(s) PROVE FenceInv' /\ DigestsAdvance
  BY <1>1, <1>2, <1>5, IngestStatusKeepsStamps, Zenon DEF FenceInv, IngestStatus
<1>6. ASSUME NEW s \in Sids, IngestOther(s) PROVE FenceInv' /\ DigestsAdvance
  BY <1>1, <1>2, <1>6, IngestOtherKeepsStamps, Zenon DEF FenceInv, IngestOther
<1>7. ASSUME NEW ss \in SUBSET Sids, Emit(ss) PROVE FenceInv' /\ DigestsAdvance
  BY <1>1, <1>7, EmitKeepsStamps, Zenon DEF FenceInv
<1>8. ASSUME NEW w \in sending, Answered(w) PROVE FenceInv' /\ DigestsAdvance
  BY <1>1, <1>2, <1>8, AnsweredKeepsStamps, Zenon DEF FenceInv, Answered
<1>9. CASE Crash \/ PowerLoss
  BY <1>1, <1>2, <1>9, GoneKeepsStamps, Zenon DEF FenceInv, Crash, PowerLoss, Gone
<1>10. CASE UNCHANGED vars
  <2>1. /\ UNCHANGED <<proc, inc, durable, highest>>
        /\ UNCHANGED <<turns, evicted, pending, sending, work, digest>>
    BY <1>10, Zenon DEF vars, registry, wire
  <2>2. StampTypes' /\ Published'
    BY <1>1, <2>1, Zenon DEF StampInv, StampTypes, Published
  <2>3. ASSUME NEW s \in Sids, Bounded(s) PROVE Bounded(s)'
    BY <2>1, <2>3, Zenon DEF Bounded
  <2> QED BY <1>1, <1>2, <2>1, <2>2, <2>3, Zenon DEF FenceInv, StampInv
<1>11. ASSUME NEW s \in Sids, IngestFlushing(s) PROVE FenceInv' /\ DigestsAdvance
  BY <1>7, <1>11, Zenon DEF IngestFlushing
<1>12. CASE Flush
  BY <1>7, <1>12, Zenon DEF Flush
<1>13. ASSUME NEW s \in Sids, IngestClearing(s) PROVE FenceInv' /\ DigestsAdvance
  BY <1>1, <1>13, IngestClearingKeepsStamps, Zenon DEF FenceInv
<1> QED
  BY <1>3, <1>4, <1>5, <1>6, <1>8, <1>9, <1>10, <1>11, <1>12, <1>13, Zenon DEF Next, Step

LEMMA FenceAlways == ASSUME Sound PROVE Spec => []FenceInv
<1>1. Init => FenceInv
  BY CounterInit, StampInit, Zenon DEF FenceInv
<1>2. FenceInv /\ [Next]_vars => FenceInv'
  BY FenceStep, Zenon
<1> QED BY <1>1, <1>2, PTL DEF Spec

(***************************************************************************)
(* The stamps of a session's digests never go back on the wire, across     *)
(* restarts too, unless the session was evicted from the turn map (publish, *)
(* flush and flush_sid of the hub).                                        *)
(***************************************************************************)
THEOREM DigestsNeverGoBack == ASSUME Sound PROVE Spec => DigestNeverRegresses
<1>1. FenceInv /\ [Next]_vars => [DigestsAdvance]_vars
  BY FenceStep, Zenon
<1> QED BY FenceAlways, <1>1, PTL DEF Spec, DigestNeverRegresses

(***************************************************************************)
(* No turn the upstream works on is ahead of the registry, so the status   *)
(* in a pending digest is of its stamp's turn or an earlier one (bump      *)
(* before send in _write_passthrough, stamp taken with the status in       *)
(* publish).                                                               *)
(***************************************************************************)
THEOREM StampsCoverStatus == ASSUME Sound PROVE Spec => []StampCoversStatus
<1>1. FenceInv => StampCoversStatus
  BY Zenon DEF FenceInv, StampInv, Bounded, StampCoversStatus, Snapshot
<1> QED BY FenceAlways, <1>1, PTL

(***************************************************************************)
(* The snapshot that sessions/status answers with is never behind a digest *)
(* already sent (TurnRegistry.snapshot).                                   *)
(***************************************************************************)
THEOREM StatusNeverBehind == ASSUME Sound PROVE Spec => []StatusIsNewest
<1>1. FenceInv => StatusIsNewest
  BY Zenon DEF FenceInv, StampInv, Bounded, StatusIsNewest, Snapshot
<1> QED BY FenceAlways, <1>1, PTL
==============================================================================
