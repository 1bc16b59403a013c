-------------------------- MODULE EventStepProofs ---------------------------
(***************************************************************************)
(* What each kind of step of EventStream does to one client and to Inv of  *)
(* EventStreamInv, whatever the log does as long as no dead cursor comes   *)
(* back.                                                                   *)
(***************************************************************************)
EXTENDS EventWireProofs

-----------------------------------------------------------------------------
(* What each kind of step does to one client and its connection.           *)

LEMMA ConnFields ==
    /\ NoConn.open = FALSE
    /\ \A cn \in Conn : cn.open \in BOOLEAN /\ (cn.open <=> cn \in OpenConn)
    /\ \A cn \in Conn : ~ cn.open => cn = NoConn
    /\ \A cn \in OpenConn : cn.closed \in BOOLEAN /\ cn.head \in Seq(Item) /\ cn.queue \in Seq(Item)
  <1>1. NoConn.open = FALSE
    BY Zenon DEF NoConn
  <1>2. \A cn \in OpenConn : /\ cn.open = TRUE /\ cn.closed \in BOOLEAN
                             /\ cn.head \in Seq(Item) /\ cn.queue \in Seq(Item)
    BY Zenon DEF OpenConn
  <1>3. QED
    BY <1>1, <1>2, Zenon DEF Conn

LEMMA OpenWire ==
    ASSUME NEW cn \in OpenConn
    PROVE  IsWire(WireOf(cn))
  BY ConnFields, ConcatFacts, Zenon DEF WireOf

\* The log moved on without forgetting what is dead.
LEMMA LogStep ==
    ASSUME NEW L, NEW M, StaysDead(L, M), NEW cn \in Conn, NEW k \in ClientType,
           NEW p \in Nat, NEW ep \in Nat, NEW ls, NEW owed \in BOOLEAN,
           ClientOk(L, cn, k, p, ep, ls, owed)
    PROVE  ClientOk(M, cn, k, p, ep, ls, owed)
  <1>1. k.cursor.seq \in Nat
    BY Zenon DEF ClientType
  <1>2. DeadCursor(L, k, ep) => DeadCursor(M, k, ep)
    BY <1>1, Zenon DEF DeadCursor, StaysDead
  <1>3. ASSUME cn.open PROVE DeadWire(L, WireOf(cn), cn.closed, k)
                               => DeadWire(M, WireOf(cn), cn.closed, k)
    <2>1. IsWire(WireOf(cn))
      BY <1>3, ConnFields, OpenWire, Zenon
    <2>2. \A i \in 1..Len(WireOf(cn)) : WireOf(cn)[i].seq \in Nat
      BY <2>1, ItemFields, Zenon DEF IsWire
    <2>3. QED
      BY <2>2, Zenon DEF DeadWire, StaysDead
  <1>4. Settled(L, cn, k, ep, ls) => Settled(M, cn, k, ep, ls)
    BY <1>2, <1>3, Zenon DEF Settled
  <1>5. QED
    BY <1>4, Zenon DEF ClientOk

LEMMA DeadWireGrows ==
    ASSUME NEW L, NEW M, StaysDead(L, M), NEW w, IsWire(w), NEW k, NEW v, NEW item,
           Arrives(v, w, item), DeadWire(L, w, FALSE, k)
    PROVE  DeadWire(M, v, FALSE, k)
  <1> DEFINE n == Len(w)
  <1>1. /\ n \in Nat /\ Len(v) = n + 1 /\ \A i \in 1..n : v[i] = w[i]
        /\ \A i \in 1..n : w[i].seq \in Nat
    BY ItemFields, Zenon DEF IsWire, Arrives
  <1>2. Marked(w, k, n) /\ \A i \in 1..n : IsFrame(w[i]) => Dead(L, GLOBAL_DOMAIN, w[i].seq) \/ Marked(w, k, i)
    BY Zenon DEF DeadWire
  <1>3. Marked(v, k, n + 1)
    BY <1>1, <1>2 DEF Marked
  <1>4. \A i \in 1..n : Marked(w, k, i) => Marked(v, k, i)
    BY <1>1 DEF Marked
  <1>5. \A i \in 1..n : Dead(L, GLOBAL_DOMAIN, w[i].seq) => Dead(M, GLOBAL_DOMAIN, w[i].seq)
    BY <1>1, Zenon DEF StaysDead
  <1>6. \A i \in 1..(n + 1) : i \in 1..n \/ i = n + 1
    BY <1>1
  <1>7. \A i \in 1..n : IsFrame(v[i]) => Dead(M, GLOBAL_DOMAIN, v[i].seq) \/ Marked(v, k, i)
    BY <1>1, <1>2, <1>4, <1>5, Zenon
  <1>8. QED
    BY <1>1, <1>3, <1>6, <1>7, Zenon DEF DeadWire

LEMMA DeadWireCut ==
    ASSUME NEW L, NEW M, StaysDead(L, M), NEW w, IsWire(w), NEW k, NEW closed, NEW v,
           CutOff(v, w), DeadWire(L, w, closed, k)
    PROVE  DeadWire(M, v, TRUE, k)
  <1>1. PICK m \in 0..Len(w) : /\ Len(v) = m + 1
                               /\ \A i \in 1..m : v[i] = w[i]
                               /\ v[m + 1] = STOP
    BY Zenon DEF CutOff
  <1>2. m \in Nat /\ Len(w) \in Nat /\ \A i \in 1..m : i \in 1..Len(w) /\ w[i].seq \in Nat
    BY <1>1, ItemFields DEF IsWire
  <1>3. ~ IsFrame(v[m + 1])
    BY <1>1 DEF IsFrame, STOP, Control
  <1>4. \A i \in 1..m : Marked(w, k, i) => Marked(v, k, i)
    BY <1>1, <1>2 DEF Marked
  <1>5. \A i \in 1..m : IsFrame(w[i]) => Dead(L, GLOBAL_DOMAIN, w[i].seq) \/ Marked(w, k, i)
    BY <1>2, Zenon DEF DeadWire
  <1>6. \A i \in 1..m : IsFrame(v[i]) => Dead(M, GLOBAL_DOMAIN, v[i].seq) \/ Marked(v, k, i)
    BY <1>1, <1>2, <1>4, <1>5, Zenon DEF StaysDead
  <1>7. \A i \in 1..(m + 1) : i \in 1..m \/ i = m + 1
    BY <1>2
  <1>8. QED
    BY <1>1, <1>3, <1>6, <1>7, Zenon DEF DeadWire

\* _emit_directory_frame reaches one subscriber.
LEMMA FrameStep ==
    ASSUME NEW L, NEW M, StaysDead(L, M), NEW cn \in OpenConn, NEW k \in ClientType,
           NEW p \in Nat, NEW ep \in Nat, NEW ls, NEW owed \in BOOLEAN,
           NEW size \in Nat, size <= MaxFrameBytes,
           ClientOk(L, cn, k, p, ep, ls, owed)
    PROVE  LET dn == Put(cn, Frame(p + 1, size))
           IN dn \in OpenConn /\ ClientOk(M, dn, k, p + 1, ep, ls, owed)
  <1> DEFINE item == Frame(p + 1, size)
             dn == Put(cn, item)
             w == WireOf(cn)
             v == WireOf(dn)
  <1>1. item \in Item /\ item.size <= MaxFrameBytes
    BY DEF Item, Frame
  <1> HIDE DEF item
  <1>2. /\ dn \in OpenConn /\ dn.head = cn.head
        /\ \/ cn.closed /\ dn = cn
           \/ ~ cn.closed /\ ~ dn.closed /\ Arrives(v, w, item)
           \/ ~ cn.closed /\ dn.closed /\ CutOff(v, w)
    BY <1>1, PutEffect, Zenon
  <1>3. /\ cn.open /\ dn.open /\ cn.closed \in BOOLEAN /\ dn.closed \in BOOLEAN
        /\ cn \in Conn /\ IsWire(w)
    BY <1>2, ConnFields, OpenWire, Zenon DEF Conn
  <1> HIDE DEF dn
  <1>4. /\ ClientInv(k, p, ep) /\ WireInv(w, cn.closed, k, p, ep)
        /\ \A i \in 1..Len(dn.head) : dn.head[i] # STOP
        /\ owed \/ Settled(L, cn, k, ep, ls)
    BY <1>2, <1>3, Zenon DEF ClientOk
  <1>5. ClientInv(k, p + 1, ep)
    BY <1>4 DEF ClientInv, ClientType
  <1>6. /\ WireInv(v, dn.closed, k, p + 1, ep)
        /\ DeadWire(L, w, cn.closed, k) => DeadWire(M, v, dn.closed, k)
    <2>1. CASE cn.closed /\ dn = cn
      <3>1. WireInv(w, TRUE, k, p + 1, ep)
        <4>1. cn.closed = TRUE
          BY <1>3, <2>1, Zenon
        <4>2. WireInv(w, TRUE, k, p, ep)
          BY <1>4, <4>1, Zenon
        <4>3. p + 1 \in Nat /\ p <= p + 1
          OBVIOUS
        <4>4. QED
          BY <1>3, <4>2, <4>3, ClosedWireStays, Zenon
      <3>2. DeadWire(L, w, cn.closed, k) => DeadWire(M, w, cn.closed, k)
        <4>1. \A i \in 1..Len(w) : w[i].seq \in Nat
          BY <1>3, ItemFields, Zenon DEF IsWire
        <4>2. QED
          BY <4>1, Zenon DEF DeadWire, StaysDead
      <3>3. QED
        BY <2>1, <3>1, <3>2, Zenon
    <2>2. CASE ~ cn.closed /\ ~ dn.closed /\ Arrives(v, w, item)
      <3>0. cn.closed = FALSE /\ dn.closed = FALSE
        BY <1>3, <2>2, Zenon
      <3> HIDE DEF v, w
      <3>1. WireInv(v, FALSE, k, p + 1, ep)
        BY <1>3, <1>4, <2>2, <3>0, FrameArrives, Zenon DEF item
      <3>2. DeadWire(L, w, FALSE, k) => DeadWire(M, v, FALSE, k)
        BY <1>3, <2>2, DeadWireGrows, Zenon
      <3>3. QED
        BY <3>0, <3>1, <3>2, Zenon
    <2>3. CASE ~ cn.closed /\ dn.closed /\ CutOff(v, w)
      <3>0. cn.closed = FALSE /\ dn.closed = TRUE
        BY <1>3, <2>3, Zenon
      <3> HIDE DEF v, w
      <3>1. p + 1 \in Nat /\ p <= p + 1 /\ FALSE \in BOOLEAN
        OBVIOUS
      <3>2. WireInv(v, TRUE, k, p + 1, ep)
        BY <1>3, <1>4, <2>3, <3>0, <3>1, WireCutOff, Zenon
      <3>3. DeadWire(L, w, FALSE, k) => DeadWire(M, v, TRUE, k)
        BY <1>3, <2>3, DeadWireCut, Zenon
      <3>4. QED
        BY <3>0, <3>2, <3>3, Zenon
    <2>4. QED
      BY <1>2, <2>1, <2>2, <2>3, Zenon
  <1>7. Settled(L, cn, k, ep, ls) => Settled(M, dn, k, ep, ls)
    <2>1. k.cursor.seq \in Nat
      BY Zenon DEF ClientType
    <2>2. DeadCursor(L, k, ep) => DeadCursor(M, k, ep)
      BY <2>1, Zenon DEF DeadCursor, StaysDead
    <2>3. QED
      BY <1>3, <1>6, <2>2, Zenon DEF Settled
  <1>8. ClientOk(M, dn, k, p + 1, ep, ls, owed)
    BY <1>4, <1>5, <1>6, <1>7, Zenon DEF ClientOk
  <1>9. QED
    BY <1>2, <1>8, Zenon DEF dn, item

\* _notify_upstream_loss reaches one client, whether it is connected or not:
\* whatever it owed, it is settled for any count of losses.
LEMMA NotifyStep ==
    ASSUME NEW L, NEW M, NEW cn \in Conn, NEW k \in ClientType,
           NEW p \in Nat, \A s \in 1..p : Dead(M, GLOBAL_DOMAIN, s), NEW ep \in Nat, NEW ls, NEW ns,
           NEW owed, NEW owes,
           ClientOk(L, cn, k, p, ep, ls, owed)
    PROVE  LET dn == IF cn.open THEN Put(cn, RESYNC) ELSE cn
           IN dn \in Conn /\ (dn.open <=> cn.open) /\ ClientOk(M, dn, k, p, ep, ns, owes)
  <1>1. DeadCursor(M, k, ep)
    BY Zenon DEF ClientOk, ClientInv, DeadCursor
  <1>2. CASE ~ cn.open
    BY <1>1, <1>2, Zenon DEF ClientOk, Settled
  <1>3. CASE cn.open
    <2> DEFINE dn == Put(cn, RESYNC)
               w == WireOf(cn)
               v == WireOf(dn)
    <2>1. RESYNC \in Item /\ RESYNC.size <= MaxFrameBytes
      BY FrameSizeAssumption DEF Item, RESYNC, Control
    <2>2. cn \in OpenConn
      BY <1>3, ConnFields, Zenon
    <2>3. /\ dn \in OpenConn /\ dn.head = cn.head
          /\ \/ cn.closed /\ dn = cn
             \/ ~ cn.closed /\ ~ dn.closed /\ Arrives(v, w, RESYNC)
             \/ ~ cn.closed /\ dn.closed /\ CutOff(v, w)
      BY <2>1, <2>2, PutEffect, Zenon
    <2>4. /\ dn.open /\ cn.closed \in BOOLEAN /\ dn.closed \in BOOLEAN
          /\ dn \in Conn /\ IsWire(w) /\ IsWire(v)
      BY <2>2, <2>3, ConnFields, OpenWire, Zenon DEF Conn
    <2> HIDE DEF dn
    <2>5. /\ ClientInv(k, p, ep) /\ WireInv(w, cn.closed, k, p, ep)
          /\ \A i \in 1..Len(dn.head) : dn.head[i] # STOP
      BY <1>3, <2>3, Zenon DEF ClientOk
    <2> HIDE DEF v, w
    <2>6. WireInv(v, dn.closed, k, p, ep) /\ (dn.closed \/ Marked(v, k, Len(v)))
      <3>1. CASE cn.closed /\ dn = cn
        BY <2>5, <3>1, Zenon DEF v, w
      <3>2. CASE ~ cn.closed /\ ~ dn.closed /\ Arrives(v, w, RESYNC)
        <4>1. cn.closed = FALSE /\ dn.closed = FALSE
          BY <2>4, <3>2, Zenon
        <4>2. QED
          BY <2>4, <2>5, <3>2, <4>1, ResyncArrives, Zenon
      <3>3. CASE ~ cn.closed /\ dn.closed /\ CutOff(v, w)
        <4>1. cn.closed = FALSE /\ dn.closed = TRUE /\ p <= p /\ FALSE \in BOOLEAN
          BY <2>4, <3>3
        <4>2. WireInv(v, TRUE, k, p, ep)
          BY <2>4, <2>5, <3>3, <4>1, WireCutOff, Zenon
        <4>3. QED
          BY <4>1, <4>2, Zenon
      <3>4. QED
        BY <2>3, <3>1, <3>2, <3>3, Zenon
    <2>7. \A i \in 1..Len(v) : IsFrame(v[i]) => Dead(M, GLOBAL_DOMAIN, v[i].seq)
      BY <2>6, Zenon DEF WireInv, Consecutive
    <2>8. DeadWire(M, v, dn.closed, k)
      BY <2>6, <2>7, Zenon DEF DeadWire
    <2>9. ClientOk(M, dn, k, p, ep, ns, owes)
      BY <1>1, <2>5, <2>6, <2>8, Zenon DEF ClientOk, Settled, v
    <2>10. QED
      BY <1>3, <2>4, <2>9, Zenon DEF dn
  <1>4. QED
    BY <1>2, <1>3, ConnFields, Zenon

\* generate() hands over the first item on the wire.
LEMMA DeliverStep ==
    ASSUME NEW L, NEW cn \in OpenConn, NEW dn \in OpenConn, NEW k \in ClientType,
           NEW p \in Nat, epoch \in Nat \ {0}, NEW ls, NEW owed,
           dn.closed = cn.closed, Delivered(WireOf(dn), WireOf(cn)),
           WireOf(cn)[1] # STOP, \A i \in 1..Len(dn.head) : dn.head[i] # STOP,
           ClientOk(L, cn, k, p, epoch, ls, owed)
    PROVE  LET j == Received(k, WireOf(cn)[1])
           IN /\ j \in ClientType /\ ClientOk(L, dn, j, p, epoch, ls, owed)
              /\ k.must_align => j.must_align
              /\ j.aligned_in = k.aligned_in
              /\ \/ j.covered = k.covered
                 \/ /\ j.covered \in 1..p /\ j.must_align = k.must_align
                    /\ k.must_align \/ (k.aligned_in = epoch /\ j.covered = k.covered + 1)
  <1> DEFINE w == WireOf(cn)
             v == WireOf(dn)
             j == Received(k, w[1])
  <1>1. /\ cn.open /\ dn.open /\ cn.closed \in BOOLEAN /\ IsWire(w) /\ IsWire(v)
        /\ Len(v) \in Nat /\ Len(w) = Len(v) + 1 /\ w[1] \in Item
    BY ConnFields, OpenWire DEF IsWire, Delivered, Conn
  <1>2. ClientInv(k, p, epoch) /\ WireInv(w, cn.closed, k, p, epoch)
    BY <1>1, Zenon DEF ClientOk
  <1>3. w[1] # STOP /\ Delivered(v, w) /\ j = Received(k, w[1])
    BY Zenon
  <1> HIDE DEF v, w, j
  <1>4. /\ j \in ClientType /\ ClientInv(j, p, epoch) /\ WireInv(v, cn.closed, j, p, epoch)
        /\ ~ j.must_align => \A i \in 1..Len(v) : Marked(w, k, i + 1) => Marked(v, j, i)
        /\ k.must_align => j.must_align
        /\ \/ j.covered = k.covered
           \/ /\ j.covered \in 1..p /\ j.must_align = k.must_align
              /\ k.must_align \/ (k.aligned_in = epoch /\ j.covered = k.covered + 1)
    BY <1>1, <1>2, <1>3, ItemDelivered
  <1>5. /\ j.aligned_in = k.aligned_in /\ j.loss_seen = k.loss_seen
        /\ IsFrame(w[1]) => j.cursor = [epoch |-> epoch, seq |-> w[1].seq]
        /\ ~ IsFrame(w[1]) => j.cursor = k.cursor /\ j.must_align = (k.must_align \/ Marker(w[1], k))
    BY <1>1, <1>3, ReceivedFields, Zenon
  <1>6. IsFrame(w[1]) => ~ Marker(w[1], k)
    BY Zenon DEF IsFrame, Marker
  <1>7. Marked(w, k, 1) => Marker(w[1], k)
    BY DEF Marked
  <1>8. ASSUME ~ j.must_align, DeadCursor(L, k, epoch), DeadWire(L, w, cn.closed, k)
        PROVE  DeadCursor(L, j, epoch) /\ DeadWire(L, v, dn.closed, j)
    <2>1. ~ Marker(w[1], k)
      BY <1>5, <1>6, <1>8, Zenon
    <2>2. IsFrame(w[1]) => Dead(L, GLOBAL_DOMAIN, w[1].seq)
      BY <1>1, <1>7, <1>8, <2>1 DEF DeadWire
    <2>3. DeadCursor(L, j, epoch)
      BY <1>5, <1>8, <2>2 DEF DeadCursor
    <2>a. cn.closed \/ Marked(w, k, Len(v) + 1)
      BY <1>1, <1>8, Zenon DEF DeadWire
    <2>b. Len(v) = 0 \/ Len(v) \in 1..Len(v)
      BY <1>1
    <2>4. cn.closed \/ (Len(v) \in 1..Len(v) /\ Marked(w, k, Len(v) + 1))
      BY <1>7, <2>1, <2>a, <2>b
    <2>5. dn.closed \/ Marked(v, j, Len(v))
      BY <1>4, <1>8, <2>4, Zenon
    <2>6. ASSUME NEW i \in 1..Len(v), IsFrame(v[i]) PROVE Dead(L, GLOBAL_DOMAIN, v[i].seq) \/ Marked(v, j, i)
      <3>1. i + 1 \in 1..Len(w) /\ v[i] = w[i + 1]
        BY <1>1, <1>3 DEF Delivered
      <3>2. Dead(L, GLOBAL_DOMAIN, w[i + 1].seq) \/ Marked(w, k, i + 1)
        BY <1>8, <2>6, <3>1, Zenon DEF DeadWire
      <3>3. QED
        BY <1>4, <1>8, <3>1, <3>2, Zenon
    <2>7. QED
      BY <2>3, <2>5, <2>6, Zenon DEF DeadWire
  <1>9. Settled(L, cn, k, epoch, ls) => Settled(L, dn, j, epoch, ls)
    BY <1>1, <1>4, <1>5, <1>8, Zenon DEF Settled, v, w
  <1>10. ClientOk(L, dn, j, p, epoch, ls, owed)
    BY <1>1, <1>4, <1>9, Zenon DEF ClientOk, v
  <1>11. QED
    BY <1>4, <1>5, <1>10, Zenon DEF j, w

\* The connection ends.
LEMMA DropStep ==
    ASSUME NEW L, NEW cn \in Conn, cn.open, NEW k, NEW p, NEW ep, NEW ls, NEW owed,
           ClientOk(L, cn, k, p, ep, ls, owed)
    PROVE  ClientOk(L, NoConn, k, p, ep, ls, owed)
  BY ConnFields, Zenon DEF ClientOk, Settled

\* The app refetches everything.
LEMMA AlignStep ==
    ASSUME NEW L, NEW cn \in Conn, NEW k \in ClientType, NEW p \in Nat, NEW ep \in Nat,
           NEW ls \in Nat, NEW n \in Nat, ls <= n, NEW owed, ClientOk(L, cn, k, p, ep, ls, owed)
    PROVE  LET j == [k EXCEPT !.must_align = FALSE, !.covered = p,
                              !.aligned_in = ep, !.loss_seen = n]
           IN j \in ClientType /\ ClientOk(L, cn, j, p, ep, ls, owed)
  <1> DEFINE j == [k EXCEPT !.must_align = FALSE, !.covered = p,
                            !.aligned_in = ep, !.loss_seen = n]
  <1>1. /\ j \in ClientType /\ j.loss_seen = n /\ j.cursor = k.cursor
        /\ j.aligned_in = ep /\ j.covered = p
    BY Zenon DEF ClientType
  <1>2. ClientInv(k, p, ep)
    BY Zenon DEF ClientOk
  <1> HIDE DEF j
  <1>3. ClientInv(j, p, ep)
    BY <1>1, <1>2 DEF ClientInv, ClientType
  <1>4. cn.open => WireInv(WireOf(cn), cn.closed, j, p, ep)
    <2> SUFFICES ASSUME cn.open PROVE WireInv(WireOf(cn), cn.closed, j, p, ep)
      BY Zenon
    <2>1. /\ IsWire(WireOf(cn)) /\ cn.closed \in BOOLEAN
          /\ WireInv(WireOf(cn), cn.closed, k, p, ep)
      BY ConnFields, OpenWire, Zenon DEF ClientOk
    <2>2. QED
      BY <1>1, <1>2, <2>1, AlignedWire, Zenon
  <1>5. j.loss_seen >= ls
    BY <1>1
  <1>6. ClientOk(L, cn, j, p, ep, ls, owed)
    BY <1>3, <1>4, <1>5, Zenon DEF ClientOk, Settled
  <1>7. QED
    BY <1>1, <1>6, Zenon DEF j

\* The process restarts: every cursor is of an older epoch.
LEMMA RestartStep ==
    ASSUME NEW L, NEW M, NEW cn, NEW k \in ClientType, NEW p \in Nat, NEW ep \in Nat,
           NEW ls, NEW owed, NEW owes, ClientOk(L, cn, k, p, ep, ls, owed)
    PROVE  ClientOk(M, NoConn, k, 0, ep + 1, ls, owes)
  <1>1. /\ k.aligned_in \in Nat /\ k.cursor.epoch \in Nat
        /\ k.aligned_in <= ep /\ k.cursor.epoch <= ep
    BY Zenon DEF ClientOk, ClientInv, ClientType
  <1>2. k.aligned_in <= ep + 1 /\ k.aligned_in # ep + 1
        /\ k.cursor.epoch <= ep + 1 /\ k.cursor.epoch # ep + 1
    BY <1>1
  <1>3. QED
    BY <1>2, ConnFields, Zenon DEF ClientOk, ClientInv, Settled, DeadCursor

-----------------------------------------------------------------------------
(* Steps that leave the log alone.                                         *)

LEMMA InvFields ==
    ASSUME Inv
    PROVE  /\ now \in Nat /\ epoch \in Nat \ {0} /\ epoch \in Nat
           /\ losses \in Nat /\ due \in Nat /\ due <= losses
           /\ Owed \in BOOLEAN /\ LogInv(log)
           /\ published \in Nat /\ log.last_seq[GLOBAL_DOMAIN] = published
           /\ \A c \in Clients :
                /\ conn[c] \in Conn /\ client[c] \in ClientType
                /\ ClientOk(log, conn[c], client[c], published, epoch, due, Owed)
  <1>1. LogInv(log) /\ TypeInv
    BY Zenon DEF Inv
  <1>2. published \in Nat /\ log.last_seq[GLOBAL_DOMAIN] = published
    BY <1>1, DomainAssumption, Zenon DEF LogInv, LogType, published
  <1>3. QED
    BY <1>1, <1>2, Zenon DEF Inv, TypeInv, Owed

\* Only the log moves, or nothing that a client sees.
LEMMA LogInvStep ==
    ASSUME Inv, UNCHANGED <<epoch, conn, client, losses, due>>, now' \in Nat,
           LogInv(log'), StaysDead(log, log'), log'.created = log.created,
           log'.last_seq = log.last_seq,
           connected' \in BOOLEAN, ever_connected' \in BOOLEAN, loss_notified' \in BOOLEAN,
           connected' => ever_connected' /\ ~ loss_notified', Owed => Owed'
    PROVE  Inv'
  <1>1. published' = published /\ published \in Nat /\ epoch \in Nat
    BY InvFields, Zenon DEF published
  <1>2. Owed' \in BOOLEAN
    BY Zenon DEF Owed
  <1>3. ASSUME NEW c \in Clients
        PROVE  ClientOk(log', conn[c], client[c], published, epoch, due, Owed')
    <2>1. /\ conn[c] \in Conn /\ client[c] \in ClientType /\ Owed \in BOOLEAN
          /\ ClientOk(log, conn[c], client[c], published, epoch, due, Owed)
      BY InvFields, Zenon
    <2>2. ClientOk(log, conn[c], client[c], published, epoch, due, Owed')
      BY <2>1, Zenon DEF ClientOk
    <2>3. QED
      BY <1>1, <1>2, <2>1, <2>2, LogStep
  <1>4. (\A c \in Clients : ClientOk(log, conn[c], client[c], published, epoch, due, Owed))'
    BY <1>1, <1>3, Zenon
  <1>5. TypeInv'
    BY Zenon DEF Inv, TypeInv
  <1>6. (published > 0 => GLOBAL_DOMAIN \in log.created)'
    BY <1>1, Zenon DEF Inv
  <1>7. QED
    BY <1>4, <1>5, <1>6, Zenon DEF Inv

\* A step of one client and its connection.
LEMMA ClientInvStep ==
    ASSUME Inv, NEW c \in Clients, NEW dn \in Conn, NEW j \in ClientType,
           conn' = [conn EXCEPT ![c] = dn], client' = [client EXCEPT ![c] = j],
           UNCHANGED <<now, epoch, connected, ever_connected, loss_notified, losses, due>>,
           LogInv(log'), StaysDead(log, log'), log'.created = log.created,
           log'.last_seq = log.last_seq,
           ClientOk(log', dn, j, published, epoch, due, Owed)
    PROVE  Inv'
  <1>1. published' = published /\ published \in Nat /\ epoch \in Nat /\ Owed' = Owed
    BY InvFields, Zenon DEF published, Owed
  <1>2. conn \in [Clients -> Conn] /\ client \in [Clients -> ClientType]
    BY Zenon DEF Inv, TypeInv
  <1>3. TypeInv'
    BY <1>2, Zenon DEF Inv, TypeInv
  <1>4. ASSUME NEW x \in Clients
        PROVE  ClientOk(log', conn'[x], client'[x], published, epoch, due, Owed)
    <2>1. CASE x = c
      BY <1>2, <2>1, Zenon
    <2>2. CASE x # c
      <3>1. conn'[x] = conn[x] /\ client'[x] = client[x]
        BY <1>2, <2>2, Zenon
      <3>2. /\ conn[x] \in Conn /\ client[x] \in ClientType /\ Owed \in BOOLEAN
            /\ ClientOk(log, conn[x], client[x], published, epoch, due, Owed)
        BY InvFields, Zenon
      <3>3. ClientOk(log', conn[x], client[x], published, epoch, due, Owed)
        BY <1>1, <3>2, LogStep
      <3>4. QED
        BY <3>1, <3>3, Zenon
    <2>3. QED
      BY <2>1, <2>2, Zenon
  <1>5. (\A x \in Clients : ClientOk(log, conn[x], client[x], published, epoch, due, Owed))'
    BY <1>1, <1>4, Zenon
  <1>6. (published > 0 => GLOBAL_DOMAIN \in log.created)'
    BY <1>1, Zenon DEF Inv
  <1>7. (connected => ever_connected /\ ~ loss_notified)'
    BY Zenon DEF Inv
  <1>8. QED
    BY <1>3, <1>5, <1>6, <1>7, Zenon DEF Inv

LEMMA SameLogKeeps ==
    ASSUME Inv, log' = log
    PROVE  /\ LogInv(log') /\ StaysDead(log, log') /\ log'.created = log.created
           /\ log'.last_seq = log.last_seq
  BY Zenon DEF Inv, StaysDead

LEMMA DeliverCases ==
    ASSUME Inv, NEW c \in Clients, Deliver(c)
    PROVE  /\ conn[c] \in OpenConn /\ conn[c].open
           /\ UNCHANGED <<log, now, epoch, connected, ever_connected, loss_notified, losses, due>>
           /\ \/ \E dn : Taken(c, dn)
              \/ conn' = [conn EXCEPT ![c] = NoConn] /\ client' = client
  <1> DEFINE cn == conn[c]
  <1>1. /\ cn.open /\ conn \in [Clients -> Conn] /\ cn \in OpenConn
        /\ client \in [Clients -> ClientType]
        /\ \A i \in 1..Len(cn.head) : cn.head[i] # STOP
    BY ConnFields, Zenon DEF Deliver, Inv, TypeInv, ClientOk
  <1>2. UNCHANGED <<log, now, epoch, connected, ever_connected, loss_notified, losses, due>>
    BY Zenon DEF Deliver, hubVars
  <1>3. CASE /\ cn.head # <<>>
             /\ client' = [client EXCEPT ![c] = Received(client[c], Head(cn.head))]
             /\ conn' = [conn EXCEPT ![c].head = Tail(cn.head)]
    <2> DEFINE dn == [cn EXCEPT !.head = Tail(cn.head)]
    <2>1. conn' = [conn EXCEPT ![c] = dn]
      BY <1>3, Zenon
    <2> HIDE DEF cn
    <2>2. /\ dn \in OpenConn /\ dn.closed = cn.closed
          /\ Delivered(WireOf(dn), WireOf(cn)) /\ WireOf(cn)[1] = Head(cn.head)
          /\ Len(cn.head) \in Nat \ {0} /\ Len(dn.head) = Len(cn.head) - 1
          /\ \A i \in 1..Len(dn.head) : dn.head[i] = cn.head[i + 1]
          /\ Head(cn.head) = cn.head[1]
      BY <1>1, <1>3, TakeFromPlan, Zenon
    <2> HIDE DEF dn
    <2>3. WireOf(cn)[1] # STOP /\ \A i \in 1..Len(dn.head) : dn.head[i] # STOP
      <3>1. 1 \in 1..Len(cn.head) /\ \A i \in 1..Len(dn.head) : i + 1 \in 1..Len(cn.head)
        BY <2>2
      <3>2. QED
        BY <1>1, <2>2, <3>1, Zenon
    <2>4. Taken(c, dn)
      BY <1>3, <2>1, <2>2, <2>3, Zenon DEF Taken, cn
    <2>5. QED
      BY <1>1, <1>2, <2>4, Zenon DEF cn
  <1>4. CASE /\ cn.head = <<>> /\ cn.queue # <<>> /\ Head(cn.queue) # STOP
             /\ client' = [client EXCEPT ![c] = Received(client[c], Head(cn.queue))]
             /\ conn' = [conn EXCEPT ![c].queue = Tail(cn.queue)]
    <2> DEFINE dn == [cn EXCEPT !.queue = Tail(cn.queue)]
    <2>1. conn' = [conn EXCEPT ![c] = dn]
      BY <1>4, Zenon
    <2> HIDE DEF cn
    <2>2. /\ dn \in OpenConn /\ dn.closed = cn.closed /\ dn.head = <<>>
          /\ Delivered(WireOf(dn), WireOf(cn)) /\ WireOf(cn)[1] = Head(cn.queue)
      BY <1>1, <1>4, TakeFromQueue, Zenon
    <2> HIDE DEF dn
    <2>3. \A i \in 1..Len(dn.head) : dn.head[i] # STOP
      BY <2>2
    <2>4. Taken(c, dn)
      BY <1>4, <2>1, <2>2, <2>3, Zenon DEF Taken, cn
    <2>5. QED
      BY <1>1, <1>2, <2>4, Zenon DEF cn
  <1>5. CASE conn' = [conn EXCEPT ![c] = NoConn] /\ UNCHANGED client
    BY <1>1, <1>2, <1>5, Zenon
  <1>6. QED
    BY <1>3, <1>4, <1>5, Zenon DEF Deliver

LEMMA DeliverInv ==
    ASSUME Inv, NEW c \in Clients, Deliver(c)
    PROVE  Inv'
  <1> DEFINE cn == conn[c]
             k == client[c]
  <1>1. /\ cn \in OpenConn /\ cn.open
        /\ UNCHANGED <<log, now, epoch, connected, ever_connected, loss_notified, losses, due>>
        /\ \/ \E dn : Taken(c, dn)
           \/ conn' = [conn EXCEPT ![c] = NoConn] /\ client' = client
    BY DeliverCases, Zenon
  <1>2. /\ LogInv(log') /\ StaysDead(log, log') /\ log'.created = log.created
        /\ log'.last_seq = log.last_seq
    BY <1>1, SameLogKeeps, Zenon
  <1>3. /\ ClientOk(log, cn, k, published, epoch, due, Owed) /\ k \in ClientType
        /\ client \in [Clients -> ClientType] /\ epoch \in Nat \ {0} /\ published \in Nat
    BY InvFields, Zenon DEF Inv, TypeInv
  <1>4. CASE \E dn : Taken(c, dn)
    <2>1. PICK dn : Taken(c, dn)
      BY <1>4, Zenon
    <2> DEFINE j == Received(k, WireOf(cn)[1])
    <2>2. /\ dn \in OpenConn /\ dn.closed = cn.closed
          /\ Delivered(WireOf(dn), WireOf(cn)) /\ WireOf(cn)[1] # STOP
          /\ \A i \in 1..Len(dn.head) : dn.head[i] # STOP
          /\ conn' = [conn EXCEPT ![c] = dn] /\ client' = [client EXCEPT ![c] = j]
      BY <2>1, Zenon DEF Taken
    <2> HIDE DEF cn, k
    <2>3. j \in ClientType /\ ClientOk(log, dn, j, published, epoch, due, Owed)
      BY <1>1, <1>3, <2>2, DeliverStep, Zenon
    <2> HIDE DEF j
    <2>4. dn \in Conn
      BY <2>2, Zenon DEF Conn
    <2>5. ClientOk(log', dn, j, published, epoch, due, Owed)
      BY <1>1, <2>3, Zenon
    <2>6. QED
      BY <1>1, <1>2, <2>2, <2>3, <2>4, <2>5, ClientInvStep, Zenon
  <1>5. CASE conn' = [conn EXCEPT ![c] = NoConn] /\ client' = client
    <2>1. cn \in Conn /\ NoConn \in Conn /\ client' = [client EXCEPT ![c] = k]
      BY <1>1, <1>3, <1>5, Zenon DEF Conn
    <2> HIDE DEF cn, k
    <2>2. ClientOk(log', NoConn, k, published, epoch, due, Owed)
      BY <1>1, <1>3, <2>1, DropStep, Zenon
    <2>3. QED
      BY <1>1, <1>2, <1>3, <1>5, <2>1, <2>2, ClientInvStep, Zenon
  <1>6. QED
    BY <1>1, <1>4, <1>5, Zenon

LEMMA DropInv ==
    ASSUME Inv, NEW c \in Clients, Drop(c)
    PROVE  Inv'
  <1> DEFINE cn == conn[c]
             k == client[c]
  <1>1. /\ cn.open /\ conn' = [conn EXCEPT ![c] = NoConn] /\ client' = client /\ log' = log
        /\ UNCHANGED <<now, epoch, connected, ever_connected, loss_notified, losses, due>>
    BY Zenon DEF Drop, hubVars
  <1>2. /\ LogInv(log') /\ StaysDead(log, log') /\ log'.created = log.created
        /\ log'.last_seq = log.last_seq
    BY <1>1, SameLogKeeps, Zenon
  <1>3. /\ ClientOk(log, cn, k, published, epoch, due, Owed) /\ k \in ClientType
        /\ client \in [Clients -> ClientType] /\ cn \in Conn /\ NoConn \in Conn
    BY InvFields, Zenon DEF Inv, TypeInv, Conn
  <1>4. client' = [client EXCEPT ![c] = k]
    BY <1>1, <1>3, Zenon
  <1> HIDE DEF cn, k
  <1>5. ClientOk(log', NoConn, k, published, epoch, due, Owed)
    BY <1>1, <1>3, DropStep, Zenon
  <1>6. QED
    BY <1>1, <1>2, <1>3, <1>4, <1>5, ClientInvStep, Zenon

LEMMA AlignInv ==
    ASSUME Inv, NEW c \in Clients, Align(c)
    PROVE  Inv'
  <1> DEFINE cn == conn[c]
             k == client[c]
             j == [k EXCEPT !.must_align = FALSE, !.covered = published,
                            !.aligned_in = epoch, !.loss_seen = losses]
  <1>1. /\ conn' = conn /\ client' = [client EXCEPT ![c] = j] /\ log' = log
        /\ UNCHANGED <<now, epoch, connected, ever_connected, loss_notified, losses, due>>
    BY Zenon DEF Align, hubVars
  <1>2. /\ LogInv(log') /\ StaysDead(log, log') /\ log'.created = log.created
        /\ log'.last_seq = log.last_seq
    BY <1>1, SameLogKeeps, Zenon
  <1>3. /\ ClientOk(log, cn, k, published, epoch, due, Owed) /\ k \in ClientType
        /\ conn \in [Clients -> Conn] /\ cn \in Conn
        /\ epoch \in Nat /\ published \in Nat /\ losses \in Nat /\ due \in Nat /\ due <= losses
    BY InvFields, Zenon DEF Inv, TypeInv, Conn
  <1>4. conn' = [conn EXCEPT ![c] = cn]
    BY <1>1, <1>3, Zenon
  <1> HIDE DEF cn, k
  <1>5. j \in ClientType /\ ClientOk(log, cn, j, published, epoch, due, Owed)
    BY <1>3, AlignStep, Zenon
  <1> HIDE DEF j
  <1>6. ClientOk(log', cn, j, published, epoch, due, Owed)
    BY <1>1, <1>5, Zenon
  <1>7. QED
    BY <1>1, <1>2, <1>3, <1>4, <1>5, <1>6, ClientInvStep, Zenon

\* run() is cancelled: from now on the loss is owed.
LEMMA CancelInv ==
    ASSUME Inv, RunCancelled
    PROVE  Inv'
  <1>1. /\ UNCHANGED <<log, now, epoch, ever_connected, loss_notified, conn, client>>
        /\ connected' = FALSE /\ losses' = losses + 1 /\ due' = losses + 1
    BY Zenon DEF RunCancelled, Lose
  <1>2. ever_connected /\ ~ loss_notified
    BY Zenon DEF Inv, RunCancelled
  <1>3. Owed'
    BY <1>1, <1>2, Zenon DEF Owed
  <1>4. published' = published
    BY <1>1, Zenon DEF published
  <1>5. (\A c \in Clients : ClientOk(log, conn[c], client[c], published, epoch, due, Owed))'
    BY <1>1, <1>3, <1>4, InvFields, Zenon DEF ClientOk
  <1>6. TypeInv'
    <2>1. losses' \in Nat /\ due' \in Nat /\ due' <= losses'
      BY <1>1, InvFields
    <2>2. connected' \in BOOLEAN
      BY <1>1, Zenon
    <2>3. QED
      BY <1>1, <2>1, <2>2, Zenon DEF Inv, TypeInv
  <1>7. QED
    BY <1>1, <1>4, <1>5, <1>6, Zenon DEF Inv

\* Events go by unread: those of a quiet outage are due to nobody, and of the
\* others the notice is owed.
LEMMA MissesInv ==
    ASSUME Inv, UpstreamMisses
    PROVE  Inv'
  <1>1. /\ UNCHANGED <<log, now, epoch, connected, ever_connected, loss_notified, conn, client>>
        /\ losses' = losses + 1
        /\ due' = due \/ due' = losses + 1
    BY Zenon DEF UpstreamMisses, hubVars
  <1>2. due' = due \/ Owed
    BY Zenon DEF UpstreamMisses, Quiet, Owed
  <1>3. Owed' = Owed /\ published' = published
    BY <1>1, Zenon DEF Owed, published
  <1>4. (\A c \in Clients : ClientOk(log, conn[c], client[c], published, epoch, due, Owed))'
    BY <1>1, <1>2, <1>3, InvFields, Zenon DEF ClientOk
  <1>5. TypeInv'
    <2>1. losses' \in Nat /\ due' \in Nat /\ due' <= losses'
      BY <1>1, InvFields
    <2>2. QED
      BY <1>1, <2>1, Zenon DEF Inv, TypeInv
  <1>6. QED
    BY <1>1, <1>3, <1>4, <1>5, Zenon DEF Inv

-----------------------------------------------------------------------------
(* What the invariant says of a client that has not been told.             *)

LEMMA UntoldWire ==
    ASSUME Inv, NEW c \in Clients, ~ Told(c)
    PROVE  /\ ~ client[c].must_align /\ conn[c].open /\ ~ conn[c].closed
           /\ DOMAIN Wire(c) = 1..Len(Wire(c)) /\ Wire(c) = WireOf(conn[c])
           /\ ~ Marked(Wire(c), client[c], Len(Wire(c)))
  <1> DEFINE w == Wire(c)
             k == client[c]
  <1>1. ~ k.must_align /\ conn[c].open /\ ~ conn[c].closed
    BY Zenon DEF Told
  <1>2. conn[c] \in OpenConn /\ w = WireOf(conn[c])
    BY <1>1, InvFields, ConnFields, Zenon DEF Wire, WireOf
  <1>3. IsWire(w) /\ w \in Seq(Item)
    BY <1>2, OpenWire, ConnFields, ConcatFacts DEF WireOf
  <1> HIDE DEF w
  <1>4. DOMAIN w = 1..Len(w)
    BY <1>3
  <1>5. ASSUME Marked(w, k, Len(w)) PROVE FALSE
    <2>1. PICK i \in 1..Len(w) : Marker(w[i], k)
      BY <1>5, Zenon DEF Marked
    <2>2. w[i] \in Item
      BY <1>3, Zenon DEF IsWire
    <2>3. w[i] = RESYNC \/ (w[i] = META /\ k.cursor = NoCursor)
      BY <2>1, <2>2, ItemFields, Zenon DEF Marker
    <2>4. OnWire(c, RESYNC) \/ (OnWire(c, META) /\ k.cursor = NoCursor)
      BY <1>4, <2>3, Zenon DEF OnWire, w
    <2>5. QED
      BY <2>4, Zenon DEF Told
  <1>6. QED
    BY <1>1, <1>2, <1>4, <1>5, Zenon DEF w

LEMMA InvNothingFallsInTheGap ==
    Inv => NothingFallsInTheGap
  <1> SUFFICES ASSUME Inv, NEW c \in Clients, ~ Told(c), NEW n \in (client[c].covered + 1)..published
               PROVE  n \in WireSeqs(c)
    BY Zenon DEF NothingFallsInTheGap
  <1> DEFINE w == Wire(c)
             k == client[c]
  <1>1. /\ ~ k.must_align /\ conn[c].open /\ ~ conn[c].closed
        /\ DOMAIN w = 1..Len(w) /\ w = WireOf(conn[c]) /\ ~ Marked(w, k, Len(w))
    BY UntoldWire, Zenon
  <1>2. Complete(w, k, published, epoch)
    BY <1>1, InvFields, Zenon DEF ClientOk, WireInv
  <1>3. Carries(w, n, Len(w))
    BY <1>1, <1>2, Zenon DEF Complete
  <1>4. QED
    BY <1>1, <1>3, Zenon DEF Carries, WireSeqs, IsFrame

LEMMA InvLossIsSignalled ==
    Inv => LossIsSignalled
  <1> SUFFICES ASSUME Inv, connected \/ loss_notified, NEW c \in Clients, ~ Told(c)
               PROVE  client[c].loss_seen >= due
    BY Zenon DEF LossIsSignalled
  <1>1. /\ ~ client[c].must_align /\ conn[c].open /\ ~ conn[c].closed
        /\ ~ Marked(WireOf(conn[c]), client[c], Len(WireOf(conn[c])))
    BY UntoldWire, Zenon
  <1>2. Settled(log, conn[c], client[c], epoch, due)
    BY InvFields, Zenon DEF Owed, ClientOk
  <1>3. QED
    BY <1>1, <1>2, Zenon DEF Settled, DeadWire
=============================================================================
