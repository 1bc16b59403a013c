-------------------------- MODULE EventWireProofs ---------------------------
(***************************************************************************)
(* Lemmas about the wires of EventStream: what an item that arrives, is    *)
(* delivered or is dropped by an overflow does to a wire, and what the      *)
(* operations on a connection do to its wire.                              *)
(***************************************************************************)
EXTENDS EventStreamInv, TLAPS

-----------------------------------------------------------------------------
(* How a wire changes: an item arrives, the first one is delivered, or an  *)
(* overflow cuts it off and puts STOP at the end.                          *)

LEMMA ItemFields ==
    ASSUME NEW x \in Item
    PROVE  /\ x.seq \in Nat /\ x.size \in Nat
           /\ x.kind \in {"frame", "meta", "resync", "STOP"}
           /\ IsFrame(x) => x.seq \in Nat \ {0}
           /\ x.kind = "STOP" <=> x = STOP
           /\ x.kind = "meta" <=> x = META
           /\ x.kind = "resync" <=> x = RESYNC
  BY DEF Item, META, RESYNC, STOP, Control, Frame, IsFrame

\* A published frame that the queue accepts.
LEMMA FrameArrives ==
    ASSUME NEW w, IsWire(w), NEW p \in Nat, NEW size \in Nat, NEW ep \in Nat,
           NEW k \in ClientType, NEW v, Arrives(v, w, Frame(p + 1, size)),
           ClientInv(k, p, ep), WireInv(w, FALSE, k, p, ep)
    PROVE  IsWire(v) /\ WireInv(v, FALSE, k, p + 1, ep)
  <1> DEFINE n == Len(w)
  <1>1. /\ n \in Nat /\ Len(v) = n + 1 /\ \A i \in 1..n : v[i] = w[i]
        /\ IsFrame(v[n + 1]) /\ v[n + 1].seq = p + 1 /\ v[n + 1].kind = "frame"
        /\ v[n + 1] \in Item
    BY DEF IsWire, Arrives, Frame, IsFrame, Item
  <1>2. \A i \in 1..n : w[i] \in Item /\ w[i].seq \in Nat
    BY ItemFields, Zenon DEF IsWire
  <1>3. k.covered \in Nat /\ k.aligned_in \in Nat
    BY Zenon DEF ClientType
  <1>5. ASSUME NEW i \in 1..n, Marked(w, k, i)
        PROVE  Marked(v, k, i)
    <2>1. \A m \in 1..i : v[m] = w[m]
      BY <1>1, SMTT(60)
    <2>2. QED
      BY <1>5, <2>1, Zenon DEF Marked
  <1>6. \A m : Carries(w, m, n) => Carries(v, m, n + 1)
    BY <1>1 DEF Carries
  <1>7. Carries(v, p + 1, n + 1)
    BY <1>1 DEF Carries
  <1>8. Consecutive(v, p + 1)
    <2>1. \A i \in 1..Len(v) : IsFrame(v[i]) => v[i].seq \in 1..(p + 1)
      BY <1>1, <1>2, SMTT(30) DEF WireInv, Consecutive
    <2>2. ASSUME NEW i \in 1..Len(v), NEW j \in 1..Len(v), i < j, IsFrame(v[i]), IsFrame(v[j])
          PROVE  v[i].seq < v[j].seq /\ Carries(v, v[i].seq + 1, j)
      <3>1. i \in 1..n /\ v[i] = w[i] /\ IsFrame(w[i]) /\ w[i].seq \in 1..p
        BY <1>1, <2>2 DEF WireInv, Consecutive
      <3>2. CASE j \in 1..n
        <4>1. v[j] = w[j] /\ w[i].seq < w[j].seq /\ Carries(w, w[i].seq + 1, j)
          BY <1>1, <2>2, <3>1, <3>2, Zenon DEF WireInv, Consecutive
        <4>2. Carries(v, w[i].seq + 1, j)
          BY <1>1, <3>2, <4>1, SMTT(60) DEF Carries
        <4>3. QED
          BY <3>1, <4>1, <4>2, Zenon
      <3>3. CASE j = n + 1
        <4>1. w[i].seq < p => Carries(w, w[i].seq + 1, n)
          BY <1>1, <3>1, SMTT(60) DEF WireInv, Live
        <4>2. CASE w[i].seq < p
          BY <1>1, <1>6, <3>1, <3>3, <4>1, <4>2
        <4>3. CASE w[i].seq = p
          BY <1>1, <1>7, <3>1, <3>3, <4>3
        <4>4. QED
          BY <3>1, <4>2, <4>3, SMTT(60)
      <3>4. QED
        BY <1>1, <3>2, <3>3, SMTT(60)
    <2>3. \A i \in 1..Len(v) : v[i].kind = "meta" => i = 1
      BY <1>1 DEF WireInv, Consecutive
    <2>4. QED
      BY <2>1, <2>2, <2>3, Zenon DEF Consecutive
  <1>9. Live(v, p + 1)
    <2> SUFFICES ASSUME NEW i \in 1..Len(v), IsFrame(v[i]), NEW m \in v[i].seq..(p + 1)
                 PROVE  Carries(v, m, n + 1)
      BY <1>1, Zenon DEF Live
    <2>1. CASE m = p + 1
      BY <1>7, <2>1, Zenon
    <2>2. CASE m # p + 1
      <3>1. i \in 1..n /\ v[i] = w[i] /\ m \in w[i].seq..p
        BY <1>1, <1>2, <2>2, SMTT(60)
      <3>2. QED
        BY <1>6, <3>1, Zenon DEF WireInv, Live
    <2>3. QED
      BY <2>1, <2>2, Zenon
  <1>10. \/ k.must_align \/ Marked(w, k, n)
         \/ k.aligned_in = ep /\ \A m \in (k.covered + 1)..p : Carries(w, m, n)
    BY Zenon DEF WireInv, Complete
  <1>11. Marked(w, k, n) => Marked(v, k, n + 1)
    BY <1>1 DEF Marked
  <1>12. Complete(v, k, p + 1, ep)
    BY <1>1, <1>3, <1>6, <1>7, <1>10, <1>11 DEF Complete
  <1>13. Continues(v, k, ep)
    <2> SUFFICES ASSUME NEW i \in 1..Len(v), IsFrame(v[i]), ~ k.must_align, ~ Marked(v, k, i)
                 PROVE  /\ k.aligned_in = ep
                        /\ \E j \in 1..i : IsFrame(v[j]) /\ v[j].seq <= k.covered + 1
      BY Zenon DEF Continues
    <2>1. CASE i \in 1..n
      <3>1. ~ Marked(w, k, i) /\ IsFrame(w[i])
        BY <1>1, <1>5, <2>1, Zenon
      <3>2. k.aligned_in = ep /\ \E j \in 1..i : IsFrame(w[j]) /\ w[j].seq <= k.covered + 1
        BY <2>1, <3>1, Zenon DEF WireInv, Continues
      <3>3. QED
        BY <1>1, <2>1, <3>2, SMTT(30)
    <2>2. CASE i = n + 1
      <3>1. k.aligned_in = ep /\ \A m \in (k.covered + 1)..p : Carries(w, m, n)
        BY <1>10, <1>11, <2>2, Zenon
      <3>2. CASE k.covered + 1 \in (k.covered + 1)..p
        <4>1. PICK j \in 1..n : IsFrame(w[j]) /\ w[j].seq = k.covered + 1
          BY <3>1, <3>2, Zenon DEF Carries
        <4>2. j \in 1..i /\ v[j] = w[j]
          BY <1>1, <2>2
        <4>3. w[j].seq <= k.covered + 1
          BY <1>3, <4>1
        <4>4. QED
          BY <3>1, <4>1, <4>2, <4>3, Zenon
      <3>3. CASE k.covered + 1 \notin (k.covered + 1)..p
        BY <1>1, <1>3, <2>2, <3>1, <3>3, SMTT(30)
      <3>4. QED
        BY <3>2, <3>3, Zenon
    <2>3. QED
      BY <1>1, <2>1, <2>2
  <1>14. IsWire(v)
    BY <1>1, <1>2, SMTT(60) DEF IsWire
  <1>15. QED
    BY <1>8, <1>9, <1>12, <1>13, <1>14, Zenon DEF WireInv

\* A resync that the queue accepts.
LEMMA ResyncArrives ==
    ASSUME NEW w, IsWire(w), NEW p \in Nat, NEW ep \in Nat, NEW k \in ClientType,
           NEW v, Arrives(v, w, RESYNC), WireInv(w, FALSE, k, p, ep)
    PROVE  IsWire(v) /\ WireInv(v, FALSE, k, p, ep) /\ Marked(v, k, Len(v))
  <1> DEFINE n == Len(w)
  <1>1. /\ n \in Nat /\ Len(v) = n + 1 /\ \A i \in 1..n : v[i] = w[i]
        /\ v[n + 1].kind = "resync" /\ v[n + 1] \in Item
    BY DEF IsWire, Arrives, RESYNC, Control, Item
  <1>2. \A i \in 1..n : w[i] \in Item /\ w[i].seq \in Nat
    BY ItemFields, Zenon DEF IsWire
  <1>3. ~ IsFrame(v[n + 1])
    BY <1>1, Zenon DEF IsFrame
  <1>4. \A i \in 1..n : \A m : Carries(w, m, i) => Carries(v, m, i)
    BY <1>1 DEF Carries
  <1>5. \A m : Carries(w, m, n) => Carries(v, m, n + 1)
    BY <1>1 DEF Carries
  <1>6. \A i \in 1..n : Marked(w, k, i) => Marked(v, k, i)
    BY <1>1 DEF Marked
  <1>7. Marked(v, k, n + 1)
    BY <1>1 DEF Marked, Marker
  <1>8. \A i \in 1..Len(v) : IsFrame(v[i]) => i \in 1..n /\ v[i] = w[i] /\ IsFrame(w[i])
    BY <1>1, <1>3
  <1>9. Consecutive(v, p)
    <2>1. \A i \in 1..Len(v) : IsFrame(v[i]) => v[i].seq \in 1..p
      BY <1>8, Zenon DEF WireInv, Consecutive
    <2>2. \A i, j \in 1..Len(v) : i < j /\ IsFrame(v[i]) /\ IsFrame(v[j]) =>
             v[i].seq < v[j].seq /\ Carries(v, v[i].seq + 1, j)
      BY <1>4, <1>8, Zenon DEF WireInv, Consecutive
    <2>3. \A i \in 1..Len(v) : v[i].kind = "meta" => i = 1
      BY <1>1 DEF WireInv, Consecutive
    <2>4. QED
      BY <2>1, <2>2, <2>3, Zenon DEF Consecutive
  <1>10. Live(v, p)
    BY <1>1, <1>5, <1>8, Zenon DEF WireInv, Live
  <1>11. Continues(v, k, ep)
    <2> SUFFICES ASSUME NEW i \in 1..Len(v), IsFrame(v[i]), ~ k.must_align, ~ Marked(v, k, i)
                 PROVE  /\ k.aligned_in = ep
                        /\ \E j \in 1..i : IsFrame(v[j]) /\ v[j].seq <= k.covered + 1
      BY Zenon DEF Continues
    <2>1. i \in 1..n /\ IsFrame(w[i]) /\ ~ Marked(w, k, i)
      BY <1>6, <1>8, Zenon
    <2>2. k.aligned_in = ep /\ \E j \in 1..i : IsFrame(w[j]) /\ w[j].seq <= k.covered + 1
      BY <2>1, Zenon DEF WireInv, Continues
    <2>3. QED
      BY <1>1, <2>1, <2>2
  <1>12. Complete(v, k, p, ep)
    BY <1>1, <1>7, Zenon DEF Complete
  <1>13. IsWire(v)
    BY <1>1, <1>2 DEF IsWire
  <1>14. QED
    BY <1>1, <1>7, <1>9, <1>10, <1>11, <1>12, <1>13, Zenon DEF WireInv

\* An overflow cuts the wire off; a closed wire does not follow what is
\* published later.
LEMMA WireCutOff ==
    ASSUME NEW w, IsWire(w), NEW p \in Nat, NEW q \in Nat, p <= q, NEW ep \in Nat,
           NEW k \in ClientType, NEW closed \in BOOLEAN, NEW v, CutOff(v, w),
           WireInv(w, closed, k, p, ep)
    PROVE  IsWire(v) /\ WireInv(v, TRUE, k, q, ep)
  <1>1. PICK m \in 0..Len(w) : /\ Len(v) = m + 1
                               /\ \A i \in 1..m : v[i] = w[i]
                               /\ v[m + 1] = STOP
    BY Zenon DEF CutOff
  <1>2. Len(w) \in Nat /\ m \in Nat /\ \A i \in 1..m : i \in 1..Len(w)
    BY DEF IsWire
  <1>3. STOP.kind = "STOP" /\ ~ IsFrame(STOP) /\ STOP \in Item
    BY DEF STOP, Control, IsFrame, Item
  <1>4. \A i \in 1..Len(v) : IsFrame(v[i]) =>
           i \in 1..m /\ i \in 1..Len(w) /\ v[i] = w[i] /\ IsFrame(w[i])
    BY <1>1, <1>2, <1>3
  <1>5. \A i \in 1..m : \A n : Carries(w, n, i) => Carries(v, n, i)
    BY <1>1, <1>2 DEF Carries
  <1>6. \A i \in 1..m : Marked(w, k, i) => Marked(v, k, i)
    BY <1>1, <1>2, SMTT(60) DEF Marked
  <1>7. Consecutive(v, q)
    <2>1. \A i \in 1..Len(v) : IsFrame(v[i]) => v[i].seq \in 1..q
      <3> SUFFICES ASSUME NEW i \in 1..Len(v), IsFrame(v[i])
                   PROVE  v[i].seq \in 1..q
        BY Zenon
      <3>1. v[i].seq \in 1..p
        BY <1>4, Zenon DEF WireInv, Consecutive
      <3>2. QED
        BY <3>1
    <2>2. \A i, j \in 1..Len(v) : i < j /\ IsFrame(v[i]) /\ IsFrame(v[j]) =>
             v[i].seq < v[j].seq /\ Carries(v, v[i].seq + 1, j)
      BY <1>4, <1>5, SMTT(30) DEF WireInv, Consecutive
    <2>3. \A i \in 1..Len(v) : v[i].kind = "meta" => i = 1
      BY <1>1, <1>2, <1>3, SMTT(30) DEF WireInv, Consecutive
    <2>4. QED
      BY <2>1, <2>2, <2>3, Zenon DEF Consecutive
  <1>8. Continues(v, k, ep)
    <2> SUFFICES ASSUME NEW i \in 1..Len(v), IsFrame(v[i]), ~ k.must_align, ~ Marked(v, k, i)
                 PROVE  /\ k.aligned_in = ep
                        /\ \E j \in 1..i : IsFrame(v[j]) /\ v[j].seq <= k.covered + 1
      BY Zenon DEF Continues
    <2>1. i \in 1..m /\ i \in 1..Len(w) /\ IsFrame(w[i]) /\ ~ Marked(w, k, i)
      BY <1>4, <1>6, Zenon
    <2>2. k.aligned_in = ep /\ \E j \in 1..i : IsFrame(w[j]) /\ w[j].seq <= k.covered + 1
      BY <2>1, Zenon DEF WireInv, Continues
    <2>3. \A j \in 1..i : v[j] = w[j]
      BY <1>1, <2>1
    <2>4. QED
      BY <2>2, <2>3, Zenon
  <1>9. IsWire(v)
    BY <1>1, <1>2, <1>3, SMTT(60) DEF IsWire
  <1>10. QED
    BY <1>7, <1>8, <1>9, Zenon DEF WireInv

LEMMA ClosedWireStays ==
    ASSUME NEW w, IsWire(w), NEW p \in Nat, NEW q \in Nat, p <= q, NEW ep \in Nat,
           NEW k \in ClientType, WireInv(w, TRUE, k, p, ep)
    PROVE  WireInv(w, TRUE, k, q, ep)
  <1>1. \A i \in 1..Len(w) : IsFrame(w[i]) => w[i].seq \in 1..q
    <2> SUFFICES ASSUME NEW i \in 1..Len(w), IsFrame(w[i])
                 PROVE  w[i].seq \in 1..q
      BY Zenon
    <2>1. w[i].seq \in 1..p
      BY Zenon DEF WireInv, Consecutive
    <2>2. QED
      BY <2>1
  <1>2. QED
    BY <1>1, Zenon DEF WireInv, Consecutive

\* The client has aligned.
LEMMA AlignedWire ==
    ASSUME NEW w, IsWire(w), NEW p \in Nat, NEW ep \in Nat, NEW closed \in BOOLEAN,
           NEW k \in ClientType, WireInv(w, closed, k, p, ep), ClientInv(k, p, ep),
           NEW j \in ClientType, j.cursor = k.cursor, j.covered = p, j.aligned_in = ep
    PROVE  WireInv(w, closed, j, p, ep)
  <1>1. /\ j \in ClientType /\ j.cursor = k.cursor /\ j.covered = p /\ j.aligned_in = ep
        /\ k.cursor.seq \in Nat /\ k.cursor.epoch \in Nat
    BY Zenon DEF ClientType
  <1>2. Continues(w, j, ep)
    <2> SUFFICES ASSUME NEW i \in 1..Len(w), IsFrame(w[i])
                 PROVE  /\ j.aligned_in = ep
                        /\ \E m \in 1..i : IsFrame(w[m]) /\ w[m].seq <= j.covered + 1
      BY Zenon DEF Continues
    <2>1. w[i].seq \in 1..p /\ i \in 1..i
      BY DEF WireInv, Consecutive, IsWire
    <2>2. w[i].seq <= j.covered + 1
      BY <1>1, <2>1
    <2>3. QED
      BY <1>1, <2>1, <2>2, Zenon
  <1>3. Complete(w, j, p, ep)
    <2>1. (j.covered + 1)..p = {}
      BY <1>1
    <2>2. QED
      BY <1>1, <2>1, Zenon DEF Complete
  <1>4. QED
    BY <1>1, <1>2, <1>3, Zenon DEF WireInv

\* The first item leaves the wire: what is left keeps its shape.
LEMMA RestOfWire ==
    ASSUME NEW w, IsWire(w), NEW v, Delivered(v, w), Len(v) \in Nat, NEW p \in Nat,
           Consecutive(w, p)
    PROVE  /\ IsWire(v) /\ Consecutive(v, p)
           /\ Live(w, p) => Live(v, p)
           /\ \A i \in 1..Len(v) : v[i].kind # "meta"
           /\ \A n, i \in Nat : i <= Len(v) /\ Carries(w, n, i + 1) =>
                 Carries(v, n, i) \/ (IsFrame(w[1]) /\ w[1].seq = n)
  <1>1. /\ Len(w) \in Nat /\ Len(w) = Len(v) + 1 /\ \A i \in 1..Len(v) : v[i] = w[i + 1]
        /\ \A i \in 1..Len(v) : i + 1 \in 1..Len(w)
    BY DEF IsWire, Delivered
  <1>2. \A i \in 1..Len(w) : w[i] \in Item /\ w[i].seq \in Nat
    BY ItemFields, Zenon DEF IsWire
  <1>3. \A n, i \in Nat : i <= Len(v) /\ Carries(w, n, i + 1) =>
           Carries(v, n, i) \/ (IsFrame(w[1]) /\ w[1].seq = n)
    <2> SUFFICES ASSUME NEW n \in Nat, NEW i \in Nat, i <= Len(v), Carries(w, n, i + 1),
                        ~ (IsFrame(w[1]) /\ w[1].seq = n)
                 PROVE  Carries(v, n, i)
      BY Zenon
    <2>1. PICK j \in 1..(i + 1) : IsFrame(w[j]) /\ w[j].seq = n
      BY Zenon DEF Carries
    <2>2. j - 1 \in 1..i /\ j - 1 \in 1..Len(v)
      BY <1>1, <2>1
    <2>3. v[j - 1] = w[j]
      BY <1>1, <2>2
    <2>4. QED
      BY <2>1, <2>2, <2>3, Zenon DEF Carries
  <1>4. IsWire(v)
    BY <1>1, <1>2, Zenon DEF IsWire
  <1>5. \A i \in 1..Len(v) : v[i].kind # "meta"
    BY <1>1 DEF Consecutive
  <1>6. Consecutive(v, p)
    <2>1. \A i \in 1..Len(v) : IsFrame(v[i]) => v[i].seq \in 1..p
      BY <1>1, Zenon DEF Consecutive
    <2>2. ASSUME NEW i \in 1..Len(v), NEW j \in 1..Len(v), i < j, IsFrame(v[i]), IsFrame(v[j])
          PROVE  v[i].seq < v[j].seq /\ Carries(v, v[i].seq + 1, j)
      <3>1. /\ v[i] = w[i + 1] /\ v[j] = w[j + 1] /\ i + 1 \in 1..Len(w) /\ j + 1 \in 1..Len(w)
            /\ i + 1 < j + 1 /\ v[i].seq \in Nat
        BY <1>1, <1>2, <2>2
      <3>2. v[i].seq < v[j].seq /\ Carries(w, v[i].seq + 1, j + 1)
        BY <2>2, <3>1, Zenon DEF Consecutive
      <3>3. ~ (IsFrame(w[1]) /\ w[1].seq = v[i].seq + 1)
        <4>1. 1 \in 1..Len(w) /\ 1 < i + 1 /\ w[1].seq \in Nat
          BY <1>1, <1>2
        <4>2. IsFrame(w[1]) => w[1].seq < w[i + 1].seq
          BY <2>2, <3>1, <4>1, Zenon DEF Consecutive
        <4>3. QED
          BY <3>1, <4>1, <4>2
      <3>4. j \in Nat /\ j <= Len(v) /\ v[i].seq + 1 \in Nat
        BY <1>1, <3>1, SMTT(60)
      <3>5. QED
        BY <1>3, <3>2, <3>3, <3>4, Zenon
    <2>3. QED
      BY <1>5, <2>1, <2>2, Zenon DEF Consecutive
  <1>7. ASSUME Live(w, p) PROVE Live(v, p)
    <2> SUFFICES ASSUME NEW i \in 1..Len(v), IsFrame(v[i]), NEW n \in v[i].seq..p
                 PROVE  Carries(v, n, Len(v))
      BY Zenon DEF Live
    <2>1. /\ v[i] = w[i + 1] /\ i + 1 \in 1..Len(w) /\ 1 \in 1..Len(w) /\ 1 < i + 1
          /\ v[i].seq \in Nat /\ w[1].seq \in Nat /\ n \in Nat
      BY <1>1, <1>2, SMTT(60)
    <2>2. Carries(w, n, Len(v) + 1)
      BY <1>1, <1>7, <2>1, Zenon DEF Live
    <2>3. ~ (IsFrame(w[1]) /\ w[1].seq = n)
      <3>1. IsFrame(w[1]) => w[1].seq < w[i + 1].seq
        BY <2>1, Zenon DEF Consecutive
      <3>2. QED
        BY <2>1, <3>1
    <2>4. QED
      BY <1>1, <1>3, <2>1, <2>2, <2>3
  <1>8. QED
    BY <1>3, <1>4, <1>5, <1>6, <1>7, Zenon

\* What the app makes of an item, field by field.
LEMMA ReceivedFields ==
    ASSUME NEW k \in ClientType, NEW x \in Item, x # STOP, epoch \in Nat \ {0}
    PROVE  LET j == Received(k, x)
           IN /\ j \in ClientType /\ j.aligned_in = k.aligned_in /\ j.loss_seen = k.loss_seen
              /\ IsFrame(x) => /\ j.cursor = [epoch |-> epoch, seq |-> x.seq]
                               /\ j.must_align = k.must_align
                               /\ j.covered = IF x.seq > k.covered THEN x.seq ELSE k.covered
              /\ ~ IsFrame(x) => /\ j.cursor = k.cursor /\ j.covered = k.covered
                                 /\ j.must_align = (k.must_align \/ Marker(x, k))
  <1>1. x.kind \in {"frame", "meta", "resync"} /\ x.seq \in Nat
    BY ItemFields, Zenon
  <1>2. CASE x.kind = "frame"
    <2> DEFINE at == [epoch |-> epoch, seq |-> x.seq]
               most == IF x.seq > k.covered THEN x.seq ELSE k.covered
    <2>1. Received(k, x) = [k EXCEPT !.cursor = at, !.covered = most]
      BY <1>2, Zenon DEF Received
    <2>2. at \in [epoch : Nat, seq : Nat] /\ most \in Nat
      BY <1>1, Zenon DEF ClientType
    <2> HIDE DEF at, most
    <2>3. LET j == Received(k, x)
          IN /\ j \in ClientType /\ j.aligned_in = k.aligned_in /\ j.loss_seen = k.loss_seen
             /\ j.cursor = at /\ j.must_align = k.must_align /\ j.covered = most
      BY <2>1, <2>2, Zenon DEF ClientType
    <2>4. QED
      BY <1>2, <2>3, Zenon DEF IsFrame, at, most
  <1>3. CASE x.kind = "resync"
    <2>1. Received(k, x) = [k EXCEPT !.must_align = TRUE]
      BY <1>3, Zenon DEF Received
    <2>2. QED
      BY <1>3, <2>1, Zenon DEF ClientType, IsFrame, Marker
  <1>4. CASE x.kind = "meta"
    <2>1. Received(k, x) = [k EXCEPT !.must_align = k.must_align \/ k.cursor = NoCursor]
      BY <1>4, Zenon DEF Received
    <2>2. QED
      BY <1>4, <2>1, Zenon DEF ClientType, IsFrame, Marker
  <1>5. QED
    BY <1>1, <1>2, <1>3, <1>4, Zenon

\* The client takes the first item of its wire.
LEMMA ItemDelivered ==
    ASSUME NEW w, IsWire(w), NEW v, Delivered(v, w), Len(v) \in Nat, NEW p \in Nat,
           NEW k \in ClientType, NEW closed \in BOOLEAN, epoch \in Nat \ {0}, w[1] # STOP,
           ClientInv(k, p, epoch), WireInv(w, closed, k, p, epoch),
           NEW j, j = Received(k, w[1])
    PROVE  /\ IsWire(v) /\ j \in ClientType
           /\ ClientInv(j, p, epoch) /\ WireInv(v, closed, j, p, epoch)
           /\ ~ j.must_align => \A i \in 1..Len(v) : Marked(w, k, i + 1) => Marked(v, j, i)
           /\ k.must_align => j.must_align
           /\ \/ j.covered = k.covered
              \/ /\ j.covered \in 1..p /\ j.must_align = k.must_align
                 /\ k.must_align \/ (k.aligned_in = epoch /\ j.covered = k.covered + 1)
  <1> DEFINE x == w[1]
  <1>1. Len(w) \in Nat /\ Len(w) = Len(v) + 1 /\ 1 \in 1..Len(w) /\ x \in Item /\ x.seq \in Nat
    BY ItemFields DEF IsWire, Delivered
  <1>a. \A i \in 1..Len(v) : v[i] = w[i + 1] /\ i + 1 \in 1..Len(w) /\ 1 < i + 1
    BY <1>1, SMTT(60) DEF Delivered
  <1>2. Consecutive(w, p) /\ Continues(w, k, epoch)
        /\ (~ closed => Live(w, p) /\ Complete(w, k, p, epoch))
    BY Zenon DEF WireInv
  <1>3. /\ IsWire(v) /\ Consecutive(v, p)
        /\ Live(w, p) => Live(v, p)
        /\ \A i \in 1..Len(v) : v[i].kind # "meta"
        /\ \A n, i \in Nat : i <= Len(v) /\ Carries(w, n, i + 1) =>
                 Carries(v, n, i) \/ (IsFrame(w[1]) /\ w[1].seq = n)
    BY <1>2, RestOfWire, Zenon
  <1>4. /\ j \in ClientType /\ j.aligned_in = k.aligned_in /\ j.loss_seen = k.loss_seen
        /\ IsFrame(x) => /\ j.cursor = [epoch |-> epoch, seq |-> x.seq]
                         /\ j.must_align = k.must_align
                         /\ j.covered = IF x.seq > k.covered THEN x.seq ELSE k.covered
        /\ ~ IsFrame(x) => /\ j.cursor = k.cursor /\ j.covered = k.covered
                           /\ j.must_align = (k.must_align \/ Marker(x, k))
    BY <1>1, ReceivedFields, Zenon
  <1>5. /\ k.covered \in Nat /\ k.aligned_in \in Nat /\ k.must_align \in BOOLEAN
        /\ j.covered \in Nat /\ j.aligned_in \in Nat /\ j.must_align \in BOOLEAN
        /\ k.cursor.epoch \in Nat /\ k.cursor.seq \in Nat
    BY <1>4, Zenon DEF ClientType
  <1> HIDE DEF x
  <1>b. /\ x.seq \in Nat /\ k.covered \in Nat /\ j.covered \in Nat /\ k.covered <= j.covered
        /\ IsFrame(x) => x.seq <= j.covered
    <2>1. j.covered = IF IsFrame(x) /\ x.seq > k.covered THEN x.seq ELSE k.covered
      BY <1>4, Zenon
    <2>2. QED
      BY <1>1, <1>5, <2>1, SMTT(60)
  \* A marker is a resync, or the meta frame at the front.
  <1>6. \A i \in 1..Len(v) : Marked(w, k, i + 1) => Marker(x, k) \/ Marked(v, j, i)
    <2> SUFFICES ASSUME NEW i \in 1..Len(v), Marked(w, k, i + 1), ~ Marker(x, k)
                 PROVE  Marked(v, j, i)
      BY Zenon
    <2>1. PICK m \in 1..(i + 1) : Marker(w[m], k)
      BY Zenon DEF Marked
    <2>2. m # 1
      BY <2>1, Zenon DEF x
    <2>3. m - 1 \in 1..i /\ m \in 1..Len(w) /\ m - 1 \in 1..Len(v)
      <3>1. Len(v) \in Nat /\ Len(w) = Len(v) + 1
        BY <1>1, Zenon
      <3>2. QED
        BY <2>2, <3>1, SMTT(60)
    <2>4. v[m - 1] = w[m]
      BY <1>a, <2>3
    <2>5. w[m].kind = "resync"
      BY <1>2, <2>1, <2>2, <2>3, Zenon DEF Consecutive, Marker
    <2>6. QED
      BY <2>3, <2>4, <2>5, Zenon DEF Marked, Marker
  <1>7. Marker(x, k) => ~ IsFrame(x) /\ j.must_align
    BY <1>4, Zenon DEF Marker, IsFrame
  <1>8. k.must_align => j.must_align
    BY <1>4, Zenon
  \* What a delivered frame is to an untold client.
  <1>9. ASSUME IsFrame(x), ~ k.must_align
        PROVE  k.aligned_in = epoch /\ x.seq <= k.covered + 1
    <2>1. ~ Marked(w, k, 1)
      BY <1>1, <1>7, <1>9 DEF Marked, x
    <2>2. k.aligned_in = epoch /\ \E m \in 1..1 : IsFrame(w[m]) /\ w[m].seq <= k.covered + 1
      BY <1>1, <1>2, <1>9, <2>1, Zenon DEF Continues, x
    <2>3. QED
      BY <2>2 DEF x
  <1>10. IsFrame(x) => x.seq \in 1..p
    BY <1>1, <1>2, Zenon DEF Consecutive, x
  <1>11. \/ j.covered = k.covered
         \/ /\ j.covered \in 1..p /\ j.must_align = k.must_align
            /\ k.must_align \/ (k.aligned_in = epoch /\ j.covered = k.covered + 1)
    BY <1>1, <1>4, <1>5, <1>9, <1>10, SMTT(60)
  <1>12. ClientInv(j, p, epoch)
    <2>1. /\ k.aligned_in <= epoch /\ k.cursor.epoch <= epoch
          /\ k.aligned_in = epoch => k.covered <= p
          /\ k.cursor.epoch = epoch =>
               /\ k.cursor.seq \in 1..p
               /\ k.must_align \/ (k.aligned_in = epoch /\ k.cursor.seq <= k.covered)
      BY Zenon DEF ClientInv
    <2>2. j.aligned_in = epoch => j.covered <= p
      BY <1>4, <1>5, <1>11, <2>1
    <2>3. CASE IsFrame(x)
      <3>1. j.cursor.epoch = epoch /\ j.cursor.seq = x.seq
        BY <1>4, <2>3
      <3>2. k.must_align \/ (k.aligned_in = epoch /\ x.seq <= j.covered)
        BY <1>9, <1>b, <2>3, Zenon
      <3>3. QED
        BY <1>4, <1>10, <2>1, <2>2, <2>3, <3>1, <3>2 DEF ClientInv
    <2>4. CASE ~ IsFrame(x)
      BY <1>4, <1>8, <2>1, <2>2, <2>4, Zenon DEF ClientInv
    <2>5. QED
      BY <2>3, <2>4, Zenon
  <1>13. Continues(v, j, epoch)
    <2> SUFFICES ASSUME NEW i \in 1..Len(v), IsFrame(v[i]), ~ j.must_align, ~ Marked(v, j, i)
                 PROVE  /\ j.aligned_in = epoch
                        /\ \E m \in 1..i : IsFrame(v[m]) /\ v[m].seq <= j.covered + 1
      BY Zenon DEF Continues
    <2>1. ~ k.must_align /\ ~ Marker(x, k) /\ ~ Marked(w, k, i + 1)
      BY <1>6, <1>7, <1>8, Zenon
    <2>2. v[i] = w[i + 1] /\ i + 1 \in 1..Len(w) /\ 1 < i + 1 /\ i \in Nat /\ i <= Len(v)
      BY <1>a
    <2>3. /\ k.aligned_in = epoch
          /\ \E m \in 1..(i + 1) : IsFrame(w[m]) /\ w[m].seq <= k.covered + 1
      BY <1>2, <2>1, <2>2, Zenon DEF Continues
    <2>4. CASE IsFrame(x)
      <3>1. Carries(w, x.seq + 1, i + 1)
        BY <1>1, <1>2, <2>2, <2>4, Zenon DEF Consecutive, x
      <3>a. x.seq + 1 \in Nat /\ x.seq # x.seq + 1
        BY <1>b, SMTT(60)
      <3>2. Carries(v, x.seq + 1, i)
        BY <1>3, <2>2, <3>1, <3>a, Zenon DEF x
      <3>3. PICK m \in 1..i : IsFrame(v[m]) /\ v[m].seq = x.seq + 1
        BY <3>2, Zenon DEF Carries
      <3>4. x.seq <= j.covered
        BY <1>b, <2>4, Zenon
      <3>5. v[m].seq <= j.covered + 1
        BY <1>1, <1>5, <3>3, <3>4, SMTT(60)
      <3>6. QED
        BY <1>4, <2>3, <3>3, <3>5, Zenon
    <2>5. CASE ~ IsFrame(x)
      <3>1. PICK m \in 1..(i + 1) : IsFrame(w[m]) /\ w[m].seq <= k.covered + 1
        BY <2>3, Zenon
      <3>2. m # 1
        BY <2>5, <3>1, Zenon DEF x
      <3>3. m - 1 \in 1..i /\ m - 1 \in 1..Len(v) /\ (m - 1) + 1 = m
        BY <1>1, <3>2
      <3>4. v[m - 1] = w[m]
        BY <1>a, <3>3, Zenon
      <3>5. j.covered = k.covered
        BY <1>4, <2>5, Zenon
      <3>6. QED
        BY <1>4, <2>3, <3>1, <3>3, <3>4, <3>5, Zenon
    <2>6. QED
      BY <2>4, <2>5, Zenon
  <1>14. ~ closed => Complete(v, j, p, epoch)
    <2> SUFFICES ASSUME ~ closed, ~ j.must_align, ~ Marked(v, j, Len(v))
                 PROVE  /\ j.aligned_in = epoch
                        /\ \A n \in (j.covered + 1)..p : Carries(v, n, Len(v))
      BY Zenon DEF Complete
    <2>1. ~ k.must_align /\ ~ Marker(x, k)
      BY <1>7, <1>8, Zenon
    <2>2. ~ Marked(w, k, Len(w))
      <3>1. CASE Len(v) = 0
        BY <1>1, <2>1, <3>1 DEF Marked, x
      <3>2. CASE Len(v) # 0
        BY <1>1, <1>6, <2>1, <3>2
      <3>3. QED
        BY <3>1, <3>2, Zenon
    <2>3. k.aligned_in = epoch /\ \A n \in (k.covered + 1)..p : Carries(w, n, Len(w))
      BY <1>2, <2>1, <2>2, Zenon DEF Complete
    <2>4. ASSUME NEW n \in (j.covered + 1)..p
          PROVE  Carries(v, n, Len(v))
      <3>1. n \in Nat /\ Len(v) \in Nat /\ Len(v) <= Len(v) /\ (IsFrame(x) => x.seq # n)
        BY <1>b
      <3>2. n \in (k.covered + 1)..p
        BY <1>b
      <3>3. Carries(w, n, Len(v) + 1)
        BY <1>1, <2>3, <3>2, Zenon
      <3>4. QED
        BY <1>3, <3>1, <3>3, Zenon DEF x
    <2>5. QED
      BY <1>4, <2>3, <2>4, Zenon
  <1>15. WireInv(v, closed, j, p, epoch)
    BY <1>2, <1>3, <1>13, <1>14, Zenon DEF WireInv
  <1>16. ~ j.must_align => \A i \in 1..Len(v) : Marked(w, k, i + 1) => Marked(v, j, i)
    BY <1>6, <1>7, Zenon
  <1>17. QED
    BY <1>3, <1>4, <1>8, <1>11, <1>12, <1>15, <1>16, Zenon

-----------------------------------------------------------------------------
(* Subscriber.put and the generator in terms of the wire.                  *)

LEMMA ConcatFacts ==
    ASSUME NEW h \in Seq(Item), NEW q \in Seq(Item)
    PROVE  /\ IsWire(h \o q) /\ Len(h \o q) = Len(h) + Len(q) /\ h \o q \in Seq(Item)
           /\ Len(h) \in Nat /\ Len(q) \in Nat
           /\ \A i \in 1..Len(h) : (h \o q)[i] = h[i]
           /\ \A i \in 1..Len(q) : (h \o q)[Len(h) + i] = q[i]
  <1>1. /\ h \o q \in Seq(Item) /\ Len(h \o q) = Len(h) + Len(q)
        /\ Len(h) \in Nat /\ Len(q) \in Nat
    OBVIOUS
  <1>2. \A i \in 1..Len(h) : (h \o q)[i] = h[i]
    BY <1>1
  <1>3. \A i \in 1..Len(q) : (h \o q)[Len(h) + i] = q[i]
    BY <1>1
  <1>4. \A i \in 1..Len(h \o q) : (h \o q)[i] \in Item
    BY <1>1
  <1>5. QED
    BY <1>1, <1>2, <1>3, <1>4 DEF IsWire

\* put(): ignored by a closed subscriber, queued, or an overflow that leaves
\* nothing but STOP in the queue.
LEMMA PutEffect ==
    ASSUME NEW cn \in OpenConn, NEW item \in Item, item.size <= MaxFrameBytes
    PROVE  LET dn == Put(cn, item)
           IN /\ dn \in OpenConn /\ dn.head = cn.head
              /\ \/ cn.closed /\ dn = cn
                 \/ ~ cn.closed /\ ~ dn.closed /\ Arrives(WireOf(dn), WireOf(cn), item)
                 \/ ~ cn.closed /\ dn.closed /\ CutOff(WireOf(dn), WireOf(cn))
  <1> DEFINE dn == Put(cn, item)
             fits == Len(cn.queue) < QueueItems /\ Bytes(cn.queue) + item.size <= BufferBytes
  <1>1. /\ cn.closed \in BOOLEAN /\ cn.queue \in Seq(Item) /\ cn.head \in Seq(Item)
        /\ STOP \in Item
    <2>1. STOP \in Item
      BY DEF Item
    <2>2. QED
      BY <2>1, Zenon DEF OpenConn
  <1>2. dn = IF cn.closed THEN cn
             ELSE IF fits THEN [cn EXCEPT !.queue = Append(cn.queue, item)]
             ELSE [cn EXCEPT !.closed = TRUE, !.queue = <<STOP>>]
    <2>1. ~ (item.size > MaxFrameBytes)
      BY ItemFields, FrameSizeAssumption
    <2>2. QED
      BY <2>1, Zenon DEF Put
  <1> HIDE DEF dn, fits
  <1>3. CASE cn.closed
    BY <1>2, <1>3, Zenon DEF dn
  <1>4. CASE ~ cn.closed /\ fits
    <2> DEFINE q == Append(cn.queue, item)
    <2>1. /\ q \in Seq(Item) /\ Len(q) = Len(cn.queue) + 1 /\ q[Len(cn.queue) + 1] = item
          /\ \A i \in 1..Len(cn.queue) : q[i] = cn.queue[i]
      BY <1>1
    <2> HIDE DEF q
    <2>2. dn = [cn EXCEPT !.queue = q]
      BY <1>2, <1>4, Zenon DEF q
    <2>3. dn \in OpenConn /\ dn.head = cn.head /\ dn.queue = q /\ ~ dn.closed
      BY <1>1, <1>4, <2>1, <2>2, Zenon DEF OpenConn
    <2> DEFINE h == cn.head
               v == h \o q
               w == h \o cn.queue
    <2>4. /\ Len(w) = Len(h) + Len(cn.queue) /\ Len(h) \in Nat /\ Len(cn.queue) \in Nat
          /\ \A i \in 1..Len(h) : w[i] = h[i]
          /\ \A i \in 1..Len(cn.queue) : w[Len(h) + i] = cn.queue[i]
      BY <1>1, ConcatFacts, Zenon
    <2>5. /\ Len(v) = Len(h) + Len(q) /\ Len(q) \in Nat
          /\ \A i \in 1..Len(h) : v[i] = h[i]
          /\ \A i \in 1..Len(q) : v[Len(h) + i] = q[i]
      BY <1>1, <2>1, ConcatFacts, Zenon
    <2> HIDE DEF v, w, h
    <2>6. Len(v) = Len(w) + 1 /\ v[Len(w) + 1] = item
      <3>1. Len(cn.queue) + 1 \in 1..Len(q) /\ Len(w) + 1 = Len(h) + (Len(cn.queue) + 1)
        BY <2>1, <2>4
      <3>2. v[Len(h) + (Len(cn.queue) + 1)] = q[Len(cn.queue) + 1]
        BY <2>5, <3>1, Zenon
      <3>3. QED
        BY <2>1, <2>4, <2>5, <3>1, <3>2, Zenon
    <2>7. ASSUME NEW i \in 1..Len(w) PROVE v[i] = w[i]
      <3>1. CASE i \in 1..Len(h)
        BY <2>4, <2>5, <3>1, Zenon
      <3>2. CASE i \notin 1..Len(h)
        <4>1. i - Len(h) \in 1..Len(cn.queue) /\ i - Len(h) \in 1..Len(q)
              /\ i = Len(h) + (i - Len(h))
          BY <2>1, <2>4, <3>2, SMTT(60)
        <4>2. v[Len(h) + (i - Len(h))] = q[i - Len(h)]
          BY <2>5, <4>1, Zenon
        <4>3. w[Len(h) + (i - Len(h))] = cn.queue[i - Len(h)]
          BY <2>4, <4>1, Zenon
        <4>4. QED
          BY <2>1, <4>1, <4>2, <4>3, Zenon
      <3>3. QED
        BY <3>1, <3>2, Zenon
    <2>8. Arrives(v, w, item)
      BY <2>6, <2>7, Zenon DEF Arrives
    <2>9. QED
      BY <1>4, <2>3, <2>8, Zenon DEF WireOf, v, w, h, dn
  <1>5. CASE ~ cn.closed /\ ~ fits
    <2>1. dn = [cn EXCEPT !.closed = TRUE, !.queue = <<STOP>>]
      BY <1>2, <1>5, Zenon
    <2>2. <<STOP>> \in Seq(Item) /\ Len(<<STOP>>) = 1 /\ <<STOP>>[1] = STOP
      BY <1>1
    <2>3. dn \in OpenConn /\ dn.head = cn.head /\ dn.queue = <<STOP>> /\ dn.closed
      BY <1>1, <2>1, <2>2, Zenon DEF OpenConn
    <2> DEFINE h == cn.head
               q == <<STOP>>
               v == h \o q
               w == h \o cn.queue
    <2>4. /\ Len(w) = Len(h) + Len(cn.queue) /\ Len(h) \in Nat /\ Len(cn.queue) \in Nat
          /\ \A i \in 1..Len(h) : w[i] = h[i]
      BY <1>1, ConcatFacts, Zenon
    <2> HIDE DEF q
    <2>5. /\ Len(v) = Len(h) + Len(q)
          /\ \A i \in 1..Len(h) : v[i] = h[i]
          /\ \A i \in 1..Len(q) : v[Len(h) + i] = q[i]
      BY <1>1, <2>2, ConcatFacts, Zenon DEF q
    <2> HIDE DEF v, w, h
    <2>6. Len(h) \in 0..Len(w) /\ Len(v) = Len(h) + 1 /\ v[Len(h) + 1] = STOP
      BY <2>2, <2>4, <2>5 DEF q
    <2>7. CutOff(v, w)
      BY <2>4, <2>5, <2>6, Zenon DEF CutOff
    <2>8. QED
      BY <1>5, <2>3, <2>7, Zenon DEF WireOf, v, w, h, q, dn
  <1>6. QED
    BY <1>3, <1>4, <1>5, Zenon

\* generate(): taking the first item of the plan, or of the queue once the
\* plan is done, takes the first item of the wire.
LEMMA TakeFromPlan ==
    ASSUME NEW cn \in OpenConn, cn.head # <<>>
    PROVE  LET dn == [cn EXCEPT !.head = Tail(cn.head)]
           IN /\ dn \in OpenConn /\ dn.closed = cn.closed
              /\ Delivered(WireOf(dn), WireOf(cn)) /\ WireOf(cn)[1] = Head(cn.head)
              /\ IsWire(WireOf(cn)) /\ Len(WireOf(dn)) \in Nat
              /\ Len(cn.head) \in Nat \ {0} /\ Len(dn.head) = Len(cn.head) - 1
              /\ \A i \in 1..Len(dn.head) : dn.head[i] = cn.head[i + 1]
              /\ Head(cn.head) = cn.head[1]
  <1> DEFINE h == cn.head
             t == Tail(cn.head)
             q == cn.queue
             dn == [cn EXCEPT !.head = t]
  <1>1. h \in Seq(Item) /\ q \in Seq(Item) /\ cn.closed \in BOOLEAN /\ h # <<>>
    BY Zenon DEF OpenConn
  <1>2. /\ t \in Seq(Item) /\ Len(h) \in Nat \ {0} /\ Len(t) = Len(h) - 1
        /\ \A i \in 1..Len(t) : t[i] = h[i + 1]
        /\ Head(h) = h[1]
    BY <1>1
  <1> HIDE DEF t
  <1>3. dn \in OpenConn /\ dn.head = t /\ dn.queue = q /\ dn.closed = cn.closed
    BY <1>1, <1>2, Zenon DEF OpenConn
  <1> HIDE DEF dn
  <1> DEFINE v == t \o q
             w == h \o q
  <1>4. /\ IsWire(w) /\ Len(w) = Len(h) + Len(q) /\ Len(h) \in Nat /\ Len(q) \in Nat
        /\ \A i \in 1..Len(h) : w[i] = h[i]
        /\ \A i \in 1..Len(q) : w[Len(h) + i] = q[i]
    BY <1>1, ConcatFacts, Zenon
  <1>5. /\ Len(v) = Len(t) + Len(q)
        /\ \A i \in 1..Len(t) : v[i] = t[i]
        /\ \A i \in 1..Len(q) : v[Len(t) + i] = q[i]
    BY <1>1, <1>2, ConcatFacts, Zenon
  <1> HIDE DEF v, w, h, q
  <1>6. Len(w) = Len(v) + 1 /\ w[1] = h[1] /\ Len(v) \in Nat
    BY <1>2, <1>4, <1>5
  <1>7. ASSUME NEW i \in 1..Len(v) PROVE v[i] = w[i + 1]
    <2>1. CASE i \in 1..Len(t)
      <3>1. i + 1 \in 1..Len(h)
        BY <1>2, <2>1
      <3>2. QED
        BY <1>2, <1>4, <1>5, <2>1, <3>1, Zenon
    <2>2. CASE i \notin 1..Len(t)
      <3>1. /\ i - Len(t) \in 1..Len(q) /\ i = Len(t) + (i - Len(t))
            /\ i + 1 = Len(h) + (i - Len(t))
        BY <1>2, <1>4, <1>5, <2>2
      <3>2. v[Len(t) + (i - Len(t))] = q[i - Len(t)]
        BY <1>5, <3>1, Zenon
      <3>3. w[Len(h) + (i - Len(t))] = q[i - Len(t)]
        BY <1>4, <3>1, Zenon
      <3>4. QED
        BY <3>1, <3>2, <3>3, Zenon
    <2>3. QED
      BY <2>1, <2>2, Zenon
  <1>8. Delivered(v, w)
    BY <1>6, <1>7, Zenon DEF Delivered
  <1>9. WireOf(dn) = v /\ WireOf(cn) = w
    BY <1>3, Zenon DEF WireOf, v, w, h, q
  <1>10. QED
    BY <1>2, <1>3, <1>4, <1>6, <1>8, <1>9, Zenon DEF dn, t, h

LEMMA TakeFromQueue ==
    ASSUME NEW cn \in OpenConn, cn.head = <<>>, cn.queue # <<>>
    PROVE  LET dn == [cn EXCEPT !.queue = Tail(cn.queue)]
           IN /\ dn \in OpenConn /\ dn.closed = cn.closed /\ dn.head = <<>>
              /\ Delivered(WireOf(dn), WireOf(cn)) /\ WireOf(cn)[1] = Head(cn.queue)
              /\ IsWire(WireOf(cn)) /\ Len(WireOf(dn)) \in Nat
  <1> DEFINE q == cn.queue
             t == Tail(cn.queue)
             dn == [cn EXCEPT !.queue = t]
  <1>1. q \in Seq(Item) /\ q # <<>> /\ cn.head = <<>> /\ cn.closed \in BOOLEAN
    BY Zenon DEF OpenConn
  <1>2. /\ t \in Seq(Item) /\ Len(q) \in Nat \ {0} /\ Len(t) = Len(q) - 1
        /\ \A i \in 1..Len(t) : t[i] = q[i + 1]
        /\ Head(q) = q[1] /\ \A i \in 1..Len(q) : q[i] \in Item
    BY <1>1
  <1> HIDE DEF t
  <1>3. dn \in OpenConn /\ dn.head = <<>> /\ dn.queue = t /\ dn.closed = cn.closed
    BY <1>1, <1>2, Zenon DEF OpenConn
  <1> HIDE DEF dn
  <1>4. WireOf(dn) = t /\ WireOf(cn) = q
    BY <1>1, <1>2, <1>3 DEF WireOf
  <1>5. Delivered(t, q) /\ IsWire(q) /\ Len(t) \in Nat
    BY <1>2 DEF Delivered, IsWire
  <1>6. QED
    BY <1>2, <1>3, <1>4, <1>5, Zenon DEF dn, t

LEMMA PlanWire ==
    ASSUME NEW k \in ClientType, epoch \in Nat \ {0}, published \in Nat,
           ClientInv(k, published, epoch), NEW plan \in Seq(Item),
           \/ k.cursor = NoCursor /\ plan = <<>>
           \/ plan = <<RESYNC>>
           \/ Untold(k, plan),
           NEW w, Len(w) = Len(plan) + 1, w[1] = META,
           \A i \in 1..Len(plan) : w[i + 1] = plan[i]
    PROVE  /\ WireInv(w, FALSE, k, published, epoch)
           /\ \A L : DeadCursor(log, k, epoch) => DeadWire(L, w, FALSE, k)
  <1>1. META.kind = "meta" /\ RESYNC.kind = "resync" /\ Len(plan) \in Nat
    BY DEF META, RESYNC, Control
  <1>2. CASE Untold(k, plan)
    <2> DEFINE s == k.cursor.seq
               n == Len(plan)
    <2>1. /\ s \in 1..published /\ n = published - s /\ s \in Nat /\ n \in Nat
          /\ k.must_align \/ (k.aligned_in = epoch /\ s <= k.covered)
          /\ k.covered \in Nat /\ Len(w) = n + 1
      BY <1>1, <1>2, Zenon DEF Untold, ClientInv, ClientType
    <2>0. \A i \in 1..n : w[i + 1] = plan[i] /\ IsFrame(plan[i]) /\ plan[i].seq = s + i
      BY <1>2, Zenon DEF Untold
    <2>2. ~ DeadCursor(log, k, epoch)
      BY <1>2, Zenon DEF Untold, DeadCursor
    <2> HIDE DEF s, n
    <2>3. ~ IsFrame(w[1])
      BY <1>1, Zenon DEF IsFrame
    <2>4. \A i \in 2..(n + 1) : IsFrame(w[i]) /\ w[i].kind = "frame" /\ w[i].seq = s + i - 1
      <3> TAKE i \in 2..(n + 1)
      <3>1. i - 1 \in 1..n /\ (i - 1) + 1 = i /\ s + (i - 1) = s + i - 1
        BY <2>1
      <3>2. QED
        BY <2>0, <3>1, SMTT(60) DEF IsFrame
    <2>5. \A m \in (s + 1)..published, i \in 1..(n + 1) : m - s + 1 <= i => Carries(w, m, i)
      <3> TAKE m \in (s + 1)..published, i \in 1..(n + 1)
      <3> HAVE m - s + 1 <= i
      <3>1. m - s + 1 \in 2..(n + 1) /\ m - s + 1 \in 1..i
        BY <2>1
      <3>2. IsFrame(w[m - s + 1]) /\ w[m - s + 1].seq = m
        <4>1. s + (m - s + 1) - 1 = m
          BY <2>1
        <4>2. QED
          BY <2>4, <3>1, <4>1, Zenon
      <3>3. QED
        BY <3>1, <3>2, Zenon DEF Carries
    <2>6. \A i \in 1..(n + 1) : IsFrame(w[i]) => i \in 2..(n + 1)
      BY <2>1, <2>3
    <2>7. Consecutive(w, published)
      <3>1. \A i \in 1..Len(w) : IsFrame(w[i]) => w[i].seq \in 1..published
        BY <2>1, <2>4, <2>6, SMTT(60)
      <3>2. ASSUME NEW i \in 1..Len(w), NEW j \in 1..Len(w), i < j, IsFrame(w[i]), IsFrame(w[j])
            PROVE  w[i].seq < w[j].seq /\ Carries(w, w[i].seq + 1, j)
        <4>1. /\ i \in 2..(n + 1) /\ j \in 2..(n + 1)
              /\ w[i].seq = s + i - 1 /\ w[j].seq = s + j - 1
          BY <2>1, <2>4, <2>6, <3>2, Zenon
        <4>2. w[i].seq + 1 \in (s + 1)..published /\ (w[i].seq + 1) - s + 1 <= j
          <5>0. /\ s \in Nat /\ n \in Nat /\ published \in Nat /\ n = published - s
                /\ i \in 2..(n + 1) /\ j \in 2..(n + 1) /\ i < j
            BY <2>1, <3>2, <4>1, Zenon
          <5>1. i \in Nat /\ j \in Nat /\ i < j /\ i >= 2 /\ j <= n + 1 /\ published = n + s
            BY <5>0, SMTT(60)
          <5>2. (s + i - 1) + 1 \in (s + 1)..published /\ ((s + i - 1) + 1) - s + 1 <= j
            BY <5>0, <5>1, SMTT(60)
          <5>3. QED
            BY <4>1, <5>2, Zenon
        <4>3. Carries(w, w[i].seq + 1, j)
          BY <2>1, <2>5, <4>2, Zenon
        <4>4. QED
          BY <2>1, <3>2, <4>1, <4>3
      <3>3. \A i \in 1..Len(w) : w[i].kind = "meta" => i = 1
        <4>1. \A i \in 1..Len(w) : i # 1 => i \in 2..(n + 1)
          BY <2>1
        <4>2. QED
          BY <2>4, <4>1, Zenon
      <3>4. QED
        BY <3>1, <3>2, <3>3, Zenon DEF Consecutive
    <2>8. Live(w, published)
      BY <2>1, <2>4, <2>5, <2>6, SMTT(30) DEF Live
    <2>9. Complete(w, k, published, epoch)
      BY <2>1, <2>5, SMTT(60) DEF Complete
    <2>10. Continues(w, k, epoch)
      <3> SUFFICES ASSUME NEW i \in 1..Len(w), IsFrame(w[i]), ~ k.must_align
                   PROVE  /\ k.aligned_in = epoch
                          /\ \E j \in 1..i : IsFrame(w[j]) /\ w[j].seq <= k.covered + 1
        BY Zenon DEF Continues
      <3>1. 2 \in 1..i /\ 2 \in 2..(n + 1)
        BY <2>1, <2>6, SMTT(60)
      <3>2. IsFrame(w[2]) /\ w[2].seq <= k.covered + 1
        BY <2>1, <2>4, <3>1, SMTT(30)
      <3>3. QED
        BY <2>1, <3>1, <3>2, Zenon
    <2>11. QED
      BY <2>2, <2>7, <2>8, <2>9, <2>10, Zenon DEF WireInv
  <1>3. CASE ~ Untold(k, plan)
    <2>1. Len(w) \in {1, 2} /\ \A i \in 1..Len(w) : ~ IsFrame(w[i])
      BY <1>1, <1>3, SMTT(60) DEF IsFrame
    <2>2. Marked(w, k, Len(w))
      <3>1. CASE k.cursor = NoCursor /\ plan = <<>>
        <4>1. 1 \in 1..Len(w) /\ Marker(w[1], k)
          BY <1>1, <3>1 DEF Marker
        <4>2. QED
          BY <4>1, Zenon DEF Marked
      <3>2. CASE plan = <<RESYNC>>
        <4>1. 2 \in 1..Len(w) /\ Marker(w[2], k)
          BY <1>1, <3>2 DEF Marker
        <4>2. QED
          BY <4>1, Zenon DEF Marked
      <3>3. QED
        BY <1>3, <3>1, <3>2, Zenon
    <2>3. \A i \in 1..Len(w) : w[i].kind = "meta" => i = 1
      BY <1>1, <1>3
    <2>4. Consecutive(w, published) /\ Continues(w, k, epoch) /\ Live(w, published)
      BY <2>1, <2>3, Zenon DEF Consecutive, Continues, Live
    <2>5. Complete(w, k, published, epoch)
      BY <2>2, Zenon DEF Complete
    <2>6. \A L : DeadWire(L, w, FALSE, k)
      BY <2>1, <2>2, Zenon DEF DeadWire
    <2>7. QED
      BY <2>4, <2>5, <2>6, Zenon DEF WireInv
  <1>4. QED
    BY <1>2, <1>3, Zenon

=============================================================================
