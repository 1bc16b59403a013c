--------------------------- MODULE EventStreamInv ---------------------------
(***************************************************************************)
(* The inductive invariant of EventStream.  It describes what lies on the  *)
(* wire of each connection (the rest of the plan, then the queue), what a  *)
(* client's cursor may claim, and, once a loss of the upstream has been    *)
(* notified, why no client can get past it unaligned.                      *)
(***************************************************************************)
EXTENDS EventStream, ReplayLogInv

\* Every business frame fits max_frame_bytes.  Subscriber.put drops one that
\* does not from the queue while the log keeps it, so the theorems need this.
FramesFit == \A size \in Sizes : size <= MaxFrameBytes

Item == {META, RESYNC, STOP} \cup {Frame(n, size) : n \in Nat \ {0}, size \in Nat}

OpenConn == [open : {TRUE}, closed : BOOLEAN, queue : Seq(Item), head : Seq(Item)]

Conn == {NoConn} \cup OpenConn

ClientType ==
    [cursor : [epoch : Nat, seq : Nat], must_align : BOOLEAN, covered : Nat,
     aligned_in : Nat, loss_seen : Nat]

TypeInv ==
    /\ now \in Nat /\ epoch \in Nat \ {0} /\ losses \in Nat /\ due \in Nat /\ due <= losses
    /\ connected \in BOOLEAN /\ ever_connected \in BOOLEAN /\ loss_notified \in BOOLEAN
    /\ conn \in [Clients -> Conn]
    /\ client \in [Clients -> ClientType]

IsFrame(item) == item.kind = "frame"

\* An item that makes the client k align once it is delivered.
Marker(item, k) == item.kind = "resync" \/ (item.kind = "meta" /\ k.cursor = NoCursor)

Marked(w, k, i) == \E j \in 1..i : Marker(w[j], k)

Carries(w, n, i) == \E j \in 1..i : IsFrame(w[j]) /\ w[j].seq = n

\* The frames on a wire w are consecutive, of the p published ones, and the
\* meta frame comes first.
Consecutive(w, p) ==
    /\ \A i \in 1..Len(w) : IsFrame(w[i]) => w[i].seq \in 1..p
    /\ \A i, j \in 1..Len(w) : i < j /\ IsFrame(w[i]) /\ IsFrame(w[j]) =>
         /\ w[i].seq < w[j].seq
         /\ Carries(w, w[i].seq + 1, j)
    /\ \A i \in 1..Len(w) : w[i].kind = "meta" => i = 1

\* Unless the connection overflowed, the wire goes on to the newest frame.
Live(w, p) ==
    \A i \in 1..Len(w) : IsFrame(w[i]) =>
        \A n \in w[i].seq..p : Carries(w, n, Len(w))

\* The first frame an untold client k gets continues what it has.
Continues(w, k, ep) ==
    \A i \in 1..Len(w) : IsFrame(w[i]) =>
        \/ k.must_align \/ Marked(w, k, i)
        \/ /\ k.aligned_in = ep
           /\ \E j \in 1..i : IsFrame(w[j]) /\ w[j].seq <= k.covered + 1

\* An untold client finds on its wire all that it lacks.
Complete(w, k, p, ep) ==
    \/ k.must_align \/ Marked(w, k, Len(w))
    \/ k.aligned_in = ep /\ \A n \in (k.covered + 1)..p : Carries(w, n, Len(w))

WireInv(w, closed, k, p, ep) ==
    /\ Consecutive(w, p)
    /\ Continues(w, k, ep)
    /\ ~ closed => Live(w, p) /\ Complete(w, k, p, ep)

\* What a client's cursor claims about what it has.
ClientInv(k, p, ep) ==
    /\ k.aligned_in <= ep /\ k.cursor.epoch <= ep
    /\ k.aligned_in = ep => k.covered <= p
    /\ k.cursor.epoch = ep =>
         /\ k.cursor.seq \in 1..p
         /\ k.must_align \/ (k.aligned_in = ep /\ k.cursor.seq <= k.covered)

DeadCursor(L, k, ep) == k.cursor.epoch # ep \/ Dead(L, GLOBAL_DOMAIN, k.cursor.seq)

\* Whatever the client is sent before it is told leaves its cursor dead.
DeadWire(L, w, closed, k) ==
    /\ closed \/ Marked(w, k, Len(w))
    /\ \A i \in 1..Len(w) : IsFrame(w[i]) => Dead(L, GLOBAL_DOMAIN, w[i].seq) \/ Marked(w, k, i)

WireOf(cn) == cn.head \o cn.queue

Settled(L, cn, k, ep, ls) ==
    \/ k.must_align \/ k.loss_seen >= ls
    \/ DeadCursor(L, k, ep) /\ (cn.open => DeadWire(L, WireOf(cn), cn.closed, k))

\* run() was cancelled while reading: its next outcome notifies the loss.
Owed == ever_connected /\ ~ connected /\ ~ loss_notified

\* One client k and its connection cn.
ClientOk(L, cn, k, p, ep, ls, owed) ==
    /\ ClientInv(k, p, ep)
    /\ cn.open => WireInv(WireOf(cn), cn.closed, k, p, ep)
    /\ cn.open => \A i \in 1..Len(cn.head) : cn.head[i] # STOP
    /\ owed \/ Settled(L, cn, k, ep, ls)

Inv ==
    /\ TypeInv
    /\ LogInv(log)
    /\ published > 0 => GLOBAL_DOMAIN \in log.created
    /\ connected => ever_connected /\ ~ loss_notified
    /\ \A c \in Clients : ClientOk(log, conn[c], client[c], published, epoch, due, Owed)

\* The log moved on without reviving a dead cursor of the stream.
StaysDead(L, M) ==
    \A s \in Nat : Dead(L, GLOBAL_DOMAIN, s) => Dead(M, GLOBAL_DOMAIN, s)

IsWire(w) == Len(w) \in Nat /\ \A i \in 1..Len(w) : w[i] \in Item

Arrives(v, w, item) ==
    /\ Len(v) = Len(w) + 1
    /\ \A i \in 1..Len(w) : v[i] = w[i]
    /\ v[Len(w) + 1] = item

Delivered(v, w) ==
    /\ Len(w) = Len(v) + 1
    /\ \A i \in 1..Len(v) : v[i] = w[i + 1]

CutOff(v, w) ==
    \E m \in 0..Len(w) :
        /\ Len(v) = m + 1
        /\ \A i \in 1..m : v[i] = w[i]
        /\ v[m + 1] = STOP

Untold(k, plan) ==
    /\ k.cursor # NoCursor /\ k.cursor.epoch = epoch /\ ~ Dead(log, GLOBAL_DOMAIN, k.cursor.seq)
    /\ Len(plan) = published - k.cursor.seq
    /\ \A i \in 1..Len(plan) : IsFrame(plan[i]) /\ plan[i].seq = k.cursor.seq + i

\* What generate() hands over, if it is not STOP.
Taken(c, dn) ==
    /\ dn \in OpenConn /\ dn.closed = conn[c].closed
    /\ Delivered(WireOf(dn), WireOf(conn[c])) /\ WireOf(conn[c])[1] # STOP
    /\ \A i \in 1..Len(dn.head) : dn.head[i] # STOP
    /\ conn' = [conn EXCEPT ![c] = dn]
    /\ client' = [client EXCEPT ![c] = Received(client[c], WireOf(conn[c])[1])]
=============================================================================
