------------------------- MODULE EventStreamProofs --------------------------
(***************************************************************************)
(* Proofs about EventStream, for any clients, queue limits, log budgets and*)
(* bounds: Inv of EventStreamInv is inductive, it implies the properties the*)
(* runs check, and every step is a step of Feed or invisible to it.        *)
(***************************************************************************)
EXTENDS EventStepProofs, ReplayLogOpsProofs

LEMMA PlanShape ==
    ASSUME NEW c \in Clients, TypeInv, LogInv(log), ClientInv(client[c], published, epoch)
    PROVE  /\ Plan(c) \in Seq(Item) /\ \A i \in 1..Len(Plan(c)) : Plan(c)[i] # STOP
           /\ \/ client[c].cursor = NoCursor /\ Plan(c) = <<>>
              \/ Plan(c) = <<RESYNC>>
              \/ Untold(client[c], Plan(c))
  <1> DEFINE k == client[c].cursor
             same == k.epoch = epoch
             answer == Replay(log, GLOBAL_DOMAIN, k.seq, same, now)
             A == answer.entries
  <1>1. /\ k.seq \in Nat /\ k.epoch \in Nat /\ client[c] \in ClientType
        /\ same \in BOOLEAN /\ epoch \in Nat \ {0} /\ published \in Nat
        /\ log.last_seq[GLOBAL_DOMAIN] = published
    BY DomainAssumption, Zenon DEF TypeInv, ClientType, LogInv, LogType, published
  <1>2. answer.kind # "ignore_reset"
    <2> SUFFICES ASSUME answer.kind = "ignore_reset" PROVE FALSE
      BY Zenon
    <2> HIDE DEF same
    <2>1. same /\ k.seq > published
      BY <1>1, ReplayIgnores, DomainAssumption, Zenon
    <2>2. k.seq \in 1..published
      BY <2>1, Zenon DEF ClientInv, same
    <2> HIDE DEF k
    <2>3. QED
      BY <1>1, <2>1, <2>2
  <1>3. RESYNC \in Item /\ RESYNC # STOP
    BY DEF Item, RESYNC, STOP, Control
  <1>4. CASE k = NoCursor
    <2>1. Plan(c) = <<>>
      BY <1>4, Zenon DEF Plan
    <2>2. QED
      BY <1>4, <2>1
  <1>5. CASE k # NoCursor /\ answer.kind # "frames"
    <2>1. Plan(c) = <<RESYNC>>
      BY <1>2, <1>5, Zenon DEF Plan
    <2> HIDE DEF k, answer
    <2>2. QED
      BY <1>3, <2>1
  <1>6. CASE k # NoCursor /\ answer.kind = "frames"
    <2> HIDE DEF same
    <2>1. /\ same /\ k.seq <= published
          /\ A \subseteq EntriesOf(log.entries, GLOBAL_DOMAIN)
          /\ {e.seq : e \in A} = (k.seq + 1)..published
      <3>0. /\ k.seq \in Nat /\ same \in BOOLEAN /\ GLOBAL_DOMAIN \in Domains
            /\ Replay(log, GLOBAL_DOMAIN, k.seq, same, now).kind = "frames"
        BY <1>1, <1>6, DomainAssumption, Zenon
      <3> HIDE DEF k
      <3>1. LET B == Replay(log, GLOBAL_DOMAIN, k.seq, same, now).entries
            IN /\ same /\ k.seq <= log.last_seq[GLOBAL_DOMAIN]
               /\ ~ (k.seq <= log.watermark[GLOBAL_DOMAIN])
               /\ B \subseteq EntriesOf(log.entries, GLOBAL_DOMAIN)
               /\ {e.seq : e \in B} = (k.seq + 1)..log.last_seq[GLOBAL_DOMAIN]
        BY <3>0, ReplayFrames, ZenonT(60)
      <3>2. QED
        BY <1>1, <3>1, Zenon
    <2>2. ~ Dead(log, GLOBAL_DOMAIN, k.seq)
      BY <1>1, <1>6, DeadIsUnanswered, DomainAssumption, Zenon
    <2>3. Plan(c) = [i \in 1..Cardinality(A) |-> Frame(Nth(A, i).seq, Nth(A, i).size)]
      BY <1>2, <1>6, Zenon DEF Plan, same
    <2> HIDE DEF answer
    <2>4. /\ A \in SUBSET Entry
          /\ \A x, y \in A : (x.seq < y.seq <=> x.order < y.order)
          /\ \A x, y \in A : x.order = y.order => x = y
      <3>1. log.entries \in SUBSET Entry /\ Window(log.entries, log.last_seq, log.order)
        BY Zenon DEF LogInv, LogType
      <3>2. \A x \in A : x \in log.entries /\ x.domain = GLOBAL_DOMAIN
        BY <2>1, Zenon DEF EntriesOf
      <3> HIDE DEF A
      <3>3. \A x, y \in A : (x.seq < y.seq <=> x.order < y.order)
        BY <3>1, <3>2, Zenon DEF Window
      <3>4. \A x, y \in A : x.order = y.order => x = y
        BY <3>1, <3>2, Zenon DEF Window
      <3>5. QED
        BY <3>1, <3>2, <3>3, <3>4, Zenon
    <2> HIDE DEF A, k
    <2>5. /\ Cardinality(A) = published - k.seq
          /\ \A i \in 1..(published - k.seq) : Nth(A, i) \in A /\ Nth(A, i).seq = k.seq + i
      BY <1>1, <2>1, <2>4, NthEntry
    <2>6. published - k.seq \in Nat
      BY <1>1, <2>1
    <2>7. \A i \in 1..(published - k.seq) :
            /\ Nth(A, i).seq \in Nat \ {0} /\ Nth(A, i).size \in Nat
      BY <2>4, <2>5, Zenon DEF Entry
    <2>8. \A i \in 1..(published - k.seq) : Frame(Nth(A, i).seq, Nth(A, i).size) \in Item
      BY <2>7 DEF Item
    <2>9. \A i \in 1..(published - k.seq) :
            LET x == Frame(Nth(A, i).seq, Nth(A, i).size)
            IN x.kind = "frame" /\ x.seq = k.seq + i /\ x # STOP
      BY <2>5, Zenon DEF Frame, STOP, Control
    <2>10. Plan(c) \in Seq(Item) /\ Len(Plan(c)) = published - k.seq
      BY <2>3, <2>5, <2>6, <2>8
    <2>11. \A i \in 1..Len(Plan(c)) : /\ IsFrame(Plan(c)[i]) /\ Plan(c)[i].seq = k.seq + i
                                      /\ Plan(c)[i] # STOP
      BY <2>3, <2>5, <2>9, <2>10, ZenonT(60) DEF IsFrame
    <2>12. Untold(client[c], Plan(c))
      BY <1>6, <2>1, <2>2, <2>10, <2>11, Zenon DEF Untold, k, same
    <2>13. QED
      BY <2>10, <2>11, <2>12, Zenon
  <1>7. QED
    BY <1>4, <1>5, <1>6, Zenon

\* events() opens a connection.
LEMMA ConnectStep ==
    ASSUME NEW c \in Clients, TypeInv, LogInv(log), NEW M, StaysDead(log, M), NEW owed,
           ~ conn[c].open,
           ClientOk(log, conn[c], client[c], published, epoch, due, owed)
    PROVE  LET cn == [open |-> TRUE, closed |-> FALSE,
                      queue |-> <<>>, head |-> <<META>> \o Plan(c)]
           IN cn \in OpenConn /\ ClientOk(M, cn, client[c], published, epoch, due, owed)
  <1> DEFINE k == client[c]
             plan == Plan(c)
             cn == [open |-> TRUE, closed |-> FALSE,
                    queue |-> <<>>, head |-> <<META>> \o plan]
             w == WireOf(cn)
  <1>1. /\ k \in ClientType /\ k.cursor.seq \in Nat /\ epoch \in Nat \ {0} /\ published \in Nat
        /\ ClientInv(k, published, epoch) /\ (owed \/ Settled(log, conn[c], k, epoch, due))
    BY DomainAssumption, Zenon DEF TypeInv, ClientType, LogInv, LogType, published, ClientOk
  <1>2. /\ plan \in Seq(Item) /\ \A i \in 1..Len(plan) : plan[i] # STOP
        /\ \/ k.cursor = NoCursor /\ plan = <<>>
           \/ plan = <<RESYNC>>
           \/ Untold(k, plan)
    BY <1>1, PlanShape, Zenon
  <1> HIDE DEF k, plan
  <1>3. META \in Item /\ META # STOP
    BY DEF Item, META, STOP, Control
  <1>4. <<META>> \in Seq(Item) /\ Len(<<META>>) = 1 /\ <<META>>[1] = META /\ Len(plan) \in Nat
    BY <1>2, <1>3
  <1> DEFINE h == <<META>> \o plan
  <1>5. /\ h \in Seq(Item) /\ Len(h) = 1 + Len(plan)
        /\ \A i \in 1..1 : h[i] = <<META>>[i]
        /\ \A i \in 1..Len(plan) : h[1 + i] = plan[i]
    BY <1>2, <1>4, ConcatFacts, Zenon
  <1> HIDE DEF h
  <1>6. cn \in OpenConn /\ cn.head = h /\ cn.queue = <<>> /\ cn.open /\ cn.closed = FALSE
    BY <1>5 DEF OpenConn, h
  <1>7. <<>> \in Seq(Item) /\ Len(<<>>) = 0
    OBVIOUS
  <1>8. Len(w) = Len(h) + 0 /\ \A i \in 1..Len(h) : w[i] = h[i]
    BY <1>5, <1>6, <1>7, ConcatFacts DEF WireOf
  <1> HIDE DEF cn, w
  <1>9. /\ Len(w) = Len(plan) + 1 /\ w[1] = META
        /\ \A i \in 1..Len(plan) : w[i + 1] = plan[i]
    <2>1. h[1] = META /\ 1 \in 1..Len(h)
      BY <1>4, <1>5
    <2>2. \A i \in 1..Len(plan) : i + 1 \in 1..Len(h) /\ i + 1 = 1 + i
      BY <1>4, <1>5
    <2>3. QED
      BY <1>4, <1>5, <1>8, <2>1, <2>2
  <1>10. /\ WireInv(w, FALSE, k, published, epoch)
         /\ \A L : DeadCursor(log, k, epoch) => DeadWire(L, w, FALSE, k)
    BY <1>1, <1>2, <1>9, PlanWire, Zenon
  <1>11. \A i \in 1..Len(h) : h[i] # STOP
    <2> TAKE i \in 1..Len(h)
    <2>1. CASE i = 1
      BY <1>3, <1>4, <1>5, <2>1
    <2>2. CASE i # 1
      <3>1. i - 1 \in 1..Len(plan) /\ 1 + (i - 1) = i
        BY <1>4, <1>5, <2>2
      <3>2. QED
        BY <1>2, <1>5, <3>1, Zenon
    <2>3. QED
      BY <2>1, <2>2, Zenon
  <1>12. DeadCursor(log, k, epoch) => DeadCursor(M, k, epoch)
    BY <1>1, Zenon DEF DeadCursor, StaysDead
  <1>13. Settled(log, conn[c], k, epoch, due) => Settled(M, cn, k, epoch, due)
    BY <1>6, <1>10, <1>12, Zenon DEF Settled, w
  <1>14. ClientOk(M, cn, k, published, epoch, due, owed)
    BY <1>1, <1>6, <1>10, <1>11, <1>13, Zenon DEF ClientOk, w
  <1>15. QED
    BY <1>6, <1>14, Zenon DEF cn, k, plan

LEMMA InitInv ==
    Init => Inv
  <1> SUFFICES ASSUME Init PROVE Inv
    BY Zenon
  <1> DEFINE k == [cursor |-> NoCursor, must_align |-> TRUE, covered |-> 0,
                   aligned_in |-> 0, loss_seen |-> 0]
  <1>1. /\ k \in ClientType /\ k.cursor.epoch = 0 /\ k.must_align = TRUE /\ k.aligned_in = 0
    BY Zenon DEF ClientType, NoCursor
  <1>2. conn = [c \in Clients |-> NoConn] /\ client = [c \in Clients |-> k] /\ epoch = 1
    BY Zenon DEF Init
  <1> HIDE DEF k
  <1>3. NoConn \in Conn /\ NoConn.open = FALSE
    BY ConnFields, Zenon DEF Conn
  <1>4. conn \in [Clients -> Conn] /\ client \in [Clients -> ClientType]
    BY <1>1, <1>2, <1>3, Zenon
  <1>5. TypeInv
    <2>1. now \in Nat /\ epoch \in Nat \ {0} /\ losses \in Nat /\ due \in Nat /\ due <= losses
      <3>1. now = 0 /\ epoch = 1 /\ losses = 0 /\ due = 0
        BY Zenon DEF Init
      <3>2. QED
        BY <3>1
    <2>2. connected \in BOOLEAN /\ ever_connected \in BOOLEAN /\ loss_notified \in BOOLEAN
      BY Zenon DEF Init
    <2>3. QED
      BY <1>4, <2>1, <2>2, Zenon DEF TypeInv
  <1>6. published = 0
    BY DomainAssumption, Zenon DEF Init, EmptyLog, published
  <1>7. LogInv(log)
    <2>1. /\ EmptyLog \in LogType /\ EmptyLog.entries = {}
          /\ \A d \in Domains : EmptyLog.next_seq[d] = EmptyLog.last_seq[d] + 1
      BY DEF EmptyLog, LogType, NoBarrier
    <2>2. log = EmptyLog
      BY Zenon DEF Init
    <2>3. QED
      BY <2>1, <2>2, FS_EmptySet, Zenon DEF LogInv, Window
  <1>8. ASSUME NEW c \in Clients
        PROVE  ClientOk(log, conn[c], client[c], published, epoch, due, Owed)
    <2>1. conn[c] = NoConn /\ client[c] = k
      BY <1>2, Zenon
    <2>2. ClientInv(k, 0, 1)
      BY <1>1 DEF ClientInv
    <2>3. QED
      BY <1>1, <1>2, <1>3, <1>6, <2>1, <2>2, Zenon DEF ClientOk, Settled
  <1>9. connected = FALSE
    BY Zenon DEF Init
  <1>10. QED
    BY <1>5, <1>6, <1>7, <1>8, <1>9 DEF Inv

-----------------------------------------------------------------------------
(* The operations of the log on the stream's own log.                      *)

LEMMA AppendedLog ==
    ASSUME Inv, NEW size \in Nat
    PROVE  LET M == AppendNext(log, GLOBAL_DOMAIN, size, now)
           IN /\ LogInv(M) /\ StaysDead(log, M) /\ GLOBAL_DOMAIN \in M.created
              /\ M.last_seq[GLOBAL_DOMAIN] = log.last_seq[GLOBAL_DOMAIN] + 1
  <1>1. LogInv(log) /\ now \in Nat /\ GLOBAL_DOMAIN \in Domains
    BY InvFields, DomainAssumption, Zenon
  <1>2. LET M == AppendNext(log, GLOBAL_DOMAIN, size, now)
        IN /\ LogInv(M) /\ (\A s \in Nat : Dead(log, GLOBAL_DOMAIN, s) => Dead(M, GLOBAL_DOMAIN, s))
           /\ GLOBAL_DOMAIN \in M.created
           /\ M.last_seq[GLOBAL_DOMAIN] = log.last_seq[GLOBAL_DOMAIN] + 1
    BY <1>1, AppendKeeps, Zenon
  <1>3. QED
    BY <1>2, Zenon DEF StaysDead

LEMMA BarredLog ==
    ASSUME Inv
    PROVE  LET M == WriteBarrier(log, Domains)
           IN /\ LogInv(M) /\ M.created = log.created /\ M.last_seq = log.last_seq
              /\ \A s \in 1..log.last_seq[GLOBAL_DOMAIN] : Dead(M, GLOBAL_DOMAIN, s)
  <1>1. LogInv(log) /\ GLOBAL_DOMAIN \in Domains
    BY InvFields, DomainAssumption, Zenon
  <1>2. log.last_seq[GLOBAL_DOMAIN] > 0 => GLOBAL_DOMAIN \in log.created
    BY Zenon DEF Inv, published
  <1>3. QED
    BY <1>1, <1>2, BarrierKills, Zenon

LEMMA ReplayedLog ==
    ASSUME Inv, NEW same \in BOOLEAN
    PROVE  LET M == AfterReplay(log, GLOBAL_DOMAIN, same, now)
           IN /\ LogInv(M) /\ StaysDead(log, M) /\ M.created = log.created
              /\ M.last_seq = log.last_seq
  <1>1. LogInv(log) /\ now \in Nat /\ GLOBAL_DOMAIN \in Domains
    BY InvFields, DomainAssumption, Zenon
  <1>2. LET M == AfterReplay(log, GLOBAL_DOMAIN, same, now)
        IN /\ LogInv(M) /\ (\A s \in Nat : Dead(log, GLOBAL_DOMAIN, s) => Dead(M, GLOBAL_DOMAIN, s))
           /\ M.created = log.created /\ M.last_seq = log.last_seq
    BY <1>1, ReplayKeeps, Zenon
  <1>3. QED
    BY <1>2, Zenon DEF StaysDead

LEMMA SweptLog ==
    ASSUME Inv
    PROVE  LET M == Sweep(log, now)
           IN /\ LogInv(M) /\ StaysDead(log, M) /\ M.created = log.created
              /\ M.last_seq = log.last_seq
  <1>1. LogInv(log) /\ now \in Nat /\ GLOBAL_DOMAIN \in Domains
    BY InvFields, DomainAssumption, Zenon
  <1>2. LET M == Sweep(log, now)
        IN /\ LogInv(M) /\ (\A s \in Nat : Dead(log, GLOBAL_DOMAIN, s) => Dead(M, GLOBAL_DOMAIN, s))
           /\ M.created = log.created /\ M.last_seq = log.last_seq
    BY <1>1, SweepKeeps, Zenon
  <1>3. QED
    BY <1>2, Zenon DEF StaysDead

-----------------------------------------------------------------------------
(* The steps.                                                              *)

\* A frame is published: to the log, and to every queue.
LEMMA EmitInv ==
    ASSUME Inv, FramesFit, NEW size \in Sizes, Emit(size),
           UNCHANGED <<connected, ever_connected, loss_notified>>
    PROVE  Inv'
  <1>1. /\ size \in Nat /\ size <= MaxFrameBytes
    BY FrameSizeAssumption, Zenon DEF FramesFit
  <1> DEFINE p == published
  <1>2. /\ log' = AppendNext(log, GLOBAL_DOMAIN, size, now)
        /\ conn' = [c \in Clients |-> IF conn[c].open THEN Put(conn[c], Frame(p + 1, size))
                                      ELSE conn[c]]
        /\ now' = now /\ epoch' = epoch /\ client' = client /\ losses' = losses /\ due' = due
    BY Zenon DEF Emit, PutAll
  <1>3. /\ LogInv(log') /\ StaysDead(log, log') /\ GLOBAL_DOMAIN \in log'.created
        /\ log'.last_seq[GLOBAL_DOMAIN] = log.last_seq[GLOBAL_DOMAIN] + 1
    BY <1>1, <1>2, AppendedLog, Zenon
  <1>4. published' = p + 1 /\ p \in Nat
    BY <1>3, InvFields, Zenon DEF published
  <1>5. Owed' = Owed /\ TypeInv
    BY Zenon DEF Owed, Inv
  <1> HIDE DEF p
  <1>6. ASSUME NEW c \in Clients
        PROVE  /\ conn'[c] \in Conn
               /\ ClientOk(log', conn'[c], client[c], p + 1, epoch, due, Owed)
    <2> DEFINE cn == conn[c]
               k == client[c]
    <2>1. /\ cn \in Conn /\ k \in ClientType /\ epoch \in Nat /\ Owed \in BOOLEAN
          /\ ClientOk(log, cn, k, p, epoch, due, Owed)
      BY InvFields, Zenon DEF p
    <2>2. CASE cn.open
      <3>1. cn \in OpenConn /\ conn'[c] = Put(cn, Frame(p + 1, size))
        BY <1>2, <2>1, <2>2, ConnFields, Zenon
      <3> HIDE DEF cn, k
      <3>a. /\ StaysDead(log, log') /\ cn \in OpenConn /\ k \in ClientType
            /\ p \in Nat /\ epoch \in Nat /\ Owed \in BOOLEAN
            /\ size \in Nat /\ size <= MaxFrameBytes
            /\ ClientOk(log, cn, k, p, epoch, due, Owed)
        BY <1>1, <1>3, <1>4, <2>1, <3>1, Zenon
      <3>2. LET dn == Put(cn, Frame(p + 1, size))
            IN dn \in OpenConn /\ ClientOk(log', dn, k, p + 1, epoch, due, Owed)
        BY <3>a, FrameStep, SMTT(60)
      <3>3. QED
        BY <3>1, <3>2, Zenon DEF Conn, k
    <2>3. CASE ~ cn.open
      <3>1. conn'[c] = cn
        BY <1>2, <2>3, Zenon
      <3> HIDE DEF cn, k
      <3>2. ClientOk(log', cn, k, p, epoch, due, Owed)
        BY <1>3, <1>4, <2>1, LogStep
      <3>3. ClientInv(k, p + 1, epoch)
        <4>1. k.covered \in Nat /\ k.cursor.seq \in Nat /\ ClientInv(k, p, epoch)
          BY <2>1, Zenon DEF ClientOk, ClientType
        <4>2. /\ k.covered <= p => k.covered <= p + 1
              /\ k.cursor.seq \in 1..p => k.cursor.seq \in 1..(p + 1)
          BY <1>4, <4>1
        <4>3. QED
          BY <4>1, <4>2, Zenon DEF ClientInv
      <3>4. ClientOk(log', cn, k, p + 1, epoch, due, Owed)
        BY <2>3, <3>2, <3>3, Zenon DEF ClientOk
      <3>5. QED
        BY <2>1, <3>1, <3>4, Zenon DEF k
    <2>4. QED
      BY <2>2, <2>3, Zenon
  <1>7. conn' \in [Clients -> Conn]
    BY <1>2, <1>6, Zenon
  <1>8. TypeInv'
    BY <1>2, <1>5, <1>7, Zenon DEF TypeInv
  <1>9. (connected => ever_connected /\ ~ loss_notified)'
    BY Zenon DEF Inv
  <1>10. (\A c \in Clients : ClientOk(log, conn[c], client[c], published, epoch, due, Owed))'
    BY <1>2, <1>4, <1>5, <1>6, Zenon
  <1>11. QED
    BY <1>3, <1>8, <1>9, <1>10, Zenon DEF Inv

\* The end of an observation is notified.
LEMMA NotifyInv ==
    ASSUME Inv, Notify(conn), UNCHANGED <<now, epoch, client>>,
           losses' \in Nat, due' \in Nat, due' <= losses',
           connected' \in BOOLEAN, ever_connected' \in BOOLEAN,
           loss_notified' \in BOOLEAN, connected' => ever_connected' /\ ~ loss_notified'
    PROVE  Inv'
  <1> DEFINE p == published
  <1>1. /\ log' = WriteBarrier(log, Domains)
        /\ conn' = [c \in Clients |-> IF conn[c].open THEN Put(conn[c], RESYNC) ELSE conn[c]]
    BY Zenon DEF Notify, PutAll
  <1>3. /\ LogInv(log') /\ log'.created = log.created /\ log'.last_seq = log.last_seq
        /\ \A s \in 1..log.last_seq[GLOBAL_DOMAIN] : Dead(log', GLOBAL_DOMAIN, s)
    BY <1>1, BarredLog, Zenon
  <1>4. published' = p /\ p \in Nat /\ \A s \in 1..p : Dead(log', GLOBAL_DOMAIN, s)
    BY <1>3, InvFields, Zenon DEF published
  <1> HIDE DEF p
  <1>5. ASSUME NEW c \in Clients
        PROVE  /\ conn'[c] \in Conn
               /\ ClientOk(log', conn'[c], client[c], p, epoch, due', Owed')
    <2> DEFINE cn == conn[c]
               k == client[c]
               dn == IF cn.open THEN Put(cn, RESYNC) ELSE cn
    <2>1. /\ cn \in Conn /\ k \in ClientType /\ epoch \in Nat
          /\ ClientOk(log, cn, k, p, epoch, due, Owed)
      BY InvFields, Zenon DEF p
    <2>2. conn'[c] = dn
      BY <1>1, Zenon
    <2> HIDE DEF cn, k
    <2>3. dn \in Conn /\ (dn.open <=> cn.open) /\ ClientOk(log', dn, k, p, epoch, due', Owed')
      BY <1>4, <2>1, NotifyStep, Zenon
    <2>4. QED
      BY <2>2, <2>3, Zenon DEF k
  <1>6. conn' \in [Clients -> Conn]
    BY <1>1, <1>5, Zenon
  <1>7. TypeInv'
    BY <1>6, Zenon DEF Inv, TypeInv
  <1>8. (published > 0 => GLOBAL_DOMAIN \in log.created)'
    BY <1>3, <1>4, Zenon DEF Inv, p
  <1>9. (\A c \in Clients : ClientOk(log, conn[c], client[c], published, epoch, due, Owed))'
    BY <1>4, <1>5, Zenon
  <1>10. QED
    BY <1>3, <1>7, <1>8, <1>9, Zenon DEF Inv

LEMMA ConnectInv ==
    ASSUME Inv, NEW c \in Clients, Connect(c)
    PROVE  Inv'
  <1> DEFINE k == client[c]
             dn == [open |-> TRUE, closed |-> FALSE, queue |-> <<>>, head |-> <<META>> \o Plan(c)]
             same == k.cursor.epoch = epoch
  <1>1. /\ ~ conn[c].open /\ conn' = [conn EXCEPT ![c] = dn]
        /\ log' = IF k.cursor = NoCursor THEN log
                  ELSE AfterReplay(log, GLOBAL_DOMAIN, same, now)
        /\ UNCHANGED <<now, epoch, connected, ever_connected, loss_notified, losses, due, client>>
    BY Zenon DEF Connect
  <1>2. same \in BOOLEAN /\ now \in Nat /\ LogInv(log) /\ TypeInv /\ client \in [Clients -> ClientType]
    BY InvFields, Zenon DEF Inv, TypeInv
  <1> HIDE DEF same
  <1>3. /\ LogInv(log') /\ StaysDead(log, log') /\ log'.created = log.created
        /\ log'.last_seq = log.last_seq
    <2>1. CASE k.cursor = NoCursor
      BY <1>1, <2>1, SameLogKeeps, Zenon
    <2>2. CASE k.cursor # NoCursor
      BY <1>1, <1>2, <2>2, ReplayedLog, Zenon
    <2>3. QED
      BY <2>1, <2>2, Zenon
  <1>4. ClientOk(log, conn[c], client[c], published, epoch, due, Owed)
    BY InvFields, Zenon
  <1>5. dn \in OpenConn /\ ClientOk(log', dn, k, published, epoch, due, Owed)
    BY <1>1, <1>2, <1>3, <1>4, ConnectStep, Zenon
  <1>6. dn \in Conn /\ k \in ClientType /\ client' = [client EXCEPT ![c] = k]
    BY <1>1, <1>2, <1>5, Zenon DEF Conn
  <1> HIDE DEF dn, k
  <1>7. QED
    BY <1>1, <1>3, <1>5, <1>6, ClientInvStep, Zenon

LEMMA RestartInv ==
    ASSUME Inv, Restart
    PROVE  Inv'
  <1>1. /\ epoch' = epoch + 1 /\ log' = EmptyLog /\ now' = now
        /\ conn' = [c \in Clients |-> NoConn]
        /\ client' = client /\ losses' = losses /\ due' = due
    BY Zenon DEF Restart
  <1>2. connected' = FALSE /\ ever_connected' = FALSE /\ loss_notified' = FALSE
    BY Zenon DEF Restart
  <1>3. published' = 0
    BY <1>1, DomainAssumption, Zenon DEF EmptyLog, published
  <1>4. LogInv(log')
    <2>1. /\ EmptyLog \in LogType /\ EmptyLog.entries = {}
          /\ \A d \in Domains : EmptyLog.next_seq[d] = EmptyLog.last_seq[d] + 1
      BY DEF EmptyLog, LogType, NoBarrier
    <2>2. LogInv(EmptyLog)
      BY <2>1, FS_EmptySet, Zenon DEF LogInv, Window
    <2>3. QED
      BY <1>1, <2>2, Zenon
  <1>5. ASSUME NEW c \in Clients
        PROVE  ClientOk(log', NoConn, client[c], 0, epoch + 1, due, Owed')
    <2>1. /\ client[c] \in ClientType /\ published \in Nat /\ epoch \in Nat
          /\ ClientOk(log, conn[c], client[c], published, epoch, due, Owed)
      BY InvFields, Zenon
    <2>2. QED
      BY <2>1, RestartStep, Zenon
  <1>6. conn' \in [Clients -> Conn]
    BY <1>1, Zenon DEF Conn
  <1>7. TypeInv'
    <2>1. /\ now' \in Nat /\ epoch' \in Nat \ {0}
          /\ losses' \in Nat /\ due' \in Nat /\ due' <= losses'
          /\ client' \in [Clients -> ClientType]
      <3>1. /\ now \in Nat /\ epoch \in Nat \ {0} /\ losses \in Nat /\ due \in Nat /\ due <= losses
            /\ client \in [Clients -> ClientType]
        BY Zenon DEF Inv, TypeInv
      <3>2. epoch + 1 \in Nat \ {0}
        BY <3>1
      <3>3. QED
        BY <1>1, <3>1, <3>2, Zenon
    <2>2. connected' \in BOOLEAN /\ ever_connected' \in BOOLEAN /\ loss_notified' \in BOOLEAN
      BY <1>2, Zenon
    <2>3. QED
      BY <1>6, <2>1, <2>2, Zenon DEF TypeInv
  <1>8. (\A c \in Clients : ClientOk(log, conn[c], client[c], published, epoch, due, Owed))'
    BY <1>1, <1>3, <1>5, Zenon
  <1>9. ~ (published > 0)'
    BY <1>3
  <1>10. QED
    BY <1>2, <1>4, <1>7, <1>8, <1>9, Zenon DEF Inv

\* run() and the teardown of an idle hub.
LEMMA UpstreamInv ==
    ASSUME Inv, UpstreamConnect \/ ConnectFails \/ UpstreamLost \/ IdleRecycle
    PROVE  Inv'
  <1>1. /\ connected \in BOOLEAN /\ ever_connected \in BOOLEAN /\ loss_notified \in BOOLEAN
        /\ losses \in Nat /\ due \in Nat /\ due <= losses /\ now \in Nat
    BY Zenon DEF Inv, TypeInv
  <1>2. CASE UpstreamConnect
    <2>1. /\ ~ connected /\ connected' = TRUE /\ ever_connected' = TRUE /\ loss_notified' = FALSE
          /\ UNCHANGED <<now, epoch, client, losses, due>>
      BY <1>2, Zenon DEF UpstreamConnect
    <2>2. /\ connected' \in BOOLEAN /\ ever_connected' \in BOOLEAN /\ loss_notified' \in BOOLEAN
          /\ connected' => ever_connected' /\ ~ loss_notified'
      BY <2>1, Zenon
    <2>3. CASE ever_connected /\ ~ loss_notified
      <3>1. Notify(conn) /\ losses' \in Nat /\ due' \in Nat /\ due' <= losses'
        BY <1>1, <1>2, <2>1, <2>3, Zenon DEF UpstreamConnect
      <3>2. QED
        BY <2>1, <2>2, <3>1, NotifyInv, Zenon
    <2>4. CASE ~ (ever_connected /\ ~ loss_notified)
      <3>1. conn' = conn /\ log' = log /\ now' \in Nat
        BY <1>1, <1>2, <2>1, <2>4, Zenon DEF UpstreamConnect, NoNotify
      <3>2. Owed => Owed'
        BY <2>4, Zenon DEF Owed
      <3>3. /\ LogInv(log') /\ StaysDead(log, log') /\ log'.created = log.created
            /\ log'.last_seq = log.last_seq
        BY <3>1, SameLogKeeps, Zenon
      <3>4. QED
        BY <2>1, <2>2, <3>1, <3>2, <3>3, LogInvStep, Zenon
    <2>5. QED
      BY <2>3, <2>4, Zenon
  <1>3. CASE ConnectFails
    <2>1. /\ Notify(conn) /\ ~ connected /\ loss_notified' = TRUE
          /\ UNCHANGED <<now, epoch, client, losses, due, connected, ever_connected>>
      BY <1>3, Zenon DEF ConnectFails
    <2>2. /\ connected' \in BOOLEAN /\ ever_connected' \in BOOLEAN /\ loss_notified' \in BOOLEAN
          /\ connected' => ever_connected' /\ ~ loss_notified'
      BY <1>1, <2>1, Zenon
    <2>3. losses' \in Nat /\ due' \in Nat /\ due' <= losses'
      BY <1>1, <2>1, Zenon
    <2>4. QED
      BY <2>1, <2>2, <2>3, NotifyInv, Zenon
  <1>4. CASE UpstreamLost
    <2>1. ever_connected /\ ~ loss_notified
      BY <1>4, Zenon DEF UpstreamLost, Inv
    <2>2. /\ Notify(conn) /\ connected' = FALSE /\ loss_notified' = TRUE
          /\ losses' = losses + 1 /\ due' = losses + 1
          /\ UNCHANGED <<now, epoch, client, ever_connected>>
      BY <1>4, <2>1, Zenon DEF UpstreamLost, Lose
    <2>3. /\ connected' \in BOOLEAN /\ ever_connected' \in BOOLEAN /\ loss_notified' \in BOOLEAN
          /\ connected' => ever_connected' /\ ~ loss_notified'
      BY <1>1, <2>2, Zenon
    <2>4. losses' \in Nat /\ due' \in Nat /\ due' <= losses'
      BY <1>1, <2>2
    <2>5. QED
      BY <2>2, <2>3, <2>4, NotifyInv, Zenon
  <1>5. CASE IdleRecycle
    <2>1. /\ Notify(conn) /\ UNCHANGED <<now, epoch, client>>
          /\ connected' = FALSE /\ ever_connected' = FALSE /\ loss_notified' = FALSE
          /\ \/ losses' = losses /\ due' = due
             \/ losses' = losses + 1 /\ due' = losses + 1
      BY <1>5, Zenon DEF IdleRecycle, Lose
    <2>2. /\ connected' \in BOOLEAN /\ ever_connected' \in BOOLEAN /\ loss_notified' \in BOOLEAN
          /\ connected' => ever_connected' /\ ~ loss_notified'
      BY <2>1, Zenon
    <2>3. losses' \in Nat /\ due' \in Nat /\ due' <= losses'
      BY <1>1, <2>1
    <2>4. QED
      BY <2>1, <2>2, <2>3, NotifyInv, Zenon
  <1>6. QED
    BY <1>2, <1>3, <1>4, <1>5, Zenon

\* The debounce, the clock and the sweep; and a stuttering step.
LEMMA QuietInv ==
    ASSUME Inv, PublishDebounced \/ SweepLog \/ Tick \/ UNCHANGED vars
    PROVE  Inv'
  <1>1. /\ UNCHANGED <<epoch, conn, client, losses, due, connected, ever_connected, loss_notified>>
        /\ now' = now \/ now' = now + 1
        /\ log' = log \/ log' = Sweep(log, now)
    BY Zenon DEF PublishDebounced, SweepLog, Tick, vars, hubVars
  <1>2. /\ LogInv(log') /\ StaysDead(log, log') /\ log'.created = log.created
        /\ log'.last_seq = log.last_seq
    <2>1. CASE log' = log
      BY <2>1, SameLogKeeps, Zenon
    <2>2. CASE log' = Sweep(log, now)
      BY <2>2, SweptLog, Zenon
    <2>3. QED
      BY <1>1, <2>1, <2>2, Zenon
  <1>3. now' \in Nat
    BY <1>1, InvFields
  <1>4. /\ connected' \in BOOLEAN /\ ever_connected' \in BOOLEAN /\ loss_notified' \in BOOLEAN
        /\ connected' => ever_connected' /\ ~ loss_notified'
    BY <1>1, Zenon DEF Inv, TypeInv
  <1>5. Owed => Owed'
    BY <1>1, Zenon DEF Owed
  <1>6. QED
    BY <1>1, <1>2, <1>3, <1>4, <1>5, LogInvStep, Zenon

LEMMA StepInv ==
    ASSUME FramesFit, Inv, [Next]_vars
    PROVE  Inv'
  <1>1. CASE \E size \in Sizes : PublishImmediate(size) \/ Flush(size)
    <2>1. PICK size \in Sizes : PublishImmediate(size) \/ Flush(size)
      BY <1>1, Zenon
    <2>2. Emit(size) /\ UNCHANGED <<connected, ever_connected, loss_notified>>
      BY <2>1, Zenon DEF PublishImmediate, Flush, hubVars
    <2>3. QED
      BY <2>2, EmitInv, Zenon
  <1>2. CASE UpstreamConnect \/ ConnectFails \/ UpstreamLost \/ IdleRecycle
    BY <1>2, UpstreamInv, Zenon
  <1>3. CASE RunCancelled
    BY <1>3, CancelInv, Zenon
  <1>4. CASE \E c \in Clients : Connect(c) \/ Deliver(c) \/ Drop(c) \/ Align(c)
    BY <1>4, ConnectInv, DeliverInv, DropInv, AlignInv, Zenon
  <1>5. CASE Restart
    BY <1>5, RestartInv, Zenon
  <1>6. CASE PublishDebounced \/ SweepLog \/ Tick \/ UNCHANGED vars
    BY <1>6, QuietInv, Zenon
  <1>7. CASE UpstreamMisses
    BY <1>7, MissesInv, Zenon
  <1>8. QED
    BY <1>1, <1>2, <1>3, <1>4, <1>5, <1>6, <1>7, Zenon DEF Next

\* The inductive invariant: types, the log's own invariant, and for each client
\* that its wire continues what it has and that a loss it missed left its
\* cursor dead, whatever the hub, the generators and restarts do.
THEOREM InvHolds ==
    ASSUME FramesFit
    PROVE  Spec => []Inv
  <1>1. Inv /\ [Next]_vars => Inv'
    BY StepInv, Zenon
  <1>2. QED
    BY <1>1, InitInv, PTL DEF Spec

-----------------------------------------------------------------------------
(* The theorems.                                                           *)

LEMMA InvReturningClientIsSafe ==
    Inv => ReturningClientIsSafe
  <1> SUFFICES ASSUME Inv, NEW c \in Clients, ~ conn[c].open, client[c].cursor # NoCursor,
                      ~ client[c].must_align
               PROVE  LET k == client[c]
                          answer == Replay(log, GLOBAL_DOMAIN, k.cursor.seq,
                                           k.cursor.epoch = epoch, now)
                      IN /\ answer.kind # "ignore_reset"
                         /\ answer.kind = "frames" =>
                              /\ k.aligned_in = epoch
                              /\ k.covered + 1..published \subseteq {e.seq : e \in answer.entries}
                              /\ connected \/ loss_notified => k.loss_seen >= due
    BY Zenon DEF ReturningClientIsSafe
  <1> DEFINE k == client[c]
             s == k.cursor.seq
             same == k.cursor.epoch = epoch
             answer == Replay(log, GLOBAL_DOMAIN, s, same, now)
  <1>1. /\ s \in Nat /\ same \in BOOLEAN /\ LogInv(log) /\ k.covered \in Nat
        /\ published \in Nat /\ log.last_seq[GLOBAL_DOMAIN] = published
        /\ ClientInv(k, published, epoch)
        /\ Owed \/ Settled(log, conn[c], k, epoch, due)
    BY InvFields, Zenon DEF ClientType, ClientOk
  <1>2. same => s \in 1..published /\ k.aligned_in = epoch /\ s <= k.covered
    BY <1>1, Zenon DEF ClientInv
  <1>3. DeadCursor(log, k, epoch) <=> ~ same \/ Dead(log, GLOBAL_DOMAIN, s)
    BY Zenon DEF DeadCursor
  <1>4. connected \/ loss_notified => ~ Owed
    BY Zenon DEF Owed
  <1>5. Settled(log, conn[c], k, epoch, due) =>
          k.loss_seen >= due \/ DeadCursor(log, k, epoch)
    BY Zenon DEF Settled
  <1> HIDE DEF k, s, same
  <1>6. answer.kind # "ignore_reset"
    <2>1. answer.kind = "ignore_reset" => same /\ s > log.last_seq[GLOBAL_DOMAIN]
      BY <1>1, ReplayIgnores, DomainAssumption, Zenon
    <2> HIDE DEF answer
    <2>2. s \in Nat /\ published \in Nat /\ (same => s \in 1..published)
      BY <1>1, <1>2, Zenon
    <2>3. ~ (same /\ s > published)
      BY <2>2
    <2>4. QED
      BY <1>1, <2>1, <2>3, Zenon
  <1>7. ASSUME answer.kind = "frames"
        PROVE  /\ k.aligned_in = epoch
               /\ (k.covered + 1)..published \subseteq {e.seq : e \in answer.entries}
               /\ connected \/ loss_notified => k.loss_seen >= due
    <2>0. s \in Nat /\ same \in BOOLEAN /\ LogInv(log) /\ log.last_seq[GLOBAL_DOMAIN] = published
      BY <1>1, Zenon
    <2>1. same /\ {e.seq : e \in answer.entries} = (s + 1)..published
      <3>1. LET A == Replay(log, GLOBAL_DOMAIN, s, same, now).entries
            IN /\ same /\ s <= log.last_seq[GLOBAL_DOMAIN]
               /\ ~ (s <= log.watermark[GLOBAL_DOMAIN])
               /\ A \subseteq EntriesOf(log.entries, GLOBAL_DOMAIN)
               /\ {e.seq : e \in A} = (s + 1)..log.last_seq[GLOBAL_DOMAIN]
        BY <1>7, <2>0, ReplayFrames, DomainAssumption, ZenonT(60)
      <3>2. QED
        BY <2>0, <3>1, Zenon
    <2>2. ~ Dead(log, GLOBAL_DOMAIN, s)
      BY <1>1, <1>7, DeadIsUnanswered, DomainAssumption, Zenon
    <2> HIDE DEF answer
    <2>3. (k.covered + 1)..published \subseteq (s + 1)..published
      BY <1>1, <1>2, <2>1
    <2>4. connected \/ loss_notified => k.loss_seen >= due
      BY <1>1, <1>3, <1>4, <1>5, <2>1, <2>2, Zenon
    <2>5. QED
      BY <1>2, <2>1, <2>3, <2>4, Zenon
  <1>8. QED
    BY <1>6, <1>7, Zenon DEF k, s, same

\* events() and Subscriber.put: classification before subscription leaves no
\* gap.  Whatever overflows, is evicted or restarts, every frame an untold
\* client lacks is on the wire of its connection.
THEOREM GapFree ==
    ASSUME FramesFit
    PROVE  Spec => []NothingFallsInTheGap
  BY InvHolds, InvNothingFallsInTheGap, PTL

\* _notify_upstream_loss and write_barrier: once an end of observation has been
\* notified or the upstream is read again, no client passes it untold without
\* an alignment made after observation ended.  What goes by between a client's
\* alignment in a notified outage and the reconnect is outside the statement.
THEOREM LossNeverSilent ==
    ASSUME FramesFit
    PROVE  Spec => []LossIsSignalled
  BY InvHolds, InvLossIsSignalled, PTL

\* classify_reconnect: a client that comes back is answered with a resync or
\* with exactly what continues its copy, and never taken for one of the future.
THEOREM ReturnIsSafe ==
    ASSUME FramesFit
    PROVE  Spec => []ReturningClientIsSafe
  BY InvHolds, InvReturningClientIsSafe, PTL

\* The stream with its queues, log, losses and restarts implements Feed:
\* each of its steps is a step of the promise or invisible to it.
THEOREM StreamImplementsFeed ==
    ASSUME FramesFit
    PROVE  Spec => ImplementsFeed
  <1>1. Init => F!Init
    <2> SUFFICES ASSUME Init PROVE F!Init
      BY Zenon
    <2>1. published = 0
      BY DomainAssumption, Zenon DEF Init, EmptyLog, published
    <2> DEFINE k == [cursor |-> NoCursor, must_align |-> TRUE, covered |-> 0,
                     aligned_in |-> 0, loss_seen |-> 0]
    <2>2. client = [c \in Clients |-> k] /\ epoch = 1
      BY Zenon DEF Init
    <2>3. k.must_align = TRUE /\ k.covered = 0 /\ k.aligned_in = 0
      BY Zenon
    <2> HIDE DEF k
    <2>4. \A c \in Clients : /\ client[c].must_align = TRUE /\ client[c].covered = 0
                             /\ client[c].aligned_in # epoch
      BY <2>2, <2>3
    <2>5. QED
      BY <2>1, <2>4, Zenon DEF F!Init
  <1>2. Inv /\ [Next]_vars => [F!Next]_(F!vars)
    <2> SUFFICES ASSUME Inv, [Next]_vars PROVE F!Next \/ UNCHANGED F!vars
      BY Zenon
    <2>1. ASSUME published' = published, client' = client, epoch' = epoch
          PROVE  UNCHANGED F!vars
      BY <2>1, Zenon DEF F!vars
    <2>2. published \in Nat /\ client \in [Clients -> ClientType] /\ epoch \in Nat \ {0}
      BY InvFields, Zenon DEF Inv, TypeInv
    <2>3. CASE \E size \in Sizes : PublishImmediate(size) \/ Flush(size)
      <3>1. PICK size \in Sizes : Emit(size)
        BY <2>3, Zenon DEF PublishImmediate, Flush
      <3>2. size \in Nat
        BY FrameSizeAssumption, Zenon
      <3>3. published' = published + 1
        BY <3>1, <3>2, AppendedLog, Zenon DEF Emit, published
      <3>4. client' = client /\ epoch' = epoch
        BY <3>1, Zenon DEF Emit
      <3>5. F!Publish
        BY <3>3, <3>4, Zenon DEF F!Publish
      <3>6. QED
        BY <3>5, Zenon DEF F!Next
    <2>4. CASE UpstreamConnect \/ ConnectFails \/ UpstreamLost \/ RunCancelled \/ UpstreamMisses
             \/ IdleRecycle
      <3>1. client' = client /\ epoch' = epoch /\ (log' = log \/ log' = WriteBarrier(log, Domains))
        BY <2>4, Zenon DEF UpstreamConnect, ConnectFails, UpstreamLost, RunCancelled,
                    UpstreamMisses, IdleRecycle, Notify, NoNotify
      <3>3. WriteBarrier(log, Domains).last_seq = log.last_seq
        BY BarredLog, Zenon
      <3>4. published' = published
        BY <3>1, <3>3, Zenon DEF published
      <3>5. QED
        BY <2>1, <3>1, <3>4, Zenon
    <2>5. ASSUME NEW c \in Clients, Connect(c) PROVE UNCHANGED F!vars
      <3>1. /\ client' = client /\ epoch' = epoch
            /\ \/ log' = log
               \/ log' = AfterReplay(log, GLOBAL_DOMAIN, client[c].cursor.epoch = epoch, now)
        BY <2>5, Zenon DEF Connect
      <3>2. (client[c].cursor.epoch = epoch) \in BOOLEAN
        BY Zenon
      <3>3. AfterReplay(log, GLOBAL_DOMAIN, client[c].cursor.epoch = epoch, now).last_seq
              = log.last_seq
        BY <3>2, ReplayedLog, Zenon
      <3>4. published' = published
        BY <3>1, <3>3, Zenon DEF published
      <3>5. QED
        BY <2>1, <3>1, <3>4, Zenon
    <2>6. ASSUME NEW c \in Clients, Deliver(c)
          PROVE  F!Receive(c) \/ F!Tell(c) \/ UNCHANGED F!vars
      <3> DEFINE k == client[c]
                 cn == conn[c]
                 j == Received(k, WireOf(cn)[1])
      <3>1. /\ cn \in OpenConn /\ cn.open /\ epoch' = epoch /\ log' = log
            /\ \/ \E dn : Taken(c, dn)
               \/ conn' = [conn EXCEPT ![c] = NoConn] /\ client' = client
        BY <2>6, DeliverCases, Zenon
      <3>2. published' = published
        BY <3>1, Zenon DEF published
      <3>3. CASE client' = client
        BY <2>1, <3>1, <3>2, <3>3, Zenon
      <3>4. CASE \E dn : Taken(c, dn)
        <4>1. PICK dn : Taken(c, dn)
          BY <3>4, Zenon
        <4>2. /\ dn \in OpenConn /\ dn.closed = cn.closed
              /\ Delivered(WireOf(dn), WireOf(cn)) /\ WireOf(cn)[1] # STOP
              /\ \A i \in 1..Len(dn.head) : dn.head[i] # STOP
              /\ client' = [client EXCEPT ![c] = j]
          BY <4>1, Zenon DEF Taken
        <4>3. ClientOk(log, cn, k, published, epoch, due, Owed) /\ k \in ClientType
          BY InvFields, Zenon
        <4> HIDE DEF cn, k
        <4>a. LET x == Received(k, WireOf(cn)[1])
              IN /\ x \in ClientType /\ ClientOk(log, dn, x, published, epoch, due, Owed)
                 /\ k.must_align => x.must_align
                 /\ x.aligned_in = k.aligned_in
                 /\ \/ x.covered = k.covered
                    \/ /\ x.covered \in 1..published /\ x.must_align = k.must_align
                       /\ k.must_align \/ (k.aligned_in = epoch /\ x.covered = k.covered + 1)
          BY <2>2, <3>1, <4>2, <4>3, DeliverStep, ZenonT(60)
        <4>4. /\ j \in ClientType /\ (k.must_align => j.must_align) /\ j.aligned_in = k.aligned_in
              /\ \/ j.covered = k.covered
                 \/ /\ j.covered \in 1..published /\ j.must_align = k.must_align
                    /\ k.must_align \/ (k.aligned_in = epoch /\ j.covered = k.covered + 1)
          BY <4>a, Zenon
        <4> HIDE DEF j
        <4>5. /\ k.must_align \in BOOLEAN /\ j.must_align \in BOOLEAN
              /\ k.covered \in Nat /\ j.covered \in Nat
          BY <4>3, <4>4, Zenon DEF ClientType
        <4>6. client[c] = k /\ client'[c] = j /\ \A x \in Clients : x # c => client'[x] = client[x]
          BY <2>2, <4>2, Zenon DEF k
        <4>7. [x \in Clients |-> client'[x].covered]
                = [[x \in Clients |-> client[x].covered] EXCEPT ![c] = j.covered]
          BY <4>6, Zenon
        <4>8. {x \in Clients : client'[x].aligned_in # epoch}
                = {x \in Clients : client[x].aligned_in # epoch}
          BY <4>4, <4>6, Zenon
        <4>9. CASE j.must_align = k.must_align
          <5>1. {x \in Clients : client'[x].must_align} = {x \in Clients : client[x].must_align}
            BY <4>6, <4>9, Zenon
          <5>2. CASE j.covered = k.covered
            BY <3>1, <3>2, <4>6, <4>7, <4>8, <5>1, <5>2, Zenon DEF F!vars
          <5>3. CASE j.covered # k.covered
            <6>1. /\ j.covered \in 1..published /\ j.covered <= published
                  /\ \/ k.must_align
                     \/ ~ k.must_align /\ k.aligned_in = epoch /\ j.covered = k.covered + 1
              BY <4>4, <5>3
            <6>2. QED
              BY <3>1, <3>2, <4>6, <4>7, <4>8, <5>1, <6>1, Zenon DEF F!Receive
          <5>4. QED
            BY <5>2, <5>3, Zenon
        <4>10. CASE j.must_align # k.must_align
          <5>1. j.must_align /\ j.covered = k.covered
            BY <4>4, <4>5, <4>10, Zenon
          <5>2. {x \in Clients : client'[x].must_align}
                  = {x \in Clients : client[x].must_align} \cup {c}
            BY <4>6, <5>1, Zenon
          <5>3. F!Tell(c)
            BY <3>1, <3>2, <4>6, <4>7, <4>8, <5>1, <5>2, Zenon DEF F!Tell
          <5>4. QED
            BY <5>3, Zenon
        <4>11. QED
          BY <4>9, <4>10, Zenon
      <3>5. QED
        BY <3>1, <3>3, <3>4, Zenon
    <2>7. ASSUME NEW c \in Clients, Drop(c) PROVE UNCHANGED F!vars
      BY <2>1, <2>7, Zenon DEF Drop, published
    <2>8. ASSUME NEW c \in Clients, Align(c) PROVE F!Align(c)
      <3> DEFINE k == client[c]
                 j == [k EXCEPT !.must_align = FALSE, !.covered = published,
                                !.aligned_in = epoch, !.loss_seen = losses]
      <3>1. k.must_align /\ client' = [client EXCEPT ![c] = j] /\ epoch' = epoch /\ log' = log
        BY <2>8, Zenon DEF Align
      <3>2. j.must_align = FALSE /\ j.covered = published /\ j.aligned_in = epoch
        BY <2>2, Zenon DEF ClientType
      <3> HIDE DEF j
      <3>3. client'[c] = j /\ \A x \in Clients : x # c => client'[x] = client[x]
        BY <2>2, <3>1, Zenon
      <3>4. published' = published
        BY <3>1, Zenon DEF published
      <3>5. [x \in Clients |-> client'[x].covered]
              = [[x \in Clients |-> client[x].covered] EXCEPT ![c] = published]
        BY <3>2, <3>3, Zenon
      <3>6. {x \in Clients : client'[x].aligned_in # epoch}
              = {x \in Clients : client[x].aligned_in # epoch} \ {c}
        BY <3>2, <3>3, Zenon
      <3>7. {x \in Clients : client'[x].must_align} = {x \in Clients : client[x].must_align} \ {c}
        BY <3>2, <3>3, Zenon
      <3>8. QED
        BY <3>1, <3>4, <3>5, <3>6, <3>7, Zenon DEF F!Align
    <2>9. CASE Restart
      <3>1. epoch' = epoch + 1 /\ client' = client /\ log' = EmptyLog
        BY <2>9, Zenon DEF Restart
      <3>2. published' = 0
        BY <3>1, DomainAssumption, Zenon DEF EmptyLog, published
      <3>3. ASSUME NEW c \in Clients PROVE client[c].aligned_in # epoch + 1
        <4>1. ClientInv(client[c], published, epoch) /\ client[c] \in ClientType
          BY InvFields, Zenon DEF ClientOk
        <4>2. client[c].aligned_in <= epoch /\ client[c].aligned_in \in Nat
          BY <4>1, Zenon DEF ClientInv, ClientType
        <4>3. QED
          BY <2>2, <4>2
      <3>4. F!Restart
        BY <3>1, <3>2, <3>3, Zenon DEF F!Restart
      <3>5. QED
        BY <3>4, Zenon DEF F!Next
    <2>10. CASE PublishDebounced \/ SweepLog \/ Tick \/ UNCHANGED vars
      <3>1. client' = client /\ epoch' = epoch /\ (log' = log \/ log' = Sweep(log, now))
        BY <2>10, Zenon DEF PublishDebounced, SweepLog, Tick, vars
      <3>2. Sweep(log, now).last_seq = log.last_seq
        BY SweptLog, Zenon
      <3>3. published' = published
        BY <3>1, <3>2, Zenon DEF published
      <3>4. QED
        BY <2>1, <3>1, <3>3, Zenon
    <2>11. QED
      BY <2>3, <2>4, <2>5, <2>6, <2>7, <2>8, <2>9, <2>10, Zenon DEF Next, F!Next
  <1>3. QED
    BY <1>1, <1>2, InvHolds, PTL DEF Spec, ImplementsFeed, F!Spec
=============================================================================
