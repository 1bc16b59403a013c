------------------------- MODULE ReplayLogOpsProofs -------------------------
(***************************************************************************)
(* Lemmas about the replay log as a data type, for any number of domains   *)
(* and any budgets: what each method does to the fields of a log, and that *)
(* each preserves LogInv (contiguous windows, no burned number) and        *)
(* BarrierInv (a cursor at or before a loss point stays unanswerable, also *)
(* after sweep() has dropped the barrier).  ReplayLogProofs and            *)
(* EventStreamProofs rest on them.                                         *)
(***************************************************************************)
EXTENDS ReplayLogInv, FiniteSetTheorems, TLAPS

\* K is what an eviction leaves of E: with an entry, every newer one of its
\* domain.
Survives(E, K) ==
    /\ K \subseteq E
    /\ \A x \in K, y \in E : x.domain = y.domain /\ x.order <= y.order => y \in K

\* Every eviction loop drops only heads: the surviving set is closed under
\* "newer in the same domain".
LEMMA TtlSurvives ==
    ASSUME NEW E \in SUBSET Entry, NEW d, NEW t
    PROVE  Survives(E, TtlEvictHead(E, d, t))
  BY DEF Survives, TtlEvictHead, InDomain, KeepFrom, EntriesOf, Entry

LEMMA CountSurvives ==
    ASSUME NEW E \in SUBSET Entry, NEW d
    PROVE  Survives(E, EvictForCount(E, d))
  BY DEF Survives, EvictForCount, InDomain, KeepFrom, EntriesOf, Entry

LEMMA BytesSurvives ==
    ASSUME NEW E \in SUBSET Entry
    PROVE  Survives(E, EvictForBytes(E))
  BY DEF Survives, EvictForBytes, KeepFrom, Entry

LEMMA TtlAllSurvives ==
    ASSUME NEW E \in SUBSET Entry, NEW t
    PROVE  Survives(E, TtlEvictAll(E, t))
  <1>1. \A d : Survives(E, TtlEvictHead(E, d, t))
    BY TtlSurvives, Zenon
  <1>2. QED
    BY <1>1, Zenon DEF Survives, TtlEvictAll

LEMMA RecycleSurvives ==
    ASSUME NEW E \in SUBSET Entry, NEW d
    PROVE  Survives(E, E \ EntriesOf(E, d))
  BY Zenon DEF Survives, EntriesOf

\* Evicting heads keeps the window contiguous.
LEMMA WindowSurvives ==
    ASSUME NEW E \in SUBSET Entry, NEW last \in [Domains -> Nat], NEW ord \in Nat,
           NEW K, Survives(E, K), Window(E, last, ord)
    PROVE  Window(K, last, ord)
  <1> SUFFICES ASSUME NEW e \in K
               PROVE  /\ e.order <= ord
                      /\ e.seq \in 1..last[e.domain]
                      /\ \A s \in e.seq..last[e.domain] :
                           \E x \in K : x.domain = e.domain /\ x.seq = s
                      /\ \A x \in K : x.domain = e.domain =>
                           (e.seq < x.seq <=> e.order < x.order)
                      /\ \A x \in K : x.order = e.order => x = e
    BY Zenon DEF Window
  <1>1. e \in E /\ K \subseteq E
    BY Zenon DEF Survives
  <1>2. ASSUME NEW s \in e.seq..last[e.domain]
        PROVE  \E x \in K : x.domain = e.domain /\ x.seq = s
    <2>1. PICK x \in E : x.domain = e.domain /\ x.seq = s
      BY <1>1, Zenon DEF Window
    <2>2. e.order <= x.order
      BY <1>1, <2>1 DEF Window, Entry
    <2>3. x \in K
      BY <2>1, <2>2, <1>1, Zenon DEF Survives
    <2>4. QED
      BY <2>1, <2>3, Zenon
  <1>3. QED
    BY <1>1, <1>2, Zenon DEF Window

\* Appending the next frame of domain d extends its window by one.
LEMMA WindowExtends ==
    ASSUME NEW E \in SUBSET Entry, NEW last \in [Domains -> Nat], NEW ord \in Nat,
           NEW d \in Domains, NEW e \in Entry,
           e.domain = d, e.seq = last[d] + 1, e.order = ord + 1,
           Window(E, last, ord)
    PROVE  Window(E \cup {e}, [last EXCEPT ![d] = last[d] + 1], ord + 1)
  <1> DEFINE new == [last EXCEPT ![d] = last[d] + 1]
             F == E \cup {e}
  <1> SUFFICES ASSUME NEW x \in F
               PROVE  /\ x.order <= ord + 1
                      /\ x.seq \in 1..new[x.domain]
                      /\ \A s \in x.seq..new[x.domain] :
                           \E y \in F : y.domain = x.domain /\ y.seq = s
                      /\ \A y \in F : y.domain = x.domain =>
                           (x.seq < y.seq <=> x.order < y.order)
                      /\ \A y \in F : y.order = x.order => y = x
    BY Zenon DEF Window
  <1>1. /\ new \in [Domains -> Nat]
        /\ new[d] = last[d] + 1
        /\ \A k \in Domains : k # d => new[k] = last[k]
    OBVIOUS
  <1>2. CASE x = e
    <2>1. \A y \in E : y.order <= ord /\ (y.domain = d => y.seq <= last[d])
      BY DEF Window, Entry
    <2>2. QED
      BY <1>1, <1>2, <2>1 DEF Entry
  <1>3. CASE x \in E
    <2>1. x.order <= ord /\ x.seq \in 1..last[x.domain]
      BY <1>3, Zenon DEF Window
    <2>2. ASSUME NEW s \in x.seq..new[x.domain]
          PROVE  \E y \in F : y.domain = x.domain /\ y.seq = s
      <3>1. CASE s \in x.seq..last[x.domain]
        BY <1>3, <3>1 DEF Window
      <3>2. CASE s \notin x.seq..last[x.domain]
        <4>1. x.domain = d /\ s = last[d] + 1
          BY <1>1, <1>3, <3>2 DEF Entry
        <4>2. QED
          BY <4>1, Zenon
      <3>3. QED
        BY <3>1, <3>2, Zenon
    <2>3. ASSUME NEW y \in F, y.domain = x.domain
          PROVE  x.seq < y.seq <=> x.order < y.order
      <3>1. CASE y = e
        BY <2>1, <2>3, <3>1 DEF Entry
      <3>2. CASE y \in E
        BY <1>3, <2>3, <3>2, Zenon DEF Window
      <3>3. QED
        BY <3>1, <3>2, Zenon
    <2>4. x.seq \in 1..new[x.domain]
      BY <1>1, <1>3, <2>1 DEF Entry
    <2>5. ASSUME NEW y \in F, y.order = x.order
          PROVE  y = x
      <3>1. CASE y = e
        BY <1>3, <2>1, <2>5, <3>1 DEF Entry
      <3>2. CASE y \in E
        BY <1>3, <2>5, <3>2, Zenon DEF Window
      <3>3. QED
        BY <3>1, <3>2, Zenon
    <2>6. QED
      BY <2>1, <2>2, <2>3, <2>4, <2>5, <1>3 DEF Entry
  <1>4. QED
    BY <1>2, <1>3, Zenon

-----------------------------------------------------------------------------
\* Replacing one field of a log changes that field only and keeps the type.
LEMMA SetCreated ==
    ASSUME NEW L \in LogType, NEW v \in SUBSET Domains
    PROVE  LET M == [L EXCEPT !.created = v]
           IN /\ M \in LogType /\ M.created = v
              /\ M.next_seq = L.next_seq /\ M.last_seq = L.last_seq /\ M.watermark = L.watermark
              /\ M.invalidated = L.invalidated /\ M.entries = L.entries /\ M.order = L.order
              /\ M.closed = L.closed
  BY Zenon DEF LogType

LEMMA SetNextSeq ==
    ASSUME NEW L \in LogType, NEW v \in [Domains -> Nat \ {0}]
    PROVE  LET M == [L EXCEPT !.next_seq = v]
           IN /\ M \in LogType /\ M.next_seq = v
              /\ M.created = L.created /\ M.last_seq = L.last_seq /\ M.watermark = L.watermark
              /\ M.invalidated = L.invalidated /\ M.entries = L.entries /\ M.order = L.order
              /\ M.closed = L.closed
  BY Zenon DEF LogType

LEMMA SetLastSeq ==
    ASSUME NEW L \in LogType, NEW v \in [Domains -> Nat]
    PROVE  LET M == [L EXCEPT !.last_seq = v]
           IN /\ M \in LogType /\ M.last_seq = v
              /\ M.created = L.created /\ M.next_seq = L.next_seq /\ M.watermark = L.watermark
              /\ M.invalidated = L.invalidated /\ M.entries = L.entries /\ M.order = L.order
              /\ M.closed = L.closed
  BY Zenon DEF LogType

LEMMA SetWatermark ==
    ASSUME NEW L \in LogType, NEW v \in [Domains -> Nat \cup {NoBarrier}]
    PROVE  LET M == [L EXCEPT !.watermark = v]
           IN /\ M \in LogType /\ M.watermark = v
              /\ M.created = L.created /\ M.next_seq = L.next_seq /\ M.last_seq = L.last_seq
              /\ M.invalidated = L.invalidated /\ M.entries = L.entries /\ M.order = L.order
              /\ M.closed = L.closed
  BY Zenon DEF LogType

LEMMA SetInvalidated ==
    ASSUME NEW L \in LogType, NEW v \in SUBSET Domains
    PROVE  LET M == [L EXCEPT !.invalidated = v]
           IN /\ M \in LogType /\ M.invalidated = v
              /\ M.created = L.created /\ M.next_seq = L.next_seq /\ M.last_seq = L.last_seq
              /\ M.watermark = L.watermark /\ M.entries = L.entries /\ M.order = L.order
              /\ M.closed = L.closed
  BY Zenon DEF LogType

LEMMA SetEntries ==
    ASSUME NEW L \in LogType, NEW v \in SUBSET Entry
    PROVE  LET M == [L EXCEPT !.entries = v]
           IN /\ M \in LogType /\ M.entries = v
              /\ M.created = L.created /\ M.next_seq = L.next_seq /\ M.last_seq = L.last_seq
              /\ M.watermark = L.watermark /\ M.invalidated = L.invalidated /\ M.order = L.order
              /\ M.closed = L.closed
  BY Zenon DEF LogType

LEMMA SetOrder ==
    ASSUME NEW L \in LogType, NEW v \in Nat
    PROVE  LET M == [L EXCEPT !.order = v]
           IN /\ M \in LogType /\ M.order = v
              /\ M.created = L.created /\ M.next_seq = L.next_seq /\ M.last_seq = L.last_seq
              /\ M.watermark = L.watermark /\ M.invalidated = L.invalidated /\ M.entries = L.entries
              /\ M.closed = L.closed
  BY Zenon DEF LogType

LEMMA SetClosed ==
    ASSUME NEW L \in LogType, NEW v \in BOOLEAN
    PROVE  LET M == [L EXCEPT !.closed = v]
           IN /\ M \in LogType /\ M.closed = v
              /\ M.created = L.created /\ M.next_seq = L.next_seq /\ M.last_seq = L.last_seq
              /\ M.watermark = L.watermark /\ M.invalidated = L.invalidated /\ M.entries = L.entries
              /\ M.order = L.order
  BY Zenon DEF LogType

\* Two logs that agree on every field are equal.
LEMMA LogExtensionality ==
    ASSUME NEW L \in LogType, NEW M \in LogType,
           L.created = M.created /\ L.next_seq = M.next_seq /\ L.last_seq = M.last_seq,
           L.watermark = M.watermark /\ L.invalidated = M.invalidated /\ L.entries = M.entries,
           L.order = M.order /\ L.closed = M.closed
    PROVE  L = M
  BY DEF LogType

-----------------------------------------------------------------------------

\* The new entry of an append, and what is retained after it.
NewEntry(d, seq, size, t, ord) ==
    [domain |-> d, seq |-> seq, size |-> size, appended_at |-> t, order |-> ord]

Retained(E, d, e) == EvictForBytes(EvictForCount(E \cup {e}, d))

Appended(L, d, size, t) ==
    Retained(TtlEvictHead(L.entries, d, t), d,
             NewEntry(d, L.next_seq[d], size, t, L.order + 1))

\* append: what touching a domain does.
LEMMA TouchEffect ==
    ASSUME NEW L \in LogType, NEW d \in Domains, NEW t
    PROVE  LET M == Touch(L, d, t)
           IN /\ M \in LogType /\ M.created = L.created \cup {d}
              /\ M.entries = TtlEvictHead(L.entries, d, t)
              /\ M.next_seq = L.next_seq /\ M.last_seq = L.last_seq
              /\ M.watermark = L.watermark /\ M.invalidated = L.invalidated
              /\ M.order = L.order /\ M.closed = L.closed
  <1> DEFINE v == L.created \cup {d}
             C == [L EXCEPT !.created = v]
             A == TtlEvictHead(L.entries, d, t)
             T == [C EXCEPT !.entries = A]
  <1>1. v \in SUBSET Domains /\ L.entries \in SUBSET Entry
    BY Zenon DEF LogType
  <1>2. A \in SUBSET Entry
    BY <1>1, TtlSurvives, Zenon DEF Survives
  <1>3. Touch(L, d, t) = [C EXCEPT !.entries = TtlEvictHead(C.entries, d, t)]
    BY Zenon DEF Touch, Create
  <1> HIDE DEF v, A
  <1>4. /\ C \in LogType /\ C.created = v /\ C.entries = L.entries
        /\ C.next_seq = L.next_seq /\ C.last_seq = L.last_seq
        /\ C.watermark = L.watermark /\ C.invalidated = L.invalidated
        /\ C.order = L.order /\ C.closed = L.closed
    BY <1>1, SetCreated, Zenon
  <1> HIDE DEF C
  <1>5. Touch(L, d, t) = T
    BY <1>3, <1>4, Zenon DEF A
  <1>6. /\ T \in LogType /\ T.created = C.created /\ T.entries = A
        /\ T.next_seq = C.next_seq /\ T.last_seq = C.last_seq
        /\ T.watermark = C.watermark /\ T.invalidated = C.invalidated
        /\ T.order = C.order /\ T.closed = C.closed
    BY <1>2, <1>4, SetEntries, Zenon
  <1> HIDE DEF T
  <1>7. QED
    BY <1>4, <1>5, <1>6, Zenon DEF A, v

\* append: what storing an entry does.
LEMMA StoreEffect ==
    ASSUME NEW L \in LogType, NEW d \in Domains, NEW seq \in Nat \ {0},
           NEW size \in Nat, NEW t \in Nat
    PROVE  LET M == Store(L, d, seq, size, t)
           IN /\ M \in LogType /\ M.created = L.created
              /\ M.entries = Retained(L.entries, d, NewEntry(d, seq, size, t, L.order + 1))
              /\ M.next_seq = L.next_seq
              /\ M.last_seq = [L.last_seq EXCEPT ![d] = seq]
              /\ M.watermark = L.watermark /\ M.invalidated = L.invalidated
              /\ M.order = L.order + 1 /\ M.closed = L.closed
  <1> DEFINE e == NewEntry(d, seq, size, t, L.order + 1)
             n == L.order + 1
             last == [L.last_seq EXCEPT ![d] = seq]
             E == Retained(L.entries, d, e)
             A == [L EXCEPT !.order = n]
             B == [A EXCEPT !.last_seq = last]
             C == [B EXCEPT !.entries = E]
  <1>1. n \in Nat /\ last \in [Domains -> Nat] /\ L.entries \in SUBSET Entry
    BY DEF LogType
  <1>2. E \in SUBSET Entry
    <2>1. L.entries \cup {e} \in SUBSET Entry
      BY <1>1 DEF Entry, NewEntry
    <2>2. EvictForCount(L.entries \cup {e}, d) \in SUBSET Entry
      BY <2>1, CountSurvives, Zenon DEF Survives
    <2>3. QED
      BY <2>2, BytesSurvives, Zenon DEF Survives, Retained
  <1>3. Store(L, d, seq, size, t) =
          [[[L EXCEPT !.order = n] EXCEPT !.last_seq[d] = seq] EXCEPT !.entries = E]
    BY Zenon DEF Store, Retained, NewEntry
  <1> HIDE DEF n, last, E
  <1>4. /\ A \in LogType /\ A.created = L.created /\ A.entries = L.entries
        /\ A.next_seq = L.next_seq /\ A.last_seq = L.last_seq
        /\ A.watermark = L.watermark /\ A.invalidated = L.invalidated
        /\ A.order = n /\ A.closed = L.closed
    BY <1>1, SetOrder, Zenon
  <1>5. [A EXCEPT !.last_seq[d] = seq] = B
    <2> HIDE DEF A
    <2>1. QED
      BY <1>4, Zenon DEF last
  <1>6. Store(L, d, seq, size, t) = C
    BY <1>3, <1>5, Zenon
  <1> HIDE DEF A
  <1>7. /\ B \in LogType /\ B.created = A.created /\ B.entries = A.entries
        /\ B.next_seq = A.next_seq /\ B.last_seq = last
        /\ B.watermark = A.watermark /\ B.invalidated = A.invalidated
        /\ B.order = A.order /\ B.closed = A.closed
    BY <1>1, <1>4, SetLastSeq
  <1> HIDE DEF B
  <1>8. /\ C \in LogType /\ C.created = B.created /\ C.entries = E
        /\ C.next_seq = B.next_seq /\ C.last_seq = B.last_seq
        /\ C.watermark = B.watermark /\ C.invalidated = B.invalidated
        /\ C.order = B.order /\ C.closed = B.closed
    BY <1>2, <1>7, SetEntries, ZenonT(60)
  <1> HIDE DEF C
  <1>9. QED
    BY <1>4, <1>6, <1>7, <1>8, Zenon DEF n, last, E

\* reserve_seq: what reserving a sequence number does.
LEMMA ReserveEffect ==
    ASSUME NEW L \in LogType, NEW d \in Domains
    PROVE  LET M == ReserveSeq(L, d)
           IN /\ M \in LogType /\ M.created = L.created \cup {d}
              /\ M.entries = L.entries
              /\ M.next_seq = [L.next_seq EXCEPT ![d] = L.next_seq[d] + 1]
              /\ M.last_seq = L.last_seq
              /\ M.watermark = L.watermark /\ M.invalidated = L.invalidated
              /\ M.order = L.order /\ M.closed = L.closed
  <1> DEFINE v == L.created \cup {d}
             C == [L EXCEPT !.created = v]
             up == [L.next_seq EXCEPT ![d] = L.next_seq[d] + 1]
             T == [C EXCEPT !.next_seq = up]
  <1>1. v \in SUBSET Domains /\ up \in [Domains -> Nat \ {0}]
    BY DEF LogType
  <1>2. ReserveSeq(L, d) = [C EXCEPT !.next_seq[d] = C.next_seq[d] + 1]
    BY Zenon DEF ReserveSeq, Create
  <1> HIDE DEF v, up
  <1>3. /\ C \in LogType /\ C.created = v /\ C.entries = L.entries
        /\ C.next_seq = L.next_seq /\ C.last_seq = L.last_seq
        /\ C.watermark = L.watermark /\ C.invalidated = L.invalidated
        /\ C.order = L.order /\ C.closed = L.closed
    BY <1>1, SetCreated, Zenon
  <1> HIDE DEF C
  <1>4. ReserveSeq(L, d) = T
    BY <1>2, <1>3, Zenon DEF up
  <1>5. /\ T \in LogType /\ T.created = C.created /\ T.entries = C.entries
        /\ T.next_seq = up /\ T.last_seq = C.last_seq
        /\ T.watermark = C.watermark /\ T.invalidated = C.invalidated
        /\ T.order = C.order /\ T.closed = C.closed
    BY <1>1, <1>3, SetNextSeq
  <1> HIDE DEF T
  <1>6. QED
    BY <1>3, <1>4, <1>5, Zenon DEF up, v

\* Publishing directly and publishing through a reservation leave the same
\* log: one more frame, with the next sequence number.
LEMMA AppendEffect ==
    ASSUME NEW L, LogInv(L), NEW d \in Domains, NEW size \in Nat, NEW t \in Nat
    PROVE  LET M == AppendNext(L, d, size, t)
           IN /\ M \in LogType /\ M.entries = Appended(L, d, size, t)
              /\ M.next_seq = [L.next_seq EXCEPT ![d] = L.next_seq[d] + 1]
              /\ M.last_seq = [L.last_seq EXCEPT ![d] = L.next_seq[d]]
              /\ M.watermark = L.watermark /\ M.order = L.order + 1
              /\ M.invalidated = L.invalidated /\ M.closed = L.closed
              /\ AppendReserved(ReserveSeq(L, d), d, L.next_seq[d], size, t) = M
  <1> DEFINE seq == L.next_seq[d]
             up == [L.next_seq EXCEPT ![d] = seq + 1]
             T == Touch(L, d, t)
             U == [T EXCEPT !.next_seq = up]
             R == ReserveSeq(L, d)
             V == Touch(R, d, t)
  <1>1. L \in LogType /\ seq = L.last_seq[d] + 1 /\ seq \in Nat \ {0}
        /\ up \in [Domains -> Nat \ {0}]
    BY DEF LogInv, LogType
  <1>2. /\ T \in LogType /\ T.created = L.created \cup {d}
        /\ T.entries = TtlEvictHead(L.entries, d, t)
        /\ T.next_seq = L.next_seq /\ T.last_seq = L.last_seq
        /\ T.watermark = L.watermark /\ T.invalidated = L.invalidated
        /\ T.order = L.order /\ T.closed = L.closed
    BY <1>1, TouchEffect
  <1>3. /\ R \in LogType /\ R.created = L.created \cup {d} /\ R.entries = L.entries
        /\ R.next_seq = up /\ R.last_seq = L.last_seq
        /\ R.watermark = L.watermark /\ R.invalidated = L.invalidated
        /\ R.order = L.order /\ R.closed = L.closed
    BY <1>1, ReserveEffect, Zenon
  <1> HIDE DEF T, R
  <1>4. /\ U \in LogType /\ U.created = T.created /\ U.entries = T.entries
        /\ U.next_seq = up /\ U.last_seq = T.last_seq
        /\ U.watermark = T.watermark /\ U.invalidated = T.invalidated
        /\ U.order = T.order /\ U.closed = T.closed
    BY <1>1, <1>2, SetNextSeq
  <1>5. /\ V \in LogType /\ V.created = R.created \cup {d}
        /\ V.entries = TtlEvictHead(R.entries, d, t)
        /\ V.next_seq = R.next_seq /\ V.last_seq = R.last_seq
        /\ V.watermark = R.watermark /\ V.invalidated = R.invalidated
        /\ V.order = R.order /\ V.closed = R.closed
    BY <1>3, TouchEffect
  <1>6. [T EXCEPT !.next_seq[d] = @ + 1] = U
    BY <1>2, Zenon
  <1> HIDE DEF up, U, V
  <1>7. U = V
    <2>1. /\ U.created = V.created /\ U.next_seq = V.next_seq /\ U.last_seq = V.last_seq
          /\ U.watermark = V.watermark /\ U.invalidated = V.invalidated
          /\ U.entries = V.entries /\ U.order = V.order /\ U.closed = V.closed
      BY <1>2, <1>3, <1>4, <1>5, Zenon
    <2>2. QED
      BY <1>4, <1>5, <2>1, LogExtensionality, Zenon
  <1>8. AppendNext(L, d, size, t) = Store(U, d, seq, size, t)
    BY <1>6, Zenon DEF AppendNext, T
  <1>9. seq = R.next_seq[d] - 1 /\ seq > R.last_seq[d]
    BY <1>1, <1>3 DEF up, LogType
  <1>10. AppendReserved(R, d, seq, size, t) = Store(V, d, seq, size, t)
    BY <1>9, Zenon DEF AppendReserved, V
  <1> HIDE DEF seq
  <1> DEFINE M == Store(U, d, seq, size, t)
             e == NewEntry(d, seq, size, t, U.order + 1)
  <1>11. /\ M \in LogType /\ M.entries = Retained(U.entries, d, e)
         /\ M.next_seq = U.next_seq /\ M.last_seq = [U.last_seq EXCEPT ![d] = seq]
         /\ M.watermark = U.watermark /\ M.invalidated = U.invalidated
         /\ M.order = U.order + 1 /\ M.closed = U.closed
    <2>1. seq \in Nat \ {0} /\ U \in LogType
      BY <1>1, <1>4, Zenon
    <2>2. QED
      BY <2>1, StoreEffect
  <1>13. M.entries = Appended(L, d, size, t)
    BY <1>2, <1>4, <1>11, Zenon DEF Appended, seq
  <1> HIDE DEF M, e
  <1>14. /\ M.next_seq = up /\ M.last_seq = [L.last_seq EXCEPT ![d] = seq]
         /\ M.watermark = L.watermark /\ M.order = L.order + 1
         /\ M.invalidated = L.invalidated /\ M.closed = L.closed
    BY <1>2, <1>4, <1>11, Zenon
  <1>15. AppendNext(L, d, size, t) = M /\ AppendReserved(R, d, seq, size, t) = M
    BY <1>7, <1>8, <1>10, Zenon DEF M
  <1>16. QED
    BY <1>11, <1>13, <1>14, <1>15, Zenon DEF up, R, seq

\* A step that only evicts heads, and leaves sequence numbers, order and
\* watermarks alone, preserves the invariant.
LEMMA EvictInv ==
    ASSUME NEW L, LogInv(L), NEW M \in LogType,
           NEW ls \in [Domains -> Nat \cup {NoBarrier}], BarrierInv(L, ls),
           Survives(L.entries, M.entries),
           M.next_seq = L.next_seq, M.last_seq = L.last_seq, M.order = L.order,
           M.watermark = L.watermark
    PROVE  LogInv(M) /\ BarrierInv(M, ls)
  <1>1. L \in LogType
    BY Zenon DEF LogInv
  <1>2. /\ L.entries \in SUBSET Entry /\ L.last_seq \in [Domains -> Nat] /\ L.order \in Nat
        /\ Window(L.entries, L.last_seq, L.order)
    BY <1>1, Zenon DEF LogInv, LogType
  <1>3. Window(M.entries, L.last_seq, L.order)
    BY <1>2, WindowSurvives, Zenon
  <1>4. M.entries \subseteq L.entries
    BY Zenon DEF Survives
  <1>5. BarrierInv(M, ls)
    BY <1>4, Zenon DEF BarrierInv, Dead, EntriesOf
  <1>6. IsFiniteSet(M.entries)
    BY <1>4, FS_Subset, Zenon DEF LogInv
  <1>7. QED
    BY <1>3, <1>5, <1>6, Zenon DEF LogInv

\* Publishing a frame preserves the invariant.
LEMMA AppendInv ==
    ASSUME NEW L, LogInv(L), NEW d \in Domains, NEW size \in Nat, NEW t \in Nat,
           NEW ls \in [Domains -> Nat \cup {NoBarrier}], BarrierInv(L, ls)
    PROVE  /\ LogInv(AppendNext(L, d, size, t))
           /\ BarrierInv(AppendNext(L, d, size, t), ls)
  <1> DEFINE seq == L.last_seq[d] + 1
             e == NewEntry(d, seq, size, t, L.order + 1)
             A == TtlEvictHead(L.entries, d, t)
             B == A \cup {e}
             C == EvictForCount(B, d)
             D == EvictForBytes(C)
             last == [L.last_seq EXCEPT ![d] = seq]
             M == AppendNext(L, d, size, t)
  <1>1. /\ L \in LogType /\ Window(L.entries, L.last_seq, L.order)
        /\ L.next_seq[d] = seq /\ \A k \in Domains : L.next_seq[k] = L.last_seq[k] + 1
    BY Zenon DEF LogInv
  <1>2. /\ L.entries \in SUBSET Entry /\ L.last_seq \in [Domains -> Nat] /\ L.order \in Nat
        /\ L.next_seq \in [Domains -> Nat \ {0}] /\ last \in [Domains -> Nat]
        /\ L.order + 1 \in Nat
    BY <1>1 DEF LogType
  <1>3. e \in Entry /\ e.domain = d /\ e.seq = L.last_seq[d] + 1 /\ e.order = L.order + 1
    BY <1>2 DEF NewEntry, Entry
  <1>4. A \subseteq L.entries /\ Window(A, L.last_seq, L.order)
    BY <1>1, <1>2, TtlSurvives, WindowSurvives DEF Survives
  <1>5. A \in SUBSET Entry /\ B \in SUBSET Entry
    BY <1>2, <1>3, <1>4, Zenon
  <1>6. M.entries = D /\ M \in LogType /\ M.last_seq = last /\ M.order = L.order + 1
        /\ M.watermark = L.watermark
        /\ M.next_seq = [L.next_seq EXCEPT ![d] = L.next_seq[d] + 1]
    <2>1. /\ M \in LogType /\ M.entries = Appended(L, d, size, t)
          /\ M.next_seq = [L.next_seq EXCEPT ![d] = L.next_seq[d] + 1]
          /\ M.last_seq = [L.last_seq EXCEPT ![d] = L.next_seq[d]]
          /\ M.watermark = L.watermark /\ M.order = L.order + 1
      BY AppendEffect
    <2> HIDE DEF M
    <2>2. Appended(L, d, size, t) = D
      BY <1>1, Zenon DEF Appended, Retained
    <2>3. QED
      BY <1>1, <2>1, <2>2, Zenon
  <1> HIDE DEF A, e
  <1>7. Window(B, last, L.order + 1)
    BY <1>2, <1>3, <1>4, <1>5, WindowExtends, Zenon
  <1> HIDE DEF B, last
  <1>8. C \subseteq B /\ Window(C, last, L.order + 1)
    BY <1>2, <1>5, <1>7, CountSurvives, WindowSurvives DEF Survives
  <1> HIDE DEF C
  <1>9. D \subseteq C /\ Window(D, last, L.order + 1)
    BY <1>2, <1>5, <1>8, BytesSurvives, WindowSurvives DEF Survives
  <1> HIDE DEF D, M
  <1>10. \A k \in Domains : M.next_seq[k] = M.last_seq[k] + 1
    BY <1>1, <1>2, <1>6 DEF last
  <1>11. LogInv(M)
    <2>1. IsFiniteSet(L.entries)
      BY Zenon DEF LogInv
    <2>2. IsFiniteSet(A)
      BY <1>4, <2>1, FS_Subset, Zenon
    <2>3. IsFiniteSet(B)
      BY <2>2, FS_AddElement, Zenon DEF B
    <2>4. IsFiniteSet(D)
      BY <1>8, <1>9, <2>3, FS_Subset, Zenon
    <2>5. QED
      BY <1>6, <1>9, <1>10, <2>4, Zenon DEF LogInv
  <1>12. BarrierInv(M, ls)
    <2> SUFFICES ASSUME NEW k \in Domains, ~ (ls[k] <= M.watermark[k])
                 PROVE  /\ ls[k] + 1 < M.last_seq[k]
                        /\ \A x \in EntriesOf(M.entries, k) : x.seq > ls[k] + 1
      BY Zenon DEF BarrierInv, Dead
    <2>1. /\ ls[k] + 1 < L.last_seq[k]
          /\ \A x \in EntriesOf(L.entries, k) : x.seq > ls[k] + 1
      BY <1>6, Zenon DEF BarrierInv, Dead
    <2>2. ls[k] \in Int /\ L.last_seq[k] \in Nat /\ L.last_seq[d] \in Nat
      BY <1>2 DEF NoBarrier
    <2>3. ls[k] + 1 < M.last_seq[k]
      BY <1>2, <1>6, <2>1, <2>2 DEF last
    <2>4. \A x \in M.entries : x \in L.entries \/ x = e
      BY <1>4, <1>6, <1>8, <1>9, Zenon DEF B
    <2>5. QED
      BY <1>3, <2>1, <2>2, <2>3, <2>4 DEF EntriesOf
  <1>13. QED
    BY <1>11, <1>12, Zenon DEF M

LEMMA AppendSeqEffect ==
    ASSUME NEW L, LogInv(L), NEW d \in Domains, NEW size \in Nat, NEW t \in Nat
    PROVE  /\ AppendNext(L, d, size, t).last_seq = [L.last_seq EXCEPT ![d] = L.next_seq[d]]
           /\ AppendNext(L, d, size, t).invalidated = L.invalidated
  <1>1. LET M == AppendNext(L, d, size, t)
           IN /\ M \in LogType /\ M.entries = Appended(L, d, size, t)
              /\ M.next_seq = [L.next_seq EXCEPT ![d] = L.next_seq[d] + 1]
              /\ M.last_seq = [L.last_seq EXCEPT ![d] = L.next_seq[d]]
              /\ M.watermark = L.watermark /\ M.order = L.order + 1
              /\ M.invalidated = L.invalidated /\ M.closed = L.closed
    BY AppendEffect
  <1>2. QED
    BY <1>1, Zenon

\* The entry an append stores survives the evictions that follow it.
LEMMA AppendRetains ==
    ASSUME NEW L, LogInv(L), NEW d \in Domains, NEW size \in Nat, NEW t \in Nat
    PROVE  \E e \in AppendNext(L, d, size, t).entries :
              e.order = AppendNext(L, d, size, t).order
  <1> DEFINE e == NewEntry(d, L.next_seq[d], size, t, L.order + 1)
             A == TtlEvictHead(L.entries, d, t)
             B == A \cup {e}
             C == EvictForCount(B, d)
             D == EvictForBytes(C)
  <1>1. /\ L.entries \in SUBSET Entry /\ L.order \in Nat /\ L.next_seq[d] \in Nat \ {0}
        /\ Window(L.entries, L.last_seq, L.order)
    BY Zenon DEF LogInv, LogType
  <1>2. e \in Entry /\ e.domain = d /\ e.order = L.order + 1
    BY <1>1 DEF NewEntry, Entry
  <1>3. A \subseteq L.entries
    BY <1>1, TtlSurvives, Zenon DEF Survives
  <1>4. AppendNext(L, d, size, t).entries = D
        /\ AppendNext(L, d, size, t).order = L.order + 1
    <2>1. LET M == AppendNext(L, d, size, t)
           IN /\ M \in LogType /\ M.entries = Appended(L, d, size, t)
              /\ M.next_seq = [L.next_seq EXCEPT ![d] = L.next_seq[d] + 1]
              /\ M.last_seq = [L.last_seq EXCEPT ![d] = L.next_seq[d]]
              /\ M.watermark = L.watermark /\ M.order = L.order + 1
      BY AppendEffect
    <2>2. QED
      BY <2>1, Zenon DEF Appended, Retained
  <1> HIDE DEF A, e
  <1>5. \A x \in B : x # e => x.order \in Nat /\ x.order < e.order
    BY <1>1, <1>2, <1>3 DEF Window, Entry
  <1> HIDE DEF B
  <1>6. e \in B /\ e.order \in Nat /\ Cardinality({e}) = 1
    <2>1. Cardinality({e}) = 1
      BY FS_Singleton, Zenon
    <2>2. e \in B /\ e.order \in Nat
      BY <1>1, <1>2 DEF B
    <2>3. QED
      BY <2>1, <2>2, Zenon
  <1>7. e \in C /\ C \subseteq B
    <2>1. Newer(EntriesOf(B, d), e) = {e}
      BY <1>2, <1>5, <1>6 DEF Newer, EntriesOf
    <2>2. Cardinality(Newer(EntriesOf(B, d), e)) <= MaxCount
      BY <1>6, <2>1, MaxCountAssumption
    <2> DEFINE Ed == EntriesOf(B, d)
               stops == {x \in Ed : Cardinality(Newer(Ed, x)) <= MaxCount}
    <2>3. e \in Ed /\ Ed \subseteq B
      BY <1>2, <1>6, Zenon DEF EntriesOf
    <2>4. e \in stops
      BY <2>2, <2>3, Zenon
    <2>5. C = (B \ Ed) \cup KeepFrom(Ed, stops)
      BY Zenon DEF EvictForCount, InDomain
    <2> HIDE DEF stops, Ed
    <2>6. e \in KeepFrom(Ed, stops) /\ KeepFrom(Ed, stops) \subseteq Ed
      BY <1>6, <2>3, <2>4 DEF KeepFrom
    <2>7. QED
      BY <2>3, <2>5, <2>6, Zenon
  <1> HIDE DEF C
  <1>8. e \in D
    <2>1. Newer(C, e) = {e}
      BY <1>5, <1>6, <1>7 DEF Newer
    <2>2. Cardinality(Newer(C, e)) = 1
      BY <1>6, <2>1, Zenon
    <2>3. QED
      BY <1>6, <1>7, <2>2 DEF EvictForBytes, KeepFrom
  <1>9. QED
    BY <1>2, <1>4, <1>8, Zenon

\* Touching a domain (an append that raised) preserves the invariant.
LEMMA TouchInv ==
    ASSUME NEW L, LogInv(L), NEW d \in Domains, NEW t,
           NEW ls \in [Domains -> Nat \cup {NoBarrier}], BarrierInv(L, ls)
    PROVE  LogInv(Touch(L, d, t)) /\ BarrierInv(Touch(L, d, t), ls)
  <1> DEFINE M == Touch(L, d, t)
  <1>1. L \in LogType /\ L.entries \in SUBSET Entry
    BY Zenon DEF LogInv, LogType
  <1>2. /\ M \in LogType /\ M.entries = TtlEvictHead(L.entries, d, t)
        /\ M.next_seq = L.next_seq /\ M.last_seq = L.last_seq /\ M.order = L.order
        /\ M.watermark = L.watermark
    BY <1>1, TouchEffect
  <1> HIDE DEF M
  <1>3. Survives(L.entries, M.entries)
    BY <1>1, <1>2, TtlSurvives, Zenon
  <1>4. LogInv(M) /\ BarrierInv(M, ls)
    BY <1>2, <1>3, EvictInv, Zenon
  <1>5. QED
    BY <1>4, Zenon DEF M

\* A reservation that is rolled back leaves the counters as they were.
LEMMA RollbackEffect ==
    ASSUME NEW L, LogInv(L), NEW d \in Domains, NEW R \in LogType, d \in R.created,
           R.next_seq = [L.next_seq EXCEPT ![d] = L.next_seq[d] + 1],
           R.last_seq = L.last_seq
    PROVE  LET M == RollbackSeq(R, d, L.next_seq[d])
           IN /\ M \in LogType /\ M.created = R.created /\ M.next_seq = L.next_seq
              /\ M.last_seq = R.last_seq /\ M.watermark = R.watermark
              /\ M.invalidated = R.invalidated /\ M.entries = R.entries
              /\ M.order = R.order /\ M.closed = R.closed
  <1> DEFINE seq == L.next_seq[d]
             M == [R EXCEPT !.next_seq = L.next_seq]
  <1>1. /\ L.next_seq \in [Domains -> Nat \ {0}] /\ L.last_seq \in [Domains -> Nat]
        /\ seq = L.last_seq[d] + 1 /\ seq \in Nat
    BY Zenon DEF LogInv, LogType
  <1>2. R.next_seq[d] = seq + 1 /\ seq > R.last_seq[d]
    BY <1>1
  <1>3. RollbackSeq(R, d, seq) = [R EXCEPT !.next_seq = [R.next_seq EXCEPT ![d] = seq]]
    BY <1>2, Zenon DEF RollbackSeq
  <1>4. [R.next_seq EXCEPT ![d] = seq] = L.next_seq
    BY <1>1, Zenon
  <1>5. RollbackSeq(R, d, seq) = M
    BY <1>3, <1>4, Zenon
  <1>6. /\ M \in LogType /\ M.created = R.created /\ M.next_seq = L.next_seq
        /\ M.last_seq = R.last_seq /\ M.watermark = R.watermark
        /\ M.invalidated = R.invalidated /\ M.entries = R.entries
        /\ M.order = R.order /\ M.closed = R.closed
    BY <1>1, SetNextSeq, ZenonT(60)
  <1>7. QED
    BY <1>5, <1>6, Zenon

\* A publish that fails, before or after the frame was built, preserves the
\* invariant.
LEMMA FailedPublishInv ==
    ASSUME NEW L, LogInv(L), NEW d \in Domains, NEW t, NEW built \in BOOLEAN,
           NEW ls \in [Domains -> Nat \cup {NoBarrier}], BarrierInv(L, ls)
    PROVE  LET R == ReserveSeq(L, d)
               M == RollbackSeq(IF built THEN Touch(R, d, t) ELSE R, d, L.next_seq[d])
           IN LogInv(M) /\ BarrierInv(M, ls) /\ M.last_seq = L.last_seq
              /\ M.invalidated = L.invalidated /\ M.order = L.order
  <1> DEFINE R == ReserveSeq(L, d)
             T == IF built THEN Touch(R, d, t) ELSE R
             M == RollbackSeq(T, d, L.next_seq[d])
  <1>1. L \in LogType /\ L.entries \in SUBSET Entry
    BY Zenon DEF LogInv, LogType
  <1>2. /\ R \in LogType /\ R.created = L.created \cup {d}
        /\ R.next_seq = [L.next_seq EXCEPT ![d] = L.next_seq[d] + 1]
        /\ R.last_seq = L.last_seq /\ R.watermark = L.watermark
        /\ R.invalidated = L.invalidated /\ R.entries = L.entries
        /\ R.order = L.order
    BY <1>1, ReserveEffect, Zenon
  <1> HIDE DEF R
  <1>3. /\ T \in LogType /\ d \in T.created /\ T.next_seq = R.next_seq
        /\ T.last_seq = R.last_seq /\ T.watermark = R.watermark
        /\ T.invalidated = R.invalidated /\ T.order = R.order
        /\ Survives(R.entries, T.entries)
    <2>1. CASE built
      <3>1. /\ Touch(R, d, t) \in LogType /\ Touch(R, d, t).created = R.created \cup {d}
            /\ Touch(R, d, t).next_seq = R.next_seq /\ Touch(R, d, t).last_seq = R.last_seq
            /\ Touch(R, d, t).watermark = R.watermark
            /\ Touch(R, d, t).invalidated = R.invalidated
            /\ Touch(R, d, t).order = R.order
            /\ Touch(R, d, t).entries = TtlEvictHead(R.entries, d, t)
        BY <1>2, TouchEffect
      <3>2. Survives(R.entries, TtlEvictHead(R.entries, d, t))
        BY <1>1, <1>2, TtlSurvives, Zenon
      <3>3. QED
        BY <2>1, <3>1, <3>2, Zenon
    <2>2. CASE ~ built
      BY <1>2, <2>2, Zenon DEF Survives
    <2>3. QED
      BY <2>1, <2>2, Zenon
  <1> HIDE DEF T
  <1>4. /\ M \in LogType /\ M.next_seq = L.next_seq /\ M.last_seq = T.last_seq
        /\ M.watermark = T.watermark /\ M.invalidated = T.invalidated
        /\ M.entries = T.entries /\ M.order = T.order
    <2>1. T \in LogType /\ d \in T.created /\ T.last_seq = L.last_seq
          /\ T.next_seq = [L.next_seq EXCEPT ![d] = L.next_seq[d] + 1]
      BY <1>2, <1>3, Zenon
    <2>2. QED
      BY <2>1, RollbackEffect, SMTT(60)
  <1> HIDE DEF M
  <1>5. LogInv(M) /\ BarrierInv(M, ls)
    BY <1>2, <1>3, <1>4, EvictInv, Zenon
  <1>6. LogInv(M) /\ BarrierInv(M, ls) /\ M.last_seq = L.last_seq
        /\ M.invalidated = L.invalidated /\ M.order = L.order
    BY <1>2, <1>3, <1>4, <1>5, Zenon
  <1>7. QED
    BY <1>6, Zenon DEF M, T, R

\* replay(): evicting the expired head preserves the invariant.
LEMMA AfterReplayInv ==
    ASSUME NEW L, LogInv(L), NEW d \in Domains, NEW t, NEW same \in BOOLEAN,
           NEW ls \in [Domains -> Nat \cup {NoBarrier}], BarrierInv(L, ls)
    PROVE  LET M == AfterReplay(L, d, same, t)
           IN LogInv(M) /\ BarrierInv(M, ls) /\ M.last_seq = L.last_seq
              /\ M.invalidated = L.invalidated /\ M.order = L.order
  <1> DEFINE A == TtlEvictHead(L.entries, d, t)
             M == [L EXCEPT !.entries = A]
  <1>1. L \in LogType /\ L.entries \in SUBSET Entry
    BY Zenon DEF LogInv, LogType
  <1>2. Survives(L.entries, A) /\ A \in SUBSET Entry
    BY <1>1, TtlSurvives, Zenon DEF Survives
  <1>3. AfterReplay(L, d, same, t) = IF same THEN M ELSE L
    BY Zenon DEF AfterReplay
  <1> HIDE DEF A
  <1>4. /\ M \in LogType /\ M.entries = A /\ M.next_seq = L.next_seq
        /\ M.last_seq = L.last_seq /\ M.watermark = L.watermark /\ M.order = L.order
        /\ M.invalidated = L.invalidated
    BY <1>1, <1>2, SetEntries, Zenon
  <1> HIDE DEF M
  <1>5. LogInv(M) /\ BarrierInv(M, ls)
    BY <1>2, <1>4, EvictInv, Zenon
  <1>6. QED
    BY <1>3, <1>4, <1>5, Zenon

\* recycle_domain(): forgetting a domain's frames preserves the invariant.
LEMMA RecycleInv ==
    ASSUME NEW L, LogInv(L), NEW d \in Domains,
           NEW ls \in [Domains -> Nat \cup {NoBarrier}], BarrierInv(L, ls)
    PROVE  LET M == RecycleDomain(L, d)
           IN LogInv(M) /\ BarrierInv(M, ls) /\ M.last_seq = L.last_seq
              /\ M.invalidated = L.invalidated /\ M.order = L.order
  <1> DEFINE A == L.entries \ EntriesOf(L.entries, d)
             M == [L EXCEPT !.entries = A]
  <1>1. L \in LogType /\ L.entries \in SUBSET Entry
    BY Zenon DEF LogInv, LogType
  <1>2. Survives(L.entries, A) /\ A \in SUBSET Entry
    BY <1>1, RecycleSurvives, Zenon DEF Survives
  <1>3. RecycleDomain(L, d) = M
    BY Zenon DEF RecycleDomain
  <1> HIDE DEF A
  <1>4. /\ M \in LogType /\ M.entries = A /\ M.next_seq = L.next_seq
        /\ M.last_seq = L.last_seq /\ M.watermark = L.watermark /\ M.order = L.order
        /\ M.invalidated = L.invalidated
    BY <1>1, <1>2, SetEntries, Zenon
  <1> HIDE DEF M
  <1>5. LogInv(M) /\ BarrierInv(M, ls)
    BY <1>2, <1>4, EvictInv, Zenon
  <1>6. QED
    BY <1>3, <1>4, <1>5, Zenon

\* mark_invalidated(): setting the flag preserves the invariant.
LEMMA InvalidateInv ==
    ASSUME NEW L, LogInv(L), NEW d \in Domains,
           NEW ls \in [Domains -> Nat \cup {NoBarrier}], BarrierInv(L, ls)
    PROVE  LET M == MarkInvalidated(L, d)
           IN LogInv(M) /\ BarrierInv(M, ls) /\ M.last_seq = L.last_seq
              /\ M.invalidated = L.invalidated \cup {d} /\ M.order = L.order
  <1> DEFINE v == L.created \cup {d}
             w == L.invalidated \cup {d}
             C == [L EXCEPT !.created = v]
             M == [C EXCEPT !.invalidated = w]
  <1>1. L \in LogType /\ v \in SUBSET Domains /\ w \in SUBSET Domains
    BY Zenon DEF LogInv, LogType
  <1>2. MarkInvalidated(L, d) = [C EXCEPT !.invalidated = C.invalidated \cup {d}]
    BY Zenon DEF MarkInvalidated, Create
  <1> HIDE DEF v
  <1>3. /\ C \in LogType /\ C.entries = L.entries /\ C.next_seq = L.next_seq
        /\ C.last_seq = L.last_seq /\ C.watermark = L.watermark /\ C.order = L.order
        /\ C.invalidated = L.invalidated
    BY <1>1, SetCreated, Zenon
  <1> HIDE DEF C
  <1>4. MarkInvalidated(L, d) = M
    BY <1>2, <1>3, Zenon
  <1> HIDE DEF w
  <1>5. /\ M \in LogType /\ M.entries = C.entries /\ M.next_seq = C.next_seq
        /\ M.last_seq = C.last_seq /\ M.watermark = C.watermark /\ M.order = C.order
        /\ M.invalidated = w
    BY <1>1, <1>3, SetInvalidated, ZenonT(60)
  <1> HIDE DEF M
  <1>6. Survives(L.entries, M.entries)
    BY <1>3, <1>5, Zenon DEF Survives
  <1>7. LogInv(M) /\ BarrierInv(M, ls)
    BY <1>3, <1>5, <1>6, EvictInv, Zenon
  <1>8. QED
    BY <1>3, <1>4, <1>5, <1>7, Zenon DEF w

\* write_barrier(): the watermark covers the loss point it is written for.
LEMMA WriteBarrierInv ==
    ASSUME NEW L, LogInv(L), NEW ds \in SUBSET Domains,
           NEW ls \in [Domains -> Nat \cup {NoBarrier}], BarrierInv(L, ls)
    PROVE  LET M == WriteBarrier(L, ds)
               ns == [d \in Domains |-> IF d \in ds \cap L.created
                                        THEN L.last_seq[d] ELSE ls[d]]
           IN /\ LogInv(M) /\ BarrierInv(M, ns) /\ M.last_seq = L.last_seq
              /\ M.invalidated = L.invalidated /\ M.order = L.order
              /\ ns \in [Domains -> Nat \cup {NoBarrier}]
  <1> DEFINE ns == [d \in Domains |-> IF d \in ds \cap L.created
                                      THEN L.last_seq[d] ELSE ls[d]]
             v == [d \in Domains |-> IF d \in ds \cap L.created /\ L.watermark[d] < L.last_seq[d]
                                     THEN L.last_seq[d] ELSE L.watermark[d]]
             M == [L EXCEPT !.watermark = v]
  <1>1. /\ L \in LogType /\ L.last_seq \in [Domains -> Nat]
        /\ L.watermark \in [Domains -> Nat \cup {NoBarrier}]
    BY Zenon DEF LogInv, LogType
  <1>2. v \in [Domains -> Nat \cup {NoBarrier}] /\ ns \in [Domains -> Nat \cup {NoBarrier}]
    BY <1>1, Zenon
  <1>3. WriteBarrier(L, ds) = M
    BY Zenon DEF WriteBarrier
  <1>4. \A d \in Domains : ns[d] <= v[d] \/ (ns[d] = ls[d] /\ v[d] = L.watermark[d])
    BY <1>1 DEF NoBarrier
  <1> HIDE DEF v, ns
  <1>5. /\ M \in LogType /\ M.entries = L.entries /\ M.next_seq = L.next_seq
        /\ M.last_seq = L.last_seq /\ M.watermark = v /\ M.order = L.order
        /\ M.invalidated = L.invalidated
    BY <1>1, <1>2, SetWatermark
  <1> HIDE DEF M
  <1>6. LogInv(M)
    BY <1>5, Zenon DEF LogInv
  <1>7. BarrierInv(M, ns)
    BY <1>4, <1>5, Zenon DEF BarrierInv, Dead
  <1>8. LogInv(M) /\ BarrierInv(M, ns) /\ M.last_seq = L.last_seq
        /\ M.invalidated = L.invalidated /\ M.order = L.order /\ ns \in [Domains -> Nat \cup {NoBarrier}]
    BY <1>2, <1>5, <1>6, <1>7, Zenon
  <1>9. QED
    BY <1>3, <1>8, Zenon DEF ns

\* sweep(): a barrier is collected only when the window has moved past the
\* frame after it, so no cursor at or before the loss can be replayed.
LEMMA SweepInv ==
    ASSUME NEW L, LogInv(L), NEW t,
           NEW ls \in [Domains -> Nat \cup {NoBarrier}], BarrierInv(L, ls)
    PROVE  LET M == Sweep(L, t)
           IN LogInv(M) /\ BarrierInv(M, ls) /\ M.last_seq = L.last_seq
              /\ M.invalidated = L.invalidated /\ M.order = L.order
  <1> DEFINE E == TtlEvictAll(L.entries, t)
             past(d) == EntriesOf(E, d) # {}
                        /\ \A e \in EntriesOf(E, d) : e.seq > L.watermark[d] + 1
             v == [d \in Domains |-> IF past(d) THEN NoBarrier ELSE L.watermark[d]]
             A == [L EXCEPT !.entries = E]
             M == [A EXCEPT !.watermark = v]
  <1>1. /\ L \in LogType /\ L.last_seq \in [Domains -> Nat] /\ L.entries \in SUBSET Entry
        /\ L.watermark \in [Domains -> Nat \cup {NoBarrier}] /\ L.order \in Nat
        /\ Window(L.entries, L.last_seq, L.order)
    BY Zenon DEF LogInv, LogType
  <1>2. Survives(L.entries, E) /\ E \in SUBSET Entry /\ E \subseteq L.entries
    BY <1>1, TtlAllSurvives, Zenon DEF Survives
  <1>3. Sweep(L, t) = [L EXCEPT !.entries = E, !.watermark = v]
    BY Zenon DEF Sweep
  <1> HIDE DEF E
  <1>4. v \in [Domains -> Nat \cup {NoBarrier}]
    BY <1>1, Zenon
  <1>5. Window(E, L.last_seq, L.order)
    BY <1>1, <1>2, WindowSurvives, Zenon
  <1>6. \A d \in Domains :
          \/ ls[d] <= v[d]
          \/ /\ ls[d] + 1 < L.last_seq[d]
             /\ \A e \in EntriesOf(E, d) : e.seq > ls[d] + 1
    <2> SUFFICES ASSUME NEW d \in Domains, ~ (ls[d] <= v[d])
                 PROVE  /\ ls[d] + 1 < L.last_seq[d]
                        /\ \A e \in EntriesOf(E, d) : e.seq > ls[d] + 1
      BY Zenon
    <2>1. /\ ls[d] \in Int /\ L.watermark[d] \in Int /\ L.last_seq[d] \in Nat
          /\ v[d] = IF past(d) THEN NoBarrier ELSE L.watermark[d]
      BY <1>1 DEF NoBarrier
    <2>2. CASE ls[d] <= L.watermark[d]
      <3>1. past(d)
        BY <2>1, <2>2, Zenon
      <3>2. \A e \in EntriesOf(E, d) : e.seq \in Nat /\ e.seq <= L.last_seq[d]
        BY <1>2, <1>5 DEF Window, EntriesOf, Entry
      <3>3. QED
        BY <2>1, <2>2, <3>1, <3>2
    <2>3. CASE ~ (ls[d] <= L.watermark[d])
      BY <1>2, <2>3, Zenon DEF BarrierInv, Dead, EntriesOf
    <2>4. QED
      BY <2>2, <2>3, Zenon
  <1>7. Sweep(L, t) = M
    BY <1>3, Zenon
  <1> HIDE DEF v
  <1>8. /\ A \in LogType /\ A.entries = E /\ A.next_seq = L.next_seq
        /\ A.last_seq = L.last_seq /\ A.order = L.order /\ A.invalidated = L.invalidated
    BY <1>1, <1>2, SetEntries, Zenon
  <1> HIDE DEF A
  <1>9. /\ M \in LogType /\ M.entries = A.entries /\ M.next_seq = A.next_seq
        /\ M.last_seq = A.last_seq /\ M.watermark = v /\ M.order = A.order
        /\ M.invalidated = A.invalidated
    BY <1>4, <1>8, SetWatermark, Zenon
  <1> HIDE DEF M
  <1>10. LogInv(M)
    <2>1. IsFiniteSet(E)
      BY <1>2, FS_Subset, Zenon DEF LogInv
    <2>2. QED
      BY <1>5, <1>8, <1>9, <2>1, Zenon DEF LogInv
  <1>11. BarrierInv(M, ls)
    BY <1>6, <1>8, <1>9, Zenon DEF BarrierInv, Dead
  <1>12. QED
    BY <1>7, <1>8, <1>9, <1>10, <1>11, Zenon

\* close() (and construction): an empty log satisfies the invariant.
LEMMA CloseInv ==
    ASSUME NEW n \in Nat, NEW closed \in BOOLEAN
    PROVE  LET M == [EmptyLog EXCEPT !.order = n, !.closed = closed]
               ls == [d \in Domains |-> NoBarrier]
           IN LogInv(M) /\ BarrierInv(M, ls) /\ M.closed = closed /\ M.order = n
  <1> DEFINE none == [d \in Domains |-> NoBarrier]
             A == [EmptyLog EXCEPT !.order = n]
             M == [A EXCEPT !.closed = closed]
  <1>1. [EmptyLog EXCEPT !.order = n, !.closed = closed] = M
    BY Zenon
  <1>2. /\ EmptyLog \in LogType /\ EmptyLog.entries = {} /\ EmptyLog.watermark = none
        /\ \A d \in Domains : /\ EmptyLog.next_seq[d] = EmptyLog.last_seq[d] + 1
                               /\ none[d] <= none[d]
    BY DEF EmptyLog, LogType, NoBarrier
  <1> HIDE DEF none
  <1>3. A \in LogType /\ A.entries = {} /\ A.next_seq = EmptyLog.next_seq
        /\ A.last_seq = EmptyLog.last_seq /\ A.watermark = none /\ A.order = n
    BY <1>2, SetOrder, Zenon
  <1> HIDE DEF A
  <1>4. M \in LogType /\ M.entries = {} /\ M.next_seq = A.next_seq
        /\ M.last_seq = A.last_seq /\ M.watermark = none /\ M.closed = closed
        /\ M.order = n
    BY <1>3, SetClosed, Zenon
  <1> HIDE DEF M
  <1>5. LogInv(M)
    BY <1>2, <1>3, <1>4, FS_EmptySet, Zenon DEF LogInv, Window
  <1>6. BarrierInv(M, none)
    BY <1>2, <1>4, Zenon DEF BarrierInv, Dead
  <1>7. QED
    BY <1>1, <1>4, <1>5, <1>6, Zenon DEF none

-----------------------------------------------------------------------------
\* The frames a cursor may be answered with, once expired heads are gone.
After(L, d, seq, t) == {e \in EntriesOf(TtlEvictHead(L.entries, d, t), d) : e.seq > seq}

\* No hole can lie between two adjacent frames of a window.
LEMMA NoHole ==
    ASSUME NEW L, LogInv(L), NEW d \in Domains, NEW seq \in Nat, NEW t
    PROVE  /\ ~ HasHole(After(L, d, seq, t))
           /\ \A e \in After(L, d, seq, t) :
                /\ e.seq \in (seq + 1)..L.last_seq[d] /\ e \in EntriesOf(L.entries, d)
                /\ \A n \in e.seq..L.last_seq[d] : \E x \in After(L, d, seq, t) : x.seq = n
  <1> DEFINE T == TtlEvictHead(L.entries, d, t)
             A == After(L, d, seq, t)
  <1>1. /\ L.entries \in SUBSET Entry /\ L.last_seq \in [Domains -> Nat] /\ L.order \in Nat
        /\ Window(L.entries, L.last_seq, L.order)
    BY Zenon DEF LogInv, LogType
  <1>2. T \subseteq L.entries /\ Window(T, L.last_seq, L.order)
    BY <1>1, TtlSurvives, WindowSurvives DEF Survives
  <1>3. \A e : e \in A <=> e \in T /\ e.domain = d /\ e.seq > seq
    BY Zenon DEF After, EntriesOf
  <1> HIDE DEF T, A
  <1>4. \A e \in A : e \in Entry /\ e \in EntriesOf(L.entries, d)
    BY <1>1, <1>2, <1>3, Zenon DEF EntriesOf
  <1>5. \A e \in A : e.seq \in Nat /\ e.order \in Nat /\ e.domain = d /\ e \in T
    BY <1>3, <1>4, Zenon DEF Entry
  <1>6. \A e \in A : e.seq \in (seq + 1)..L.last_seq[d]
    BY <1>1, <1>2, <1>3, <1>5 DEF Window
  <1>7. ASSUME NEW e \in A, NEW n \in e.seq..L.last_seq[d]
        PROVE  \E x \in A : x.seq = n
    <2>1. PICK x \in T : x.domain = d /\ x.seq = n
      BY <1>2, <1>5 DEF Window
    <2>2. x \in A
      BY <1>3, <1>5, <1>6, <2>1
    <2>3. QED
      BY <2>1, <2>2, Zenon
  <1>8. \A x, y \in A : x.seq < y.seq <=> x.order < y.order
    BY <1>2, <1>5 DEF Window
  <1>9. ~ HasHole(A)
    <2> SUFFICES ASSUME NEW x \in A, NEW y \in A, Adjacent(A, x, y), y.seq # x.seq + 1
                 PROVE  FALSE
      BY Zenon DEF HasHole
    <2>1. x.seq + 1 < y.seq /\ x.seq + 1 \in x.seq..L.last_seq[d]
      BY <1>1, <1>5, <1>6, <1>8 DEF Adjacent
    <2>2. PICK z \in A : z.seq = x.seq + 1
      BY <1>7, <2>1, Zenon
    <2>3. x.order < z.order /\ z.order < y.order
      BY <1>5, <1>8, <2>1, <2>2
    <2>4. QED
      BY <2>3, Zenon DEF Adjacent
  <1>10. QED
    BY <1>4, <1>6, <1>7, <1>9, Zenon DEF A

\* append(): the domain exists afterwards.
LEMMA AppendCreates ==
    ASSUME NEW L, LogInv(L), NEW d \in Domains, NEW size \in Nat, NEW t \in Nat
    PROVE  d \in AppendNext(L, d, size, t).created
  <1> DEFINE T == Touch(L, d, t)
             up == [T.next_seq EXCEPT ![d] = T.next_seq[d] + 1]
             U == [T EXCEPT !.next_seq = up]
             seq == L.next_seq[d]
  <1>1. L \in LogType /\ seq \in Nat \ {0}
    BY Zenon DEF LogInv, LogType
  <1>2. T \in LogType /\ T.created = L.created \cup {d}
    BY <1>1, TouchEffect, Zenon
  <1> HIDE DEF T
  <1>3. up \in [Domains -> Nat \ {0}]
    BY <1>2 DEF LogType
  <1> HIDE DEF up
  <1>4. U \in LogType /\ U.created = T.created
    BY <1>2, <1>3, SetNextSeq, Zenon
  <1> HIDE DEF U, seq
  <1>5. Store(U, d, seq, size, t).created = U.created
    <2>1. seq \in Nat \ {0} /\ U \in LogType
      BY <1>1, <1>4, Zenon
    <2> DEFINE M == Store(U, d, seq, size, t)
    <2>2. /\ M \in LogType /\ M.created = U.created
          /\ M.entries = Retained(U.entries, d, NewEntry(d, seq, size, t, U.order + 1))
          /\ M.next_seq = U.next_seq
          /\ M.last_seq = [U.last_seq EXCEPT ![d] = seq]
          /\ M.watermark = U.watermark /\ M.invalidated = U.invalidated
          /\ M.order = U.order + 1 /\ M.closed = U.closed
      BY <2>1, StoreEffect
    <2>3. QED
      BY <2>2, Zenon
  <1>6. AppendNext(L, d, size, t) = Store(U, d, seq, size, t)
    BY Zenon DEF AppendNext, T, U, up, seq
  <1>7. QED
    BY <1>2, <1>4, <1>5, <1>6, Zenon

\* replay(): an answer with frames is the whole continuation of the cursor.
LEMMA ReplayFrames ==
    ASSUME NEW L, LogInv(L), NEW d \in Domains, NEW seq \in Nat, NEW t,
           NEW same \in BOOLEAN, Replay(L, d, seq, same, t).kind = "frames"
    PROVE  LET A == Replay(L, d, seq, same, t).entries
           IN /\ same /\ seq <= L.last_seq[d] /\ ~ (seq <= L.watermark[d])
              /\ A \subseteq EntriesOf(L.entries, d)
              /\ {e.seq : e \in A} = (seq + 1)..L.last_seq[d]
  <1> DEFINE A == After(L, d, seq, t)
             R == Replay(L, d, seq, same, t)
  <1>1. L.last_seq[d] \in Nat /\ L.watermark[d] \in Int
    BY DEF LogInv, LogType, NoBarrier
  <1>2. /\ same /\ ~ (seq <= L.watermark[d]) /\ ~ (seq > L.last_seq[d])
        /\ \/ A = {} /\ seq = L.last_seq[d] /\ R.entries = {}
           \/ /\ \E e \in A : IsFirst(A, e) /\ e.seq = seq + 1
              /\ R.entries = A
    BY Zenon DEF Replay, After, Resync, Frames, IgnoreReset
  <1>3. \A e \in A :
          /\ e.seq \in (seq + 1)..L.last_seq[d] /\ e \in EntriesOf(L.entries, d)
          /\ \A n \in e.seq..L.last_seq[d] : \E x \in A : x.seq = n
    BY NoHole
  <1> HIDE DEF A, R
  <1>4. /\ R.entries \subseteq EntriesOf(L.entries, d)
        /\ {e.seq : e \in R.entries} = (seq + 1)..L.last_seq[d]
    <2>1. CASE A = {} /\ seq = L.last_seq[d] /\ R.entries = {}
      <3>1. (seq + 1)..L.last_seq[d] = {}
        BY <1>1, <2>1
      <3>2. QED
        BY <2>1, <3>1, Zenon
    <2>2. CASE (\E e \in A : IsFirst(A, e) /\ e.seq = seq + 1) /\ R.entries = A
      <3>1. PICK e \in A : e.seq = seq + 1
        BY <2>2, Zenon
      <3>2. {x.seq : x \in A} = (seq + 1)..L.last_seq[d]
        BY <1>1, <1>3, <3>1, Zenon
      <3>3. A \subseteq EntriesOf(L.entries, d)
        BY <1>3, Zenon
      <3>4. QED
        BY <2>2, <3>2, <3>3, Zenon
    <2>3. QED
      BY <1>2, <2>1, <2>2, Zenon
  <1>5. seq <= L.last_seq[d]
    BY <1>1, <1>2
  <1>6. QED
    BY <1>2, <1>4, <1>5, Zenon DEF R

\* replay(): only a cursor of the future is ignored.
LEMMA ReplayIgnores ==
    ASSUME NEW L, LogInv(L), NEW d \in Domains, NEW seq \in Nat, NEW t,
           NEW same \in BOOLEAN, Replay(L, d, seq, same, t).kind = "ignore_reset"
    PROVE  same /\ seq > L.last_seq[d]
  BY Zenon DEF Replay, Resync, Frames, IgnoreReset

-----------------------------------------------------------------------------
(* Dead cursors: nothing the log does revives one.                         *)

LossAt(d, s) == [x \in Domains |-> IF x = d THEN s ELSE NoBarrier]

LEMMA DeadIsBarrier ==
    ASSUME NEW L, LogInv(L), NEW d \in Domains, NEW s \in Nat
    PROVE  /\ LossAt(d, s) \in [Domains -> Nat \cup {NoBarrier}]
           /\ Dead(L, d, s) <=> BarrierInv(L, LossAt(d, s))
  <1>1. /\ LossAt(d, s) \in [Domains -> Nat \cup {NoBarrier}] /\ LossAt(d, s)[d] = s
        /\ \A x \in Domains : x # d => LossAt(d, s)[x] = NoBarrier
    BY Zenon DEF LossAt
  <1>2. \A x \in Domains : NoBarrier <= L.watermark[x]
    BY DEF LogInv, LogType, NoBarrier
  <1>3. QED
    BY <1>1, <1>2, Zenon DEF Dead, BarrierInv

LEMMA AppendKeeps ==
    ASSUME NEW L, LogInv(L), NEW d \in Domains, NEW size \in Nat, NEW t \in Nat
    PROVE  LET M == AppendNext(L, d, size, t)
           IN /\ LogInv(M) /\ (\A s \in Nat : Dead(L, d, s) => Dead(M, d, s)) /\ d \in M.created
              /\ M.last_seq[d] = L.last_seq[d] + 1
  <1> DEFINE M == AppendNext(L, d, size, t)
             none == [x \in Domains |-> NoBarrier]
  <1>1. none \in [Domains -> Nat \cup {NoBarrier}] /\ BarrierInv(L, none)
    BY DEF LogInv, LogType, BarrierInv, Dead, NoBarrier
  <1>2. LogInv(M)
    BY <1>1, AppendInv, Zenon
  <1>3. ASSUME NEW s \in Nat, Dead(L, d, s) PROVE Dead(M, d, s)
    <2>1. LossAt(d, s) \in [Domains -> Nat \cup {NoBarrier}] /\ BarrierInv(L, LossAt(d, s))
      BY <1>3, DeadIsBarrier, Zenon
    <2>2. BarrierInv(M, LossAt(d, s))
      BY <2>1, AppendInv, Zenon
    <2>3. QED
      BY <1>2, <2>2, DeadIsBarrier, Zenon
  <1>4. d \in M.created
    BY AppendCreates, Zenon
  <1>5. M.last_seq = [L.last_seq EXCEPT ![d] = L.next_seq[d]]
    BY AppendSeqEffect, SMTT(60)
  <1> HIDE DEF M
  <1>6. M.last_seq[d] = L.last_seq[d] + 1
    BY <1>5, Zenon DEF LogInv, LogType
  <1>7. QED
    BY <1>2, <1>3, <1>4, <1>6, Zenon DEF M

LEMMA ReplayKeeps ==
    ASSUME NEW L, LogInv(L), NEW d \in Domains, NEW same \in BOOLEAN, NEW t \in Nat
    PROVE  LET M == AfterReplay(L, d, same, t)
           IN /\ LogInv(M) /\ (\A s \in Nat : Dead(L, d, s) => Dead(M, d, s)) /\ M.created = L.created
              /\ M.last_seq = L.last_seq
  <1> DEFINE M == AfterReplay(L, d, same, t)
             none == [x \in Domains |-> NoBarrier]
  <1>1. none \in [Domains -> Nat \cup {NoBarrier}] /\ BarrierInv(L, none)
    BY DEF LogInv, LogType, BarrierInv, Dead, NoBarrier
  <1>2. LogInv(M) /\ M.last_seq = L.last_seq
    BY <1>1, AfterReplayInv, Zenon
  <1>3. ASSUME NEW s \in Nat, Dead(L, d, s) PROVE Dead(M, d, s)
    <2>1. LossAt(d, s) \in [Domains -> Nat \cup {NoBarrier}] /\ BarrierInv(L, LossAt(d, s))
      BY <1>3, DeadIsBarrier, Zenon
    <2>2. BarrierInv(M, LossAt(d, s))
      BY <2>1, AfterReplayInv, Zenon
    <2>3. QED
      BY <1>2, <2>2, DeadIsBarrier, Zenon
  <1>4. M.created = L.created
    <2>1. L \in LogType
      BY Zenon DEF LogInv
    <2>2. QED
      BY <2>1, Zenon DEF AfterReplay, LogType
  <1>5. QED
    BY <1>2, <1>3, <1>4, Zenon

LEMMA SweepKeeps ==
    ASSUME NEW L, LogInv(L), NEW d \in Domains, NEW t \in Nat
    PROVE  LET M == Sweep(L, t)
           IN /\ LogInv(M) /\ (\A s \in Nat : Dead(L, d, s) => Dead(M, d, s)) /\ M.created = L.created
              /\ M.last_seq = L.last_seq
  <1> DEFINE M == Sweep(L, t)
             none == [x \in Domains |-> NoBarrier]
  <1>1. none \in [Domains -> Nat \cup {NoBarrier}] /\ BarrierInv(L, none)
    BY DEF LogInv, LogType, BarrierInv, Dead, NoBarrier
  <1>2. LogInv(M) /\ M.last_seq = L.last_seq
    BY <1>1, SweepInv, Zenon
  <1>3. ASSUME NEW s \in Nat, Dead(L, d, s) PROVE Dead(M, d, s)
    <2>1. LossAt(d, s) \in [Domains -> Nat \cup {NoBarrier}] /\ BarrierInv(L, LossAt(d, s))
      BY <1>3, DeadIsBarrier, Zenon
    <2>2. BarrierInv(M, LossAt(d, s))
      BY <2>1, SweepInv, Zenon
    <2>3. QED
      BY <1>2, <2>2, DeadIsBarrier, Zenon
  <1>4. M.created = L.created
    <2>1. L \in LogType
      BY Zenon DEF LogInv
    <2>2. QED
      BY <2>1, Zenon DEF Sweep, LogType
  <1>5. QED
    BY <1>2, <1>3, <1>4, Zenon

\* write_barrier(): no cursor issued so far survives it.
LEMMA BarrierKills ==
    ASSUME NEW L, LogInv(L), NEW d \in Domains,
           L.last_seq[d] > 0 => d \in L.created
    PROVE  LET M == WriteBarrier(L, Domains)
           IN /\ LogInv(M) /\ M.created = L.created /\ M.last_seq = L.last_seq
              /\ \A s \in 1..L.last_seq[d] : Dead(M, d, s)
  <1> DEFINE M == WriteBarrier(L, Domains)
             none == [x \in Domains |-> NoBarrier]
             ns == [x \in Domains |-> IF x \in Domains \cap L.created
                                      THEN L.last_seq[x] ELSE none[x]]
  <1>1. none \in [Domains -> Nat \cup {NoBarrier}] /\ BarrierInv(L, none)
    BY DEF LogInv, LogType, BarrierInv, Dead, NoBarrier
  <1>2. LogInv(M) /\ M.last_seq = L.last_seq /\ BarrierInv(M, ns)
    <2> HIDE DEF none
    <2>1. QED
      BY <1>1, WriteBarrierInv
  <1>3. M.created = L.created
    <2>1. L \in LogType
      BY Zenon DEF LogInv
    <2>2. QED
      BY <2>1, Zenon DEF WriteBarrier, LogType
  <1>4. ASSUME NEW s \in 1..L.last_seq[d] PROVE Dead(M, d, s)
    <2>1. L.last_seq[d] \in Nat
      BY Zenon DEF LogInv, LogType
    <2>2. d \in L.created /\ s \in Nat /\ s <= L.last_seq[d]
      BY <2>1
    <2>3. ns[d] = L.last_seq[d]
      BY <2>2, Zenon
    <2> HIDE DEF ns, M
    <2>4. \/ L.last_seq[d] <= M.watermark[d]
          \/ L.last_seq[d] + 1 < L.last_seq[d]
      BY <1>2, <2>3, Zenon DEF BarrierInv, Dead
    <2>5. M.watermark[d] \in Int
      BY <1>2 DEF LogInv, LogType, NoBarrier
    <2>6. s <= M.watermark[d]
      BY <2>1, <2>2, <2>4, <2>5
    <2>7. QED
      BY <2>6, Zenon DEF Dead
  <1>5. QED
    BY <1>2, <1>3, <1>4, Zenon

\* replay(): a dead cursor is never answered with frames.
LEMMA DeadIsUnanswered ==
    ASSUME NEW L, LogInv(L), NEW d \in Domains, NEW s \in Nat, NEW t, NEW same \in BOOLEAN, Dead(L, d, s)
    PROVE  Replay(L, d, s, same, t).kind # "frames"
  <1> SUFFICES ASSUME Replay(L, d, s, same, t).kind = "frames"
               PROVE  FALSE
    BY Zenon
  <1> DEFINE A == Replay(L, d, s, same, t).entries
  <1>1. L.last_seq[d] \in Nat
    BY Zenon DEF LogInv, LogType
  <1>2. /\ ~ (s <= L.watermark[d])
        /\ A \subseteq EntriesOf(L.entries, d)
        /\ {e.seq : e \in A} = (s + 1)..L.last_seq[d]
    BY ReplayFrames
  <1> HIDE DEF A
  <1>3. /\ s + 1 < L.last_seq[d]
        /\ \A e \in EntriesOf(L.entries, d) : e.seq > s + 1
    BY <1>2, Zenon DEF Dead
  <1>4. s + 1 \in {e.seq : e \in A}
    BY <1>1, <1>2, <1>3
  <1>5. QED
    BY <1>2, <1>3, <1>4

\* The replayed entries in append order are the ones after the cursor, one
\* by one.
LEMMA NthEntry ==
    ASSUME NEW A \in SUBSET Entry, NEW s \in Nat, NEW p \in Nat, s <= p,
           {e.seq : e \in A} = (s + 1)..p,
           \A x, y \in A : (x.seq < y.seq <=> x.order < y.order),
           \A x, y \in A : x.order = y.order => x = y
    PROVE  /\ Cardinality(A) = p - s
           /\ \A i \in 1..(p - s) : Nth(A, i) \in A /\ Nth(A, i).seq = s + i
  <1> DEFINE Upto(q) == {x \in A : x.seq <= q}
  <1>1. \A x \in A : x.seq \in (s + 1)..p /\ x.seq \in Nat /\ x.order \in Nat
    BY Zenon DEF Entry
  <1>2. \A x, y \in A : x.seq = y.seq => x = y
    BY <1>1
  <1>3. \A n \in (s + 1)..p : \E e \in A : e.seq = n
    <2> TAKE n \in (s + 1)..p
    <2>1. n \in {e.seq : e \in A}
      BY Zenon
    <2>2. QED
      BY <2>1, Zenon
  <1>4. ASSUME NEW q \in s..p PROVE Cardinality(Upto(q)) = q - s
    <2> DEFINE at == [n \in (s + 1)..q |-> CHOOSE e \in A : e.seq = n]
    <2>1. \A n \in (s + 1)..q : at[n] \in A /\ at[n].seq = n
      BY <1>3
    <2>2. \A n \in (s + 1)..q : at[n] \in Upto(q)
      BY <2>1
    <2> HIDE DEF at
    <2>3. at \in [(s + 1)..q -> Upto(q)]
      BY <2>2, Zenon DEF at
    <2>4. \A m, n \in (s + 1)..q : at[m] = at[n] => m = n
      BY <2>1, Zenon
    <2>5. \A x \in Upto(q) : \E n \in (s + 1)..q : at[n] = x
      BY <1>1, <1>2, <2>1
    <2> HIDE DEF Upto
    <2>6. at \in Bijection((s + 1)..q, Upto(q))
      BY <2>3, <2>4, <2>5, Zenon DEF Bijection, Injection, Surjection, IsInjective
    <2>7. ExistsBijection((s + 1)..q, Upto(q))
      BY <2>6, Zenon DEF ExistsBijection
    <2>8. /\ IsFiniteSet((s + 1)..q)
          /\ Cardinality((s + 1)..q) = IF s + 1 > q THEN 0 ELSE q - (s + 1) + 1
      <3>1. s + 1 \in Int /\ q \in Int
        OBVIOUS
      <3>2. QED
        BY <3>1, FS_Interval, Zenon
    <2>9. Cardinality(Upto(q)) = Cardinality((s + 1)..q)
      BY <2>7, <2>8, FS_Bijection, ZenonT(60)
    <2>10. QED
      BY <2>8, <2>9
  <1>5. \A e \in A : {x \in A : x.order <= e.order} = Upto(e.seq)
    BY <1>1
  <1>6. A = Upto(p)
    BY <1>1
  <1> HIDE DEF Upto
  <1>7. Cardinality(A) = p - s
    BY <1>4, <1>6
  <1>8. ASSUME NEW i \in 1..(p - s) PROVE Nth(A, i) \in A /\ Nth(A, i).seq = s + i
    <2>1. PICK e \in A : e.seq = s + i
      BY <1>3
    <2>2. Cardinality({x \in A : x.order <= e.order}) = i
      <3>1. e.seq \in s..p /\ e.seq - s = i
        BY <2>1
      <3>2. Cardinality(Upto(e.seq)) = i
        BY <1>4, <3>1, Zenon
      <3>3. QED
        BY <1>5, <3>2, Zenon
    <2>3. /\ Nth(A, i) \in A
          /\ Cardinality({x \in A : x.order <= Nth(A, i).order}) = i
      BY <2>2, Zenon DEF Nth
    <2>4. Cardinality(Upto(Nth(A, i).seq)) = i
      BY <1>5, <2>3, Zenon
    <2>5. QED
      BY <1>1, <1>4, <2>3, <2>4
  <1>9. QED
    BY <1>7, <1>8, Zenon
=============================================================================
