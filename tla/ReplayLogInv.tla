---------------------------- MODULE ReplayLogInv ----------------------------
(***************************************************************************)
(* What every reachable log of sse/replay_log.py satisfies: contiguous     *)
(* windows, no burned sequence number, and barriers that keep protecting   *)
(* the cursors they were written for.                                      *)
(***************************************************************************)
EXTENDS ReplayLogOps

\* The window property of a set of entries, for given last_seq and order.
Window(E, last, ord) ==
    \A e \in E :
        /\ e.order <= ord
        /\ e.seq \in 1..last[e.domain]
        /\ \A s \in e.seq..last[e.domain] :
             \E x \in E : x.domain = e.domain /\ x.seq = s
        /\ \A x \in E : x.domain = e.domain =>
             (e.seq < x.seq <=> e.order < x.order)
        /\ \A x \in E : x.order = e.order => x = e

LogInv(L) ==
    /\ L \in LogType
    /\ IsFiniteSet(L.entries)
    /\ Window(L.entries, L.last_seq, L.order)
    /\ \A d \in Domains : L.next_seq[d] = L.last_seq[d] + 1

\* A cursor at or before s is protected by the watermark, or, after its
\* barrier was garbage-collected, by the window having moved past the next
\* frame: it is never answered with frames again.
Dead(L, d, s) ==
    \/ s <= L.watermark[d]
    \/ /\ s + 1 < L.last_seq[d]
       /\ \A e \in EntriesOf(L.entries, d) : e.seq > s + 1

\* ls[d] is the last loss point of domain d.
BarrierInv(L, ls) == \A d \in Domains : Dead(L, d, ls[d])
=============================================================================
