-------------------------------- MODULE Feed --------------------------------
(***************************************************************************)
(* What an event stream promises its clients, without connections, queues, *)
(* logs or losses: frames are published in order; a client either receives *)
(* the next frame it has not seen, or is told to align, and while it has   *)
(* not been told it skips nothing.  A restart starts a new numbering, in   *)
(* which nobody receives anything before aligning again.                   *)
(***************************************************************************)
EXTENDS Naturals

CONSTANT Clients

VARIABLES
    published,   \* frames published since the last restart
    covered,     \* per client: the newest frame whose content it has
    told,        \* the clients that know they must align
    stale        \* the clients whose alignment predates the last restart

vars == <<published, covered, told, stale>>

Init ==
    /\ published = 0
    /\ covered = [c \in Clients |-> 0]
    /\ told = Clients
    /\ stale = Clients

Publish ==
    /\ published' = published + 1
    /\ UNCHANGED <<covered, told, stale>>

\* In order and without a gap, unless the client owes an alignment anyway.
Receive(c) ==
    /\ \/ c \notin told \cup stale /\ covered' = [covered EXCEPT ![c] = @ + 1]
       \/ c \in told /\ \E n \in 1..published : covered' = [covered EXCEPT ![c] = n]
    /\ covered'[c] <= published
    /\ UNCHANGED <<published, told, stale>>

Tell(c) ==
    /\ told' = told \cup {c}
    /\ UNCHANGED <<published, covered, stale>>

Align(c) ==
    /\ c \in told
    /\ told' = told \ {c}
    /\ stale' = stale \ {c}
    /\ covered' = [covered EXCEPT ![c] = published]
    /\ UNCHANGED published

Restart ==
    /\ published' = 0
    /\ stale' = Clients
    /\ UNCHANGED <<covered, told>>

Next ==
    \/ Publish \/ Restart
    \/ \E c \in Clients : Receive(c) \/ Tell(c) \/ Align(c)

Spec == Init /\ [][Next]_vars
=============================================================================
