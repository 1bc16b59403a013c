--------------------------- MODULE MCHubLifecycle ---------------------------
(* Finite instances of HubLifecycle for TLC.                                 *)
EXTENDS HubLifecycle

CONSTANTS c1, c2, t1

\* A control and a token client take turns at three arrivals; two control
\* clients compete for one admission slot while a task may die.
Scenario(clients, requests, deaths) ==
    [clients |-> clients, requests |-> requests, deaths |-> deaths]

TurnsAndDeaths == {Scenario({c1, t1}, 3, 0), Scenario({c1, c2}, 2, 1)}
TwoArrivals == {Scenario({c1}, 2, 0)}
=============================================================================
