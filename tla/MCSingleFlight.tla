--------------------------- MODULE MCSingleFlight ---------------------------
(* Finite instances of SingleFlight for TLC.  The two keys differ in their   *)
(* reserve, so only the callers are symmetric.                               *)
EXTENDS SingleFlight, TLC

CONSTANTS c1, c2, c3, k1, k2

MCCallers == {c1, c2, c3}
MCReserve == k1 :> 1 @@ k2 :> 2
MCFlights == 1..6

Symmetry == Permutations(MCCallers)
=============================================================================
