---------------------------- MODULE MCTurnFence ----------------------------
(* Finite instances of TurnFence for TLC.                                   *)
EXTENDS TurnFence, TLC

CONSTANTS s1, s2

Symmetry == Permutations({s1, s2})
============================================================================
