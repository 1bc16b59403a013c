----------------------------- MODULE MCReplayLog -----------------------------
(* A replay log with two domains, room for two frames in each and for four *)
(* bytes in all.                                                           *)
EXTENDS ReplayLog, TLC

Symmetry == Permutations(Domains)
=============================================================================
