---------------------------- MODULE MCEventStream ----------------------------
(* Small event streams: two clients whose queues hold two frames, a log    *)
(* window of two.                                                          *)
EXTENDS EventStream, TLC

Symmetry == Permutations(Clients)
=============================================================================
