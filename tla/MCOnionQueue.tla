---------------------------- MODULE MCOnionQueue ----------------------------
(* Instances of OnionQueue for TLC: circuits and threads are symmetric in   *)
(* the runs that check no liveness.                                        *)
EXTENDS OnionQueue, TLC

Symmetry == Permutations(Circuits) \cup Permutations(Threads)
=============================================================================
