---------------------------- MODULE MCCircuitMux ----------------------------
(* Circuits and circuit ids are interchangeable.                            *)
EXTENDS CircuitMux, TLC

Symmetry == Permutations(Circuits) \union Permutations(Ids)
=============================================================================
