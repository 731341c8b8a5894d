-------------------------- MODULE MCDelayedCircuit --------------------------
(* Instances of DelayedCircuit for TLC: the bound on the cells of each      *)
(* direction.                                                              *)
EXTENDS DelayedCircuit

Cells(out, in) == [d \in Dirs |-> IF d = "OUT" THEN out ELSE in]

TwoAndOne == Cells(2, 1)
ThreeAndOne == Cells(3, 1)
ThreeIn == Cells(0, 3)
=============================================================================
