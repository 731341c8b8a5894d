--------------------------- MODULE MCPriorityQueue ---------------------------
(* Six elements: the smallest heap where an item removed from the middle is *)
(* replaced by one from another subtree.                                    *)
EXTENDS PriorityQueue, TLC

Symmetry == Permutations(Elements)
=============================================================================
