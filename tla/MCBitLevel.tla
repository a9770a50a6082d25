----------------------------- MODULE MCBitLevel ------------------------------
(* Instances of BitLevel.  Node addresses are interchangeable. *)
EXTENDS BitLevel, TLC

Symmetry == Permutations(Node)
=============================================================================
