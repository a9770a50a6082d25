------------------------------ MODULE MCHandles ------------------------------
(* Instances of Handles.  Addresses are interchangeable, and so are tables. *)
EXTENDS Handles, TLC

Symmetry == Permutations(Handle) \cup Permutations(Tbl)
=============================================================================
