---------------------------- MODULE MCOwnership -----------------------------
(* Instances of Ownership for TLC. *)
EXTENDS Ownership, TLC

\* The nodes are interchangeable.
Symmetry == Permutations(Nodes)
=============================================================================
