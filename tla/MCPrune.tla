------------------------------ MODULE MCPrune ------------------------------
(* Model checking Prune: files, contents and bounds are in the .cfg files. *)
EXTENDS Prune, TLC

\* Contents are only compared with each other.
Symmetry == Permutations(Contents)
=============================================================================
