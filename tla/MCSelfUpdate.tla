---------------------------- MODULE MCSelfUpdate ----------------------------
(* Model checking SelfUpdate: the bounds are in the .cfg files. *)
EXTENDS SelfUpdate
=============================================================================
