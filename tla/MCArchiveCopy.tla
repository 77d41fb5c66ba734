--------------------------- MODULE MCArchiveCopy ---------------------------
(* Model checking ArchiveCopy: the processes and bounds are in the .cfg. *)
EXTENDS ArchiveCopy
=============================================================================
