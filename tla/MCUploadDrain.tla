--------------------------- MODULE MCUploadDrain ---------------------------
(* Model checking UploadDrain: the bounds are in the .cfg files. *)
EXTENDS UploadDrain
=============================================================================
