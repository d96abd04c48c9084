--------------------------- MODULE MCFileUploads ---------------------------
(* FileUploads for TLC; its run checks liveness, so it uses no symmetry. *)
EXTENDS FileUploads
=============================================================================
