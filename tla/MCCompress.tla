----------------------------- MODULE MCCompress -----------------------------
(* Model-checking instance of Compress. *)
EXTENDS Compress
=============================================================================
