------------------------------ MODULE MCChunks ------------------------------
(* Instances of Chunks. *)
EXTENDS Chunks
=============================================================================
