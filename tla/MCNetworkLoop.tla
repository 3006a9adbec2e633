---------------------------- MODULE MCNetworkLoop ----------------------------
(* Instances of NetworkLoop. *)
EXTENDS NetworkLoop
=============================================================================
