----------------------------- MODULE MCCausality -----------------------------
(* Three replicas of one file, timestamps that tie and run backwards. *)
EXTENDS Causality
=============================================================================
