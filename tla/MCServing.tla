----------------------------- MODULE MCServing -----------------------------
(* Model-checking instance of Serving. *)
EXTENDS Serving

CONSTANTS u1, u2

TwoUrls == <<u1, u2>>
=============================================================================
