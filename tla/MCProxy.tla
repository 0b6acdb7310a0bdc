------------------------------ MODULE MCProxy ------------------------------
(* Model-checking instance of Proxy. *)
EXTENDS Proxy

CONSTANTS u1, u2

TwoUrls == <<u1, u2>>
=============================================================================
