---------------------------- MODULE MCRoundRobin ----------------------------
(* Model-checking instance of RoundRobin and its history variables. *)
EXTENDS RoundRobinHistory

CONSTANTS u1, u2, u3

ThreeUrls == <<u1, u2, u3>>
=============================================================================
