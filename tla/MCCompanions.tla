---------------------------- MODULE MCCompanions ----------------------------
(* Model-checking instance of Companions. *)
EXTENDS Companions

AnyLimit == {-1, 0, 1, 2}
=============================================================================
