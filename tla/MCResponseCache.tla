-------------------------- MODULE MCResponseCache --------------------------
(* Model-checking instance of ResponseCache. *)
EXTENDS ResponseCache, TLC

Symmetry == Permutations(Requests)

\* Two headers.  The last of these requests has, under Vary: a, the key that the
\* first one has under Vary: a, b.
SomeFields ==
    {[a |-> <<<<"x">>>>, b |-> <<<<"x">>>>],
     [a |-> <<<<"x">>>>, b |-> <<>>],
     [a |-> <<<<"x", "b", "x">>>>, b |-> <<>>]}

\* The last one is an upstream's Vary: b with the line of Compress before it.
SomeVaryFields == {<<<<"a", "b">>>>, <<<<"a">>, <<"b">>>>}
=============================================================================
