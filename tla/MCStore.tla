------------------------------- MODULE MCStore --------------------------------
(* Constants for the run of Store. *)
EXTENDS Store

CONSTANTS m1, m2

\* a, |, a| and %7C, which reads as an escaped bar
SomeNames == {<<97>>, <<124>>, <<97, 124>>, <<37, 55, 67>>}
TwoIds == {m1, m2}

Symmetry == Permutations(Ids)
=============================================================================
