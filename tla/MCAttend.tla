------------------------------ MODULE MCAttend ------------------------------
(* Instances of Attend for TLC.                                             *)
EXTENDS Attend

\* Two that take turns, whom a sentence of both may put under one name; the same after a silence,
\* in one turn each.
Talks == {<<1, 2, 2>>, <<0, 1, 2>>}
=============================================================================
