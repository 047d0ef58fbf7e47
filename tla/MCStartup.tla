------------------------------ MODULE MCStartup ------------------------------
(***************************************************************************)
(* Startup with up to three processes, of which two migrate.  All six      *)
(* steps of the loop are there and a process may die at any of them.       *)
(***************************************************************************)
EXTENDS Startup, TLC

CONSTANTS i1, i2, i3

One   == {i1}
Two   == {i1, i2}
Three == {i1, i2, i3}

Symmetry == Permutations(Two)
=============================================================================
