---------------------------- MODULE MCWorkerCycle ----------------------------
(***************************************************************************)
(* WorkerCycle with two accounts and a period of three units, the deadline *)
(* one unit before it.                                                     *)
(***************************************************************************)
EXTENDS WorkerCycle

CONSTANTS a1, a2

OneAccount  == {a1}
TwoAccounts == {a1, a2}
=============================================================================
