---------------------------- MODULE MCApiRequests ----------------------------
(***************************************************************************)
(* ApiRequests with two requests at a time, two users, two Google accounts *)
(* and two account rows.                                                   *)
(***************************************************************************)
EXTENDS ApiRequests, TLC

Symmetry == Permutations(Clients) \union Permutations(Users)
                \union Permutations(GoogleIds) \union Permutations(Accounts)
=============================================================================
