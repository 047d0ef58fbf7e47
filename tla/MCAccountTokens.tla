--------------------------- MODULE MCAccountTokens ---------------------------
(***************************************************************************)
(* AccountTokens on one account.                                           *)
(***************************************************************************)
EXTENDS AccountTokens

CONSTANTS a1, h1, l1, l2, none

OneAccount == {a1}
OneHandler == {h1}
NoHandler  == {}
OneLogin   == {l1}
TwoLogins  == {l1, l2}
=============================================================================
