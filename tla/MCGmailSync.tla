----------------------------- MODULE MCGmailSync -----------------------------
(***************************************************************************)
(* GmailSync with two rules: rule 1 stars other people's messages, rule 2   *)
(* replies to starred ones.  What rule 1 does brings the message back to    *)
(* rule 2, and the replies come back as messages of their own.              *)
(***************************************************************************)
EXTENDS GmailSync

MCTriggerType == [r \in Rules |-> IF r = 1 THEN "sender_match" ELSE "starred"]
MCActionType  == [r \in Rules |-> IF r = 1 THEN "star" ELSE "auto_reply"]

\* The history works and everything about messages may fail; or the reverse.
TwoScenarios ==
    {{"page", "get", "store", "action", "crash", "touch", "age"},
     {"history", "writeState", "list", "profile", "touch"}}
NothingFails == {{}}
=============================================================================
