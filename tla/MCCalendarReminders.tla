------------------------- MODULE MCCalendarReminders -------------------------
(***************************************************************************)
(* CalendarReminders on small calendars.  Rule 1 ("dienst") reminds of an  *)
(* event called shift, an hour before; rule 2, the newer one, of anything  *)
(* called dienst - which is what rule 1 calls its reminders - two minutes  *)
(* before, under the same title.                                           *)
(***************************************************************************)
EXTENDS CalendarReminders

CONSTANTS w1, w2, shift, dienst

JustOne    == {w1}
TwoWorkers == {w1, w2}

BothTitles == {shift, dienst}
\* Event 2 has the title of the reminders; it can stand in the way of one.
MCSummary  == [e \in Events |-> IF e = 2 THEN dienst ELSE shift]
MCTrigger  == [r \in Rules |-> IF r = 1 THEN {shift} ELSE {dienst}]
MCTitle    == [r \in Rules |-> dienst]
MCOffset   == [r \in Rules |-> IF r = 1 THEN 0 ELSE -2]
MCDuration == [r \in Rules |-> IF r = 1 THEN 0 ELSE 3]

\* eventExists cannot look; calls fail that can be made again; the log can be
\* read but not trusted; the log cannot be read.
FourScenarios ==
    {{"exists"}, {"list", "insert"}, {"list", "lost", "writeLog", "crash"}, {"hasLog"}}
NothingFails == {{}}
=============================================================================
