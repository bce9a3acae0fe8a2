------------------------------ MODULE BoardPage ------------------------------
(***************************************************************************)
(* What a board stream of "agent-do manna serve" promises to the page that *)
(* listens to it: of the versions its board goes through it shows some, no *)
(* older one after a newer one and none before it exists, and when the     *)
(* board rests it shows the last.                                          *)
(***************************************************************************)
EXTENDS Naturals

VARIABLES
    version,    \* the version of the board, from 1
    page        \* the version the page shows, 0 for none yet

pageVars == <<version, page>>

Init == version = 1 /\ page = 0

Change == version' = version + 1 /\ UNCHANGED page

Push == /\ page < version
        /\ page' \in (page + 1)..version
        /\ UNCHANGED version

Next == Change \/ Push

Safety == Init /\ [][Next]_pageVars
Spec == Safety /\ WF_pageVars(Push)
=============================================================================
