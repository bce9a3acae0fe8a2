--------------------------- MODULE MCSessionHooks ---------------------------
(* The hooks of a session on a small instance. *)
EXTENDS Hooks, TLC

CONSTANTS t1, t2, f1, path, h1, h2, l1, l2, session

\* Two tools, one of them nudged for, and one file.  An edit out of the Stop's
\* repository and a Stop in a continuation do the same to the ledger, so the first
\* stands for both.
MCCommands ==
    {[do |-> "raw", tool |-> t1], [do |-> "tool", tool |-> t1],
     [do |-> "tool", tool |-> t2], [do |-> "other"], [do |-> "skip"],
     [do |-> "stop", active |-> FALSE]}
    \cup [do : {"edit"}, file : {f1}, here : BOOLEAN]

\* Two lessons for one moment, one of them for another too.
MCKind == {"prompt", "path"}
MCGiven == l1 :> {"prompt"} @@ l2 :> {"prompt", "path"}
MCWhens == {{"prompt"}, None}

Symmetry == Permutations(Reader) \cup Permutations(LessonHook)
=============================================================================
