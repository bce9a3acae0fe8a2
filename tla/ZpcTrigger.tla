----------------------------- MODULE ZpcTrigger -----------------------------
(***************************************************************************)
(* The hook that brings a machine-wide lesson at the moment its trigger    *)
(* names (src/hooks/claude/agent-do-zpc-trigger.py), with the command it   *)
(* asks (zpc inject --trigger, lib/triggers.py).  The lessons a session    *)
(* has been shown are kept in a file, which every hook of the session      *)
(* reads and writes again; hooks run side by side, and one that takes too  *)
(* long is killed.  Lessons are promoted and retracted all the time.       *)
(***************************************************************************)
EXTENDS Naturals, FiniteSets, Sequences

CONSTANTS
    Proc,       \* the hook's processes
    Session,
    Lesson,     \* live rows of global-lessons.jsonl
    Kind,       \* prompt, command, path
    Given,      \* [Lesson -> its triggers at first]
    Whens,      \* what the triggers of a lesson may be: sets of kinds
    None, Torn,
    MaxRuns, MaxChanges, MaxKills   \* bounds: hooks, changes of the store, kills

VARIABLES
    whens,      \* [Lesson -> its kinds of triggers, None if it is not there]
    seen,       \* [Session -> its file: None, Torn, or the lessons of each kind]
    proc,
    receipts,   \* deliveries.jsonl
    \* history
    shown,      \* [Session -> [Kind -> the sets of lessons printed, with the new ones]]
    met,        \* sessions in which two hooks ran at once, or a save was cut off
    dropped,    \* [session, kind, lesson]: marked, and the hook killed before it printed
    runs, changes, kills

triggerVars == <<whens, seen, proc, receipts, shown, met, dropped, runs, changes, kills>>

Idle == [at |-> "idle"]
NoneSeen == [k \in Kind |-> {}]
Becomes(p, r) == proc' = [proc EXCEPT ![p] = r]
Running(s) == {p \in Proc : proc[p].at # "idle" /\ proc[p].session = s}

TypeOK ==
    /\ \A l \in Lesson : whens[l] = None \/ whens[l] \subseteq Kind
    /\ \A s \in Session : seen[s] \in {None, Torn} \cup [Kind -> SUBSET Lesson]
    /\ \A p \in Proc : proc[p].at \in {"idle", "ask", "matched", "answered", "open", "fill", "print"}

Init ==
    /\ whens = Given
    /\ seen = [s \in Session |-> None] /\ proc = [p \in Proc |-> Idle] /\ receipts = {}
    /\ shown = [s \in Session |-> [k \in Kind |-> <<>>]]
    /\ met = {} /\ dropped = {} /\ runs = 0 /\ changes = 0 /\ kills = 0

-----------------------------------------------------------------------------
\* promote --to global, which may renew the triggers, and retract.
Change(l, w) ==
    /\ changes < MaxChanges /\ changes' = changes + 1
    /\ w # whens[l] /\ whens' = [whens EXCEPT ![l] = w]
    /\ UNCHANGED <<seen, proc, receipts, shown, met, dropped, runs, kills>>

\* A call of the session: the prompt, command or path says what some of the
\* lessons look for.
Call(p, s, k, says) ==
    /\ proc[p].at = "idle" /\ runs < MaxRuns /\ runs' = runs + 1
    /\ Becomes(p, [at |-> "ask", session |-> s, kind |-> k, says |-> says])
    /\ met' = IF Running(s) = {} THEN met ELSE met \cup {s}
    /\ UNCHANGED <<whens, seen, receipts, shown, dropped, changes, kills>>

Still == UNCHANGED <<whens, shown, met, dropped, runs, changes, kills>>

\* matching: a retracted lesson has no row here, and `always` fires for no moment.
Fired(k, says) == {l \in says : whens[l] # None /\ k \in whens[l]}
Match(p) ==
    LET fired == Fired(proc[p].kind, proc[p].says) IN
    /\ proc[p].at = "ask" /\ Still /\ UNCHANGED <<seen, receipts>>
    /\ Becomes(p, IF fired = {} THEN Idle
                  ELSE [at |-> "matched", session |-> proc[p].session,
                        kind |-> proc[p].kind, fired |-> fired])

\* _inject_trigger: a receipt, then the answer.
Answer(p) ==
    /\ proc[p].at = "matched" /\ Still /\ UNCHANGED seen
    /\ receipts' = receipts \cup {[session |-> proc[p].session, kind |-> proc[p].kind,
                                   fired |-> proc[p].fired]}
    /\ Becomes(p, [proc[p] EXCEPT !.at = "answered"])

\* run_bounded: no answer in time is an empty one, whatever the command has done.
Late(p) ==
    /\ proc[p].at \in {"ask", "matched", "answered"} /\ Still
    /\ Becomes(p, Idle) /\ UNCHANGED <<seen, receipts>>

\* load_seen: a file that cannot be read has seen nothing.
Loaded(s) == IF seen[s] \in {None, Torn} THEN NoneSeen ELSE seen[s]
\* Mutant: the marks are saved before the new lessons are among them.
MarkedLate(marks, k, new) == marks
Marked(marks, k, new) == [marks EXCEPT ![k] = @ \cup new]

LoadSeen(p) ==
    LET k == proc[p].kind
        marks == Loaded(proc[p].session)
        fresh == proc[p].fired \ marks[k]
    IN
    /\ proc[p].at = "answered" /\ Still /\ UNCHANGED <<seen, receipts>>
    /\ Becomes(p, IF fresh = {} THEN Idle
                  ELSE [at |-> "open", session |-> proc[p].session, kind |-> k,
                        fired |-> proc[p].fired, fresh |-> fresh,
                        marks |-> Marked(marks, k, fresh)])

\* save_seen: write_text empties the file and then fills it; an error is passed over.
OpenSeen(p) ==
    /\ proc[p].at = "open" /\ Still /\ UNCHANGED receipts
    /\ seen' = [seen EXCEPT ![proc[p].session] = Torn]
    /\ Becomes(p, [proc[p] EXCEPT !.at = "fill"])

\* Over what another hook has written meanwhile it may leave a tail of that.
FillSeen(p) ==
    LET s == proc[p].session IN
    /\ proc[p].at = "fill" /\ Still /\ UNCHANGED receipts
    /\ \E f \in {proc[p].marks} \cup IF seen[s] \in {Torn, proc[p].marks} THEN {} ELSE {Torn} :
          seen' = [seen EXCEPT ![s] = f]
    /\ Becomes(p, [proc[p] EXCEPT !.at = "print"])

\* The text is the one inject made: of all that fired.
Speak(p) ==
    /\ proc[p].at = "print"
    /\ shown' = [shown EXCEPT ![proc[p].session][proc[p].kind] =
                    Append(@, [all |-> proc[p].fired, fresh |-> proc[p].fresh])]
    /\ Becomes(p, Idle)
    /\ UNCHANGED <<whens, seen, receipts, met, dropped, runs, changes, kills>>

Kill(p) ==
    /\ proc[p].at # "idle" /\ kills < MaxKills /\ kills' = kills + 1
    /\ Becomes(p, Idle)
    /\ met' = IF proc[p].at = "fill" THEN met \cup {proc[p].session} ELSE met
    /\ dropped' = IF proc[p].at # "print" THEN dropped
                  ELSE dropped \cup {[session |-> proc[p].session, kind |-> proc[p].kind, lesson |-> l] :
                                     l \in proc[p].fresh}
    /\ UNCHANGED <<whens, seen, receipts, shown, runs, changes>>

Next ==
    \/ \E l \in Lesson, w \in Whens : Change(l, w)
    \/ \E p \in Proc :
        \/ \E s \in Session, k \in Kind, says \in SUBSET Lesson : Call(p, s, k, says)
        \/ Match(p) \/ Answer(p) \/ Late(p) \/ LoadSeen(p) \/ OpenSeen(p) \/ FillSeen(p)
        \/ Speak(p) \/ Kill(p)

-----------------------------------------------------------------------------
\* How often the lesson was printed, and how often as a new one.
Printed(s, k, l) == {i \in DOMAIN shown[s][k] : l \in shown[s][k][i].all}
New(s, k, l) == {i \in Printed(s, k, l) : l \in shown[s][k][i].fresh}

\* In a session whose hooks ran one after the other, a lesson makes the hook speak
\* once for a kind at most, however often it matches or is renewed; and what the
\* file says was shown was shown, unless the hook was killed before it printed.
SpeaksOnce ==
    \A s \in Session \ met, k \in Kind, l \in Lesson :
        /\ Cardinality(New(s, k, l)) <= 1
        /\ l \in Loaded(s)[k] =>
            \/ Printed(s, k, l) # {} \/ [session |-> s, kind |-> k, lesson |-> l] \in dropped
            \/ \E p \in Running(s) : proc[p].at \in {"open", "fill", "print"} /\ l \in proc[p].fresh

\* A lesson fires once per session per kind; it does not.
FiresOnce == \A s \in Session \ met, k \in Kind, l \in Lesson : Cardinality(Printed(s, k, l)) <= 1
=============================================================================
