----------------------------- MODULE SessionHooks -----------------------------
(***************************************************************************)
(* What the hooks of one agent session remember between its calls: the     *)
(* nudge state of hooks/claude/agent-do-pretooluse-check.py, the pending   *)
(* nudges of lib/telemetry.py, the touch ledger of lib/touch_ledger.py     *)
(* that the Stop gate consumes, and the files agent-do-quantity-check.py   *)
(* has spoken of.  Every call of the session runs its hooks as processes of*)
(* its own; calls may run side by side, and nothing here takes a lock.     *)
(***************************************************************************)
EXTENDS Naturals, FiniteSets

CONSTANTS
    Tool,           \* the tools a raw command may have an equivalent in
    File,           \* the files edited
    FriendlyAfter,  \* NUDGE_FRIENDLY_AFTER
    SilentAfter,    \* NUDGE_SILENT_AFTER
    MaxActions,     \* PENDING_MAX_ACTIONS
    None, Torn,
    Commands,       \* bound: the commands of the session
    MaxCalls,       \* bound: calls of the session
    Width,          \* bound: calls side by side
    MaxKills        \* bound: calls cut off

ASSUME HooksAssumption ==
    /\ FriendlyAfter \in Nat /\ SilentAfter \in Nat /\ FriendlyAfter <= SilentAfter
    /\ MaxActions \in Nat \ {0} /\ MaxCalls \in Nat /\ Width \in Nat /\ MaxKills \in Nat

Call == 1..MaxCalls

\* The nudge state: the tools demonstrated and the nudges counted.
State == [demonstrated : SUBSET Tool, counts : [Tool -> 0..SilentAfter]]
EmptyState == [demonstrated |-> {}, counts |-> [t \in Tool |-> 0]]

ASSUME NoneAssumption ==
    /\ None # Torn /\ None \notin Nat \cup {"expired", "followed", "ignored"}
    /\ {None, Torn} \cap State = {}

\* What the session does: a raw command that has an equivalent, a call of a
\* tool, another command, one the hook knows as safe, an edit, or a Stop.
Command == [do : {"raw", "tool"}, tool : Tool]
             \cup [do : {"other", "skip"}]
             \cup [do : {"edit"}, file : File, here : BOOLEAN]
             \cup [do : {"stop"}, active : BOOLEAN]

ASSUME CommandsAssumption == Commands \subseteq Command

VARIABLES
    begun,      \* how many calls have begun
    what,       \* [Call -> its command]
    pc,         \* [Call -> where its hooks are]
    nudges,     \* session-<sid>.json, None, a state, or Torn
    tmp,        \* session-<sid>.tmp, likewise
    mine,       \* [Call -> the state it has loaded]
    handle,     \* [Call -> where the file it opened as tmp is now]
    pending,    \* [Call -> the pending nudge of its hook: actions observed]
    todo,       \* [Call -> the pending nudges it has read, not yet judged]
    outcomes,   \* [Call -> the outcomes logged for its nudge]
    ledger,     \* the edits in the touch ledger
    entries,    \* [Call -> the edits a Stop has read]
    spoken,     \* seen-<sid>.txt: the files spoken of
    old,        \* the files no hook has written for a week
    cutoffs

hookVars == <<nudges, tmp, mine, handle>>
pendingVars == <<pending, todo, outcomes>>
ledgerVars == <<ledger, entries, spoken>>

\* History.
VARIABLES
    hard, friendly, \* [Tool -> the nudges shown]
    late,           \* a tool was nudged for whose demonstration was over
    shown,          \* the tools demonstrated by calls whose hook ended
    crossed,        \* two hooks had the nudge state at once, one was killed with
                    \* it, or it was swept
    counted,        \* [Call -> the unrelated calls counted against its nudge]
    disputed,       \* the nudges two calls had at once, or a killed one
    touched,        \* the edits recorded
    reported,       \* the edits a Stop has reported
    excused,        \* the edits swept, out of the repository of the Stop that
                    \* read them, silenced, lost with a killed Stop, or recorded
                    \* between the reading and the truncation of a Stop
    told,           \* [File -> how often it was spoken of]
    raced           \* the files two edits checked at once, or seen-<sid> was swept

sessionHistory == <<hard, friendly, late, shown, crossed, counted, disputed, touched,
             reported, excused, told, raced>>
sessionVars == <<begun, what, pc, hookVars, pendingVars, ledgerVars, old, cutoffs, sessionHistory>>

Holding == {"open", "write", "replace"}
Actions == 0..MaxActions

SessionTypeOK ==
    /\ begun \in 0..MaxCalls
    /\ what \in [Call -> Command \cup {None}]
    /\ pc \in [Call -> Holding \cup {"idle", "call", "resolve", "drop", "check",
                                     "claim", "truncate", "report", "done"}]
    /\ nudges \in State \cup {None, Torn} /\ tmp \in State \cup {None, Torn}
    /\ mine \in [Call -> State]
    /\ handle \in [Call -> {"none", "tmp", "file", "lost"}]
    /\ pending \in [Call -> Actions \cup {None}]
    /\ todo \in [Call -> [Call -> Actions \cup {None}]]
    /\ outcomes \in [Call -> SUBSET (Call \X {"expired", "followed", "ignored"})]
    /\ ledger \subseteq Call /\ entries \in [Call -> SUBSET Call]
    /\ spoken \subseteq File
    /\ old \subseteq {"nudges", "ledger", "spoken"}
    /\ cutoffs \in 0..MaxKills

SessionInit ==
    /\ begun = 0
    /\ what = [c \in Call |-> None] /\ pc = [c \in Call |-> "idle"]
    /\ nudges = None /\ tmp = None
    /\ mine = [c \in Call |-> EmptyState] /\ handle = [c \in Call |-> "none"]
    /\ pending = [c \in Call |-> None]
    /\ todo = [c \in Call |-> [n \in Call |-> None]]
    /\ outcomes = [c \in Call |-> {}]
    /\ ledger = {} /\ entries = [c \in Call |-> {}] /\ spoken = {}
    /\ old = {} /\ cutoffs = 0
    /\ hard = [t \in Tool |-> 0] /\ friendly = [t \in Tool |-> 0]
    /\ late = FALSE /\ shown = {} /\ crossed = FALSE
    /\ counted = [c \in Call |-> {}] /\ disputed = {}
    /\ touched = {} /\ reported = {} /\ excused = {}
    /\ told = [f \in File |-> 0] /\ raced = {}

Goto(c, l) == pc' = [pc EXCEPT ![c] = l]
Running == {c \in Call : pc[c] \notin {"idle", "done"}}

\* The next call begins, at l.
Begin(c, w, l) ==
    /\ begun < MaxCalls /\ c = begun + 1 /\ Cardinality(Running) < Width
    /\ begun' = c
    /\ what' = [what EXCEPT ![c] = w]
    /\ Goto(c, l)

-----------------------------------------------------------------------------
(* The pre-tool hook.                                                      *)

\* _load_session_state: what cannot be read is an empty state.
Loaded == IF nudges \in {None, Torn} THEN EmptyState ELSE nudges

\* record_nudge_event leaves a pending nudge of a raw command, with no action seen.
Nudged(c, w) == IF w.do = "raw" THEN [pending EXCEPT ![c] = 0] ELSE pending

\* main: the state is loaded, and files of a week ago are swept.  A call of a
\* tool demonstrates it; a safe command is over, and saves nothing; for a raw one
\* a nudge is pending, whatever will be decided.
PreTool(c, w) ==
    /\ w.do \in {"raw", "tool", "other", "skip"}
    /\ Begin(c, w, IF w.do = "skip" THEN "done" ELSE "open")
    /\ pending' = Nudged(c, w)
    /\ mine' = [mine EXCEPT ![c] =
                  CASE w.do = "tool" -> [Loaded EXCEPT !.demonstrated = @ \cup {w.tool}]
                    [] w.do = "skip" -> EmptyState
                    [] OTHER -> Loaded]
    /\ nudges' = IF "nudges" \in old THEN None ELSE nudges
    /\ old' = old \ {"nudges"}
    /\ crossed' = (crossed \/ \E d \in Call : pc[d] \in Holding
                           \/ ("nudges" \in old /\ w.do = "skip"))
    /\ UNCHANGED <<tmp, handle, todo, outcomes, ledgerVars, cutoffs, hard, friendly,
                   late, shown, counted, disputed, touched, reported, excused, told,
                   raced>>

\* _nudge_decision.
Decision(s, t) ==
    CASE t \in s.demonstrated -> "suppress_demonstrated"
      [] t \notin s.demonstrated /\ s.counts[t] >= SilentAfter -> "suppress_frequency"
      [] t \notin s.demonstrated /\ s.counts[t] \in FriendlyAfter..(SilentAfter - 1)
            -> "friendly"
      [] OTHER -> "hard"

\* Mutant: what was shown is not counted.
CountNone(s, t) == s

\* _record_nudge_emitted.
Counted(s, t) ==
    IF Decision(s, t) \in {"hard", "friendly"}
    THEN [s EXCEPT !.counts[t] = @ + 1] ELSE s

\* _gated_emit shows the nudge, or not, and counts it; _save_session_state
\* opens the file next to the state, which is the same for every call.
Open(c) ==
    LET t == what[c].tool
        says == IF what[c].do = "raw" THEN Decision(mine[c], t) ELSE "suppress_demonstrated"
    IN  /\ pc[c] = "open"
        /\ mine' = IF what[c].do = "raw"
                   THEN [mine EXCEPT ![c] = Counted(@, t)] ELSE mine
        /\ hard' = IF says = "hard" THEN [hard EXCEPT ![t] = @ + 1] ELSE hard
        /\ friendly' = IF says = "friendly" THEN [friendly EXCEPT ![t] = @ + 1]
                                            ELSE friendly
        /\ late' = (late \/ (says \in {"hard", "friendly"} /\ t \in shown))
        /\ tmp' = Torn
        /\ handle' = [handle EXCEPT ![c] = "tmp"]
        /\ Goto(c, "write")
        /\ UNCHANGED <<begun, what, nudges, pendingVars, ledgerVars, old, cutoffs, shown,
                       crossed, counted, disputed, touched, reported, excused, told,
                       raced>>

\* What a write leaves in a file: it is whole if the file was empty, and over
\* another call's text it may not be.
Written(file, s) == IF file \in {Torn, s} THEN {s} ELSE {s, Torn}

Write(c) ==
    /\ pc[c] = "write"
    /\ CASE handle[c] = "tmp" -> tmp' \in Written(tmp, mine[c]) /\ UNCHANGED nudges
         [] handle[c] = "file" -> nudges' \in Written(nudges, mine[c]) /\ UNCHANGED tmp
         [] OTHER -> UNCHANGED <<tmp, nudges>>
    /\ handle' = [handle EXCEPT ![c] = "none"]
    /\ mine' = [mine EXCEPT ![c] = EmptyState]
    /\ Goto(c, "replace")
    /\ UNCHANGED <<begun, what, pendingVars, ledgerVars, old, cutoffs, sessionHistory>>

\* os.replace: the state file is now what is under the name of the temporary one,
\* whoever wrote it; without one, nothing happens.  A tool's call runs now.
Replace(c) ==
    /\ pc[c] = "replace"
    /\ IF tmp = None THEN UNCHANGED <<nudges, tmp, handle, old>>
       ELSE /\ nudges' = tmp /\ tmp' = None
            /\ handle' = [d \in Call |-> CASE handle[d] = "tmp" -> "file"
                                           [] handle[d] = "file" -> "lost"
                                           [] OTHER -> handle[d]]
            /\ old' = old \ {"nudges"}
    /\ shown' = IF what[c].do = "tool" THEN shown \cup {what[c].tool} ELSE shown
    /\ Goto(c, IF what[c].do = "tool" THEN "call" ELSE "done")
    /\ UNCHANGED <<begun, what, mine, pendingVars, ledgerVars, cutoffs, hard, friendly,
                   late, crossed, counted, disputed, touched, reported, excused, told,
                   raced>>

-----------------------------------------------------------------------------
(* agent-do <tool>: record_tool_call.                                      *)

\* load_pending.  A nudge another call is rewriting may be unreadable.
LoadPending(c) ==
    \E unread \in SUBSET {n \in Call : \E d \in Call \ {c} : pc[d] = "resolve" /\ todo[d][n] # None} :
        LET read == {n \in Call : pending[n] # None} \ unread
        IN  /\ pc[c] = "call"
            /\ todo' = [todo EXCEPT ![c] =
                          [n \in Call |-> IF n \in read THEN pending[n] ELSE None]]
            /\ disputed' = disputed \cup
                 {n \in read : \E d \in Call \ {c} : todo[d][n] # None}
            /\ Goto(c, IF read = {} THEN "done" ELSE "resolve")
            /\ UNCHANGED <<begun, what, hookVars, pending, outcomes, ledgerVars, old,
                           cutoffs, hard, friendly, late, shown, crossed, counted,
                           touched, reported, excused, told, raced>>

\* The nudge n is judged, and the call goes on with the next.
Judged(c, n) ==
    /\ todo' = [todo EXCEPT ![c][n] = None]
    /\ Goto(c, IF \A m \in Call \ {n} : todo[c][m] = None THEN "done" ELSE "resolve")

\* Mutant: the action is counted twice.
OutcomesTwice(c, n) ==
    {"expired"} \cup (IF what[c].tool = what[n].tool THEN {"followed"}
                      ELSE IF todo[c][n] + 2 >= MaxActions THEN {"ignored"} ELSE {None})

\* resolve_pending_for_tool_call: a nudge whose time is up has expired; one for
\* this tool was followed; the last unrelated action it waits for ignores it.
Outcomes(c, n) ==
    {"expired"} \cup (IF what[c].tool = what[n].tool THEN {"followed"}
                      ELSE IF todo[c][n] + 1 >= MaxActions THEN {"ignored"} ELSE {None})

\* An outcome is logged; then the nudge goes.
Resolve(c, n) ==
    /\ pc[c] = "resolve" /\ todo[c][n] # None
    /\ \E o \in Outcomes(c, n) \ {None} :
        /\ outcomes' = [outcomes EXCEPT ![n] = @ \cup {<<c, o>>}]
        /\ counted' = IF o = "ignored" THEN [counted EXCEPT ![n] = @ \cup {c}] ELSE counted
    /\ todo' = [todo EXCEPT ![c][n] = MaxActions]
    /\ Goto(c, "drop")
    /\ UNCHANGED <<begun, what, hookVars, pending, ledgerVars, old, cutoffs, hard,
                   friendly, late, shown, crossed, disputed, touched, reported, excused,
                   told, raced>>

\* Mutant: a nudge with an outcome stays.
DropNothing(c) ==
    \E n \in Call :
        /\ pc[c] = "drop" /\ \E o \in outcomes[n] : o[1] = c
        /\ todo[c][n] # None
        /\ Judged(c, n)
        /\ UNCHANGED <<begun, what, hookVars, pending, outcomes, ledgerVars, old,
                       cutoffs, sessionHistory>>

\* delete_pending.
Drop(c) ==
    \E n \in Call :
        /\ pc[c] = "drop" /\ \E o \in outcomes[n] : o[1] = c
        /\ todo[c][n] # None
        /\ pending' = [pending EXCEPT ![n] = None]
        /\ Judged(c, n)
        /\ UNCHANGED <<begun, what, hookVars, outcomes, ledgerVars, old, cutoffs, sessionHistory>>

\* update_pending: the file is written again, also when it is gone by now.
Update(c, n) ==
    /\ pc[c] = "resolve" /\ todo[c][n] # None /\ None \in Outcomes(c, n)
    /\ pending' = [pending EXCEPT ![n] = todo[c][n] + 1]
    /\ counted' = [counted EXCEPT ![n] = @ \cup {c}]
    /\ Judged(c, n)
    /\ UNCHANGED <<begun, what, hookVars, outcomes, ledgerVars, old, cutoffs, hard,
                   friendly, late, shown, crossed, disputed, touched, reported, excused,
                   told, raced>>

-----------------------------------------------------------------------------
(* The post-tool hooks of an edit, and the Stop gate.                      *)

Stopping == {d \in Call : pc[d] = "truncate"}

\* Mutant: the edit is written over what is there.
TouchOver(c, w) ==
    /\ w.do = "edit" /\ Begin(c, w, "check")
    /\ ledger' = {c} /\ touched' = touched \cup {c}
    /\ UNCHANGED <<hookVars, pendingVars, entries, spoken, old, cutoffs, hard, friendly,
                   late, shown, crossed, counted, disputed, reported, excused, told,
                   raced>>

\* record: stale ledgers are swept, then the edit is appended.
Touch(c, w) ==
    /\ w.do = "edit" /\ Begin(c, w, "check")
    /\ ledger' = (IF "ledger" \in old THEN {} ELSE ledger) \cup {c}
    /\ excused' = excused \cup (IF "ledger" \in old THEN ledger ELSE {})
                          \cup (IF Stopping # {} THEN {c} ELSE {})
    /\ old' = old \ {"ledger"}
    /\ touched' = touched \cup {c}
    /\ UNCHANGED <<hookVars, pendingVars, entries, spoken, cutoffs, hard, friendly, late,
                   shown, crossed, counted, disputed, reported, told, raced>>

\* already_nudged, the look: a file spoken of is not spoken of again.
Check(c) ==
    LET f == what[c].file
    IN  /\ pc[c] = "check"
        /\ Goto(c, IF f \in spoken THEN "done" ELSE "claim")
        /\ raced' = IF \E d \in Call : pc[d] = "claim" /\ what[d].file = f
                    THEN raced \cup {f} ELSE raced
        /\ UNCHANGED <<begun, what, hookVars, pendingVars, ledgerVars, old, cutoffs, hard,
                       friendly, late, shown, crossed, counted, disputed, touched,
                       reported, excused, told>>

\* Mutant: the file is spoken of and not noted.
NoteNothing(c) ==
    /\ pc[c] = "claim"
    /\ told' = [told EXCEPT ![what[c].file] = @ + 1]
    /\ Goto(c, "done")
    /\ UNCHANGED <<begun, what, hookVars, pendingVars, ledgerVars, old, cutoffs, hard,
                   friendly, late, shown, crossed, counted, disputed, touched, reported,
                   excused, raced>>

\* It is noted, and the finding printed.  The last thing is the sweep.
Note(c) ==
    LET f == what[c].file
    IN  /\ pc[c] = "claim"
        /\ spoken' = spoken \cup {f}
        /\ told' = [told EXCEPT ![f] = @ + 1]
        /\ old' = old \ {"spoken"}
        /\ Goto(c, "done")
        /\ UNCHANGED <<begun, what, hookVars, pendingVars, ledger, entries, cutoffs, hard,
                       friendly, late, shown, crossed, counted, disputed, touched,
                       reported, excused, raced>>

\* read_and_consume, the reading.
StopRead(c, w) ==
    /\ w.do = "stop" /\ Begin(c, w, "truncate")
    /\ entries' = [entries EXCEPT ![c] = ledger]
    /\ UNCHANGED <<hookVars, pendingVars, ledger, spoken, old, cutoffs, sessionHistory>>

\* The truncation, whatever is in the file by now.
StopTruncate(c) ==
    /\ pc[c] = "truncate"
    /\ ledger' = {} /\ old' = old \ {"ledger"}
    /\ Goto(c, "report")
    /\ UNCHANGED <<begun, what, hookVars, pendingVars, entries, spoken, cutoffs, sessionHistory>>

\* build_response: edits outside this repository are not told, and in a
\* continuation none are.
StopReport(c) ==
    LET tell == IF what[c].active THEN {} ELSE {e \in entries[c] : what[e].here}
    IN  /\ pc[c] = "report"
        /\ reported' = reported \cup tell
        /\ excused' = excused \cup (entries[c] \ tell)
        /\ entries' = [entries EXCEPT ![c] = {}]
        /\ Goto(c, "done")
        /\ UNCHANGED <<begun, what, hookVars, pendingVars, ledger, spoken, old, cutoffs,
                       hard, friendly, late, shown, crossed, counted, disputed, touched,
                       told, raced>>

-----------------------------------------------------------------------------
\* A call is cut off, with its hooks.
CutOff(c) ==
    /\ c \in Running /\ cutoffs < MaxKills
    /\ cutoffs' = cutoffs + 1
    /\ Goto(c, "done")
    /\ handle' = [handle EXCEPT ![c] = "none"]
    /\ todo' = [todo EXCEPT ![c] = [n \in Call |-> None]]
    /\ mine' = [mine EXCEPT ![c] = EmptyState]
    /\ entries' = [entries EXCEPT ![c] = {}]
    /\ crossed' = (crossed \/ pc[c] \in Holding)
    /\ disputed' = disputed \cup {n \in Call : pc[c] = "drop" /\ todo[c][n] # None}
    /\ excused' = excused \cup (IF pc[c] = "report" THEN entries[c] ELSE {})
    /\ UNCHANGED <<begun, what, nudges, tmp, pending, outcomes, ledger, spoken, old,
                   hard, friendly, late, shown, counted, touched, reported, told, raced>>

\* The session rests for a week.
Rest ==
    /\ Running = {} /\ begun < MaxCalls
    /\ old' = {f \in {"nudges", "ledger", "spoken"} :
                 CASE f = "nudges" -> nudges # None [] f = "ledger" -> ledger # {}
                   [] OTHER -> spoken # {}}
    /\ old' # old
    /\ UNCHANGED <<begun, what, pc, hookVars, pendingVars, ledgerVars, cutoffs, sessionHistory>>

\* A hook of another session, or for seen-<sid> of this one, sweeps a file of a
\* week ago.
Sweep(f) ==
    /\ f \in old
    /\ old' = old \ {f}
    /\ CASE f = "nudges" -> /\ nudges' = None /\ crossed' = TRUE
                            /\ UNCHANGED <<ledger, spoken, excused, raced>>
         [] f = "ledger" -> /\ ledger' = {} /\ excused' = excused \cup ledger
                            /\ UNCHANGED <<nudges, spoken, crossed, raced>>
         [] f = "spoken" -> /\ spoken' = {} /\ raced' = raced \cup spoken
                            /\ UNCHANGED <<nudges, ledger, crossed, excused>>
    /\ UNCHANGED <<begun, what, pc, tmp, mine, handle, pendingVars, entries, cutoffs, hard,
                   friendly, late, shown, counted, disputed, touched, reported, told>>

SessionNext ==
    \/ \E c \in Call :
        \/ \E w \in Commands : PreTool(c, w) \/ Touch(c, w) \/ StopRead(c, w)
        \/ Open(c) \/ Write(c) \/ Replace(c)
        \/ LoadPending(c) \/ Drop(c)
        \/ \E n \in Call : Resolve(c, n) \/ Update(c, n)
        \/ Check(c) \/ Note(c)
        \/ StopTruncate(c) \/ StopReport(c)
        \/ CutOff(c)
    \/ Rest
    \/ \E f \in old : Sweep(f)

SessionSpec == SessionInit /\ [][SessionNext]_sessionVars

-----------------------------------------------------------------------------
(* Properties.                                                             *)

\* A tool is nudged for in full FriendlyAfter times, SilentAfter times in all,
\* and not once it has been demonstrated, unless two hooks held the state at
\* once, one was killed with it, or a week went by: then counts are lost.
NudgesDegrade ==
    ~crossed => /\ \A t \in Tool : /\ hard[t] <= FriendlyAfter
                                   /\ hard[t] + friendly[t] <= SilentAfter
                /\ ~late

\* A nudge has one outcome in the log, unless two calls judged it at once or the
\* one that logged it was killed before the nudge was deleted.
OneOutcome == \A n \in Call \ disputed : Cardinality(outcomes[n]) <= 1

\* A nudge is logged as ignored only after MaxActions calls of other tools that
\* came after it, however calls overlap: a lost update counts too few.
IgnoredIsEarned ==
    \A n, c \in Call :
        (<<c, "ignored">> \in outcomes[n]) =>
            /\ Cardinality(counted[n]) >= MaxActions
            /\ \A d \in counted[n] : what[d].tool # what[n].tool

\* An edit is in the ledger, in the hands of a Stop, or was reported, unless it
\* was recorded while a Stop was between reading and truncating the ledger, or
\* is excused otherwise.
TouchedIsSeen ==
    \A e \in touched \ excused :
        e \in ledger \cup reported
              \cup UNION {entries[c] : c \in Call}

\* A file is spoken of once in a session, unless two edits of it were checked at
\* once (the look and the note are two steps) or the session's file was swept.
SpokenOnce == \A f \in File \ raced : told[f] <= 1
=============================================================================
