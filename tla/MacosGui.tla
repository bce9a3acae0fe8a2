------------------------------- MODULE MacosGui -------------------------------
(***************************************************************************)
(* agent-macos (src/tools/agent-macos/macos_ops.py).  Every command is a   *)
(* process: it loads session.json, passes the gate for live control or is  *)
(* refused, reads the desktop through accessibility, acts on it through    *)
(* events and scripts, and rewrites session.json from what it loaded.      *)
(* Elements are known by refs that only the process has, so a command that *)
(* is given a ref finds no element.  The user and the applications move    *)
(* all the time.                                                           *)
(***************************************************************************)
EXTENDS Naturals, Sequences

CONSTANTS
    Proc, App,
    Dialogs,        \* the dialogs there may be: sequences of buttons
    Cancelling,     \* the buttons named cancel, don't save or no
    Asked,          \* bound: [Proc -> the commands it may be given]
    MaxRuns,        \* bound: commands
    MaxMoves,       \* bound: what the user does, and starts of applications
    None

VARIABLES
    running,        \* [App -> the pid of its instance, or 0]
    front,          \* the frontmost application, or None
    dialog,         \* [App -> the buttons its front window shows]
    session,        \* session.json; Blank when missing or truncated
    proc,
    acted,           \* history: how often a command acted on the desktop
    pressed,        \* history: <<what dialog click was told, the button it pressed>>
    moves, runs

guiVars == <<running, front, dialog, session, proc, acted, pressed, moves, runs>>

Blank == [app |-> None, pid |-> 0, snapshot |-> None]
Idle == [at |-> "idle"]

ByRef == {"click", "dblclick", "rightclick", "action", "fill", "get", "inspect", "wait ref"}
Reads == {"permissions", "status", "apps", "frontmost", "menubar", "window list",
          "windows", "dialog detect", "clipboard get", "screenshot"}
Keyboard == {"type", "press", "keys"}
WindowActions == {"minimize", "maximize", "fullscreen", "close", "center", "move", "resize"}

\* enforce_live_for_command: the commands that need approval.
LiveExceptDialogs ==    \* a mutant
    {"open", "focus", "quit", "click", "dblclick", "rightclick", "fill", "action", "menu",
     "clipboard set"} \cup Keyboard \cup WindowActions
Live == {"open", "focus", "quit", "click", "dblclick", "rightclick", "fill", "action", "menu",
         "clipboard set", "dialog click"} \cup Keyboard \cup WindowActions

TypeOK ==
    /\ \A a \in App : running[a] \in 0..MaxMoves /\ dialog[a] \in Dialogs \cup {<<>>}
    /\ front \in App \cup {None} /\ acted \in BOOLEAN
    /\ session.app \in App \cup {None} /\ session.snapshot \in App \cup {None}

Init ==
    /\ running \in {r \in [App -> {0, 1}] : \E a \in App : r[a] = 1}
    /\ front \in {a \in App : running[a] = 1}
    /\ dialog = [a \in App |-> <<>>] /\ session = Blank
    /\ proc = [p \in Proc |-> Idle]
    /\ acted = FALSE /\ pressed = {} /\ moves = 1 /\ runs = 0

-----------------------------------------------------------------------------
At(p, at) == proc[p].at = at
Op(p) == proc[p].cmd.op
Arg(p) == proc[p].cmd.arg
Becomes(p, r) == proc' = [proc EXCEPT ![p] = r]
Finish(p) == Becomes(p, Idle)
Goes(p, at) == Becomes(p, [proc[p] EXCEPT !.at = at])
\* _save_state with s, and then what comes after it.
Saving(p, s, then) == Becomes(p, [proc[p] EXCEPT !.at = "save", !.s = s, !.then = then])
\* add_history: the entry is not told apart, the save is.
Noting(p, then) == Saving(p, proc[p].s, then)
Desktop == <<running, front, dialog>>
Quiet == UNCHANGED <<acted, pressed, moves, runs>>

\* main: the session is loaded, then the gate asks for a lease; ok is its answer.
Start(p, c) ==
    /\ At(p, "idle") /\ runs < MaxRuns /\ runs' = runs + 1
    /\ \E ok \in BOOLEAN :
         IF c.op \in Live /\ ~ok THEN Finish(p)
         ELSE Becomes(p, [at |-> "go", cmd |-> c, ok |-> ok, s |-> session,
                          then |-> "end", button |-> None, target |-> None])
    /\ UNCHANGED <<Desktop, session, acted, pressed, moves>>

\* permissions, status, apps, frontmost, menubar, window list, dialog detect ...
Read(p) ==
    /\ At(p, "go") /\ Op(p) \in Reads \ {"screenshot"}
    /\ Finish(p) /\ Quiet /\ UNCHANGED <<Desktop, session>>

\* resolve_ref: the cache is this process's own, and still empty.
Refless(p) ==
    /\ At(p, "go") /\ Op(p) \in ByRef
    /\ Finish(p) /\ Quiet /\ UNCHANGED <<Desktop, session>>

Reset(p) ==
    /\ At(p, "go") /\ Op(p) = "reset"
    /\ Saving(p, Blank, "end") /\ Quiet /\ UNCHANGED <<Desktop, session>>

\* open_app: a running one is activated, another is launched and looked for half
\* a second later; a launch may fail.
OpenApp(p) ==
    /\ At(p, "go") /\ Op(p) = "open"
    /\ LET a == Arg(p) IN
       \/ /\ running[a] # 0 /\ front' = a /\ acted' = ~acted
          /\ Saving(p, [proc[p].s EXCEPT !.app = a, !.pid = running[a]], "end")
          /\ UNCHANGED <<running, moves>>
       \/ /\ running[a] = 0 /\ moves < MaxMoves
          /\ running' = [running EXCEPT ![a] = moves + 1] /\ front' = a
          /\ moves' = moves + 1 /\ acted' = ~acted /\ Goes(p, "launched")
       \/ /\ running[a] = 0 /\ Finish(p) /\ UNCHANGED <<running, front, acted, moves>>
    /\ UNCHANGED <<dialog, session, pressed, runs>>
Launched(p) ==
    /\ At(p, "launched")
    /\ IF running[Arg(p)] = 0 THEN Finish(p)
       ELSE Saving(p, [proc[p].s EXCEPT !.app = Arg(p), !.pid = running[Arg(p)]], "end")
    /\ Quiet /\ UNCHANGED <<Desktop, session>>

\* focus_app
FocusApp(p) ==
    /\ At(p, "go") /\ Op(p) = "focus"
    /\ LET a == Arg(p) IN
       IF running[a] = 0 THEN Finish(p) /\ UNCHANGED <<front, acted>>
       ELSE /\ front' = a /\ acted' = ~acted
            /\ Saving(p, [proc[p].s EXCEPT !.app = a, !.pid = running[a]], "end")
    /\ UNCHANGED <<running, dialog, session, pressed, moves, runs>>

\* An instance ends: some other application comes to the front.
Ends(a) ==
    /\ running' = [running EXCEPT ![a] = 0] /\ dialog' = [dialog EXCEPT ![a] = <<>>]
    /\ IF front = a
       THEN front' \in {None} \cup {b \in App \ {a} : running[b] # 0}
       ELSE UNCHANGED front

\* quit_app: without --force the application is only asked to.
QuitApp(p) ==
    /\ At(p, "go") /\ Op(p) = "quit"
    /\ Finish(p)
    /\ IF running[Arg(p)] = 0 THEN UNCHANGED <<Desktop, acted>>
       ELSE /\ acted' = ~acted /\ (Ends(Arg(p)) \/ UNCHANGED Desktop)
    /\ UNCHANGED <<session, pressed, moves, runs>>

\* snapshot: of the application that is named or in front.  find, count and
\* wait --label take one of whatever is in front.
SnapshotOf(p) == IF Op(p) = "snapshot" /\ Arg(p) # None THEN Arg(p) ELSE front
Snapshot(p) ==
    /\ At(p, "go") /\ Op(p) \in {"snapshot", "find", "wait label"}
    /\ LET a == SnapshotOf(p) IN
       IF a = None \/ running[a] = 0 THEN Goes(p, "seen")
       ELSE Saving(p, [proc[p].s EXCEPT !.app = a, !.pid = running[a]], "walk")
    /\ Quiet /\ UNCHANGED <<Desktop, session>>
\* The elements of one window; an application without windows leaves no timestamp.
Walk(p) ==
    /\ At(p, "walk")
    /\ \/ Saving(p, [proc[p].s EXCEPT !.snapshot = proc[p].s.app], "seen")
       \/ Goes(p, "seen")
    /\ Quiet /\ UNCHANGED <<Desktop, session>>
\* wait_for_element looks again until it finds one or its time is up.
Seen(p) ==
    /\ At(p, "seen")
    /\ Finish(p) \/ (Op(p) = "wait label" /\ Goes(p, "go"))
    /\ Quiet /\ UNCHANGED <<Desktop, session>>

\* type_text and press_key: the keys go to whatever has the focus, for a ref that
\* is not found too.
TypeKeys(p) ==
    /\ At(p, "go") /\ Op(p) \in Keyboard
    /\ acted' = ~acted /\ dialog' \in {dialog} \cup
            {[dialog EXCEPT ![a] = <<>>] : a \in {front} \ {None}}      \* Return, Escape
    /\ Noting(p, "end") \/ (Op(p) = "keys" /\ Noting(p, "go"))
    /\ UNCHANGED <<running, front, session, pressed, moves, runs>>

\* menu_click, in the application that is in front when the command looks.
MenuTarget(p) ==
    /\ At(p, "go") /\ Op(p) = "menu"
    /\ IF front = None THEN Finish(p)
       ELSE Becomes(p, [proc[p] EXCEPT !.at = "menu", !.target = front])
    /\ Quiet /\ UNCHANGED <<Desktop, session>>
\* The script activates it again, which launches one that has quit.
MenuClick(p) ==
    /\ At(p, "menu")
    /\ acted' = ~acted /\ front' = proc[p].target
    /\ \/ Finish(p) /\ UNCHANGED dialog     \* no such item
       \/ Noting(p, "end") /\ \E d \in Dialogs \cup {<<>>} :
            dialog' = [dialog EXCEPT ![proc[p].target] = d]
    /\ IF running[proc[p].target] # 0 THEN UNCHANGED <<running, moves>>
       ELSE /\ moves < MaxMoves /\ moves' = moves + 1
            /\ running' = [running EXCEPT ![proc[p].target] = moves + 1]
    /\ UNCHANGED <<session, pressed, runs>>

\* window_action, window_move, window_resize: maximize and fullscreen activate.
Window(p) ==
    /\ At(p, "go") /\ Op(p) \in WindowActions
    /\ IF running[Arg(p)] = 0 THEN UNCHANGED <<front, acted>>
       ELSE /\ acted' = ~acted
            /\ front' = IF Op(p) \in {"maximize", "fullscreen"} THEN Arg(p) ELSE front
    /\ Finish(p)
    /\ UNCHANGED <<running, dialog, session, pressed, moves, runs>>

\* dialog_detect: the buttons of the dialog in front.
Buttons == IF front = None THEN <<>> ELSE dialog[front]
\* main: the button dialog click looks for; the option itself when there is none.
ChosenOrLast(p) ==      \* a mutant
    IF Arg(p) \in {"default", "cancel"} /\ Buttons # <<>> THEN Buttons[Len(Buttons)] ELSE Arg(p)
Chosen(p) ==
    CASE Arg(p) = "default" /\ Buttons # <<>> -> Buttons[Len(Buttons)]
      [] Arg(p) = "cancel" /\ \E i \in DOMAIN Buttons : Buttons[i] \in Cancelling ->
            Buttons[CHOOSE i \in DOMAIN Buttons : /\ Buttons[i] \in Cancelling
                        /\ \A j \in 1..(i - 1) : Buttons[j] \notin Cancelling]
      [] OTHER -> Arg(p)

DialogChoose(p) ==
    /\ At(p, "go") /\ Op(p) = "dialog click"
    /\ IF front = None /\ Arg(p) \in {"default", "cancel"} THEN Finish(p)
       ELSE Becomes(p, [proc[p] EXCEPT !.at = "chosen", !.button = Chosen(p)])
    /\ Quiet /\ UNCHANGED <<Desktop, session>>
\* dialog_click reads again what is in front.
DialogTarget(p) ==
    /\ At(p, "chosen")
    /\ IF front = None THEN Finish(p)
       ELSE Becomes(p, [proc[p] EXCEPT !.at = "press", !.target = front])
    /\ Quiet /\ UNCHANGED <<Desktop, session>>
DialogPress(p) ==
    /\ At(p, "press")
    /\ LET a == proc[p].target IN
       IF \E i \in DOMAIN dialog[a] : dialog[a][i] = proc[p].button
       THEN /\ dialog' = [dialog EXCEPT ![a] = <<>>] /\ acted' = ~acted
            /\ pressed' = pressed \cup {<<Arg(p), proc[p].button>>}
            /\ Noting(p, "end")
       ELSE Finish(p) /\ UNCHANGED <<dialog, acted, pressed>>
    /\ UNCHANGED <<running, front, session, moves, runs>>

\* screenshot <app> brings it to the front, and asks for no approval.
Screenshot(p) ==
    /\ At(p, "go") /\ Op(p) = "screenshot"
    /\ front' = IF Arg(p) # None /\ running[Arg(p)] # 0 THEN Arg(p) ELSE front
    /\ Finish(p) /\ Quiet /\ UNCHANGED <<running, dialog, session>>

\* set_clipboard
Copy(p) ==
    /\ At(p, "go") /\ Op(p) = "clipboard set"
    /\ acted' = ~acted /\ Finish(p)
    /\ UNCHANGED <<Desktop, session, pressed, moves, runs>>

\* wait --window and wait by ref: nothing but the desktop and the time are read.
WaitWindow(p) ==
    /\ At(p, "go") /\ Op(p) = "wait window"
    /\ Finish(p) /\ Quiet /\ UNCHANGED <<Desktop, session>>

\* _save_state: write_text truncates the file and then writes it.
Truncate(p) ==
    /\ At(p, "save")
    /\ session' = Blank /\ Goes(p, "rewrite")
    /\ Quiet /\ UNCHANGED Desktop
Save(p) ==
    /\ At(p, "rewrite")
    /\ session' = proc[p].s
    /\ IF proc[p].then = "end" THEN Finish(p) ELSE Goes(p, proc[p].then)
    /\ Quiet /\ UNCHANGED Desktop

\* A command is cut off.
Kill(p) ==
    /\ ~At(p, "idle")
    /\ Finish(p) /\ Quiet /\ UNCHANGED <<Desktop, session>>

\* The user opens, quits and switches; a dialog comes and goes.
User ==
    /\ moves < MaxMoves /\ moves' = moves + 1
    /\ \E a \in App :
       \/ running[a] = 0 /\ running' = [running EXCEPT ![a] = moves + 1]
          /\ front' = a /\ UNCHANGED dialog
       \/ running[a] # 0 /\ Ends(a)
       \/ running[a] # 0 /\ front # a /\ front' = a /\ UNCHANGED <<running, dialog>>
       \/ running[a] # 0 /\ UNCHANGED <<running, front>>
          /\ \E d \in Dialogs \cup {<<>>} : dialog' = [dialog EXCEPT ![a] = d]
    /\ UNCHANGED <<session, proc, acted, pressed, runs>>

Next ==
    \/ User
    \/ \E p \in Proc :
        \/ \E c \in Asked[p] : Start(p, c)
        \/ Read(p) \/ Refless(p) \/ Reset(p) \/ OpenApp(p) \/ Launched(p) \/ FocusApp(p)
        \/ QuitApp(p) \/ Snapshot(p) \/ Walk(p) \/ Seen(p) \/ TypeKeys(p)
        \/ MenuTarget(p) \/ MenuClick(p) \/ Window(p)
        \/ DialogChoose(p) \/ DialogTarget(p) \/ DialogPress(p)
        \/ Screenshot(p) \/ Copy(p) \/ WaitWindow(p) \/ Truncate(p) \/ Save(p) \/ Kill(p)

-----------------------------------------------------------------------------
\* A command acts on the desktop only when it was approved, whatever it is called
\* and whatever path leads there (macos_ops.py:77); bringing an application to the
\* front for a screenshot is the exception of the code.
ApprovedStep == acted' # acted => \E p \in Proc : proc'[p] # proc[p] /\ proc[p].ok

\* dialog click --cancel presses no other button than a cancelling one, however
\* dialogs and applications change between the look and the press
\* (macos_ops.py:1545).
CancelOnlyCancels == \A x \in pressed : x[1] = "cancel" => x[2] \in Cancelling

=============================================================================
