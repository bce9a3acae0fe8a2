------------------------------ MODULE ScreenState ------------------------------
(***************************************************************************)
(* agent-screen (src/tools/agent-screen/screen_ops.py).  Every command is  *)
(* a process that loads state.json, and a snapshot rewrites it four times: *)
(* when it has listed the displays, captured them, read their text and     *)
(* looked at the cursor.  Displays are listed by the system in an order of *)
(* its own, and sorted from left to right afterwards; a frame is a file    *)
(* named by the count of frames in the state that was loaded.  A display   *)
(* shows one text, at the same place on it.                                *)
(***************************************************************************)
EXTENDS Naturals, Sequences, FiniteSets, TLC

CONSTANTS
    Proc, Display,
    Arrangement,    \* what the system may list: sequences of [id, x]
    Scale,          \* [Display -> pixels per point]
    Inset,          \* how far from the left edge a display shows its text
    Asked,          \* bound: [Proc -> the commands it may be given]
    MaxRuns,        \* bound: commands
    MaxChanges,     \* bound: new arrangements
    None

VARIABLES
    listed,     \* the displays there are, in the system's order
    frames,     \* the frame files: [name, display, x of that display]
    state,      \* state.json; Blank when missing or truncated
    proc,
    clicked,    \* history: the text and place of the last click --text
    moved,      \* history: the arrangement changed under a command
    mixed,      \* history: snapshots of single displays overlapped
    runs, changes

screenVars == <<listed, frames, state, proc, clicked, moved, mixed, runs, changes>>

Blank == [displays |-> <<>>, elements |-> {}, frame |-> 0]
Idle == [at |-> "idle"]
\* An element: the text of display "text", at "at"; "seen" is history, the place
\* where that text was when the frame was captured.
TypeOK ==
    /\ listed \in Arrangement /\ state.frame \in Nat
    /\ \A e \in state.elements : e.text \in Display /\ e.at \in Nat /\ e.seen \in Nat
    /\ moved \in BOOLEAN /\ mixed \in BOOLEAN

Init ==
    /\ listed \in Arrangement /\ frames = {} /\ state = Blank
    /\ proc = [p \in Proc |-> Idle] /\ clicked = None
    /\ moved = FALSE /\ mixed = FALSE /\ runs = 0 /\ changes = 0

-----------------------------------------------------------------------------
At(p, at) == proc[p].at = at
Op(p) == proc[p].cmd.op
Mem(p) == proc[p].s
Becomes(p, r) == proc' = [proc EXCEPT ![p] = r]
Finish(p) == Becomes(p, Idle)
Goes(p, at) == Becomes(p, [proc[p] EXCEPT !.at = at])
Saving(p, r, then) == Becomes(p, [r EXCEPT !.at = "save", !.then = then])
Single(p) == proc[p].display # None
World == <<listed, moved, changes>>

\* main: the process starts and loads the state; click and the other commands
\* that act are refused without approval, after that.
Load(p, c) ==
    /\ At(p, "idle") /\ runs < MaxRuns /\ runs' = runs + 1
    /\ \/ Becomes(p, [at |-> "go", cmd |-> c, display |-> c.display, s |-> state,
                      list |-> <<>>, todo |-> <<>>, caps |-> <<>>, found |-> {}, then |-> "end"])
       \/ c.op \in {"click text", "click", "move", "type"} /\ UNCHANGED proc
    /\ UNCHANGED <<World, frames, state, clicked, mixed>>

\* Commands that use the elements they loaded take a snapshot if there are none.
UsesElements == {"find", "at", "elements", "click text"}
NoText == {"describe", "snapshot --no-ocr"}
Snaps(p) == Op(p) \in {"snapshot"} \cup NoText
            \/ (Op(p) \in UsesElements /\ Mem(p).elements = {})

\* get_displays: sorted by x, each with the index the system gave it; the sort is
\* stable, so displays at the same place stay in the system's order.
Indexed == [i \in DOMAIN listed |-> [id |-> listed[i].id, x |-> listed[i].x, index |-> i]]
Before(i) == {j \in DOMAIN listed :
                 listed[j].x < listed[i].x \/ (listed[j].x = listed[i].x /\ j < i)}
Displays == [n \in DOMAIN listed |->
                Indexed[CHOOSE i \in DOMAIN listed : Cardinality(Before(i)) = n - 1]]

ListDisplays(p) ==
    /\ At(p, "go")
    /\ Snaps(p) \/ Op(p) = "displays" \/ (Op(p) = "cursor" /\ Mem(p).displays = <<>>)
    /\ Saving(p, [proc[p] EXCEPT !.list = Displays, !.s.displays = Displays],
              IF ~Snaps(p) THEN "end" ELSE IF Single(p) THEN "one" ELSE "all")
    /\ UNCHANGED <<World, frames, state, clicked, mixed, runs>>

\* status, focused, cursor, type, press, scroll: nothing of the state changes.
Show(p) ==
    /\ At(p, "go") /\ (Op(p) \in {"status", "type"} \/ (Op(p) = "cursor" /\ Mem(p).displays # <<>>))
    /\ Finish(p) /\ UNCHANGED <<World, frames, state, clicked, mixed, runs>>

Frame(name, d, x) == {f \in frames : f.name # name} \cup {[name |-> name, display |-> d, x |-> x]}
Shown(id) == {i \in DOMAIN listed : listed[i].id = id}

\* snapshot of one display, by its place from the left.
CaptureOne(p) ==
    /\ At(p, "one")
    /\ LET n == Mem(p).frame + 1
           k == proc[p].display
       IN IF k > Len(proc[p].list) \/ Shown(proc[p].list[k].id) = {}
          THEN Finish(p) /\ UNCHANGED <<frames, mixed>>
          ELSE LET d == proc[p].list[k] IN
               /\ frames' = Frame(<<"snapshot", n>>, d.id, (listed[CHOOSE i \in Shown(d.id) : TRUE]).x)
               /\ mixed' = (mixed \/ \E q \in Proc \ {p} : ~At(q, "idle") /\ Single(q))
               /\ Becomes(p, [proc[p] EXCEPT !.s.frame = n,
                    !.at = IF Op(p) \in NoText THEN "look" ELSE "read",
                    !.caps = <<[name |-> <<"snapshot", n>>, offset |-> d.x]>>])
    /\ UNCHANGED <<World, state, clicked, runs>>

\* snapshot without --display: capture_all_displays lists them again.
ListAgain(p) ==
    /\ At(p, "all")
    /\ Saving(p, [proc[p] EXCEPT !.todo = Displays, !.s.displays = Displays], "capture")
    /\ UNCHANGED <<World, frames, state, clicked, mixed, runs>>

\* Where the elements of a capture are shifted to: its index is looked up in the
\* list that was made first, by the system's index, not by the place from the left.
OffsetByPlace(list, index) == list[index].x         \* a mutant
OffsetOf(list, index) == (list[CHOOSE i \in DOMAIN list : list[i].index = index]).x

CaptureAll(p) ==
    /\ At(p, "capture") /\ proc[p].todo # <<>>
    /\ LET n == Mem(p).frame + 1
           d == Head(proc[p].todo)
           known == \E i \in DOMAIN proc[p].list : proc[p].list[i].index = d.index
       IN IF Shown(d.id) = {} THEN Finish(p) /\ UNCHANGED frames
          ELSE /\ frames' = Frame(<<"display", d.index, n>>, d.id,
                                  (listed[CHOOSE i \in Shown(d.id) : TRUE]).x)
               /\ Becomes(p, [proc[p] EXCEPT !.s.frame = n, !.todo = Tail(@),
                    !.caps = Append(@, [name |-> <<"display", d.index, n>>,
                        offset |-> IF known THEN OffsetOf(proc[p].list, d.index) ELSE None])])
    /\ UNCHANGED <<World, state, clicked, mixed, runs>>
\* last_capture is kept.
Captured(p) ==
    /\ At(p, "capture") /\ proc[p].todo = <<>>
    /\ Saving(p, proc[p], IF Op(p) \in NoText THEN "look" ELSE "read")
    /\ UNCHANGED <<World, frames, state, clicked, mixed, runs>>

\* ocr_image: the text and where it is in the picture's pixels.
Ocr(frame, offset) ==
    {[text |-> frame.display, at |-> Inset * Scale[frame.display] + offset,
      seen |-> Inset + frame.x]}

\* Reads the files, one after another; the index of a display that has come since
\* the first list is not found, and the command fails.
ReadFrame(p) ==
    /\ At(p, "read") /\ proc[p].caps # <<>>
    /\ LET c == Head(proc[p].caps) IN
       IF c.offset = None THEN Finish(p)
       ELSE Becomes(p, [proc[p] EXCEPT !.caps = Tail(@), !.found = @ \cup
                Ocr(CHOOSE f \in frames : f.name = c.name, c.offset)])
    /\ UNCHANGED <<World, frames, state, clicked, mixed, runs>>
FramesRead(p) ==
    /\ At(p, "read") /\ proc[p].caps = <<>>
    /\ Saving(p, [proc[p] EXCEPT !.s.elements = proc[p].found], "look")
    /\ UNCHANGED <<World, frames, state, clicked, mixed, runs>>

\* The cursor, the focused application and the time are saved last.
Look(p) ==
    /\ At(p, "look")
    /\ Saving(p, proc[p], IF Op(p) \in UsesElements THEN "elements" ELSE "end")
    /\ UNCHANGED <<World, frames, state, clicked, mixed, runs>>

\* find_text, element_at, elements: the command goes on with what it has.
HasElements(p) == At(p, "elements") \/ (At(p, "go") /\ Op(p) \in UsesElements /\ ~Snaps(p))
Answer(p) ==
    /\ HasElements(p) /\ Op(p) \in UsesElements \ {"click text"}
    /\ Finish(p) /\ UNCHANGED <<World, frames, state, clicked, mixed, runs>>

\* click --text: the place of an element whose text matches, as it was saved.
ClickText(p) ==
    /\ HasElements(p) /\ Op(p) = "click text"
    /\ LET es == {e \in Mem(p).elements : e.text = proc[p].cmd.text} IN
       IF es = {} THEN Finish(p) /\ UNCHANGED clicked
       ELSE \E e \in es : clicked' = e /\ Saving(p, proc[p], "end")
    /\ UNCHANGED <<World, frames, state, mixed, runs>>

\* click, dblclick, rightclick, move at a place that is given.
Click(p) ==
    /\ At(p, "go") /\ Op(p) \in {"click", "move"}
    /\ Saving(p, proc[p], "end")
    /\ UNCHANGED <<World, frames, state, clicked, mixed, runs>>

\* save: write_text truncates the file and then writes it.
Truncate(p) ==
    /\ At(p, "save")
    /\ state' = Blank /\ Goes(p, "rewrite")
    /\ UNCHANGED <<World, frames, clicked, mixed, runs>>
Save(p) ==
    /\ At(p, "rewrite")
    /\ state' = Mem(p)
    /\ IF proc[p].then = "end" THEN Finish(p) ELSE Goes(p, proc[p].then)
    /\ UNCHANGED <<World, frames, clicked, mixed, runs>>

Kill(p) ==
    /\ ~At(p, "idle")
    /\ Finish(p) /\ UNCHANGED <<World, frames, state, clicked, mixed, runs>>

\* A display is plugged in, taken away or moved.
Rearrange ==
    /\ changes < MaxChanges /\ changes' = changes + 1
    /\ listed' \in Arrangement \ {listed}
    /\ moved' = (moved \/ \E p \in Proc : ~At(p, "idle"))
    /\ UNCHANGED <<frames, state, proc, clicked, mixed, runs>>

Next ==
    \/ Rearrange
    \/ \E p \in Proc :
        \/ \E c \in Asked[p] : Load(p, c)
        \/ ListDisplays(p) \/ Show(p) \/ CaptureOne(p) \/ ListAgain(p) \/ CaptureAll(p)
        \/ Captured(p) \/ ReadFrame(p) \/ FramesRead(p) \/ Look(p) \/ Answer(p)
        \/ ClickText(p) \/ Click(p) \/ Truncate(p) \/ Save(p) \/ Kill(p)

-----------------------------------------------------------------------------
\* An element is where its text was seen, and a click on a text goes there: on a
\* display of one pixel per point, as long as displays stay put under commands
\* and snapshots of single displays do not overlap (screen_ops.py:399).  Whole
\* snapshots may overlap, whatever they save over each other.
Right(e) == Scale[e.text] = 1 => e.at = e.seen
TextIsWhereItWas ==
    (~moved /\ ~mixed) =>
        (\A e \in state.elements : Right(e)) /\ (clicked # None => Right(clicked))

=============================================================================
