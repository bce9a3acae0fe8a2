---------------------------- MODULE ExcelSession ----------------------------
(***************************************************************************)
(* The session of agent-excel (src/tools/agent-excel/excel_ops.py).  Every *)
(* command is a process of its own: it reads the path of the open workbook *)
(* from the state file, loads the workbook, carries out the command on it  *)
(* in memory and ends.  An edit notes "modified" in the state file; only   *)
(* "save" writes a workbook, the one its own process has loaded.           *)
(***************************************************************************)
EXTENDS ExcelSheet

CONSTANTS
    Proc, Path,
    Broken,     \* a workbook that was cut off while it was written
    Name,       \* names of sheets
    First,      \* the one of a new workbook
    Kept,       \* the paths with a workbook at first
    Given,      \* the workbooks that other programs may have made
    Command,    \* [Proc -> the commands it may be given]
    MaxRuns, MaxEdits   \* bounds: commands, edits by other programs

VARIABLES
    disk,       \* [Path -> the workbook there, Broken or None]
    state,      \* the state file: the open path and its flag, or Closed
    proc,       \* the commands
    meant,      \* history: what the last command has made of the open workbook,
                \* unless it only opened it, or something came in between
    runs, edits

xlVars == <<disk, state, proc, meant, runs, edits>>

\* A workbook: its sheets and the active one, which a file always has.
Workbook == [sheets : [Name -> Sheet \cup {None}], active : Name \cup {None}]
Closed == [path |-> None, modified |-> FALSE]
Idle == [at |-> "idle"]
Names(b) == {n \in Name : b.sheets[n] # None}
Loadable == {b \in Workbook : b.active \in Names(b)}
Blank == [r \in Row |-> Empty]
NewBook == [sheets |-> [n \in Name |-> IF n = First THEN Blank ELSE None], active |-> First]
Active(b) == b.sheets[b.active]

\* What a command may be given, a position being one a sheet has.
Edits ==
    [do : {"set"}, cell : Position, v : Cell]
    \cup [do : {"block"}, cell : Position, block : Seq(Seq(Cell))]
    \cup [do : {"fill"}, range : Range, v : Value]
    \cup [do : {"clear", "merge"}, range : Range]
    \cup [do : {"insert rows", "insert cols", "delete rows", "delete cols"},
          index : Nat \ {0}, count : Nat]
    \cup [do : {"replace"}, old : Texts, new : Texts]
    \cup [do : {"sort"}, col : Col, desc : BOOLEAN]
    \cup [do : {"format"}]
SheetChanges == [do : {"new", "rename", "copy", "delete", "switch"}, name : Name, to : Name]
Commands ==
    [op : {"open", "new"}, path : Path] \cup [op : {"save"}, path : Path \cup {None}]
    \cup [op : {"read", "close"}]
    \cup [op : {"edit"}, e : Edits] \cup [op : {"sheet"}, e : SheetChanges]

Init ==
    /\ \E f \in [Kept -> Given] :
            disk = [x \in Path |-> IF x \in Kept THEN f[x] ELSE None]
    /\ state \in {[path |-> x, modified |-> FALSE] : x \in {y \in Path : disk[y] # None}}
                 \cup {Closed}
    /\ proc = [p \in Proc |-> Idle]
    /\ meant = None
    /\ runs = 0 /\ edits = 0

TypeOK ==
    /\ state.path \in Path \cup {None} /\ state.modified \in BOOLEAN
    /\ \A p \in Proc : proc[p].at \in {"idle", "loaded", "acted", "saving", "writing", "noting"}
    /\ runs \in 0..MaxRuns /\ edits \in 0..MaxEdits

-----------------------------------------------------------------------------
At(p, at) == proc[p].at = at
Becomes(p, r) == proc' = [proc EXCEPT ![p] = r]
Finish(p) == Becomes(p, Idle)
Cmd(p) == proc[p].cmd
Book(p) == proc[p].book
Bounds == <<runs, edits>>

\* _load_state: a state file that is missing or cut, or a workbook that is
\* missing or cannot be read, leaves the process without one.
Load(p, c) ==
    /\ At(p, "idle") /\ runs < MaxRuns /\ runs' = runs + 1
    /\ LET x == state.path
           ok == x # None /\ disk[x] \notin {None, Broken}
       IN Becomes(p, [at |-> "loaded", cmd |-> c,
                      path |-> IF ok THEN x ELSE None,
                      book |-> IF ok THEN disk[x] ELSE None,
                      was |-> IF ok THEN disk[x] ELSE None,
                      modified |-> ok /\ state.modified])
    /\ UNCHANGED <<disk, state, meant, edits>>

\* cmd_open, cmd_new.
Open(p) ==
    /\ At(p, "loaded") /\ Cmd(p).op = "open"
    /\ LET x == Cmd(p).path IN
       IF disk[x] \in {None, Broken} THEN Finish(p)
       ELSE Becomes(p, [proc[p] EXCEPT !.at = "acted", !.path = x, !.book = disk[x],
                                       !.was = disk[x], !.modified = FALSE])
    /\ UNCHANGED <<disk, state, meant, Bounds>>

New(p) ==
    /\ At(p, "loaded") /\ Cmd(p).op = "new"
    /\ Becomes(p, [proc[p] EXCEPT !.at = "acted", !.path = Cmd(p).path,
                                  !.book = NewBook, !.modified = TRUE])
    /\ UNCHANGED <<disk, state, meant, Bounds>>

\* require_workbook.
NeedsBook == {"save", "edit", "sheet", "read"}
NoWorkbook(p) ==
    /\ At(p, "loaded") /\ Cmd(p).op \in NeedsBook /\ Book(p) = None
    /\ Finish(p)
    /\ UNCHANGED <<disk, state, meant, Bounds>>

\* What an edit makes of a sheet.
Edited(g, e) ==
    CASE e.do = "set" -> SetCell(g, e.cell, e.v)
      [] e.do = "block" -> SetBlock(g, e.cell, e.block)
      [] e.do = "fill" -> Fill(g, e.range, e.v)
      [] e.do = "clear" -> Clear(g, e.range)
      [] e.do = "insert rows" -> InsertRows(g, e.index, e.count)
      [] e.do = "insert cols" -> InsertCols(g, e.index, e.count)
      [] e.do = "delete rows" -> DeleteRows(g, e.index, e.count)
      [] e.do = "delete cols" -> DeleteCols(g, e.index, e.count)
      [] e.do = "replace" -> Replace(g, e.old, e.new)
      [] e.do = "sort" -> Sort(g, e.col, e.desc)
      [] e.do = "merge" -> Merge(g, e.range)
      [] e.do = "format" -> g      \* also autofit, unmerge, filter clear

\* Every editing command: the sheet changes in memory, the flag is set; a
\* replace that finds nothing notes nothing.
Edit(p) ==
    /\ At(p, "loaded") /\ Cmd(p).op = "edit" /\ Book(p) # None
    /\ LET b == Book(p)
           g == Edited(Active(b), Cmd(p).e)
       IN IF g = Fail \/ (Cmd(p).e.do = "replace" /\ g = Active(b)) THEN Finish(p)
          ELSE Becomes(p, [proc[p] EXCEPT !.at = "acted", !.modified = TRUE,
                                          !.book = [b EXCEPT !.sheets[b.active] = g]])
    /\ UNCHANGED <<disk, state, meant, Bounds>>

\* The title of a sheet: the library makes one that is taken unique.
Free(b, n) == IF n \in Names(b) THEN Name \ Names(b) ELSE {n}
Renamed(b, n, to) ==
    [sheets |-> [b.sheets EXCEPT ![to] = b.sheets[n], ![n] = None],
     active |-> IF b.active = n THEN to ELSE b.active]

\* cmd_sheet, as far as it finds the sheet: "new" then makes the sheet of the
\* name it was given the active one, an older one if the name was taken.
\* Which sheet is active after one is deleted depends on their order, and
\* after the last one none is.
SheetMade(b, e) == IF e.do # "new" /\ e.name \notin Names(b) THEN {} ELSE
    CASE e.do = "new" ->
            {[sheets |-> [b.sheets EXCEPT ![n] = Blank], active |-> e.name] : n \in Free(b, e.name)}
      [] e.do = "rename" -> IF e.to = e.name THEN {b}
                            ELSE {Renamed(b, e.name, n) : n \in Free(b, e.to)}
      [] e.do = "copy" -> {[b EXCEPT !.sheets[n] = b.sheets[e.name]] : n \in Free(b, e.to)}
      [] e.do = "delete" -> {[sheets |-> [b.sheets EXCEPT ![e.name] = None], active |-> n] :
                                n \in (Names(b) \ {e.name}) \cup {None}}
      [] e.do = "switch" -> {[b EXCEPT !.active = e.name]}

\* A switch does not count as a modification.
SheetCommand(p) ==
    /\ At(p, "loaded") /\ Cmd(p).op = "sheet" /\ Book(p) # None
    /\ LET made == SheetMade(Book(p), Cmd(p).e) IN
       IF made = {} THEN Finish(p)
       ELSE \E b \in made : Becomes(p, [proc[p] EXCEPT !.at = "acted", !.book = b,
                !.modified = @ \/ Cmd(p).e.do # "switch"])
    /\ UNCHANGED <<disk, state, meant, Bounds>>

\* status, sheets, snapshot, get, find, filter, export csv, sum, avg, count,
\* max, min: they print what they find in memory.
Read(p) ==
    /\ At(p, "loaded") /\ Cmd(p).op = "read" /\ Book(p) # None
    /\ Finish(p)
    /\ UNCHANGED <<disk, state, meant, Bounds>>

\* cmd_close, _clear_state.
Close(p) ==
    /\ At(p, "loaded") /\ Cmd(p).op = "close"
    /\ state' = Closed /\ meant' = None /\ Finish(p)
    /\ UNCHANGED <<disk, Bounds>>

\* cmd_save: to the path given or the open one; the library writes the file in
\* place, which may be refused.
SaveOpens(p, refused) ==
    /\ At(p, "loaded") /\ Cmd(p).op = "save" /\ Book(p) # None
    /\ LET x == IF Cmd(p).path = None THEN proc[p].path ELSE Cmd(p).path IN
       IF refused THEN Finish(p) /\ UNCHANGED disk
       ELSE /\ disk' = [disk EXCEPT ![x] = Broken]
            /\ Becomes(p, [proc[p] EXCEPT !.at = "saving", !.path = x])
    /\ UNCHANGED <<state, meant, Bounds>>
SaveWrites(p) ==
    /\ At(p, "saving")
    /\ disk' = [disk EXCEPT ![proc[p].path] = Book(p)]
    /\ Becomes(p, [proc[p] EXCEPT !.at = "acted", !.modified = FALSE])
    /\ UNCHANGED <<state, meant, Bounds>>

\* _save_state: the file is truncated, then written.
Truncate(p) ==
    /\ At(p, "acted")
    /\ state' = Closed /\ Becomes(p, [proc[p] EXCEPT !.at = "noting"])
    /\ UNCHANGED <<disk, meant, Bounds>>
Note(p) ==
    /\ At(p, "noting")
    /\ state' = [path |-> proc[p].path, modified |-> proc[p].modified] /\ Finish(p)
    /\ meant' = CASE Cmd(p).op = "open" -> None
                  [] Cmd(p).op \in {"edit", "sheet", "new"} -> Book(p)
                  [] OTHER -> meant
    /\ UNCHANGED <<disk, Bounds>>

Kill(p) ==
    /\ ~At(p, "idle") /\ Finish(p) /\ meant' = None
    /\ UNCHANGED <<disk, state, Bounds>>

\* Another program saves the workbook.
EditElsewhere(x) ==
    /\ edits < MaxEdits /\ edits' = edits + 1
    /\ \E b \in Given : disk' = [disk EXCEPT ![x] = b]
    /\ meant' = None /\ UNCHANGED <<state, proc, runs>>

Next ==
    \/ \E p \in Proc :
        \/ \E c \in Command[p] : Load(p, c)
        \/ Open(p) \/ New(p) \/ NoWorkbook(p) \/ Edit(p) \/ SheetCommand(p) \/ Read(p)
        \/ Close(p) \/ \E refused \in BOOLEAN : SaveOpens(p, refused)
        \/ SaveWrites(p) \/ Truncate(p) \/ Note(p) \/ Kill(p)
    \/ \E x \in Path : EditElsewhere(x)

-----------------------------------------------------------------------------
\* The sheet a sort was given and what it made; columns, with the header.
Sorted == {p \in Proc : At(p, "acted") /\ Cmd(p).op = "edit" /\ Cmd(p).e.do = "sort"}
Before(p) == Active(proc[p].was)
After(p) == Active(Book(p))
Solid(g, c) == \A r \in Data(g) : g[r][c] # None
Column(c) == <<<<1, c>>, <<MaxRow, c>>>>

\* A sort loses no value.  The header and what is below the data stay; a column
\* holds every value at least as often as before, one without blanks as often;
\* a row without blanks stays whole; and the values sorted by stand at the top
\* in ascending order, or at the bottom in descending order.  Rows with blanks
\* are doubled and mixed: a blank that is laid over a value leaves it there
\* (excel_ops.py:866).
SortKeepsValues ==
    \A p \in Sorted :
        LET old == Before(p)
            new == After(p)
            col == Cmd(p).e.col
            desc == Cmd(p).e.desc
            rows(g, row) == Cardinality({r \in Data(old) : g[r] = row})
            times(g, c, v) == Cardinality({r \in Data(old) : g[r][c] = v})
        IN /\ \A r \in Row \ Data(old) : new[r] = old[r]
           /\ \A c \in Col, v \in Value :
                /\ times(old, c, v) <= times(new, c, v)
                /\ Solid(old, c) => times(old, c, v) = times(new, c, v)
           /\ \A r \in Data(old) :
                (\A c \in Col : old[r][c] # None) => rows(old, old[r]) <= rows(new, old[r])
           /\ \E ks \in SUBSET Data(old) :
                /\ \A k \in ks, r \in Data(old) : (IF desc THEN k < r ELSE r < k) => r \in ks
                /\ \A k \in ks : new[k][col] # None
                /\ \A k, l \in ks : k < l => IF desc THEN ~Less(new[k][col], new[l][col])
                                                   ELSE ~Less(new[l][col], new[k][col])
                /\ \A v \in Value :
                    times(old, col, v) = Cardinality({k \in ks : new[k][col] = v})

\* What the reading commands say of a column after a sort: the same maximum and
\* minimum, no fewer values and matches, a text found if it was found, and of a
\* column without blanks the same sum and average; and a snapshot of a sheet with
\* a header shows the same range and headers (excel_ops.py:309, 793, 996).
ReadsSurviveSort ==
    \A p \in Sorted :
        LET old == Before(p)
            new == After(p)
        IN /\ old[1] # Empty => /\ Snapshot(new).range = Snapshot(old).range
                              /\ Snapshot(new).headers = Snapshot(old).headers
           /\ \A c \in Col :
                /\ Largest(new, Column(c)) = Largest(old, Column(c))
                /\ Smallest(new, Column(c)) = Smallest(old, Column(c))
                /\ Count(new, Column(c)) >= Count(old, Column(c))
                /\ Solid(old, c) => Average(new, Column(c)) = Average(old, Column(c))
                /\ \A t \in Texts : Find(new, t, {c}) = {} <=> Find(old, t, {c}) = {}
                /\ \A w \in Value, op \in Tests \ {"!=", "empty"} :
                    LET was == Filter(old, c, op, w)
                        is == Filter(new, c, op, w)
                    IN IF was = Fail THEN is = Fail
                       ELSE is # Fail /\ Cardinality(is) >= Cardinality(was)

\* What SPEC.md:300 and agent-excel:104 say: "set" and then "save" write what was
\* set.  The code does otherwise.
EditsAreSaved ==
    \A p \in Proc : (At(p, "acted") /\ Cmd(p).op = "save" /\ meant # None) => Book(p) = meant
=============================================================================
