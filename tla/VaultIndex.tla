----------------------------- MODULE VaultIndex -----------------------------
(***************************************************************************)
(* The SQLite index the Obsidian engine (src/tools/obsidian_lib/engine.py) *)
(* keeps beside a vault, and the commands that bring it up to date: the    *)
(* incremental refresh in front of every read command, refresh --full, the *)
(* record of a note just written (full_note_record), and embed refresh.    *)
(* The notes change under all of them: other commands write them, and so   *)
(* do editors outside the tool.  The tables one note fills are written in  *)
(* one transaction and are one row here: its text (with the tags, tasks    *)
(* and chunks that are functions of it), its stamp, and what its links     *)
(* resolved to.                                                            *)
(***************************************************************************)
EXTENDS Integers

CONSTANTS
    Proc,       \* the processes
    Path,       \* the paths of notes, finitely many numbers in the order of the listing
    Text,       \* the texts a note may have
    LinksOf,    \* [Text -> the names a text links to]
    Initial,    \* [Path -> its text at first, or None]
    None,
    Keep,       \* a row a transaction leaves alone
    MaxEdits,   \* bound: changes by the editor
    MaxCommands,\* bound: commands run
    MaxStamp    \* bound: stamps in use at a time

VARIABLES
    file,       \* [Path -> [text, stamp] or None], the vault
    row,        \* [Path -> row or None], the committed tables
    vec,        \* the embeddings: chunk ids, which hash the path and the text
    db,         \* who is in a write transaction
    pc, cmd,    \* where each process is, and its command
    listed,     \* the paths its walk of the vault found
    known,      \* [Path -> stamp or None], the stamps it read in the index
    todo,       \* the listed paths it has not visited
    held,       \* the text, and then the stamp, of the note it is parsing
    tx,         \* [Path -> its uncommitted row, None to delete it, or Keep]
    quiet,      \* history: nothing else wrote since it walked the vault
    fresh,      \* history: the refresh that nothing was written since, or "no"
    raced,      \* history: a note changed between the read and the stat of it
    edits, commands

control == <<pc, cmd, listed, known, todo, held, tx>>
bounds == <<edits, commands>>
vars == <<file, row, vec, db, control, quiet, fresh, raced, bounds>>

Stamp == 0..MaxStamp
Row == [text : Text, stamp : Stamp, resolved : SUBSET Path]
Kind == {"refresh", "full", "save", "embed"}

TypeOK ==
    /\ \A p \in Path : file[p] # None => file[p] \in [text : Text, stamp : Stamp]
    /\ \A p \in Path : row[p] # None => row[p] \in Row
    /\ vec \subseteq Path \X Text
    /\ db \in Proc \cup {None}
    /\ pc \in [Proc -> {"idle", "walked", "visit", "parsed", "upsert", "commit",
                        "write", "record", "embed", "vectors"}]
    /\ cmd \in [Proc -> [kind : Kind, p : Path, t : Text] \cup {None}]
    /\ listed \in [Proc -> SUBSET Path] /\ todo \in [Proc -> SUBSET Path]
    /\ \A r \in Proc, p \in Path :
          /\ known[r][p] \in Stamp \cup {None}
          /\ tx[r][p] \notin {None, Keep} => tx[r][p] \in Row
    /\ \A r \in Proc : db # r => \A p \in Path : tx[r][p] = Keep
    /\ quiet \in [Proc -> BOOLEAN] /\ raced \in BOOLEAN
    /\ fresh \in {"no", "refresh", "full"}
    /\ edits \in 0..MaxEdits /\ commands \in 0..MaxCommands

-----------------------------------------------------------------------------
Nothing == [p \in Path |-> None]
AllKept == [p \in Path |-> Keep]
NoParse == [text |-> None, stamp |-> None]

Init ==
    /\ file = [p \in Path |-> IF Initial[p] = None THEN None
                              ELSE [text |-> Initial[p], stamp |-> 0]]
    /\ row = Nothing
    /\ vec = {}
    /\ db = None
    /\ pc = [r \in Proc |-> "idle"]
    /\ cmd = [r \in Proc |-> None]
    /\ listed = [r \in Proc |-> {}]
    /\ known = [r \in Proc |-> Nothing]
    /\ todo = [r \in Proc |-> {}]
    /\ held = [r \in Proc |-> NoParse]
    /\ tx = [r \in Proc |-> AllKept]
    /\ quiet = [r \in Proc |-> TRUE]
    /\ fresh = "no" /\ raced = FALSE
    /\ edits = 0 /\ commands = 0

Goto(r, l) == pc' = [pc EXCEPT ![r] = l]
Files == {p \in Path : file[p] # None}
Rows == {p \in Path : row[p] # None}

\* A stamp no note has and nobody has noted.
Noted == {file[p].stamp : p \in Files} \cup {row[p].stamp : p \in Rows}
         \cup {known[rp[1]][rp[2]] : rp \in Proc \X Path}
         \cup {held[r].stamp : r \in Proc}
         \cup {tx[rp[1]][rp[2]].stamp :
                 rp \in {x \in Proc \X Path : tx[x[1]][x[2]] \notin {None, Keep}}}
Fresh == CHOOSE s \in 1..MaxStamp : s \notin Noted
Least(S) == CHOOSE p \in S : \A q \in S : p <= q

\* Someone wrote: no other process is alone with the vault any more.
Disturb(r) == /\ quiet' = [s \in Proc |-> s = r /\ quiet[s]]
              /\ fresh' = "no"

WriteFile(p, t) ==
    /\ \E s \in 1..MaxStamp : s \notin Noted
    /\ file' = [file EXCEPT ![p] = [text |-> t, stamp |-> Fresh]]

-----------------------------------------------------------------------------
(* The incremental refresh, refresh --full, and the refresh that embed     *)
(* refresh begins with.                                                    *)

Walk(r) ==
    /\ listed' = [listed EXCEPT ![r] = Files]
    /\ todo' = [todo EXCEPT ![r] = Files]
    /\ quiet' = [quiet EXCEPT ![r] = TRUE]
    /\ Goto(r, "walked")

\* A command is given; the ones that read begin with the walk of the vault.
Command(r) ==
    /\ pc[r] = "idle" /\ commands < MaxCommands
    /\ commands' = commands + 1
    /\ \E k \in Kind, p \in Path, t \in Text :
         /\ k # "save" => p = Least(Path) /\ t = CHOOSE u \in Text : TRUE
         /\ cmd' = [cmd EXCEPT ![r] = [kind |-> k, p |-> p, t |-> t]]
         /\ IF k = "save" THEN Goto(r, "write") /\ UNCHANGED <<listed, todo, quiet>>
                          ELSE Walk(r)
    /\ UNCHANGED <<file, row, vec, db, known, held, tx, fresh, raced, edits>>

\* Mutant: --full empties the tables and still skips the notes it knew.
SelectKnown(r) ==
    /\ pc[r] = "walked"
    /\ known' = [known EXCEPT ![r] =
                  [p \in Path |-> IF row[p] = None THEN None ELSE row[p].stamp]]
    /\ IF cmd[r].kind = "full"
       THEN db = None /\ db' = r /\ tx' = [tx EXCEPT ![r] = Nothing]
       ELSE UNCHANGED <<db, tx>>
    /\ Goto(r, "visit")
    /\ UNCHANGED <<file, row, vec, cmd, listed, todo, held, quiet, fresh, raced, bounds>>

\* The tables are emptied first (--full), and the stamps in the index are read.
Select(r) ==
    /\ pc[r] = "walked"
    /\ IF cmd[r].kind = "full"
       THEN /\ db = None /\ db' = r
            /\ tx' = [tx EXCEPT ![r] = Nothing]
            /\ known' = [known EXCEPT ![r] = Nothing]
       ELSE /\ known' = [known EXCEPT ![r] =
                          [p \in Path |-> IF row[p] = None THEN None ELSE row[p].stamp]]
            /\ UNCHANGED <<db, tx>>
    /\ Goto(r, "visit")
    /\ UNCHANGED <<file, row, vec, cmd, listed, todo, held, quiet, fresh, raced, bounds>>

\* The next path: a note whose stamp the index has is left alone, another is
\* read.  A note gone since the walk fails the command.
Visit(r) ==
    LET p == Least(todo[r])
    IN  /\ pc[r] = "visit" /\ todo[r] # {} /\ file[p] # None
        /\ IF file[p].stamp = known[r][p]
           THEN /\ todo' = [todo EXCEPT ![r] = @ \ {p}]
                /\ UNCHANGED <<pc, held>>
           ELSE /\ held' = [held EXCEPT ![r].text = file[p].text]
                /\ Goto(r, "parsed") /\ UNCHANGED todo
        /\ UNCHANGED <<file, row, vec, db, cmd, listed, known, tx, quiet, fresh,
                       raced, bounds>>

\* The path being parsed.
Target(r) == IF cmd[r].kind = "save" THEN cmd[r].p ELSE Least(todo[r])

\* The end of parse_note: the stamp is taken after the text was read.
Stat(r) ==
    /\ pc[r] = "parsed" /\ file[Target(r)] # None
    /\ held' = [held EXCEPT ![r].stamp = file[Target(r)].stamp]
    /\ raced' = (raced \/ file[Target(r)].text # held[r].text)
    /\ Goto(r, "upsert")
    /\ UNCHANGED <<file, row, vec, db, cmd, listed, known, todo, tx, quiet, fresh, bounds>>

\* Mutant: the stamp is taken when the row is written.
ParsedLate(r) ==
    LET now == file[Target(r)]
    IN  [text |-> held[r].text,
         stamp |-> IF now = None THEN held[r].stamp ELSE now.stamp,
         resolved |-> LinksOf[held[r].text] \cap listed[r]]

Parsed(r) == [text |-> held[r].text, stamp |-> held[r].stamp,
              resolved |-> LinksOf[held[r].text] \cap listed[r]]

\* upsert_note: the first change of a transaction waits for the database.
Upsert(r) ==
    LET p == Target(r)
    IN  /\ pc[r] = "upsert" /\ db \in {None, r}
        /\ db' = r
        /\ tx' = [tx EXCEPT ![r][p] = Parsed(r)]
        /\ held' = [held EXCEPT ![r] = NoParse]
        /\ todo' = [todo EXCEPT ![r] = @ \ {p}]
        /\ Goto(r, IF cmd[r].kind = "save" THEN "commit" ELSE "visit")
        /\ UNCHANGED <<file, row, vec, cmd, listed, known, quiet, fresh, raced, bounds>>

\* Mutant: rows of notes that are gone stay.
PruneNothing(r) ==
    /\ pc[r] = "visit" /\ todo[r] = {} /\ db \in {None, r}
    /\ db' = r
    /\ Goto(r, "commit")
    /\ UNCHANGED <<file, row, vec, cmd, listed, known, todo, held, tx, quiet, fresh,
                   raced, bounds>>

\* The rows of paths the walk did not find are deleted.
Prune(r) ==
    /\ pc[r] = "visit" /\ todo[r] = {} /\ db \in {None, r}
    /\ db' = r
    /\ tx' = [tx EXCEPT ![r] =
               [p \in Path |-> IF known[r][p] # None /\ p \notin listed[r]
                               THEN None ELSE tx[r][p]]]
    /\ Goto(r, "commit")
    /\ UNCHANGED <<file, row, vec, cmd, listed, known, todo, held, quiet, fresh,
                   raced, bounds>>

\* Mutant: the changes of a transaction outlive it.
LeaveOpen(r, l) ==
    /\ Goto(r, l)
    /\ cmd' = IF l = "idle" THEN [cmd EXCEPT ![r] = None] ELSE cmd
    /\ listed' = [listed EXCEPT ![r] = {}]
    /\ known' = [known EXCEPT ![r] = Nothing]
    /\ todo' = [todo EXCEPT ![r] = {}]
    /\ held' = [held EXCEPT ![r] = NoParse]
    /\ UNCHANGED tx

Leave(r, l) ==
    /\ Goto(r, l)
    /\ cmd' = IF l = "idle" THEN [cmd EXCEPT ![r] = None] ELSE cmd
    /\ listed' = [listed EXCEPT ![r] = {}]
    /\ known' = [known EXCEPT ![r] = Nothing]
    /\ todo' = [todo EXCEPT ![r] = {}]
    /\ held' = [held EXCEPT ![r] = NoParse]
    /\ tx' = [tx EXCEPT ![r] = AllKept]

\* The transaction ends.  A chunk deleted or written again loses its embedding.
Commit(r) ==
    LET touched == {p \in Path : tx[r][p] # Keep}
        kind == cmd[r].kind
    IN  /\ pc[r] = "commit"
        /\ row' = [p \in Path |-> IF p \in touched THEN tx[r][p] ELSE row[p]]
        /\ vec' = IF kind = "full" THEN {}
                  ELSE vec \ {<<p, row[p].text>> : p \in touched \cap Rows}
        /\ db' = None
        /\ quiet' = [s \in Proc |-> quiet[s] /\ (s = r \/ touched = {})]
        /\ fresh' = IF kind # "save" /\ quiet[r]
                    THEN (IF kind = "full" THEN "full" ELSE "refresh")
                    ELSE IF touched = {} THEN fresh ELSE "no"
        /\ Leave(r, IF kind = "embed" THEN "embed" ELSE "idle")
        /\ UNCHANGED <<file, raced, bounds>>

\* An exception anywhere, or a kill: a note vanished under the refresh, the
\* database stayed locked for too long, the provider failed.  The transaction is
\* rolled back.
Abort(r) ==
    /\ pc[r] # "idle"
    /\ db' = IF db = r THEN None ELSE db
    /\ Leave(r, "idle")
    /\ UNCHANGED <<file, row, vec, quiet, fresh, raced, bounds>>

-----------------------------------------------------------------------------
(* The commands that write a note record it: the names, then the note.     *)

Save(r) ==
    /\ pc[r] = "write"
    /\ WriteFile(cmd[r].p, cmd[r].t)
    /\ Disturb(r)
    /\ Goto(r, "record")
    /\ UNCHANGED <<row, vec, db, cmd, listed, known, todo, held, tx, raced, bounds>>

Record(r) ==
    /\ pc[r] = "record" /\ file[cmd[r].p] # None
    /\ listed' = [listed EXCEPT ![r] = Files]
    /\ held' = [held EXCEPT ![r].text = file[cmd[r].p].text]
    /\ Goto(r, "parsed")
    /\ UNCHANGED <<file, row, vec, db, cmd, known, todo, tx, quiet, fresh, raced, bounds>>

-----------------------------------------------------------------------------
(* embed refresh: the chunks with no embedding are read, the provider is   *)
(* asked with no transaction open, and the vectors are stored.             *)

Missing == {<<p, row[p].text>> : p \in Rows} \ vec

\* held keeps the chunks that were sent to the provider.
AskProvider(r) ==
    /\ pc[r] = "embed"
    /\ held' = [held EXCEPT ![r].text = Missing]
    /\ Goto(r, "vectors")
    /\ UNCHANGED <<file, row, vec, db, cmd, listed, known, todo, tx, quiet, fresh,
                   raced, bounds>>

StoreVectors(r) ==
    /\ pc[r] = "vectors" /\ db = None
    /\ vec' = vec \cup held[r].text
    /\ Leave(r, "idle")
    /\ UNCHANGED <<file, row, db, quiet, fresh, raced, bounds>>

-----------------------------------------------------------------------------
(* The editor outside writes, creates and removes notes.                   *)

EditNote(p, t) ==
    /\ edits < MaxEdits /\ (file[p] # None => file[p].text # t)
    /\ WriteFile(p, t)
    /\ edits' = edits + 1
    /\ Disturb(None)
    /\ UNCHANGED <<row, vec, db, control, raced, commands>>

RemoveNote(p) ==
    /\ edits < MaxEdits /\ file[p] # None
    /\ file' = [file EXCEPT ![p] = None]
    /\ edits' = edits + 1
    /\ Disturb(None)
    /\ UNCHANGED <<row, vec, db, control, raced, commands>>

Next ==
    \/ \E r \in Proc :
          \/ Command(r) \/ Select(r) \/ Visit(r) \/ Stat(r) \/ Upsert(r)
          \/ Prune(r) \/ Commit(r) \/ Abort(r) \/ Save(r) \/ Record(r)
          \/ AskProvider(r) \/ StoreVectors(r)
    \/ \E p \in Path : RemoveNote(p) \/ \E t \in Text : EditNote(p, t)

Spec == Init /\ [][Next]_vars

-----------------------------------------------------------------------------
(* What the readers of the index rely on.                                  *)

\* refresh and parse_note: a row with the stamp of its note has its text, so a
\* note that is skipped is rightly skipped; only an edit that falls between the
\* read of a note and its stat breaks this, whatever transactions overtake others.
SkippedIsSame == ~raced => \A p \in Files \cap Rows :
    row[p].stamp = file[p].stamp => row[p].text = file[p].text

Linked(p) == {q \in Rows : p \in row[q].resolved}
LinksTo(p) == {q \in Files : p \in LinksOf[file[q].text]}

\* refresh: when nothing else wrote while it ran and nothing was written since,
\* the index has exactly the notes of the vault, each at its present stamp; after
\* refresh --full, cmd_backlinks finds every link to a note that is there, and
\* none to a note that is not.
RefreshCatchesUp ==
    /\ fresh # "no" =>
          Rows = Files /\ \A p \in Files : row[p].stamp = file[p].stamp
    /\ fresh = "full" /\ ~raced => \A p \in Path :
          Linked(p) = IF p \in Files THEN LinksTo(p) ELSE {}

\* The same links after the incremental refresh every read command begins with.
RefreshResolves == fresh # "no" /\ ~raced => \A p \in Path :
    Linked(p) = IF p \in Files THEN LinksTo(p) ELSE {}
=============================================================================
