---------------------------- MODULE VaultWrites ----------------------------
(***************************************************************************)
(* The write commands of the Obsidian engine (src/tools/obsidian_lib/      *)
(* engine.py) on one vault: one-shot processes of this machine that take   *)
(* the write lock, and an editor outside the tool (Obsidian itself, or a   *)
(* sync client) that takes none.  A note is the set of the things written  *)
(* in it and the stamp (mtime and size) of its last write; every write     *)
(* has a stamp of its own, and a restored backup has the stamp of the note *)
(* it was copied from (shutil.copy2).  The index these commands refresh is *)
(* the subject of VaultIndex.                                              *)
(***************************************************************************)
EXTENDS Integers, FiniteSets, FiniteSetsExt

CONSTANTS
    Writer,     \* the processes, one per command
    Path,       \* the paths of notes, numbers in the order of the path names
    Ops,        \* [Writer -> the commands it may be given]
    Initial,    \* [Path -> what is written at the path at first, or NoText]
    Tag,        \* the tag a "tags rename" replaces
    Edit,       \* what the editor writes
    None,       \* nobody, no note, no lock
    MaxOutside, \* bound: edits from outside, and processes killed or interrupted
    MaxStamp    \* bound: stamps in use at a time

Kind == {"append", "task", "prop", "create", "daily", "apply",
         "group", "retag", "move", "delete"}

Body(p) == <<"body", p>>
Link(p) == <<"link", p>>
Token == Writer \cup {Tag, Edit} \cup {Body(p) : p \in Path}
                \cup {Link(p) : p \in Path}

ASSUME PathAssumption == Path \subseteq Nat /\ IsFiniteSet(Path)
Command == [kind : Kind, p : Path, q : Path]
ASSUME OpsAssumption == \A w \in Writer : Ops[w] \subseteq Command
\* What a note says that is its own (Body), the tag, and its links.
ASSUME InitialAssumption == \A p \in Path : Initial[p] # None =>
    /\ Body(p) \in Initial[p]
    /\ Initial[p] \subseteq {Tag} \cup {Body(r) : r \in Path} \cup {Link(r) : r \in Path}
\* What is written can be told apart.
ASSUME TokenAssumption ==
    /\ Tag # Edit /\ {Tag, Edit} \cap Writer = {}
    /\ \A p \in Path : {Body(p), Link(p)} \cap (Writer \cup {Tag, Edit}) = {}
ASSUME BoundAssumption == MaxOutside \in Nat

VARIABLES
    vault,      \* [Path -> note or None], the Markdown files
    trash,      \* [Path -> note or None], the files under .trash
    lock,       \* the lock file: None, or who created it and whether signed
    pc,         \* where each process is
    op,         \* its command, None before it starts
    seen,       \* [Path -> stamp] of its preflight, on the paths it took
    todo,       \* the paths a multi-file command has left to visit
    backup,     \* [Path -> note or None], its backup directory
    copy,       \* the text it will write
    aim,        \* the path it will write it to
    who,        \* the pid it read in a lock file it ran into
    result,     \* what the command answered
    edits, kills,
    broken,     \* history: a lock of a live holder was unlinked by another
    clobbered   \* history: a file was replaced that its writer had not read

files == <<vault, trash>>
local == <<op, seen, todo, backup, copy, aim>>
vars == <<vault, trash, lock, pc, op, seen, todo, backup, copy, aim,
          who, result, edits, kills, broken, clobbered>>

Note == [text : SUBSET Token, stamp : Nat]
Lock == [owner : Writer, signed : BOOLEAN]
\* None is none of the things it stands for the absence of.
ASSUME NoneAssumption == /\ None \notin Writer /\ None \notin Path
                         /\ None \notin Note /\ None \notin Lock /\ None \notin Command
Holding == {"sign", "work", "write", "relink", "rollback", "release"}
Alive == Holding \cup {"born", "again", "lock", "probe", "judge", "retake",
                       "refused"}

TypeOK ==
    /\ vault \in [Path -> Note \cup {None}]
    /\ trash \in [Path -> Note \cup {None}]
    /\ lock \in Lock \cup {None}
    /\ pc \in [Writer -> Alive \cup {"idle", "done", "dead"}]
    /\ op \in [Writer -> Command \cup {None}]
    /\ seen \in [Writer -> [Path -> Nat]]
    /\ todo \in [Writer -> SUBSET Path]
    /\ backup \in [Writer -> [Path -> Note \cup {None}]]
    /\ copy \in [Writer -> SUBSET Token]
    /\ aim \in [Writer -> Path \cup {None}]
    /\ who \in [Writer -> Writer \cup {None}]
    /\ result \in [Writer -> {"none", "ok", "failed", "unrecorded", "interrupted"}]
    /\ edits \in 0..MaxOutside
    /\ kills \in 0..MaxOutside
    /\ broken \in BOOLEAN
    /\ clobbered \in BOOLEAN

-----------------------------------------------------------------------------
NoBackup == [p \in Path |-> None]
NoStamps == [p \in Path |-> 0]

Init ==
    /\ vault = [p \in Path |-> IF Initial[p] = None THEN None
                               ELSE [text |-> Initial[p], stamp |-> 0]]
    /\ trash = [p \in Path |-> None]
    /\ lock = None
    /\ pc = [w \in Writer |-> "idle"]
    /\ op = [w \in Writer |-> None]
    /\ seen = [w \in Writer |-> NoStamps]
    /\ todo = [w \in Writer |-> {}]
    /\ backup = [w \in Writer |-> NoBackup]
    /\ copy = [w \in Writer |-> {}]
    /\ aim = [w \in Writer |-> None]
    /\ who = [w \in Writer |-> None]
    /\ result = [w \in Writer |-> "none"]
    /\ edits = 0 /\ kills = 0
    /\ broken = FALSE /\ clobbered = FALSE

Exists(p) == vault[p] # None
Goto(w, l) == pc' = [pc EXCEPT ![w] = l]
\* Mutant: a note that is missing has no stamp at all.
StampsOrNone(ps) == [p \in Path |-> IF p \in ps /\ Exists(p) THEN vault[p].stamp ELSE None]
Stamps(ps) == [p \in Path |-> IF p \in ps /\ Exists(p) THEN vault[p].stamp ELSE 0]

\* A stamp that no note has and nobody has noted: a write never repeats one.
Noted ==
    {vault[p].stamp : p \in {r \in Path : Exists(r)}}
    \cup {seen[wp[1]][wp[2]] : wp \in Writer \X Path}
    \cup {backup[wp[1]][wp[2]].stamp :
            wp \in {x \in Writer \X Path : backup[x[1]][x[2]] # None}}
Fresh == CHOOSE s \in 1..MaxStamp : s \notin Noted

\* Path.write_text, as the other processes see it.
WriteFile(p, text) ==
    /\ Fresh \in 1..MaxStamp
    /\ vault' = [vault EXCEPT ![p] = [text |-> text, stamp |-> Fresh]]

-----------------------------------------------------------------------------
(* What the commands do before they ask for the lock.                      *)

Start(w, o, l) ==
    /\ pc[w] = "idle"
    /\ op' = [op EXCEPT ![w] = o]
    /\ aim' = [aim EXCEPT ![w] = o.p]
    /\ Goto(w, l)
    /\ UNCHANGED <<vault, trash, lock, backup, who, result,
                   edits, kills, broken, clobbered>>

\* append (and an inline task): the preflight takes the stamp of the note.
StartAppend(w, o) ==
    /\ o.kind = "append" /\ Exists(o.p)
    /\ Start(w, o, "lock")
    /\ seen' = [seen EXCEPT ![w] = Stamps({o.p})]
    /\ UNCHANGED <<todo, copy>>

\* daily and weekly append: a missing note is first created, with no lock.
StartDaily(w, o) ==
    /\ o.kind = "daily"
    /\ Start(w, o, IF Exists(o.p) THEN "again" ELSE "born")
    /\ UNCHANGED <<seen, todo, copy>>

\* prop set and audit fix read the note here, before the lock.
StartProp(w, o) ==
    /\ o.kind = "prop" /\ Exists(o.p)
    /\ Start(w, o, "lock")
    /\ copy' = [copy EXCEPT ![w] = vault[o.p].text \cup {w}]
    /\ UNCHANGED <<seen, todo>>

\* tasks update, delete; save and tasks add, templates apply (or save --overwrite);
\* save-group, of a hub p and a child q.  prop batch is no command here: cmd_prop
\* raises on args.file, which its parser does not have, before prop_batch
\* (engine.py:2872, 3415).
StartPlain(w, o) ==
    /\ \/ o.kind \in {"task", "delete"} /\ Exists(o.p)
       \/ o.kind \in {"create", "apply"}
       \/ o.kind = "group" /\ o.q # o.p
    /\ Start(w, o, "lock")
    /\ UNCHANGED <<seen, todo, copy>>

\* tags rename and merge: the notes that carry the tag, and their stamps.
StartRetag(w, o) ==
    LET ps == {p \in Path : Exists(p) /\ Tag \in vault[p].text}
    IN  /\ o.kind = "retag" /\ ps # {}
        /\ Start(w, o, "lock")
        /\ seen' = [seen EXCEPT ![w] = Stamps(ps)]
        /\ todo' = [todo EXCEPT ![w] = ps]
        /\ UNCHANGED copy

\* move --update-links: the note and every note that links to it.
StartMove(w, o) ==
    LET ps == {p \in Path : Exists(p) /\ (p = o.p \/ Link(o.p) \in vault[p].text)}
    IN  /\ o.kind = "move" /\ Exists(o.p) /\ o.q # o.p
        /\ Start(w, o, "lock")
        /\ seen' = [seen EXCEPT ![w] = Stamps(ps)]
        /\ todo' = [todo EXCEPT ![w] = ps]
        /\ UNCHANGED copy

\* The daily note is created: write_note_file, with its own check, no lock.
Born(w) ==
    /\ pc[w] = "born"
    /\ WriteFile(op[w].p, {})
    /\ clobbered' = (clobbered \/ Exists(op[w].p))
    /\ Goto(w, "again")
    /\ UNCHANGED <<trash, lock, local, who, result, edits, kills, broken>>

BornTaken(w) ==
    /\ pc[w] = "born" /\ Exists(op[w].p)
    /\ Goto(w, "done")
    /\ result' = [result EXCEPT ![w] = "failed"]
    /\ UNCHANGED <<files, lock, local, who, edits, kills, broken, clobbered>>

\* Then the daily append is an append: resolve_note_path and the preflight.
Again(w) ==
    /\ pc[w] = "again"
    /\ IF Exists(op[w].p)
       THEN /\ Goto(w, "lock")
            /\ seen' = [seen EXCEPT ![w] = Stamps({op[w].p})]
            /\ UNCHANGED result
       ELSE /\ Goto(w, "done")
            /\ result' = [result EXCEPT ![w] = "failed"]
            /\ UNCHANGED seen
    /\ UNCHANGED <<files, lock, op, todo, backup, copy, aim, who, edits, kills,
                   broken, clobbered>>

-----------------------------------------------------------------------------
(* write_lock.                                                             *)

NewLock(w) == [owner |-> w, signed |-> FALSE]

\* Unlinking the lock file, whoever's it is.
Unlink(w) ==
    /\ lock' = None
    /\ broken' = (broken \/ /\ lock # None
                            /\ lock.owner # w
                            /\ pc[lock.owner] \in Holding)

\* Mutant: O_CREAT without O_EXCL.
TryLockOver(w) ==
    /\ pc[w] = "lock"
    /\ lock' = NewLock(w) /\ Goto(w, "sign")
    /\ UNCHANGED <<files, local, who, result, edits, kills, broken, clobbered>>

\* O_CREAT | O_EXCL.
TryLock(w) ==
    /\ pc[w] = "lock"
    /\ IF lock = None THEN lock' = NewLock(w) /\ Goto(w, "sign")
                      ELSE Goto(w, "probe") /\ UNCHANGED lock
    /\ UNCHANGED <<files, local, who, result, edits, kills, broken, clobbered>>

\* The payload goes to the file it created, linked or not.
Sign(w) ==
    /\ pc[w] = "sign"
    /\ lock' = IF lock = NewLock(w) THEN [lock EXCEPT !.signed = TRUE] ELSE lock
    /\ Goto(w, "work")
    /\ UNCHANGED <<files, local, who, result, edits, kills, broken, clobbered>>

\* The lock file in the way is read: no file, or no pid in it, is no stale lock.
Probe(w) ==
    /\ pc[w] = "probe"
    /\ IF lock # None /\ lock.signed
       THEN Goto(w, "judge") /\ who' = [who EXCEPT ![w] = lock.owner]
       ELSE Goto(w, "refused") /\ UNCHANGED who
    /\ UNCHANGED <<files, lock, local, result, edits, kills, broken, clobbered>>

\* kill(pid, 0): the lock of a process that is gone is unlinked.
Judge(w) ==
    /\ pc[w] = "judge"
    /\ IF pc[who[w]] \in Alive
       THEN Goto(w, "refused") /\ UNCHANGED <<lock, broken>>
       ELSE Goto(w, "retake") /\ Unlink(w)
    /\ who' = [who EXCEPT ![w] = None]
    /\ UNCHANGED <<files, local, result, edits, kills, clobbered>>

Retake(w) ==
    /\ pc[w] = "retake"
    /\ IF lock = None THEN lock' = NewLock(w) /\ Goto(w, "sign")
                      ELSE Goto(w, "refused") /\ UNCHANGED lock
    /\ UNCHANGED <<files, local, who, result, edits, kills, broken, clobbered>>

\* The command is over, and forgets what it knew.
Over(w) ==
    /\ Goto(w, "done")
    /\ seen' = [seen EXCEPT ![w] = NoStamps]
    /\ todo' = [todo EXCEPT ![w] = {}]
    /\ copy' = [copy EXCEPT ![w] = {}]
    /\ aim' = [aim EXCEPT ![w] = None]

\* A refusal is raised through the finally clause, which unlinks the file.
Refused(w) ==
    /\ pc[w] = "refused"
    /\ Unlink(w)
    /\ Over(w)
    /\ result' = [result EXCEPT ![w] = IF @ = "none" THEN "failed" ELSE @]
    /\ UNCHANGED <<files, op, backup, who, edits, kills, clobbered>>

\* The end of the with block.  After its change a command brings the index up to
\* date (full_note_record, or refresh), which fails when another process has the
\* index locked or the note is gone.
Release(w) ==
    /\ pc[w] = "release"
    /\ Unlink(w)
    /\ Over(w)
    /\ \/ /\ result[w] = "ok" /\ op[w].kind \notin {"retag", "move"}
          /\ result' = [result EXCEPT ![w] = "unrecorded"]
       \/ /\ ~ (result[w] = "ok" /\ op[w].kind \notin {"retag", "move", "delete"}
                                /\ ~Exists(aim[w]))
          /\ UNCHANGED result
    /\ UNCHANGED <<files, op, backup, who, edits, kills, clobbered>>

-----------------------------------------------------------------------------
(* What the commands do with the lock taken.                               *)

Working(w, ks) == pc[w] = "work" /\ op[w].kind \in ks

\* Mutant: there is no rollback.
FailAsIs(w) ==
    /\ Goto(w, "release")
    /\ result' = [result EXCEPT ![w] = "failed"]

\* An exception: the multi-file commands go to their rollback first.
Fail(w) ==
    /\ Goto(w, IF op[w].kind \in {"retag", "move"} THEN "rollback" ELSE "release")
    /\ result' = [result EXCEPT ![w] = "failed"]

\* The note is read and its new text made; for append and daily append the
\* stamp is compared with the preflight's, save and tasks add want no note, nor
\* does save-group for its hub and then for its child.
Compose(w) ==
    LET p == aim[w]
        k == op[w].kind
        bad == \/ k \in {"append", "daily", "task"} /\ ~Exists(p)
               \/ k \in {"append", "daily"} /\ Exists(p)
                                            /\ vault[p].stamp # seen[w][p]
               \/ k \in {"create", "group"} /\ Exists(p)
    IN  /\ Working(w, {"append", "daily", "task", "prop", "create", "apply", "group"})
        /\ IF bad THEN Fail(w) /\ UNCHANGED copy
           ELSE /\ Goto(w, "write")
                /\ copy' = [copy EXCEPT ![w] =
                     CASE k \in {"append", "daily", "task"} -> vault[p].text \cup {w}
                       [] k \in {"create", "apply", "group"} -> {w}
                       [] OTHER -> @]
                /\ UNCHANGED result
        /\ UNCHANGED <<files, lock, op, seen, todo, backup, aim, who, edits,
                       kills, broken, clobbered>>

\* The text goes to the file; a blind write is one whose writer never read it.
\* The hub of a save-group is recorded and its child follows; the record may fail
\* (see Release), and nothing is rolled back.
Write(w) ==
    LET hub == op[w].kind = "group" /\ aim[w] = op[w].p
    IN  /\ pc[w] = "write"
        /\ WriteFile(aim[w], copy[w])
        /\ clobbered' = (clobbered \/ (op[w].kind = "apply" /\ Exists(aim[w])))
        /\ CASE op[w].kind = "retag" \/ hub -> Goto(w, "work") /\ UNCHANGED result
             [] op[w].kind = "move" -> Goto(w, "relink") /\ UNCHANGED result
             [] OTHER -> /\ Goto(w, "release")
                         /\ result' = [result EXCEPT ![w] = "ok"]
        /\ aim' = [aim EXCEPT ![w] = IF hub THEN op[w].q ELSE @]
        /\ copy' = [copy EXCEPT ![w] = {}]
        /\ UNCHANGED <<trash, lock, op, seen, todo, backup, who, edits, kills, broken>>

\* full_note_record of the hub fails, and the child is not written.
HubUnrecorded(w) ==
    /\ Working(w, {"group"}) /\ aim[w] = op[w].q
    /\ Goto(w, "release")
    /\ result' = [result EXCEPT ![w] = "unrecorded"]
    /\ UNCHANGED <<files, lock, local, who, edits, kills, broken, clobbered>>

\* delete: the note is renamed into the trash, over what is there.
Trash(w) ==
    LET p == op[w].p
    IN  /\ Working(w, {"delete"})
        /\ IF Exists(p)
           THEN /\ vault' = [vault EXCEPT ![p] = None]
                /\ trash' = [trash EXCEPT ![p] = vault[p]]
                /\ clobbered' = (clobbered \/ trash[p] # None)
                /\ Goto(w, "release")
                /\ result' = [result EXCEPT ![w] = "ok"]
           ELSE Fail(w) /\ UNCHANGED <<vault, trash, clobbered>>
        /\ UNCHANGED <<lock, local, who, edits, kills, broken>>

\* The next note of a rename of tags, or of the files a move will touch: the
\* stamp is taken again, then the backup, then (for the tags) the new text.
Visit(w) ==
    LET p == Min(todo[w])
        k == op[w].kind
    IN  /\ Working(w, {"retag", "move"}) /\ todo[w] # {}
        /\ IF /\ ~Exists(p) /\ k = "move"
           THEN /\ todo' = [todo EXCEPT ![w] = @ \ {p}]
                /\ UNCHANGED <<pc, result, backup, copy, aim>>
           ELSE IF ~Exists(p) \/ vault[p].stamp # seen[w][p]
           THEN Fail(w) /\ UNCHANGED <<todo, backup, copy, aim>>
           ELSE /\ todo' = [todo EXCEPT ![w] = @ \ {p}]
                /\ backup' = [backup EXCEPT ![w][p] = vault[p]]
                /\ IF k = "retag"
                   THEN /\ copy' = [copy EXCEPT ![w] =
                                      (vault[p].text \ {Tag}) \cup {w}]
                        /\ aim' = [aim EXCEPT ![w] = p]
                        /\ Goto(w, "write")
                   ELSE UNCHANGED <<copy, aim, pc>>
                /\ UNCHANGED result
        /\ UNCHANGED <<files, lock, op, seen, who, edits, kills, broken, clobbered>>

BackedUp(w) == {p \in Path : backup[w][p] # None}

\* A move: all files are backed up, and the note is renamed, over what is there.
Rename(w) ==
    LET p == op[w].p
        q == op[w].q
    IN  /\ Working(w, {"move"}) /\ todo[w] = {}
        /\ IF Exists(p)
           THEN /\ vault' = [vault EXCEPT ![q] = vault[p], ![p] = None]
                /\ clobbered' = (clobbered \/ Exists(q))
                /\ todo' = [todo EXCEPT ![w] = BackedUp(w) \ {p}]
                /\ Goto(w, "relink") /\ UNCHANGED result
           ELSE Fail(w) /\ UNCHANGED <<vault, todo, clobbered>>
        /\ UNCHANGED <<trash, lock, op, seen, backup, copy, aim, who,
                       edits, kills, broken>>

\* The next note that linked to the old name: read as it is now, and rewritten.
Relink(w) ==
    LET p == Min(todo[w])
    IN  /\ pc[w] = "relink" /\ todo[w] # {}
        /\ IF ~Exists(p)
           THEN Fail(w) /\ UNCHANGED <<todo, copy, aim>>
           ELSE /\ todo' = [todo EXCEPT ![w] = @ \ {p}]
                /\ IF Link(op[w].p) \in vault[p].text
                   THEN /\ copy' = [copy EXCEPT ![w] =
                                (vault[p].text \ {Link(op[w].p)}) \cup {Link(op[w].q)}]
                        /\ aim' = [aim EXCEPT ![w] = p]
                        /\ Goto(w, "write")
                   ELSE UNCHANGED <<copy, aim, pc>>
                /\ UNCHANGED result
        /\ UNCHANGED <<files, lock, op, seen, backup, who, edits, kills, broken,
                       clobbered>>

\* All notes are written: refresh() and the "verify" entry of the journal; refresh raises when the
\* index is locked by another process, or a note it listed is gone.
Verify(w) ==
    /\ todo[w] = {}
    /\ Working(w, {"retag"}) \/ pc[w] = "relink"
    /\ \/ Goto(w, "release") /\ result' = [result EXCEPT ![w] = "ok"]
       \/ Fail(w)
    /\ UNCHANGED <<files, lock, local, who, edits, kills, broken, clobbered>>

\* The except clause: every backup is copied over its note, stamp included.
Restore(w) ==
    LET p == Min(BackedUp(w))
    IN  /\ pc[w] = "rollback" /\ BackedUp(w) # {}
        /\ vault' = [vault EXCEPT ![p] = backup[w][p]]
        /\ backup' = [backup EXCEPT ![w][p] = None]
        /\ UNCHANGED <<trash, lock, pc, op, seen, todo, copy, aim, who,
                       result, edits, kills, broken, clobbered>>

\* Last, a moved note is renamed back if its old place is empty.
Restored(w) ==
    LET p == op[w].p
        q == op[w].q
    IN  /\ pc[w] = "rollback" /\ BackedUp(w) = {}
        /\ vault' = IF op[w].kind = "move" /\ Exists(q) /\ ~Exists(p)
                    THEN [vault EXCEPT ![p] = vault[q], ![q] = None]
                    ELSE vault
        /\ Goto(w, "release")
        /\ UNCHANGED <<trash, lock, local, who, result, edits, kills,
                       broken, clobbered>>

-----------------------------------------------------------------------------
(* The world outside.                                                      *)

\* The editor saves a note; it keeps what the file held.
EditNote(p) ==
    /\ edits + kills < MaxOutside /\ Exists(p)
    /\ WriteFile(p, vault[p].text \cup {Edit})
    /\ edits' = edits + 1
    /\ UNCHANGED <<trash, lock, pc, local, who, result, kills, broken, clobbered>>

\* A holder is killed; within write_text the file is left truncated.  (One that
\* is killed without the lock leaves what one that stops there leaves.)
Kill(w) ==
    /\ edits + kills < MaxOutside /\ pc[w] \in Holding
    /\ kills' = kills + 1
    /\ \/ UNCHANGED vault
       \/ pc[w] = "write" /\ WriteFile(aim[w], {})
    /\ Goto(w, "dead")
    /\ UNCHANGED <<trash, lock, local, who, result, edits, broken, clobbered>>

\* Ctrl-C: the finally clause runs, the except Exception clause does not.
Interrupt(w) ==
    /\ edits + kills < MaxOutside
    /\ kills' = kills + 1
    /\ \/ /\ pc[w] \in Holding \ {"release"}
          /\ Goto(w, "release")
       \/ /\ pc[w] \in {"probe", "judge", "retake"}
          /\ Goto(w, "refused")
    /\ result' = [result EXCEPT ![w] = "interrupted"]
    /\ UNCHANGED <<files, lock, local, who, edits, broken, clobbered>>

-----------------------------------------------------------------------------
Begin(w) == \E o \in Ops[w] :
    \/ StartAppend(w, o) \/ StartDaily(w, o) \/ StartProp(w, o)
    \/ StartPlain(w, o) \/ StartRetag(w, o) \/ StartMove(w, o)

Locking(w) ==
    \/ TryLock(w) \/ Sign(w) \/ Probe(w) \/ Judge(w) \/ Retake(w)
    \/ Refused(w) \/ Release(w)

Work(w) ==
    \/ Born(w) \/ BornTaken(w) \/ Again(w)
    \/ Compose(w) \/ Write(w) \/ HubUnrecorded(w) \/ Trash(w)
    \/ Visit(w) \/ Rename(w) \/ Relink(w)
    \/ Verify(w) \/ Restore(w) \/ Restored(w)

Next ==
    \/ \E w \in Writer : Begin(w) \/ Locking(w) \/ Work(w) \/ Kill(w) \/ Interrupt(w)
    \/ \E p \in Path : EditNote(p)

Spec == Init /\ [][Next]_vars

-----------------------------------------------------------------------------
(* What the commands promise.                                              *)

\* write_lock: two processes are in the vault together only after the lock of
\* one of them was unlinked by a process that did not hold it.
LockExcludes == \A v, w \in Writer :
    pc[v] \in Holding /\ pc[w] \in Holding => v = w
ExclusiveUntilBroken == ~broken => LockExcludes

\* write_lock: the first to unlink the lock of a live holder is a contender on
\* its way out or in, never a holder that leaves after a clean run.
BrokenByContender == [][~broken /\ broken' =>
    \E w \in Writer : pc[w] \in {"refused", "judge"} /\ pc'[w] # pc[w]]_vars

Stored(t) == \E p \in Path :
    \/ vault[p] # None /\ t \in vault[p].text
    \/ trash[p] # None /\ t \in trash[p].text

\* No lock was broken, nobody was killed, and no command read before it locked.
Orderly == /\ ~broken /\ kills = 0
           /\ \A w \in Writer : op[w] = None \/ op[w].kind # "prop"

\* append, daily, tasks, save: a text a command reported as written, and the
\* text of every note there was, is in the vault or its trash, whatever moves,
\* renames of tags, deletes, rollbacks and outside edits run with it.
AcceptedIsKept == Orderly /\ ~clobbered =>
    /\ \A w \in Writer :
          result[w] = "ok" /\ op[w].kind \notin {"retag", "move", "delete"}
            => Stored(w)
    /\ \A p \in Path : Initial[p] # None => Stored(Body(p))

\* rewrite_tags, cmd_move and the preflights: a command that reports failure
\* has left nothing of its own in any note, no new name of a link either, and a
\* rename of a tag that succeeds leaves the tag in no note of its plan.  (Only of
\* its plan, and only then: one that plans while another rename is half done misses
\* the notes rolled back later, and such a note may be moved to a path of the plan.)
\* Exempt are the failure to record what was written and save-group, which leaves
\* the hub it wrote when it fails at the child (engine.py:1942).
Written(t) == \E p \in Path : Initial[p] # None /\ t \in Initial[p]
AllOrNothing == Orderly /\ ~clobbered => \A w \in Writer :
    /\ pc[w] = "done" /\ result[w] = "failed" /\ op[w].kind # "group" => ~Stored(w)
    /\ pc[w] = "done" /\ result[w] = "failed" /\ op[w].kind = "move" =>
          \A p \in Path : (vault[p] # None /\ Link(op[w].q) \in vault[p].text) =>
              \/ Written(Link(op[w].q))
              \/ \E v \in Writer \ {w} : op[v] # None /\ op[v].kind = "move"
                                                      /\ op[v].q = op[w].q
    /\ pc[w] = "release" /\ result[w] = "ok" /\ op[w].kind = "retag" =>
          \A p \in BackedUp(w) : vault[p] # None => Tag \notin vault[p].text

\* cmd_move: a move that fails is rolled back, so the note is not left under
\* both names.
MoveIsUndone == Orderly => \A w \in Writer :
    pc[w] = "done" /\ result[w] = "failed" /\ op[w].kind = "move" =>
        ~ \E p, q \in Path : /\ p # q
                             /\ vault[p] # None /\ vault[q] # None
                             /\ Body(op[w].p) \in vault[p].text \cap vault[q].text
=============================================================================
