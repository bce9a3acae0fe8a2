----------------------------- MODULE MannaPair -----------------------------
(***************************************************************************)
(* One item of a strict Manna board and its handoff document: two files     *)
(* that must agree, changed by journaled transactions                       *)
(* (tools/agent-manna/src/workflow.rs, the recover_* methods of store.rs).   *)
(*                                                                         *)
(* A command prepares a transaction from what it reads without the lock,     *)
(* publishes it as the item's journal, executes it under the board lock --   *)
(* the document first, the row last -- and removes the journal.  Every       *)
(* command first executes the journals it finds, so a transaction may be     *)
(* executed by any process, by several, and by one that read the journal     *)
(* long ago.  A process may be killed between any two steps; the lock of a    *)
(* killed process is released by the operating system.                       *)
(*                                                                         *)
(* Documents are edited by hand, at any time and without the lock.           *)
(*                                                                         *)
(* A row is what the transactions compare: whether it is an item, the digest  *)
(* that seals its document, and updated_at, which every change of the row      *)
(* renews.  A digest is modelled by the content it is a digest of.  The        *)
(* signature, the path checks and the frontmatter are left out.               *)
(***************************************************************************)
EXTENDS Naturals

CONSTANTS
    Proc,         \* the processes that run commands
    NoRow, NoTx, NoProc,
    MaxClock,     \* bound: stamps and contents made per behaviour
    MaxCrash      \* bound: processes killed per behaviour

Stamp == 0..MaxClock
Row   == [item : BOOLEAN, digest : Stamp, stamp : Stamp]

Action == {"create", "attach", "update", "seal", "detach", "delete"}

\* PairTransaction: the complete rows before and after, the document to install
\* (0: archive it instead) and the name of the archive.
Tx == [action : Action, before : Row \union {NoRow}, after : Row \union {NoRow},
       document : Stamp, archive : Stamp]

ASSUME PairBoundAssumption == MaxClock \in Nat \ {0} /\ MaxCrash \in Nat
ASSUME NoProcAssumption    == NoProc \notin Proc
ASSUME NoValueAssumption   == NoRow \notin Row /\ NoTx \notin Tx

VARIABLES
    row,        \* the item's row, or NoRow
    doc,        \* the content of its handoff file, 0 if there is none
    archive,    \* the archived contents, by the stamp in the archive's name
    journal,    \* .manna/transactions/<id>.yaml, or NoTx
    lock,       \* who holds the board lock
    proc,       \* what each process is doing
    clock, crashes,
    born,       \* has the identifier been used?
    settled,    \* history: transactions found applied or in conflict
    over,       \* history: transactions whose journal was removed
    lost,       \* history: those removed in the place of another one
    half,       \* history: the transaction whose document half was cut off
                \* from its row half by a kill, until a document half succeeds
    byHand,     \* history: did a hand edit come after the last document half?
    unapproved, \* history: contents with hand edits that nobody has sealed
    reborn      \* history: has a create been executed again, after a delete?

filePair == <<row, doc, archive, journal>>
history  == <<settled, over, lost, half, byHand, unapproved, reborn>>
vars     == <<filePair, lock, proc, clock, crashes, born, history>>

---------------------------------------------------------------------------
Now == clock + 1

\* tx: what a writer has prepared and published, and from "opened" on the
\* transaction that was read from the journal.
ProcIdle  == [pc |-> "idle"]
ProcState == {ProcIdle} \union
    [pc : {"prepared", "published", "opened", "half", "settled", "compared"}, tx : Tx]

TypeOK ==
    /\ row \in Row \union {NoRow}
    /\ doc \in Stamp
    /\ archive \in [Stamp -> Stamp]
    /\ journal \in Tx \union {NoTx}
    /\ lock \in Proc \union {NoProc}
    /\ proc \in [Proc -> ProcState]
    /\ clock \in Stamp /\ crashes \in 0..MaxCrash
    /\ born \in BOOLEAN /\ byHand \in BOOLEAN
    /\ settled \subseteq Tx /\ over \subseteq Tx /\ lost \subseteq Tx
    /\ half \in Tx \union {NoTx}
    /\ unapproved \subseteq Stamp
    /\ reborn \in BOOLEAN

IsItem == row # NoRow /\ row.item

\* validate_handoff: the file exists and its content is the one the row seals.
Sealed == IsItem /\ doc # 0 /\ doc = row.digest

\* The content that a row says its document has, 0 if it has none.
Vouched(r) == IF r # NoRow /\ r.item THEN r.digest ELSE 0

Tick == clock < MaxClock /\ clock' = Now

---------------------------------------------------------------------------
(* Preparing a transaction, without the lock.  The row is read some time     *)
(* before the document; a row that changes in between makes the transaction   *)
(* lose, so the two readings are one step here.                               *)

Prepare(p, tx) ==
    /\ proc[p] = ProcIdle
    /\ Tick
    /\ proc' = [proc EXCEPT ![p] = [pc |-> "prepared", tx |-> tx]]
    /\ UNCHANGED <<filePair, lock, crashes, settled, over, lost, half, byHand, reborn>>

Bound(digest) == [item |-> TRUE, digest |-> digest, stamp |-> Now]

\* create_paired_issue; identifiers are random and used once.
PrepareCreate(p) ==
    /\ ~born /\ born' = TRUE
    /\ doc = 0
    /\ Prepare(p, [action |-> "create", before |-> NoRow, after |-> Bound(Now),
                   document |-> Now, archive |-> 0])
    /\ UNCHANGED unapproved

\* attach_handoff: a row of another type becomes an item.
PrepareAttach(p) ==
    /\ row # NoRow /\ ~row.item
    /\ doc = 0
    /\ Prepare(p, [action |-> "attach", before |-> row, after |-> Bound(Now),
                   document |-> Now, archive |-> 0])
    /\ UNCHANGED <<born, unapproved>>

\* Mutant: the seal of the document is not proved before it is renewed.
PrepareUpdateUnsealed(p) ==
    /\ IsItem /\ doc # 0
    /\ Prepare(p, [action |-> "update", before |-> row, after |-> Bound(Now),
                   document |-> Now, archive |-> 0])
    /\ unapproved' = unapproved \union (IF doc \in unapproved THEN {Now} ELSE {})
    /\ UNCHANGED born

\* rebind_handoff_metadata: an ordinary update renews the frontmatter, which
\* the digest covers, of a document that is sealed.  Fields that the frontmatter
\* does not show leave it as it is.
PrepareUpdate(p) ==
    /\ Sealed
    /\ \E content \in {doc, Now} :
        /\ Prepare(p, [action |-> "update", before |-> row, after |-> Bound(content),
                       document |-> content, archive |-> 0])
        /\ unapproved' = unapproved \union (IF doc \in unapproved THEN {content} ELSE {})
    /\ UNCHANGED born

\* Mutant: what is installed is not what was sealed.
PrepareSealOld(p) ==
    /\ IsItem /\ doc # 0
    /\ Prepare(p, [action |-> "seal", before |-> row, after |-> Bound(row.digest),
                   document |-> doc, archive |-> 0])
    /\ unapproved' = unapproved \ {doc}
    /\ UNCHANGED born

\* seal_handoff: the document as it is read becomes the sealed one.
PrepareSeal(p) ==
    /\ IsItem /\ doc # 0
    /\ Prepare(p, [action |-> "seal", before |-> row, after |-> Bound(doc),
                   document |-> doc, archive |-> 0])
    /\ unapproved' = unapproved \ {doc}
    /\ UNCHANGED born

\* detach_handoff: the item becomes a row of another type.
PrepareDetach(p) ==
    /\ IsItem
    /\ Prepare(p, [action |-> "detach", before |-> row,
                   after |-> [item |-> FALSE, digest |-> 0, stamp |-> Now],
                   document |-> 0, archive |-> row.stamp])
    /\ UNCHANGED <<born, unapproved>>

\* delete_paired_issue
PrepareDelete(p) ==
    /\ IsItem
    /\ Prepare(p, [action |-> "delete", before |-> row, after |-> NoRow,
                   document |-> 0, archive |-> row.stamp])
    /\ UNCHANGED <<born, unapproved>>

---------------------------------------------------------------------------
(* Publishing, executing and removing a journal                             *)

Become(p, state) == proc' = [proc EXCEPT ![p] = state]
Advance(p, pc)   == proc' = [proc EXCEPT ![p].pc = pc]

Intent(p) == proc[p].tx

\* write_transaction installs the journal only if there is none.
Publish(p) ==
    /\ proc[p].pc = "prepared"
    /\ IF journal = NoTx
       THEN journal' = proc[p].tx /\ Advance(p, "published")
       ELSE UNCHANGED journal /\ Become(p, ProcIdle)
    /\ UNCHANGED <<row, doc, archive, lock, clock, crashes, born, history>>

\* Mutant: the journal is opened without looking whether it is there.
OpenOwnUnchecked(p) ==
    /\ proc[p].pc = "published"
    /\ Become(p, [pc |-> "opened", tx |-> journal])
    /\ UNCHANGED <<filePair, lock, clock, crashes, born, history>>

\* Mutant: the writer takes its journal away before it executes it.
OpenOwnTakes(p) ==
    /\ proc[p].pc = "published"
    /\ IF journal = NoTx
       THEN Become(p, ProcIdle)
       ELSE Become(p, [pc |-> "opened", tx |-> journal])
    /\ journal' = NoTx
    /\ UNCHANGED <<row, doc, archive, lock, clock, crashes, born, history>>

\* The writer executes what it finds at the path of its journal; a journal
\* that somebody else has removed is an error.
OpenOwn(p) ==
    /\ proc[p].pc = "published"
    /\ IF journal = NoTx
       THEN Become(p, ProcIdle)
       ELSE Become(p, [pc |-> "opened", tx |-> journal])
    /\ UNCHANGED <<filePair, lock, clock, crashes, born, history>>

\* recover_pair_transactions, at the start of every command.
OpenFound(p) ==
    /\ proc[p] = ProcIdle
    /\ journal # NoTx
    /\ Become(p, [pc |-> "opened", tx |-> journal])
    /\ UNCHANGED <<filePair, lock, clock, crashes, born, history>>

\* Mutant: the row is compared by its identifier only.
MatchesId(tx) == (row = NoRow) = (tx.before = NoRow) \/ row = tx.after

\* The compare-and-swap of recover_issue_with, recover_replace_issue_with and
\* recover_delete_issue_with: the row is as the transaction found it, or as it
\* leaves it.
Matches(tx) == row = tx.before \/ row = tx.after

\* install_transaction_document overwrites; archive_handoff moves the file
\* unless it was moved before, and fails if it is gone or the target is taken.
CanDoFileHalf(tx) ==
    tx.document = 0 => (doc = 0) = (archive[tx.archive] # 0)

\* Mutant: the document is installed before the board is locked.
FileHalfUnlocked(p) ==
    /\ proc[p].pc = "opened"
    /\ lock = NoProc
    /\ Matches(Intent(p))
    /\ CanDoFileHalf(Intent(p))
    /\ doc' = Intent(p).document
    /\ archive' = IF Intent(p).document = 0 /\ doc # 0
                  THEN [archive EXCEPT ![Intent(p).archive] = doc]
                  ELSE archive
    /\ Advance(p, "half")
    /\ half' = NoTx /\ byHand' = FALSE
    /\ UNCHANGED <<row, journal, lock, clock, crashes, born, settled, over, lost, unapproved, reborn>>


FileHalf(p) ==
    /\ proc[p].pc = "opened"
    /\ lock = NoProc
    /\ Matches(Intent(p))
    /\ CanDoFileHalf(Intent(p))
    /\ lock' = p
    /\ doc' = Intent(p).document
    /\ archive' = IF Intent(p).document = 0 /\ doc # 0
                  THEN [archive EXCEPT ![Intent(p).archive] = doc]
                  ELSE archive
    /\ Advance(p, "half")
    /\ half' = NoTx /\ byHand' = FALSE
    /\ UNCHANGED <<row, journal, clock, crashes, born, settled, over, lost, unapproved, reborn>>

\* The document half fails: the command reports the journal as pending.
FailFileHalf(p) ==
    /\ proc[p].pc = "opened"
    /\ lock = NoProc
    /\ Matches(Intent(p))
    /\ ~CanDoFileHalf(Intent(p))
    /\ Become(p, ProcIdle)
    /\ UNCHANGED <<filePair, lock, clock, crashes, born, history>>

WriteRow(p) ==
    /\ proc[p].pc = "half"
    /\ row' = Intent(p).after
    /\ lock' = NoProc
    /\ Advance(p, "settled")
    /\ settled' = settled \union {Intent(p)}
    /\ reborn' = (reborn \/ (row = NoRow /\ row' # NoRow /\ Intent(p) \in settled))
    /\ UNCHANGED <<doc, archive, journal, clock, crashes, born, over, lost, half, byHand, unapproved>>

\* Mutant: the journal of a transaction that lost is kept.
DiscardKeeps(p) ==
    /\ proc[p].pc = "opened"
    /\ lock = NoProc
    /\ ~Matches(Intent(p))
    /\ Become(p, ProcIdle)
    /\ settled' = settled \union {Intent(p)}
    /\ UNCHANGED <<filePair, lock, clock, crashes, born, over, lost, half, byHand, unapproved, reborn>>

\* RecoveryConflict: the transaction lost to another change of the row.
Discard(p) ==
    /\ proc[p].pc = "opened"
    /\ lock = NoProc
    /\ ~Matches(Intent(p))
    /\ Advance(p, "settled")
    /\ settled' = settled \union {Intent(p)}
    /\ UNCHANGED <<filePair, lock, clock, crashes, born, over, lost, half, byHand, unapproved, reborn>>

\* remove_transaction_if_unchanged compares the file at the path with what was
\* read -- a changed one is left in place -- and then unlinks the path, without
\* the lock: the file it unlinks need not be the one it compared.
CompareJournal(p) ==
    /\ proc[p].pc = "settled"
    /\ IF journal = Intent(p) THEN Advance(p, "compared") ELSE Become(p, ProcIdle)
    /\ UNCHANGED <<filePair, lock, clock, crashes, born, history>>

UnlinkJournal(p) ==
    /\ proc[p].pc = "compared"
    /\ journal' = NoTx
    /\ over' = over \union ({journal} \ {NoTx})
    /\ lost' = lost \union ({journal} \ {NoTx, Intent(p)})
    /\ Become(p, ProcIdle)
    /\ UNCHANGED <<row, doc, archive, lock, clock, crashes, born, settled, half, byHand, unapproved, reborn>>

---------------------------------------------------------------------------
(* Kills, other commands and hands                                          *)

Crash(p) ==
    /\ proc[p] # ProcIdle
    /\ crashes < MaxCrash /\ crashes' = crashes + 1
    /\ Become(p, ProcIdle)
    /\ lock' = IF lock = p THEN NoProc ELSE lock
    /\ half' = IF proc[p].pc = "half" /\ row # Intent(p).after THEN Intent(p) ELSE half
    /\ UNCHANGED <<filePair, clock, born, settled, over, lost, byHand, unapproved, reborn>>

\* Any other locked mutation of the row: block, unblock, abandon, a repair,
\* an order change.  It keeps the pairing and renews the stamp.  The command
\* looked for journals when it started, which may be long ago.
Touch ==
    /\ lock = NoProc
    /\ row # NoRow
    /\ Tick
    /\ row' = [row EXCEPT !.stamp = Now]
    /\ UNCHANGED <<doc, archive, journal, lock, proc, crashes, born, history>>

\* delete_issue_owned, which refuses a bound item.
DeletePlain ==
    /\ lock = NoProc
    /\ row # NoRow /\ ~row.item
    /\ row' = NoRow
    /\ UNCHANGED <<doc, archive, journal, lock, proc, clock, crashes, born, history>>

EditByHand ==
    /\ doc # 0
    /\ Tick
    /\ doc' = Now
    /\ byHand' = TRUE
    /\ unapproved' = unapproved \union {Now}
    /\ UNCHANGED <<row, archive, journal, lock, proc, crashes, born, settled, over, lost, half, reborn>>

---------------------------------------------------------------------------
\* An unused identifier, a row of another type, or a sealed item.
Init ==
    /\ row \in {NoRow, [item |-> FALSE, digest |-> 0, stamp |-> 0],
                [item |-> TRUE, digest |-> 1, stamp |-> 0]}
    /\ doc = IF IsItem THEN row.digest ELSE 0
    /\ clock = IF IsItem THEN 1 ELSE 0
    /\ born = (row # NoRow)
    /\ archive = [s \in Stamp |-> 0]
    /\ journal = NoTx
    /\ lock = NoProc
    /\ proc = [p \in Proc |-> ProcIdle]
    /\ crashes = 0
    /\ settled = {} /\ over = {} /\ lost = {} /\ half = NoTx /\ byHand = FALSE
    /\ unapproved = {} /\ reborn = FALSE

Preparing(p) ==
    \/ PrepareCreate(p) \/ PrepareAttach(p) \/ PrepareUpdate(p)
    \/ PrepareSeal(p) \/ PrepareDetach(p) \/ PrepareDelete(p)

Executing(p) ==
    \/ OpenOwn(p)
    \/ FileHalf(p) \/ FailFileHalf(p) \/ WriteRow(p) \/ Discard(p)
    \/ CompareJournal(p) \/ UnlinkJournal(p)

Next ==
    \/ \E p \in Proc : \/ Preparing(p) \/ Publish(p)
                       \/ OpenFound(p) \/ Executing(p)
                       \/ Crash(p)
    \/ Touch
    \/ DeletePlain
    \/ EditByHand

Spec == Init /\ [][Next]_vars

\* Commands keep being run, and one that is not killed runs on.
FairSpec ==
    /\ Spec
    /\ \A p \in Proc : WF_vars(OpenFound(p) \/ Executing(p) \/ Publish(p))

---------------------------------------------------------------------------
(* Properties                                                               *)

\* Nobody holds the lock and the row and its document disagree.
Disagree ==
    /\ lock = NoProc
    /\ doc # Vouched(row)

\* Whatever journals are executed, by whomever and however late, only a kill
\* between the two halves or a hand edit makes the row and its document
\* disagree (recover_issue_with, recover_replace_issue_with,
\* recover_delete_issue_with).
DisagreementHasCause == Disagree => half # NoTx \/ byHand

\* Only handoff seal makes a row vouch for hand-edited content: no ordinary
\* update, recovery or replay does (rebind_handoff_metadata).
ScopeIsApproved == IsItem => row.digest \notin unapproved

\* A transaction that was cut off between its two halves is on disk for the next
\* command until it is applied or found in conflict, unless its journal is
\* removed in the place of another (complete_transaction_path removes a journal
\* only after execute_transaction; for the exception see ChangedJournalIsLeft).
InterruptedIsPending == half # NoTx => half \in settled \union lost \union {journal}

\* A journal that several processes execute, some of them long after it was
\* settled, changes the row once, unless a create brings an old row back (see
\* AbsentJournalIsOver): stamps are renewed, so a row is never again what the
\* transaction compares it with.
AppliedOnce ==
    [][\A p \in Proc :
        WriteRow(p) /\ row' # row /\ Intent(p) \in settled
            => reborn \/ Intent(p).action = "create"]_vars

\* The document half of this transaction can never be done: it archives a
\* document that is gone, or under a name that is taken (archive_handoff).
Stuck(tx) == tx # NoTx /\ Matches(tx) /\ ~CanDoFileHalf(tx)

\* A published journal is applied or discarded as long as commands are run,
\* whoever is killed, unless it archives what it cannot archive.
JournalIsSettled == journal # NoTx ~> (journal = NoTx \/ Stuck(journal))

---------------------------------------------------------------------------
(* Why: the inductive invariant                                             *)

LockIsHeld == \A p \in Proc : lock = p <=> proc[p].pc = "half"

\* Contents are numbered in the order they are made.
ContentsAreOld == doc <= clock /\ unapproved \subseteq 1..clock

Approved(content) == content <= clock /\ content \notin unapproved

\* A transaction installs what the row it leaves vouches for.
Good(tx) == tx.document = Vouched(tx.after) /\ Approved(tx.document)

JournalIsGood == journal # NoTx => Good(journal)
ProcsAreGood  == \A p \in Proc : proc[p] # ProcIdle => Good(proc[p].tx)

\* Between its two halves the document is the one the row will vouch for.
HalfIsInstalled ==
    \A p \in Proc : proc[p].pc = "half" => doc = proc[p].tx.document \/ byHand

PairInv ==
    /\ TypeOK
    /\ LockIsHeld
    /\ ContentsAreOld
    /\ Approved(Vouched(row))
    /\ JournalIsGood
    /\ ProcsAreGood
    /\ HalfIsInstalled
    /\ DisagreementHasCause

\* The transactions that exist or were settled.
Known == settled \union ({journal} \ {NoTx})
                 \union {proc[p].tx : p \in {q \in Proc : proc[q] # ProcIdle}}

RowIsOld    == row # NoRow => row.stamp <= clock
HalfMatches == \A p \in Proc : proc[p].pc = "half" => Matches(proc[p].tx)

\* Only a create starts from no row, and a transaction renews the stamp.
Ordered(tx) ==
    /\ (tx.before = NoRow) = (tx.action = "create")
    /\ tx.before # NoRow => tx.before.stamp <= clock
    /\ tx.after # NoRow => tx.after.stamp <= clock
    /\ tx.before # NoRow /\ tx.after # NoRow => tx.before.stamp < tx.after.stamp

\* The row is not yet, still, or no longer what the transaction starts from.
Behind(tx) == row = NoRow \/ row = tx.before \/ tx.before.stamp < row.stamp

KnownOrdered == \A tx \in Known : Ordered(tx)
KnownBehind  == \A tx \in Known : tx.before # NoRow => Behind(tx)

\* A row never is again what a settled transaction starts from.
SettledForGood == \A tx \in settled : tx.before # NoRow => row # tx.before

\* As long as a create is not settled there is no row and no other transaction.
CreateComesFirst ==
    \A tx \in Known \ settled : tx.action = "create" => row = NoRow /\ Known = {tx}

OnceInv ==
    /\ HalfMatches
    /\ RowIsOld
    /\ KnownOrdered
    /\ reborn \/ (KnownBehind /\ SettledForGood)
    /\ CreateComesFirst
    /\ born \/ (row = NoRow /\ Known = {})

\* What a process executes is on disk, settled or lost; what it removes is settled.
PendingInv ==
    /\ InterruptedIsPending
    /\ \A p \in Proc :
        /\ proc[p].pc \in {"opened", "half"} =>
               proc[p].tx \in settled \union lost \union {journal}
        /\ proc[p].pc \in {"settled", "compared"} => proc[p].tx \in settled

---------------------------------------------------------------------------
(* What the code's comments and documents say, and the program does not do   *)

\* "An absent path has no remaining intent to execute": once its journal is
\* gone a transaction changes nothing (recover_pair_transactions).
AbsentJournalIsOver ==
    [][\A p \in Proc : WriteRow(p) /\ row' # row => Intent(p) \notin over]_vars

\* "discarded safely": a discarded transaction has done no half of its work
\* (complete_transaction_path, run_transaction).
DiscardIsClean ==
    [][\A p \in Proc : Discard(p) => Intent(p) # half]_vars

\* "changed during recovery and was left in place": the journal that is removed
\* is one that was applied or discarded (remove_transaction_if_unchanged).
ChangedJournalIsLeft ==
    [][journal # NoTx /\ journal' = NoTx => journal \in settled]_vars

\* "A crash at any point leaves the authenticated intent for idempotent
\* completion by the next Manna command": every journal is completed.
IntentIsCompleted == journal # NoTx ~> journal = NoTx
===========================================================================
