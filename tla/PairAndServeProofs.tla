------------------------- MODULE PairAndServeProofs -------------------------
(***************************************************************************)
(* Theorems about two clients of manna's boards that share nothing: the    *)
(* transactions of a handoff pair (MannaPair), for any number of processes,*)
(* kills and changes; and the daemon of one board (ServeBoard): its types, *)
(* that the shared cache is never older than the signature it is kept      *)
(* under, and that the stream's pushes take the steps BoardPage allows,    *)
(* whatever the number of threads, versions and reconciles.  That the last *)
(* version arrives is a matter of fairness and is model-checked.           *)
(***************************************************************************)
EXTENDS MannaPair, ServeBoard, TLAPS


---------------------------------------------------------------------------
(* Facts about values                                                       *)

\* Stamps are numbers and the next one, within the bound, is one.
LEMMA Stamps ==
    ASSUME clock \in Stamp, clock < MaxClock
    PROVE  Now \in Stamp /\ clock <= Now /\ clock < Now /\ 0 \in Stamp
  BY PairBoundAssumption DEF Stamp, Now

\* Stamps are natural numbers.
LEMMA StampsAreNat == Stamp \subseteq Nat
  BY PairBoundAssumption DEF Stamp

\* A process is idle or carries a transaction.
LEMMA Carries ==
    ASSUME NEW s \in ProcState
    PROVE  /\ s # ProcIdle => s.tx \in Tx
           /\ s # ProcIdle => s.pc # "idle"
           /\ s = ProcIdle => s.pc = "idle"
  BY DEF ProcState, ProcIdle

---------------------------------------------------------------------------
(* Types                                                                    *)

\* The transactions that a command prepares.
LEMMA PrepareTypes ==
    ASSUME TypeOK, NEW p \in Proc, NEW tx \in Tx, Prepare(p, tx)
    PROVE  /\ clock' \in Stamp
           /\ proc' \in [Proc -> ProcState]
           /\ UNCHANGED <<filePair, lock, crashes, settled, over, lost, half, byHand, reborn>>
<1>1. clock' \in Stamp
  BY Stamps DEF Prepare, Tick, TypeOK
<1>2. [pc |-> "prepared", tx |-> tx] \in ProcState
  BY DEF ProcState
<1>3. QED
  BY <1>1, <1>2 DEF Prepare, TypeOK

\* Rows made by a command.
LEMMA BoundType ==
    ASSUME TypeOK, Tick, NEW content \in Stamp
    PROVE  Bound(content) \in Row
  BY Stamps DEF Bound, Row, Tick, TypeOK

\* Every command prepares a well-formed transaction.
LEMMA PreparingTypes ==
    ASSUME TypeOK, NEW p \in Proc, Preparing(p)
    PROVE  TypeOK'
<1>0. 0 \in Stamp /\ doc \in Stamp /\ (row # NoRow => row \in Row)
  BY PairBoundAssumption DEF TypeOK, Stamp
<1>1. ASSUME PrepareCreate(p) PROVE TypeOK'
  <2>1. Tick
    BY <1>1 DEF PrepareCreate, Prepare
  <2>2. [action |-> "create", before |-> NoRow, after |-> Bound(Now),
         document |-> Now, archive |-> 0] \in Tx
    BY <1>0, <2>1, BoundType, Stamps DEF Tx, Action, Tick, TypeOK
  <2>3. QED
    BY <1>1, <2>2, PrepareTypes DEF PrepareCreate, TypeOK, filePair
<1>2. ASSUME PrepareAttach(p) PROVE TypeOK'
  <2>1. Tick /\ row \in Row
    BY <1>0, <1>2 DEF PrepareAttach, Prepare
  <2>2. [action |-> "attach", before |-> row, after |-> Bound(Now),
         document |-> Now, archive |-> 0] \in Tx
    BY <1>0, <2>1, BoundType, Stamps DEF Tx, Action, Tick, TypeOK
  <2>3. QED
    BY <1>2, <2>2, PrepareTypes DEF PrepareAttach, TypeOK, filePair
<1>3. ASSUME PrepareUpdate(p) PROVE TypeOK'
  <2>1. PICK content \in {doc, Now} :
            /\ Prepare(p, [action |-> "update", before |-> row, after |-> Bound(content),
                           document |-> content, archive |-> 0])
            /\ unapproved' = unapproved \union (IF doc \in unapproved THEN {content} ELSE {})
    BY <1>3 DEF PrepareUpdate
  <2>2. Tick /\ row \in Row
    BY <1>0, <1>3, <2>1 DEF PrepareUpdate, Prepare, Sealed, IsItem
  <2>3. content \in Stamp
    BY <1>0, <2>2, Stamps DEF Tick, TypeOK
  <2>4. [action |-> "update", before |-> row, after |-> Bound(content),
         document |-> content, archive |-> 0] \in Tx
    BY <1>0, <2>2, <2>3, BoundType DEF Tx, Action
  <2>5. QED
    BY <1>3, <2>1, <2>3, <2>4, PrepareTypes DEF PrepareUpdate, TypeOK, filePair
<1>4. ASSUME PrepareSeal(p) PROVE TypeOK'
  <2>1. Tick /\ row \in Row
    BY <1>0, <1>4 DEF PrepareSeal, Prepare, IsItem
  <2>2. [action |-> "seal", before |-> row, after |-> Bound(doc),
         document |-> doc, archive |-> 0] \in Tx
    BY <1>0, <2>1, BoundType DEF Tx, Action
  <2>3. QED
    BY <1>4, <2>2, PrepareTypes DEF PrepareSeal, TypeOK, filePair
<1>5. ASSUME PrepareDetach(p) PROVE TypeOK'
  <2>1. Tick /\ row \in Row
    BY <1>0, <1>5 DEF PrepareDetach, Prepare, IsItem
  <2>2. [item |-> FALSE, digest |-> 0, stamp |-> Now] \in Row
    BY <1>0, <2>1, Stamps DEF Row, Tick, TypeOK
  <2>3. [action |-> "detach", before |-> row,
         after |-> [item |-> FALSE, digest |-> 0, stamp |-> Now],
         document |-> 0, archive |-> row.stamp] \in Tx
    BY <1>0, <2>1, <2>2 DEF Tx, Action, Row
  <2>4. QED
    BY <1>5, <2>3, PrepareTypes DEF PrepareDetach, TypeOK, filePair
<1>6. ASSUME PrepareDelete(p) PROVE TypeOK'
  <2>1. row \in Row
    BY <1>0, <1>6 DEF PrepareDelete, IsItem
  <2>2. [action |-> "delete", before |-> row, after |-> NoRow,
         document |-> 0, archive |-> row.stamp] \in Tx
    BY <1>0, <2>1 DEF Tx, Action, Row
  <2>3. QED
    BY <1>6, <2>2, PrepareTypes DEF PrepareDelete, TypeOK, filePair
<1>7. QED
  BY <1>1, <1>2, <1>3, <1>4, <1>5, <1>6 DEF Preparing

\* A process goes idle, goes on, or opens the journal.
LEMMA ProcTypes ==
    ASSUME TypeOK, NEW p \in Proc
    PROVE  /\ Become(p, ProcIdle) => proc' \in [Proc -> ProcState]
           /\ \A tx \in Tx : Become(p, [pc |-> "opened", tx |-> tx])
                                => proc' \in [Proc -> ProcState]
           /\ \A at \in {"published", "half", "settled", "compared"} :
                Advance(p, at) /\ proc[p] # ProcIdle => proc' \in [Proc -> ProcState]
<1>1. ProcIdle \in ProcState
  BY DEF ProcState
<1>2. \A tx \in Tx : [pc |-> "opened", tx |-> tx] \in ProcState
  BY DEF ProcState
<1>3. \A at \in {"published", "half", "settled", "compared"} :
        proc[p] # ProcIdle => [proc[p] EXCEPT !.pc = at] \in ProcState
  BY DEF ProcState, TypeOK
<1>4. QED
  BY <1>1, <1>2, <1>3 DEF Become, Advance, TypeOK

\* Publishing, executing and removing a journal keeps the types.
LEMMA ExecutingTypes ==
    ASSUME TypeOK, NEW p \in Proc, Publish(p) \/ OpenFound(p) \/ Executing(p)
    PROVE  TypeOK'
<1>0. proc[p] \in ProcState /\ (proc[p] # ProcIdle => Intent(p) \in Tx)
  BY Carries DEF TypeOK, Intent
<1>1. CASE Publish(p)
  <2>1. proc[p] # ProcIdle
    BY <1>1, Carries, <1>0 DEF Publish, ProcIdle
  <2>2. QED
    BY <1>0, <1>1, <2>1, ProcTypes DEF Publish, TypeOK, Intent, history
<1>2. CASE OpenOwn(p)
  BY <1>2, ProcTypes DEF OpenOwn, TypeOK, filePair, history
<1>3. CASE OpenFound(p)
  BY <1>3, ProcTypes DEF OpenFound, TypeOK, filePair, history
<1>4. CASE FileHalf(p)
  <2>1. proc[p] # ProcIdle
    BY <1>4 DEF FileHalf, ProcIdle
  <2>2. Intent(p).document \in Stamp /\ Intent(p).archive \in Stamp
    BY <1>0, <2>1 DEF Tx
  <2>3. archive' \in [Stamp -> Stamp]
    BY <1>4, <2>2 DEF FileHalf, TypeOK
  <2>4. QED
    BY <1>4, <2>1, <2>2, <2>3, ProcTypes DEF FileHalf, TypeOK
<1>5. CASE FailFileHalf(p)
  BY <1>5, ProcTypes DEF FailFileHalf, TypeOK, filePair, history
<1>6. CASE WriteRow(p)
  <2>1. proc[p] # ProcIdle
    BY <1>6 DEF WriteRow, ProcIdle
  <2>2. Intent(p) \in Tx /\ Intent(p).after \in Row \union {NoRow}
    BY <1>0, <2>1 DEF Tx
  <2>3. QED
    BY <1>6, <2>1, <2>2, ProcTypes DEF WriteRow, TypeOK
<1>7. CASE Discard(p)
  <2>1. proc[p] # ProcIdle
    BY <1>7 DEF Discard, ProcIdle
  <2>2. QED
    BY <1>0, <1>7, <2>1, ProcTypes DEF Discard, TypeOK, filePair
<1>8. CASE CompareJournal(p)
  <2>1. proc[p] # ProcIdle
    BY <1>8 DEF CompareJournal, ProcIdle
  <2>2. QED
    BY <1>8, <2>1, ProcTypes DEF CompareJournal, TypeOK, filePair, history
<1>9. CASE UnlinkJournal(p)
  BY <1>9, ProcTypes DEF UnlinkJournal, TypeOK
<1>10. QED
  BY <1>1, <1>2, <1>3, <1>4, <1>5, <1>6, <1>7, <1>8, <1>9 DEF Executing

\* Kills, other commands and hands keep the types.
LEMMA DisturbanceTypes ==
    ASSUME TypeOK, (\E p \in Proc : Crash(p)) \/ Touch \/ DeletePlain \/ EditByHand
    PROVE  TypeOK'
<1>1. ASSUME NEW p \in Proc, Crash(p) PROVE TypeOK'
  <2>1. Intent(p) \in Tx
    BY <1>1, Carries DEF Crash, TypeOK, Intent
  <2>2. crashes' \in 0..MaxCrash
    BY <1>1, PairBoundAssumption DEF Crash, TypeOK
  <2>3. half' \in Tx \union {NoTx}
    BY <1>1, <2>1 DEF Crash, TypeOK
  <2>4. QED
    BY <1>1, <2>2, <2>3, ProcTypes DEF Crash, TypeOK, filePair
<1>2. ASSUME Touch PROVE TypeOK'
  <2>1. Now \in Stamp
    BY <1>2, Stamps DEF Touch, Tick, TypeOK
  <2>2. row' \in Row
    BY <1>2, <2>1 DEF Touch, TypeOK, Row
  <2>3. QED
    BY <1>2, <2>1, <2>2 DEF Touch, Tick, TypeOK, history
<1>3. ASSUME DeletePlain PROVE TypeOK'
  BY <1>3 DEF DeletePlain, TypeOK, history
<1>4. ASSUME EditByHand PROVE TypeOK'
  <2>1. Now \in Stamp
    BY <1>4, Stamps DEF EditByHand, Tick, TypeOK
  <2>2. QED
    BY <1>4, <2>1 DEF EditByHand, Tick, TypeOK
<1>5. QED
  BY <1>1, <1>2, <1>3, <1>4

\* The initial states are typed.
LEMMA InitialTypes ==
    ASSUME Init
    PROVE  TypeOK
<1>1. 0 \in Stamp /\ 1 \in Stamp
  BY PairBoundAssumption DEF Stamp
<1>2. row \in Row \union {NoRow}
  <2>1. /\ [item |-> FALSE, digest |-> 0, stamp |-> 0] \in Row
        /\ [item |-> TRUE, digest |-> 1, stamp |-> 0] \in Row
    BY <1>1 DEF Row
  <2>2. \/ row = NoRow
        \/ row = [item |-> FALSE, digest |-> 0, stamp |-> 0]
        \/ row = [item |-> TRUE, digest |-> 1, stamp |-> 0]
    BY DEF Init
  <2>3. QED
    BY <2>1, <2>2
<1>3. doc \in Stamp /\ clock \in Stamp
  BY <1>1, <1>2 DEF Init, IsItem, Row
<1>4. crashes \in 0..MaxCrash
  BY PairBoundAssumption DEF Init
<1>5. archive \in [Stamp -> Stamp]
  BY <1>1 DEF Init
<1>6. proc \in [Proc -> ProcState]
  BY DEF Init, ProcState
<1>7. QED
  BY <1>2, <1>3, <1>4, <1>5, <1>6 DEF Init, TypeOK

\* Every step keeps the types.
LEMMA TypeStep ==
    ASSUME TypeOK, [Next]_vars
    PROVE  TypeOK'
<1>1. CASE Next
  BY <1>1, PreparingTypes, ExecutingTypes, DisturbanceTypes DEF Next
<1>2. CASE UNCHANGED vars
  BY <1>2 DEF vars, filePair, history, TypeOK
<1>3. QED
  BY <1>1, <1>2

\* Every variable keeps its type in every behaviour.
THEOREM TypeCorrect == Spec => []TypeOK
<1>1. Init => TypeOK
  BY InitialTypes
<1>2. TypeOK /\ [Next]_vars => TypeOK'
  BY TypeStep
<1>3. QED
  BY <1>1, <1>2, PTL DEF Spec

---------------------------------------------------------------------------
(* The row and its document                                                 *)

\* What is approved stays approved when nothing is edited.
LEMMA ApprovedStays ==
    ASSUME clock \in Nat, clock' \in Nat, clock <= clock', unapproved' \subseteq unapproved,
           NEW content \in Nat, Approved(content)
    PROVE  content <= clock' /\ content \notin unapproved'
  BY DEF Approved

\* The contents that rows and transactions name are numbers.
LEMMA ContentTypes ==
    /\ \A r \in Row \union {NoRow} : Vouched(r) \in Nat
    /\ \A tx \in Tx : tx.document \in Nat /\ Vouched(tx.after) \in Nat
<1>1. \A r \in Row \union {NoRow} : Vouched(r) \in Nat
  BY StampsAreNat DEF Vouched, Row
<1>2. \A tx \in Tx : tx.document \in Nat /\ tx.after \in Row \union {NoRow}
  BY StampsAreNat DEF Tx
<1>3. QED
  BY <1>1, <1>2

\* A prepared transaction that installs what it vouches for, and nothing that
\* was edited by hand, keeps the invariant.
LEMMA PrepareKeeps ==
    ASSUME PairInv, TypeOK', NEW p \in Proc, NEW tx \in Tx, Prepare(p, tx),
           unapproved' \subseteq unapproved,
           tx.document = Vouched(tx.after),
           tx.document <= clock', tx.document \notin unapproved'
    PROVE  PairInv'
<1> USE DEF PairInv
<1>1. /\ clock \in Nat /\ clock' = clock + 1 /\ clock <= clock'
      /\ UNCHANGED <<row, doc, journal, lock, half, byHand>>
      /\ proc[p].pc = "idle"
      /\ proc' = [proc EXCEPT ![p] = [pc |-> "prepared", tx |-> tx]]
  BY StampsAreNat DEF Prepare, Tick, Now, filePair, TypeOK, ProcIdle
<1>2. /\ proc'[p] = [pc |-> "prepared", tx |-> tx]
      /\ \A q \in Proc : q # p => proc'[q] = proc[q]
  BY <1>1 DEF TypeOK
<1>3. \A t \in Tx : Good(t) => Good(t)'
  BY <1>1, ContentTypes, ApprovedStays DEF Good, Approved, Vouched
<1>4. LockIsHeld'
  BY <1>1, <1>2 DEF LockIsHeld
<1>5. ContentsAreOld'
  <2>1. doc \in Nat /\ doc <= clock'
    BY <1>1, StampsAreNat DEF ContentsAreOld, TypeOK
  <2>2. 1..clock \subseteq 1..clock'
    BY <1>1
  <2>3. QED
    BY <1>1, <2>1, <2>2 DEF ContentsAreOld
<1>6. Approved(Vouched(row))'
  <2>1. Vouched(row) \in Nat /\ Approved(Vouched(row))
    BY ContentTypes DEF TypeOK
  <2>2. Vouched(row) <= clock' /\ Vouched(row) \notin unapproved'
    BY <1>1, <2>1 DEF Approved
  <2>3. QED
    BY <1>1, <2>2 DEF Approved, Vouched
<1>7. JournalIsGood'
  BY <1>1, <1>3 DEF JournalIsGood, TypeOK
<1>8. ProcsAreGood'
  <2>1. Good(tx)'
    BY DEF Good, Approved, Vouched
  <2>2. \A q \in Proc : proc[q] # ProcIdle => proc[q].tx \in Tx
    BY Carries DEF TypeOK
  <2>3. QED
    BY <1>2, <1>3, <2>1, <2>2 DEF ProcsAreGood
<1>9. HalfIsInstalled'
  BY <1>1, <1>2 DEF HalfIsInstalled
<1>10. DisagreementHasCause'
  BY <1>1 DEF DisagreementHasCause, Disagree, Vouched
<1>11. QED
  BY <1>4, <1>5, <1>6, <1>7, <1>8, <1>9, <1>10

\* What each command prepares: fresh content, the sealed document, the document
\* that is being sealed, or none.
LEMMA PreparingKeeps ==
    ASSUME PairInv, TypeOK', NEW p \in Proc, Preparing(p)
    PROVE  PairInv'
<1> USE DEF PairInv
<1>0. /\ clock \in Nat /\ doc \in Nat /\ doc <= clock
      /\ unapproved \subseteq 1..clock
      /\ 0 \in Stamp /\ doc \in Stamp /\ (row # NoRow => row \in Row)
  BY StampsAreNat, PairBoundAssumption DEF TypeOK, ContentsAreOld, Stamp
<1>1. ASSUME Tick PROVE Now \in Stamp /\ clock' = clock + 1 /\ Now = clock + 1 /\ Now \notin unapproved
  BY <1>0, <1>1, Stamps DEF Tick, Now, TypeOK
<1>2. \A content \in Stamp : Tick => Bound(content) \in Row /\ Vouched(Bound(content)) = content
  <2>1. \A content \in Stamp : Tick => Bound(content) \in Row
    BY BoundType
  <2>2. QED
    BY <2>1, NoValueAssumption DEF Vouched, Bound
<1>3. CASE PrepareCreate(p)
  <2> DEFINE tx == [action |-> "create", before |-> NoRow, after |-> Bound(Now),
                    document |-> Now, archive |-> 0]
  <2>1. Prepare(p, tx) /\ Tick /\ UNCHANGED unapproved
    BY <1>3 DEF PrepareCreate, Prepare
  <2>2. tx \in Tx
    BY <1>0, <1>1, <1>2, <2>1 DEF Tx, Action
  <2>3. tx.document = Vouched(tx.after) /\ tx.document <= clock' /\ tx.document \notin unapproved'
    BY <1>0, <1>1, <1>2, <2>1
  <2>4. QED
    BY <2>1, <2>2, <2>3, PrepareKeeps
<1>4. CASE PrepareAttach(p)
  <2> DEFINE tx == [action |-> "attach", before |-> row, after |-> Bound(Now),
                    document |-> Now, archive |-> 0]
  <2>1. Prepare(p, tx) /\ Tick /\ row # NoRow /\ UNCHANGED unapproved
    BY <1>4 DEF PrepareAttach, Prepare
  <2>2. tx \in Tx
    BY <1>0, <1>1, <1>2, <2>1 DEF Tx, Action
  <2>3. tx.document = Vouched(tx.after) /\ tx.document <= clock' /\ tx.document \notin unapproved'
    BY <1>0, <1>1, <1>2, <2>1
  <2>4. QED
    BY <2>1, <2>2, <2>3, PrepareKeeps
<1>5. CASE PrepareUpdate(p)
  <2> DEFINE tx(content) == [action |-> "update", before |-> row, after |-> Bound(content),
                             document |-> content, archive |-> 0]
  <2>1. PICK content \in {doc, Now} :
            /\ Prepare(p, tx(content))
            /\ unapproved' = unapproved \union (IF doc \in unapproved THEN {content} ELSE {})
    BY <1>5 DEF PrepareUpdate
  <2>2. Tick /\ row # NoRow /\ doc = Vouched(row)
    BY <1>5, <2>1 DEF PrepareUpdate, Prepare, Sealed, IsItem, Vouched
  <2>3. doc \notin unapproved /\ unapproved' = unapproved
    BY <2>1, <2>2 DEF Approved
  <2>4. content \in Stamp /\ content <= clock' /\ content \notin unapproved
    BY <1>0, <1>1, <2>2, <2>3
  <2>5. tx(content) \in Tx
    BY <1>0, <1>2, <2>2, <2>4 DEF Tx, Action
  <2>6. tx(content).document = Vouched(tx(content).after)
    BY <1>2, <2>2, <2>4
  <2>7. QED
    BY <2>1, <2>3, <2>4, <2>5, <2>6, PrepareKeeps
<1>6. CASE PrepareSeal(p)
  <2> DEFINE tx == [action |-> "seal", before |-> row, after |-> Bound(doc),
                    document |-> doc, archive |-> 0]
  <2>1. Prepare(p, tx) /\ Tick /\ row # NoRow /\ unapproved' = unapproved \ {doc}
    BY <1>6 DEF PrepareSeal, Prepare, IsItem
  <2>2. tx \in Tx
    BY <1>0, <1>2, <2>1 DEF Tx, Action
  <2>3. tx.document = Vouched(tx.after) /\ tx.document <= clock' /\ tx.document \notin unapproved'
    BY <1>0, <1>1, <1>2, <2>1
  <2>4. QED
    BY <2>1, <2>2, <2>3, PrepareKeeps
<1>7. CASE PrepareDetach(p)
  <2> DEFINE after == [item |-> FALSE, digest |-> 0, stamp |-> Now]
             tx    == [action |-> "detach", before |-> row, after |-> after,
                       document |-> 0, archive |-> row.stamp]
  <2>1. Prepare(p, tx) /\ Tick /\ row # NoRow /\ UNCHANGED unapproved
    BY <1>7 DEF PrepareDetach, Prepare, IsItem
  <2>2. after \in Row /\ Vouched(after) = 0
    BY <1>0, <1>1, <2>1 DEF Row, Vouched
  <2>3. tx \in Tx
    BY <1>0, <2>1, <2>2 DEF Tx, Action, Row
  <2>4. tx.document = Vouched(tx.after) /\ tx.document <= clock' /\ tx.document \notin unapproved'
    BY <1>0, <1>1, <2>1, <2>2
  <2>5. QED
    BY <2>1, <2>3, <2>4, PrepareKeeps
<1>8. CASE PrepareDelete(p)
  <2> DEFINE tx == [action |-> "delete", before |-> row, after |-> NoRow,
                    document |-> 0, archive |-> row.stamp]
  <2>1. Prepare(p, tx) /\ Tick /\ row # NoRow /\ UNCHANGED unapproved
    BY <1>8 DEF PrepareDelete, Prepare, IsItem
  <2>2. tx \in Tx
    BY <1>0, <2>1 DEF Tx, Action, Row
  <2>3. tx.document = Vouched(tx.after) /\ tx.document <= clock' /\ tx.document \notin unapproved'
    BY <1>0, <1>1, <2>1 DEF Vouched
  <2>4. QED
    BY <2>1, <2>2, <2>3, PrepareKeeps
<1>9. QED
  BY <1>3, <1>4, <1>5, <1>6, <1>7, <1>8 DEF Preparing

\* A step that edits nothing and makes nothing keeps what is approved.
LEMMA NothingEdited ==
    ASSUME PairInv, UNCHANGED <<clock, unapproved>>
    PROVE  /\ \A tx : Good(tx) => Good(tx)'
           /\ \A content : Approved(content) => Approved(content)'
  BY DEF Good, Approved, Vouched

\* The step of one process leaves the others alone.
LEMMA OneProcess ==
    ASSUME TypeOK, NEW p \in Proc, NEW s,
           Become(p, s) \/ (\E at : s = [proc[p] EXCEPT !.pc = at] /\ Advance(p, at))
    PROVE  proc'[p] = s /\ \A q \in Proc : q # p => proc'[q] = proc[q]
  BY DEF Become, Advance, TypeOK

\* What a process that goes on carries.
LEMMA Advancing ==
    ASSUME TypeOK, NEW p \in Proc, proc[p] # ProcIdle, NEW at, Advance(p, at)
    PROVE  /\ proc'[p].pc = at /\ proc'[p].tx = proc[p].tx
           /\ \A q \in Proc : q # p => proc'[q] = proc[q]
<1>1. proc[p] \in [pc : {"prepared", "published", "opened", "half", "settled", "compared"}, tx : Tx]
  BY DEF TypeOK, ProcState
<1>2. QED
  BY <1>1 DEF Advance, TypeOK

\* A process that moves between states without the lock, carrying a good
\* transaction if any, disturbs nothing.
LEMMA MovesOnly ==
    ASSUME PairInv, TypeOK', NEW p \in Proc,
           UNCHANGED <<row, doc, lock, clock, half, byHand, unapproved>>,
           journal' = NoTx \/ Good(journal'),
           \A q \in Proc : q # p => proc'[q] = proc[q],
           proc[p].pc # "half", proc'[p].pc # "half",
           proc'[p] # ProcIdle => Good(proc'[p].tx)
    PROVE  PairInv'
<1> USE DEF PairInv
<1>1. LockIsHeld'
  BY DEF LockIsHeld
<1>2. ContentsAreOld' /\ Approved(Vouched(row))'
  BY DEF ContentsAreOld, Approved, Vouched
<1>3. JournalIsGood'
  BY DEF JournalIsGood, Good, Approved, Vouched
<1>4. ProcsAreGood'
  BY DEF ProcsAreGood, Good, Approved, Vouched
<1>5. HalfIsInstalled'
  BY DEF HalfIsInstalled
<1>6. DisagreementHasCause'
  BY DEF DisagreementHasCause, Disagree, Vouched
<1>7. QED
  BY <1>1, <1>2, <1>3, <1>4, <1>5, <1>6

\* Publishing, opening, discarding and removing a journal.
LEMMA MovingKeeps ==
    ASSUME PairInv, TypeOK', NEW p \in Proc,
           \/ Publish(p) \/ OpenOwn(p) \/ OpenFound(p) \/ FailFileHalf(p)
           \/ Discard(p) \/ CompareJournal(p) \/ UnlinkJournal(p)
    PROVE  PairInv'
<1> USE DEF PairInv
<1>0. /\ journal # NoTx => Good(journal)
      /\ proc[p] # ProcIdle => Good(proc[p].tx)
      /\ ProcIdle.pc = "idle"
  BY DEF JournalIsGood, ProcsAreGood, ProcIdle
<1>1. CASE Publish(p)
  <2>1. proc[p] # ProcIdle /\ proc[p].pc # "half"
    BY <1>0, <1>1 DEF Publish
  <2>2. CASE journal = NoTx
    <3>1. Advance(p, "published") /\ journal' = proc[p].tx
      BY <1>1, <2>2 DEF Publish
    <3>2. QED
      BY <1>0, <1>1, <2>1, <3>1, Advancing, MovesOnly DEF Publish, history
  <2>3. CASE journal # NoTx
    <3>1. Become(p, ProcIdle) /\ UNCHANGED journal
      BY <1>1, <2>3 DEF Publish
    <3>2. QED
      BY <1>0, <1>1, <2>1, <3>1, OneProcess, MovesOnly DEF Publish, history
  <2>4. QED
    BY <2>2, <2>3
<1>2. CASE OpenOwn(p)
  <2>1. proc[p].pc # "half"
    BY <1>2 DEF OpenOwn
  <2>2. CASE journal = NoTx
    <3>1. Become(p, ProcIdle) /\ UNCHANGED journal
      BY <1>2, <2>2 DEF OpenOwn, filePair
    <3>2. QED
      BY <1>0, <1>2, <2>1, <3>1, OneProcess, MovesOnly DEF OpenOwn, filePair, history
  <2>3. CASE journal # NoTx
    <3>1. Become(p, [pc |-> "opened", tx |-> journal]) /\ UNCHANGED journal
      BY <1>2, <2>3 DEF OpenOwn, filePair
    <3>2. proc'[p] = [pc |-> "opened", tx |-> journal]
          /\ \A q \in Proc : q # p => proc'[q] = proc[q]
      BY <3>1, OneProcess
    <3>3. QED
      BY <1>0, <1>2, <2>1, <2>3, <3>1, <3>2, MovesOnly DEF OpenOwn, filePair, history
  <2>4. QED
    BY <2>2, <2>3
<1>3. CASE OpenFound(p)
  <2>1. Become(p, [pc |-> "opened", tx |-> journal]) /\ UNCHANGED journal
    BY <1>3 DEF OpenFound, filePair
  <2>2. proc'[p] = [pc |-> "opened", tx |-> journal]
        /\ \A q \in Proc : q # p => proc'[q] = proc[q]
    BY <2>1, OneProcess
  <2>3. QED
    BY <1>0, <1>3, <2>1, <2>2, MovesOnly DEF OpenFound, filePair, history
<1>4. CASE FailFileHalf(p)
  BY <1>0, <1>4, OneProcess, MovesOnly DEF FailFileHalf, filePair, history
<1>5. CASE Discard(p)
  <2>1. proc[p] # ProcIdle /\ proc[p].pc # "half"
    BY <1>0, <1>5 DEF Discard
  <2>2. QED
    BY <1>0, <1>5, <2>1, Advancing, MovesOnly DEF Discard, filePair
<1>6. CASE CompareJournal(p)
  <2>1. proc[p] # ProcIdle /\ proc[p].pc # "half"
    BY <1>0, <1>6 DEF CompareJournal
  <2>2. CASE journal = Intent(p)
    BY <1>0, <1>6, <2>1, <2>2, Advancing, MovesOnly DEF CompareJournal, filePair, history
  <2>3. CASE journal # Intent(p)
    BY <1>0, <1>6, <2>1, <2>3, OneProcess, MovesOnly DEF CompareJournal, filePair, history
  <2>4. QED
    BY <2>2, <2>3
<1>7. CASE UnlinkJournal(p)
  BY <1>0, <1>7, OneProcess, MovesOnly DEF UnlinkJournal
<1>8. QED
  BY <1>1, <1>2, <1>3, <1>4, <1>5, <1>6, <1>7

\* The two halves of a transaction, a kill between them included.
LEMMA HalvesKeep ==
    ASSUME PairInv, TypeOK', NEW p \in Proc, FileHalf(p) \/ WriteRow(p) \/ Crash(p)
    PROVE  PairInv'
<1> USE DEF PairInv
<1>0. /\ proc[p] # ProcIdle /\ Good(proc[p].tx) /\ proc[p].tx \in Tx /\ p # NoProc
      /\ journal # NoTx => Good(journal)
      /\ ProcIdle.pc = "idle"
  BY Carries, NoProcAssumption
     DEF FileHalf, WriteRow, Crash, JournalIsGood, ProcsAreGood, ProcIdle, TypeOK
<1>1. CASE FileHalf(p)
  <2>1. /\ proc'[p].pc = "half" /\ proc'[p].tx = proc[p].tx
        /\ \A q \in Proc : q # p => proc'[q] = proc[q]
        /\ proc[p].pc = "opened"
    BY <1>0, <1>1, Advancing DEF FileHalf
  <2>2. LockIsHeld'
    BY NoProcAssumption, <1>0, <1>1, <2>1 DEF FileHalf, LockIsHeld
  <2>3. ContentsAreOld'
    BY <1>0, <1>1 DEF FileHalf, ContentsAreOld, Good, Approved, Intent
  <2>4. Approved(Vouched(row))' /\ JournalIsGood' /\ ProcsAreGood'
    BY <1>0, <1>1, <2>1
       DEF FileHalf, JournalIsGood, ProcsAreGood, Good, Approved, Vouched
  <2>5. HalfIsInstalled'
    BY NoProcAssumption, <1>0, <1>1, <2>1 DEF FileHalf, HalfIsInstalled, LockIsHeld, Intent
  <2>6. DisagreementHasCause'
    BY <1>0, <1>1 DEF FileHalf, DisagreementHasCause, Disagree
  <2>7. QED
    BY <2>2, <2>3, <2>4, <2>5, <2>6
<1>2. CASE WriteRow(p)
  <2>1. /\ proc'[p].pc = "settled" /\ proc'[p].tx = proc[p].tx
        /\ \A q \in Proc : q # p => proc'[q] = proc[q]
        /\ proc[p].pc = "half" /\ lock = p
    BY <1>0, <1>2, Advancing DEF WriteRow, LockIsHeld
  <2>2. LockIsHeld'
    BY <1>0, <1>2, <2>1, NoProcAssumption DEF WriteRow, LockIsHeld
  <2>3. row' = proc[p].tx.after /\ Vouched(row') = proc[p].tx.document
        /\ UNCHANGED <<doc, journal, clock, half, byHand, unapproved>>
    BY <1>0, <1>2 DEF WriteRow, Good, Intent
  <2>4. ContentsAreOld' /\ JournalIsGood' /\ ProcsAreGood'
    BY <1>0, <2>1, <2>3 DEF ContentsAreOld, JournalIsGood, ProcsAreGood, Good, Approved, Vouched
  <2>5. Approved(Vouched(row))'
    BY <1>0, <2>3 DEF Good, Approved, Vouched
  <2>6. HalfIsInstalled'
    BY <2>1, <2>3 DEF HalfIsInstalled
  <2>7. DisagreementHasCause'
    BY <2>1, <2>3 DEF HalfIsInstalled, DisagreementHasCause, Disagree, Vouched
  <2>8. QED
    BY <2>2, <2>4, <2>5, <2>6, <2>7
<1>3. CASE Crash(p)
  <2>1. /\ proc'[p] = ProcIdle
        /\ \A q \in Proc : q # p => proc'[q] = proc[q]
        /\ lock' = (IF lock = p THEN NoProc ELSE lock)
        /\ half' = (IF proc[p].pc = "half" /\ row # Intent(p).after THEN Intent(p) ELSE half)
        /\ UNCHANGED <<row, doc, journal, clock, byHand, unapproved>>
    BY <1>3, OneProcess DEF Crash, filePair
  <2>2. LockIsHeld'
    BY <1>0, <2>1, NoProcAssumption DEF LockIsHeld
  <2>3. ContentsAreOld' /\ Approved(Vouched(row))' /\ JournalIsGood' /\ ProcsAreGood'
    BY <2>1 DEF ContentsAreOld, JournalIsGood, ProcsAreGood, Good, Approved, Vouched
  <2>4. HalfIsInstalled'
    BY <1>0, <2>1 DEF HalfIsInstalled
  <2>5. DisagreementHasCause'
    <3>1. CASE proc[p].pc = "half" /\ row # Intent(p).after
      BY <1>0, <2>1, <3>1, NoValueAssumption DEF DisagreementHasCause, Intent
    <3>2. CASE proc[p].pc = "half" /\ row = Intent(p).after
      <4>1. Vouched(row) = proc[p].tx.document
        BY <1>0, <3>2 DEF Good, Intent
      <4>2. doc = proc[p].tx.document \/ byHand
        BY <3>2 DEF HalfIsInstalled
      <4>3. QED
        BY <2>1, <4>1, <4>2 DEF DisagreementHasCause, Disagree, Vouched
    <3>3. CASE proc[p].pc # "half"
      <4>1. lock' = lock /\ half' = half
        BY <2>1, <3>3 DEF LockIsHeld
      <4>2. QED
        BY <2>1, <4>1 DEF DisagreementHasCause, Disagree, Vouched
    <3>4. QED
      BY <3>1, <3>2, <3>3
  <2>6. QED
    BY <2>2, <2>3, <2>4, <2>5
<1>4. QED
  BY <1>1, <1>2, <1>3

\* Another change of the row, and an edit of the document.
LEMMA OthersKeep ==
    ASSUME PairInv, TypeOK', Touch \/ DeletePlain \/ EditByHand
    PROVE  PairInv'
<1> USE DEF PairInv
<1>0. /\ clock \in Nat /\ Now = clock + 1 /\ doc \in Nat
      /\ unapproved \subseteq 1..clock /\ doc <= clock
      /\ Vouched(row) \in Nat /\ NoRow \notin Row
      /\ row # NoRow => row \in Row
  BY StampsAreNat, ContentTypes, NoValueAssumption DEF TypeOK, Now, ContentsAreOld
<1>1. CASE Touch
  <2>1. /\ clock' = clock + 1 /\ row \in Row
        /\ row' = [row EXCEPT !.stamp = Now]
        /\ UNCHANGED <<doc, journal, lock, proc, half, byHand, unapproved>>
    BY <1>0, <1>1 DEF Touch, Tick, history
  <2>2. row' # NoRow /\ Vouched(row') = Vouched(row)
    <3>1. row' \in Row /\ row'.item = row.item /\ row'.digest = row.digest
      BY <1>0, <2>1 DEF TypeOK, Row
    <3>2. QED
      BY <1>0, <2>1, <3>1 DEF Vouched
  <2>3. \A tx \in Tx : Good(tx) => Good(tx)'
    BY <1>0, <2>1, ContentTypes DEF Good, Approved, Vouched
  <2>4. LockIsHeld' /\ HalfIsInstalled'
    BY <2>1 DEF LockIsHeld, HalfIsInstalled
  <2>5. ContentsAreOld'
    BY <1>0, <2>1 DEF ContentsAreOld
  <2>6. Approved(Vouched(row))'
    BY <1>0, <2>1, <2>2 DEF Approved, Vouched
  <2>7. JournalIsGood' /\ ProcsAreGood'
    BY <2>1, <2>3, Carries DEF JournalIsGood, ProcsAreGood, TypeOK
  <2>8. DisagreementHasCause'
    BY <2>1, <2>2 DEF DisagreementHasCause, Disagree, Vouched
  <2>9. QED
    BY <2>4, <2>5, <2>6, <2>7, <2>8
<1>2. CASE DeletePlain
  <2>1. /\ row' = NoRow
        /\ UNCHANGED <<doc, journal, lock, proc, clock, half, byHand, unapproved>>
    BY <1>2 DEF DeletePlain, history
  <2>2. Vouched(row') = 0 /\ Vouched(row) = 0
    BY <1>2, <2>1 DEF Vouched, DeletePlain
  <2>3. LockIsHeld' /\ HalfIsInstalled' /\ ContentsAreOld' /\ JournalIsGood' /\ ProcsAreGood'
    BY <2>1 DEF LockIsHeld, HalfIsInstalled, ContentsAreOld, JournalIsGood, ProcsAreGood,
                Good, Approved, Vouched
  <2>4. Approved(Vouched(row))' /\ DisagreementHasCause'
    BY <2>1, <2>2 DEF Approved, DisagreementHasCause, Disagree, Vouched
  <2>5. QED
    BY <2>3, <2>4
<1>3. CASE EditByHand
  <2>1. /\ clock' = clock + 1 /\ doc' = clock + 1 /\ byHand' = TRUE
        /\ unapproved' = unapproved \union {clock + 1}
        /\ UNCHANGED <<row, journal, lock, proc, half>>
    BY <1>0, <1>3 DEF EditByHand, Tick
  <2>2. \A tx \in Tx : Good(tx) => Good(tx)'
    BY <1>0, <2>1, ContentTypes DEF Good, Approved, Vouched
  <2>3. LockIsHeld' /\ HalfIsInstalled' /\ DisagreementHasCause'
    BY <2>1 DEF LockIsHeld, HalfIsInstalled, DisagreementHasCause
  <2>4. ContentsAreOld'
    BY <1>0, <2>1 DEF ContentsAreOld
  <2>5. Approved(Vouched(row))'
    BY <1>0, <2>1 DEF Approved, Vouched
  <2>6. JournalIsGood' /\ ProcsAreGood'
    BY <2>1, <2>2, Carries DEF JournalIsGood, ProcsAreGood, TypeOK
  <2>7. QED
    BY <2>3, <2>4, <2>5, <2>6
<1>4. QED
  BY <1>1, <1>2, <1>3

\* The initial states satisfy the invariant.
LEMMA InitialPair ==
    ASSUME Init
    PROVE  PairInv
<1>1. TypeOK
  BY InitialTypes
<1>2. \/ row = NoRow
      \/ row = [item |-> FALSE, digest |-> 0, stamp |-> 0]
      \/ row = [item |-> TRUE, digest |-> 1, stamp |-> 0]
  BY DEF Init
<1>3. /\ doc = Vouched(row)
      /\ clock = doc \/ (doc = 0 /\ clock = 0)
      /\ unapproved = {}
  BY <1>2 DEF Init, IsItem, Vouched
<1>4. LockIsHeld /\ JournalIsGood /\ ProcsAreGood /\ HalfIsInstalled
  BY NoProcAssumption DEF Init, LockIsHeld, JournalIsGood, ProcsAreGood, HalfIsInstalled, ProcIdle
<1>5. ContentsAreOld /\ Approved(Vouched(row))
  BY <1>1, <1>3, StampsAreNat DEF ContentsAreOld, Approved, TypeOK
<1>6. DisagreementHasCause
  BY <1>3 DEF DisagreementHasCause, Disagree
<1>7. QED
  BY <1>1, <1>4, <1>5, <1>6, <1>3 DEF PairInv

\* Every step keeps the invariant.
LEMMA PairStep ==
    ASSUME PairInv, [Next]_vars
    PROVE  PairInv'
<1>1. TypeOK'
  BY TypeStep DEF PairInv
<1>2. CASE Next
  BY <1>1, <1>2, PreparingKeeps, MovingKeeps, HalvesKeep, OthersKeep DEF Next, Executing
<1>3. CASE UNCHANGED vars
  BY <1>1, <1>3
     DEF vars, filePair, history, PairInv, LockIsHeld, ContentsAreOld, Approved, Vouched,
         JournalIsGood, ProcsAreGood, Good, HalfIsInstalled, DisagreementHasCause, Disagree
<1>4. QED
  BY <1>2, <1>3

\* The inductive invariant holds in every reachable state: the lock is held by
\* the process between its two halves, every transaction installs what the row
\* it leaves vouches for, and no row or transaction vouches for an edit that
\* nobody sealed.
THEOREM PairInvariant == Spec => []PairInv
<1>1. Init => PairInv
  BY InitialPair
<1>2. PairInv /\ [Next]_vars => PairInv'
  BY PairStep
<1>3. QED
  BY <1>1, <1>2, PTL DEF Spec

\* Only a kill between the halves or a hand edit makes a row and its document
\* disagree, whoever executes the journals and however late.
THEOREM OnlyKillsAndHandsDisagree == Spec => []DisagreementHasCause
<1>1. PairInv => DisagreementHasCause
  BY DEF PairInv
<1>2. QED
  BY <1>1, PairInvariant, PTL

\* No row vouches for hand-edited content that was not sealed explicitly.
THEOREM OnlySealApproves == Spec => []ScopeIsApproved
<1>1. PairInv => ScopeIsApproved
  BY DEF PairInv, ScopeIsApproved, IsItem, Approved, Vouched
<1>2. QED
  BY <1>1, PairInvariant, PTL

---------------------------------------------------------------------------
(* A transaction takes effect once                                          *)

\* What is known: the journal, what processes carry, what was settled.
LEMMA KnownParts ==
    /\ journal # NoTx => journal \in Known
    /\ \A p \in Proc : proc[p] # ProcIdle => proc[p].tx \in Known
    /\ settled \subseteq Known
  BY DEF Known

\* Nothing becomes known but what is prepared.
LEMMA KnownShrinks ==
    ASSUME journal' = NoTx \/ journal' \in Known,
           \A p \in Proc : proc'[p] # ProcIdle => proc'[p].tx \in Known,
           settled' \subseteq Known
    PROVE  Known' \subseteq Known
  BY DEF Known

\* Known transactions are transactions.
LEMMA KnownTypes ==
    ASSUME TypeOK
    PROVE  Known \subseteq Tx
  BY Carries DEF Known, TypeOK

\* The stamps of rows are numbers.
LEMMA StampTypes ==
    ASSUME TypeOK
    PROVE  /\ clock \in Nat
           /\ row # NoRow => row.stamp \in Nat
           /\ \A tx \in Tx : /\ tx.before # NoRow => tx.before.stamp \in Nat
                             /\ tx.after # NoRow => tx.after.stamp \in Nat
  BY StampsAreNat DEF TypeOK, Tx, Row

\* A step that prepares nothing and leaves the row alone keeps the invariant if
\* it settles only transactions that lost.
LEMMA RowStays ==
    ASSUME TypeOK, TypeOK', OnceInv, HalfMatches',
           UNCHANGED <<row, born, reborn>>, clock <= clock',
           Known' \subseteq Known, settled \subseteq settled',
           \A tx \in settled' \ settled : ~Matches(tx)
    PROVE  OnceInv'
<1> USE DEF OnceInv
<1>1. /\ clock \in Nat /\ clock' \in Nat
      /\ row # NoRow => row.stamp \in Nat
      /\ \A tx \in Tx : /\ tx.before # NoRow => tx.before.stamp \in Nat
                        /\ tx.after # NoRow => tx.after.stamp \in Nat
      /\ Known \subseteq Tx
  BY StampTypes, StampsAreNat, KnownTypes DEF TypeOK
<1>2. RowIsOld'
  BY <1>1 DEF RowIsOld
<1>3. \A tx \in Known : Ordered(tx) => Ordered(tx)'
  BY <1>1 DEF Ordered
<1>4. KnownOrdered'
  BY <1>3 DEF KnownOrdered
<1>5. KnownBehind => KnownBehind'
  BY DEF KnownBehind, Behind
<1>6. SettledForGood => SettledForGood'
  BY DEF SettledForGood, Matches
<1>7. CreateComesFirst'
  BY DEF CreateComesFirst
<1>8. QED
  BY <1>2, <1>4, <1>5, <1>6, <1>7

\* Preparing a transaction that starts from the row as it is.
LEMMA PrepareOnce ==
    ASSUME TypeOK, TypeOK', OnceInv, NEW p \in Proc, NEW tx \in Tx, Prepare(p, tx),
           tx.before = row, row = NoRow => ~born,
           (tx.before = NoRow) = (tx.action = "create"),
           tx.after # NoRow => tx.after.stamp = Now,
           born'
    PROVE  OnceInv'
<1> USE DEF OnceInv
<1>1. /\ clock \in Nat /\ clock' = clock + 1 /\ clock' = Now
      /\ UNCHANGED <<row, journal, settled, reborn>>
      /\ proc' = [proc EXCEPT ![p] = [pc |-> "prepared", tx |-> tx]]
      /\ row # NoRow => row.stamp \in Nat /\ row.stamp <= clock
      /\ \A t \in Tx : /\ t.before # NoRow => t.before.stamp \in Nat
                       /\ t.after # NoRow => t.after.stamp \in Nat
      /\ Known \subseteq Tx
  BY StampTypes, StampsAreNat, KnownTypes DEF Prepare, Tick, Now, filePair, RowIsOld
<1>2. /\ proc'[p] = [pc |-> "prepared", tx |-> tx]
      /\ \A q \in Proc : q # p => proc'[q] = proc[q]
  BY <1>1 DEF TypeOK
<1>3. Known' \subseteq Known \union {tx}
  BY <1>1, <1>2 DEF Known
<1>4. HalfMatches' /\ RowIsOld'
  BY <1>1, <1>2 DEF HalfMatches, RowIsOld, Matches
<1>5. KnownOrdered'
  <2>1. \A t \in Known : Ordered(t)'
    BY <1>1 DEF KnownOrdered, Ordered
  <2>2. Ordered(tx)'
    BY <1>1 DEF Ordered
  <2>3. QED
    BY <1>3, <2>1, <2>2 DEF KnownOrdered
<1>6. KnownBehind => KnownBehind'
  BY <1>1, <1>3 DEF KnownBehind, Behind
<1>7. SettledForGood => SettledForGood'
  BY <1>1 DEF SettledForGood
<1>8. CreateComesFirst'
  <2>1. CASE row = NoRow
    <3>1. Known' \subseteq {tx}
      BY <1>3, <2>1
    <3>2. QED
      BY <1>1, <2>1, <3>1 DEF CreateComesFirst
  <2>2. CASE row # NoRow
    <3>1. \A t \in Known \ settled : t.action # "create"
      BY <2>2 DEF CreateComesFirst
    <3>2. QED
      BY <1>1, <1>3, <2>2, <3>1 DEF CreateComesFirst
  <2>3. QED
    BY <2>1, <2>2
<1>9. QED
  BY <1>1, <1>4, <1>5, <1>6, <1>7, <1>8

\* What each command prepares starts from the row.
LEMMA PreparingOnce ==
    ASSUME TypeOK, TypeOK', OnceInv, NEW p \in Proc, Preparing(p)
    PROVE  OnceInv'
<1>0. /\ 0 \in Stamp /\ doc \in Stamp /\ (row # NoRow => row \in Row /\ row.stamp \in Stamp)
      /\ row # NoRow => born
      /\ \A content : Bound(content).stamp = Now
      /\ NoRow \notin Row
  <2>1. 0 \in Stamp /\ doc \in Stamp /\ NoRow \notin Row
    BY PairBoundAssumption, NoValueAssumption DEF TypeOK, Stamp
  <2>2. row # NoRow => row \in Row /\ row.stamp \in Stamp
    BY DEF TypeOK, Row
  <2>3. row # NoRow => born
    BY DEF OnceInv
  <2>4. \A content : Bound(content).stamp = Now
    BY DEF Bound
  <2>5. QED
    BY <2>1, <2>2, <2>3, <2>4
<1>1. \A content \in Stamp : Tick => Bound(content) \in Row /\ Now \in Stamp
  BY BoundType, Stamps DEF Tick, TypeOK
<1>2. CASE PrepareCreate(p)
  <2> DEFINE tx == [action |-> "create", before |-> NoRow, after |-> Bound(Now),
                    document |-> Now, archive |-> 0]
  <2>1. Prepare(p, tx) /\ Tick /\ ~born /\ born' /\ row = NoRow
    BY <1>2 DEF PrepareCreate, Prepare, OnceInv
  <2>2. tx \in Tx
    BY <1>0, <1>1, <2>1 DEF Tx, Action
  <2>3. QED
    BY <1>0, <2>1, <2>2, PrepareOnce
<1>3. CASE PrepareAttach(p)
  <2> DEFINE tx == [action |-> "attach", before |-> row, after |-> Bound(Now),
                    document |-> Now, archive |-> 0]
  <2>1. Prepare(p, tx) /\ Tick /\ row # NoRow /\ born' = born
    BY <1>3 DEF PrepareAttach, Prepare
  <2>2. tx \in Tx
    BY <1>0, <1>1, <2>1 DEF Tx, Action
  <2>3. QED
    BY <1>0, <2>1, <2>2, PrepareOnce
<1>4. CASE PrepareUpdate(p)
  <2> DEFINE tx(content) == [action |-> "update", before |-> row, after |-> Bound(content),
                             document |-> content, archive |-> 0]
  <2>1. PICK content \in {doc, Now} : Prepare(p, tx(content))
    BY <1>4 DEF PrepareUpdate
  <2>2. Tick /\ row # NoRow /\ born' = born
    BY <1>4, <2>1 DEF PrepareUpdate, Prepare, Sealed, IsItem
  <2>3. content \in Stamp
    BY <1>0, <1>1, <2>2
  <2>4. tx(content) \in Tx
    BY <1>0, <1>1, <2>2, <2>3 DEF Tx, Action
  <2>5. QED
    BY <1>0, <2>1, <2>2, <2>4, PrepareOnce
<1>5. CASE PrepareSeal(p)
  <2> DEFINE tx == [action |-> "seal", before |-> row, after |-> Bound(doc),
                    document |-> doc, archive |-> 0]
  <2>1. Prepare(p, tx) /\ Tick /\ row # NoRow /\ born' = born
    BY <1>5 DEF PrepareSeal, Prepare, IsItem
  <2>2. tx \in Tx
    BY <1>0, <1>1, <2>1 DEF Tx, Action
  <2>3. QED
    BY <1>0, <2>1, <2>2, PrepareOnce
<1>6. CASE PrepareDetach(p)
  <2> DEFINE after == [item |-> FALSE, digest |-> 0, stamp |-> Now]
             tx    == [action |-> "detach", before |-> row, after |-> after,
                       document |-> 0, archive |-> row.stamp]
  <2>1. Prepare(p, tx) /\ Tick /\ row # NoRow /\ born' = born
    BY <1>6 DEF PrepareDetach, Prepare, IsItem
  <2>2. after \in Row
    BY <1>0, <1>1, <2>1 DEF Row
  <2>3. tx \in Tx
    BY <1>0, <2>1, <2>2 DEF Tx, Action
  <2>4. QED
    BY <1>0, <2>1, <2>3, PrepareOnce
<1>7. CASE PrepareDelete(p)
  <2> DEFINE tx == [action |-> "delete", before |-> row, after |-> NoRow,
                    document |-> 0, archive |-> row.stamp]
  <2>1. Prepare(p, tx) /\ Tick /\ row # NoRow /\ born' = born
    BY <1>7 DEF PrepareDelete, Prepare, IsItem
  <2>2. tx \in Tx
    BY <1>0, <2>1 DEF Tx, Action
  <2>3. QED
    BY <1>0, <2>1, <2>2, PrepareOnce
<1>8. QED
  BY <1>2, <1>3, <1>4, <1>5, <1>6, <1>7 DEF Preparing

\* The steps that leave the row alone settle only transactions that lost.
LEMMA QuietOnce ==
    ASSUME PairInv, PairInv', OnceInv,
           \/ EditByHand
           \/ \E p \in Proc : \/ Publish(p) \/ OpenFound(p) \/ OpenOwn(p) \/ FileHalf(p)
                              \/ FailFileHalf(p) \/ Discard(p) \/ CompareJournal(p)
                              \/ UnlinkJournal(p) \/ Crash(p)
    PROVE  OnceInv'
<1> USE DEF PairInv
<1>0. /\ clock \in Nat /\ ProcIdle.pc = "idle"
      /\ journal # NoTx => journal \in Known
      /\ \A q \in Proc : proc[q] # ProcIdle => proc[q].tx \in Known
      /\ settled \subseteq Known
      /\ HalfMatches
  BY StampsAreNat, KnownParts DEF TypeOK, ProcIdle, OnceInv
<1>1. CASE EditByHand
  <2>1. UNCHANGED <<row, journal, proc, born, settled, reborn>> /\ clock <= clock'
    BY <1>0, <1>1 DEF EditByHand, Tick, Now
  <2>2. HalfMatches'
    BY <1>0, <2>1 DEF HalfMatches, Matches
  <2>3. Known' \subseteq Known
    BY <2>1 DEF Known
  <2>4. QED
    BY <2>1, <2>2, <2>3, RowStays
<1>2. ASSUME NEW p \in Proc,
             UNCHANGED <<row, clock, born, settled, reborn>>,
             journal' = NoTx \/ journal' \in Known,
             \A q \in Proc : q # p => proc'[q] = proc[q],
             proc'[p] # ProcIdle => proc'[p].tx \in Known,
             proc'[p].pc = "half" => Matches(proc'[p].tx)
      PROVE  OnceInv'
  <2>1. HalfMatches'
    BY <1>0, <1>2 DEF HalfMatches, Matches
  <2>2. Known' \subseteq Known
    BY <1>0, <1>2, KnownShrinks
  <2>3. QED
    BY <1>0, <1>2, <2>1, <2>2, RowStays
<1>3. ASSUME NEW p \in Proc, Become(p, ProcIdle),
             UNCHANGED <<row, clock, born, settled, reborn>>,
             journal' = NoTx \/ journal' \in Known
      PROVE  OnceInv'
  BY <1>0, <1>2, <1>3, OneProcess
<1>4. ASSUME NEW p \in Proc, journal # NoTx, Become(p, [pc |-> "opened", tx |-> journal]),
             UNCHANGED <<row, journal, clock, born, settled, reborn>>
      PROVE  OnceInv'
  <2>1. proc'[p] = [pc |-> "opened", tx |-> journal]
        /\ \A q \in Proc : q # p => proc'[q] = proc[q]
    BY <1>4, OneProcess
  <2>2. QED
    BY <1>0, <1>2, <1>4, <2>1
<1>5. ASSUME NEW p \in Proc, Publish(p) PROVE OnceInv'
  <2>1. proc[p] # ProcIdle
    BY <1>0, <1>5 DEF Publish
  <2>2. CASE journal = NoTx
    <3>1. Advance(p, "published") /\ journal' = proc[p].tx
      BY <1>5, <2>2 DEF Publish
    <3>2. QED
      BY <1>0, <1>2, <1>5, <2>1, <3>1, Advancing DEF Publish, history
  <2>3. CASE journal # NoTx
    BY <1>0, <1>3, <1>5, <2>3 DEF Publish, history
  <2>4. QED
    BY <2>2, <2>3
<1>6. ASSUME NEW p \in Proc, OpenFound(p) PROVE OnceInv'
  BY <1>4, <1>6 DEF OpenFound, filePair, history
<1>7. ASSUME NEW p \in Proc, OpenOwn(p) PROVE OnceInv'
  <2>1. CASE journal = NoTx
    BY <1>0, <1>3, <1>7, <2>1 DEF OpenOwn, filePair, history
  <2>2. CASE journal # NoTx
    BY <1>4, <1>7, <2>2 DEF OpenOwn, filePair, history
  <2>3. QED
    BY <2>1, <2>2
<1>8. ASSUME NEW p \in Proc, FileHalf(p) PROVE OnceInv'
  <2>1. proc[p] # ProcIdle /\ Advance(p, "half") /\ Matches(proc[p].tx)
    BY <1>0, <1>8 DEF FileHalf, Intent
  <2>2. QED
    BY <1>0, <1>2, <1>8, <2>1, Advancing DEF FileHalf
<1>9. ASSUME NEW p \in Proc, FailFileHalf(p) PROVE OnceInv'
  BY <1>0, <1>3, <1>9 DEF FailFileHalf, filePair, history
<1>10. ASSUME NEW p \in Proc, Discard(p) PROVE OnceInv'
  <2>1. /\ proc[p] # ProcIdle /\ Advance(p, "settled") /\ ~Matches(proc[p].tx)
        /\ settled' = settled \union {proc[p].tx}
        /\ UNCHANGED <<row, journal, clock, born, reborn>>
    BY <1>0, <1>10 DEF Discard, Intent, filePair
  <2>2. /\ proc'[p].pc = "settled" /\ proc'[p].tx = proc[p].tx
        /\ \A q \in Proc : q # p => proc'[q] = proc[q]
    BY <2>1, Advancing
  <2>3. HalfMatches'
    BY <1>0, <2>1, <2>2 DEF HalfMatches, Matches
  <2>4. Known' \subseteq Known
    BY <1>0, <2>1, <2>2, KnownShrinks
  <2>5. QED
    BY <1>0, <2>1, <2>3, <2>4, RowStays
<1>11. ASSUME NEW p \in Proc, CompareJournal(p) PROVE OnceInv'
  <2>1. proc[p] # ProcIdle
    BY <1>0, <1>11 DEF CompareJournal
  <2>2. CASE journal = Intent(p)
    <3>1. Advance(p, "compared")
      BY <1>11, <2>2 DEF CompareJournal
    <3>2. QED
      BY <1>0, <1>2, <1>11, <2>1, <3>1, Advancing DEF CompareJournal, filePair, history
  <2>3. CASE journal # Intent(p)
    BY <1>0, <1>3, <1>11, <2>3 DEF CompareJournal, filePair, history
  <2>4. QED
    BY <2>2, <2>3
<1>12. ASSUME NEW p \in Proc, UnlinkJournal(p) PROVE OnceInv'
  BY <1>0, <1>3, <1>12 DEF UnlinkJournal
<1>13. ASSUME NEW p \in Proc, Crash(p) PROVE OnceInv'
  BY <1>0, <1>3, <1>13 DEF Crash, filePair
<1>14. QED
  BY <1>1, <1>5, <1>6, <1>7, <1>8, <1>9, <1>10, <1>11, <1>12, <1>13

\* The steps that change the row.
LEMMA RowOnce ==
    ASSUME PairInv, PairInv', OnceInv,
           Touch \/ DeletePlain \/ \E p \in Proc : WriteRow(p)
    PROVE  OnceInv'
<1> USE DEF PairInv
<1>0. /\ clock \in Nat /\ NoRow \notin Row
      /\ row # NoRow => row \in Row /\ row.stamp \in Nat /\ row.stamp <= clock /\ born
      /\ \A t \in Tx : /\ t.before # NoRow => t.before.stamp \in Nat
                       /\ t.after # NoRow => t.after.stamp \in Nat
      /\ Known \subseteq Tx /\ settled \subseteq Known
      /\ \A t \in Known : Ordered(t)
  BY StampTypes, KnownTypes, KnownParts, NoValueAssumption
     DEF OnceInv, RowIsOld, KnownOrdered, TypeOK
<1>1. CASE Touch
  <2>1. /\ clock' = clock + 1 /\ row # NoRow /\ row' = [row EXCEPT !.stamp = clock + 1]
        /\ lock = NoProc
        /\ UNCHANGED <<journal, proc, born, settled, reborn>>
    BY <1>1 DEF Touch, Tick, Now, history
  <2>2. row' # NoRow /\ row'.stamp = clock + 1
    BY <1>0, <2>1 DEF TypeOK, Row
  <2>3. Known' = Known
    BY <2>1 DEF Known
  <2>4. HalfMatches'
    BY <2>1, NoProcAssumption DEF HalfMatches, LockIsHeld
  <2>5. RowIsOld' /\ KnownOrdered'
    BY <1>0, <2>1, <2>2, <2>3 DEF RowIsOld, KnownOrdered, Ordered
  <2>6. KnownBehind' /\ SettledForGood'
    <3>1. \A t \in Known : t.before # NoRow => t.before.stamp < row'.stamp
      BY <1>0, <2>1, <2>2 DEF Ordered
    <3>2. \A t \in Known : t.before # NoRow => t.before # row'
      <4>1. \A t \in Known : t.before # NoRow => t.before.stamp \in Nat
        BY <1>0
      <4>2. QED
        BY <3>1, <4>1
    <3>3. KnownBehind'
      BY <2>3, <3>1 DEF KnownBehind, Behind
    <3>4. SettledForGood'
      BY <1>0, <2>1, <3>2 DEF SettledForGood
    <3>5. QED
      BY <3>3, <3>4
  <2>7. CreateComesFirst'
    BY <2>1, <2>3 DEF OnceInv, CreateComesFirst
  <2>8. QED
    BY <1>0, <2>1, <2>4, <2>5, <2>6, <2>7 DEF OnceInv
<1>2. CASE DeletePlain
  <2>1. /\ row # NoRow /\ row' = NoRow /\ lock = NoProc
        /\ UNCHANGED <<journal, proc, clock, born, settled, reborn>>
    BY <1>2 DEF DeletePlain, history
  <2>2. Known' = Known
    BY <2>1 DEF Known
  <2>3. HalfMatches'
    BY <2>1, NoProcAssumption DEF HalfMatches, LockIsHeld
  <2>4. RowIsOld' /\ KnownOrdered' /\ KnownBehind' /\ SettledForGood'
    BY <1>0, <2>1, <2>2 DEF RowIsOld, KnownOrdered, Ordered, KnownBehind, Behind, SettledForGood
  <2>5. CreateComesFirst'
    BY <2>1, <2>2 DEF OnceInv, CreateComesFirst
  <2>6. QED
    BY <1>0, <2>1, <2>3, <2>4, <2>5 DEF OnceInv
<1>3. ASSUME NEW p \in Proc, WriteRow(p) PROVE OnceInv'
  <2> DEFINE tx == proc[p].tx
  <2>1. proc[p] # ProcIdle /\ tx \in Known /\ lock = p /\ Matches(tx)
    BY <1>3, KnownParts DEF WriteRow, ProcIdle, LockIsHeld, OnceInv, HalfMatches
  <2>2. /\ row' = tx.after /\ settled' = settled \union {tx}
        /\ UNCHANGED <<journal, clock, born>>
        /\ reborn' = (reborn \/ (row = NoRow /\ row' # NoRow /\ tx \in settled))
    BY <1>3 DEF WriteRow, Intent
  <2>3. /\ proc'[p].pc = "settled" /\ proc'[p].tx = tx
        /\ \A q \in Proc : q # p => proc'[q] = proc[q]
    BY <1>3, <2>1, Advancing DEF WriteRow
  <2>4. Known' \subseteq Known /\ tx \in settled'
    BY <2>1, <2>2, <2>3, KnownParts, KnownShrinks
  <2>5. HalfMatches'
    BY <2>1, <2>3 DEF HalfMatches, LockIsHeld
  <2>6. RowIsOld' /\ KnownOrdered'
    BY <1>0, <2>1, <2>2, <2>4 DEF RowIsOld, KnownOrdered, Ordered
  <2>7. CreateComesFirst'
    <3>1. SUFFICES ASSUME NEW t \in Known' \ settled', t.action = "create" PROVE FALSE
      BY DEF CreateComesFirst
    <3>2. t \in Known \ settled
      BY <2>2, <2>4, <3>1
    <3>3. Known = {t}
      BY <3>1, <3>2 DEF OnceInv, CreateComesFirst
    <3>4. QED
      BY <2>1, <2>4, <3>1, <3>3
  <2>8. born \/ (row' = NoRow /\ Known' = {})
    BY <2>1 DEF OnceInv
  <2>9. reborn' \/ (KnownBehind' /\ SettledForGood')
    <3>1. SUFFICES ASSUME ~reborn' PROVE KnownBehind' /\ SettledForGood'
      OBVIOUS
    <3>2. KnownBehind /\ SettledForGood
      BY <2>2, <3>1 DEF OnceInv
    <3>3. CASE row' = row
      <4>1. KnownBehind'
        BY <2>4, <3>2, <3>3 DEF KnownBehind, Behind
      <4>2. tx.before # NoRow => row # tx.before
        <5>1. Ordered(tx) /\ row = tx.after
          BY <1>0, <2>1, <2>2, <3>3
        <5>2. tx.before # NoRow => tx.before.stamp \in Nat
          BY <1>0, <2>1
        <5>3. QED
          BY <5>1, <5>2 DEF Ordered
      <4>3. QED
        BY <2>2, <3>2, <3>3, <4>1, <4>2 DEF SettledForGood
    <3>4. CASE row' # row /\ row = NoRow
      <4>1. tx.before = NoRow /\ tx.after # NoRow /\ tx \notin settled
        BY <2>1, <2>2, <3>1, <3>4 DEF Matches
      <4>2. Known = {tx}
        BY <1>0, <2>1, <4>1 DEF OnceInv, CreateComesFirst, Ordered
      <4>3. Known' \subseteq {tx} /\ settled' \subseteq {tx}
        BY <1>0, <2>2, <2>4, <4>2
      <4>4. QED
        BY <4>1, <4>3 DEF KnownBehind, SettledForGood
    <3>5. CASE row' # row /\ row # NoRow
      <4>1. row = tx.before
        BY <2>1, <2>2, <3>5 DEF Matches
      <4>2. row' = NoRow \/ row.stamp < row'.stamp
        BY <1>0, <2>1, <2>2, <3>5, <4>1 DEF Ordered
      <4>3. row' # NoRow => row'.stamp \in Nat
        BY <1>0, <2>1, <2>2
      <4>4. \A t \in Known : t.before # NoRow =>
                row' = NoRow \/ t.before.stamp < row'.stamp
        BY <1>0, <3>2, <3>5, <4>2, <4>3 DEF KnownBehind, Behind
      <4>5. KnownBehind'
        BY <2>4, <4>4 DEF KnownBehind, Behind
      <4>6. \A t \in Known : t.before # NoRow => row' # t.before
        BY <1>0, <4>4
      <4>7. SettledForGood'
        BY <1>0, <2>1, <2>2, <4>6 DEF SettledForGood
      <4>8. QED
        BY <4>5, <4>7
    <3>6. QED
      BY <3>3, <3>4, <3>5
  <2>10. QED
    BY <2>2, <2>5, <2>6, <2>7, <2>8, <2>9 DEF OnceInv
<1>4. QED
  BY <1>1, <1>2, <1>3

\* Every step keeps the two invariants.
LEMMA OnceStep ==
    ASSUME PairInv, OnceInv, [Next]_vars
    PROVE  PairInv' /\ OnceInv'
<1>1. PairInv' /\ TypeOK /\ TypeOK'
  BY PairStep DEF PairInv
<1>2. CASE Next
  BY <1>1, <1>2, PreparingOnce, QuietOnce, RowOnce DEF Next, Executing
<1>3. CASE UNCHANGED vars
  BY <1>1, <1>3
     DEF vars, filePair, history, OnceInv, HalfMatches, Matches, RowIsOld, KnownOrdered, Ordered,
         KnownBehind, Behind, SettledForGood, CreateComesFirst, Known
<1>4. QED
  BY <1>1, <1>2, <1>3

\* No transaction is known in an initial state.
LEMMA InitialOnce ==
    ASSUME Init
    PROVE  OnceInv
<1>1. Known = {} /\ settled = {}
  BY DEF Init, Known
<1>2. HalfMatches
  BY DEF Init, HalfMatches, ProcIdle
<1>3. RowIsOld
  <2>1. clock \in Nat /\ (row # NoRow => row.stamp = 0)
    BY DEF Init
  <2>2. QED
    BY <2>1 DEF RowIsOld
<1>4. QED
  BY <1>1, <1>2, <1>3
     DEF Init, OnceInv, KnownOrdered, KnownBehind, SettledForGood, CreateComesFirst

\* However many processes execute a journal, and however late, the transaction
\* changes the row once, unless a create brought an old row back.
THEOREM TakesEffectOnce == Spec => AppliedOnce
<1>1. Init => PairInv /\ OnceInv
  BY InitialPair, InitialOnce
<1>2. PairInv /\ OnceInv /\ [Next]_vars => (PairInv /\ OnceInv)'
  BY OnceStep
<1>3. PairInv /\ OnceInv /\ [Next]_vars =>
          [\A p \in Proc :
              WriteRow(p) /\ row' # row /\ Intent(p) \in settled
                  => reborn \/ Intent(p).action = "create"]_vars
  <2>1. SUFFICES ASSUME PairInv, OnceInv, NEW p \in Proc,
                        WriteRow(p), row' # row, Intent(p) \in settled, ~reborn
                 PROVE  Intent(p).action = "create"
    OBVIOUS
  <2>2. row = Intent(p).before /\ SettledForGood
    BY <2>1 DEF OnceInv, HalfMatches, WriteRow, Matches, Intent
  <2>3. Intent(p).before = NoRow
    BY <2>1, <2>2 DEF SettledForGood
  <2>4. Ordered(Intent(p))
    BY <2>1, KnownParts DEF OnceInv, KnownOrdered
  <2>5. QED
    BY <2>3, <2>4 DEF Ordered
<1>4. QED
  BY <1>1, <1>2, <1>3, PTL DEF Spec, AppliedOnce

---------------------------------------------------------------------------
(* An interrupted transaction is on disk                                    *)

\* A step of one process after which what is on disk, settled or lost covers
\* what was, and the process carries something covered.
LEMMA PendingStays ==
    ASSUME PendingInv, NEW p \in Proc,
           \A q \in Proc : q # p => proc'[q] = proc[q],
           settled \subseteq settled',
           settled \union lost \union {journal} \subseteq
               settled' \union lost' \union {journal', NoTx},
           \A q \in Proc : proc[q].pc \in {"opened", "half"} => proc[q].tx # NoTx,
           proc'[p].pc \in {"opened", "half"} =>
               proc'[p].tx \in settled' \union lost' \union {journal'},
           proc'[p].pc \in {"settled", "compared"} => proc'[p].tx \in settled',
           half' \in {half, NoTx} \/ half' \in settled' \union lost' \union {journal'}
    PROVE  PendingInv'
  BY DEF PendingInv, InterruptedIsPending

\* Every step keeps what is pending on disk.
LEMMA PendingStep ==
    ASSUME TypeOK, PendingInv, [Next]_vars
    PROVE  PendingInv'
<1>0. /\ ProcIdle.pc = "idle"
      /\ \A q \in Proc : proc[q] # ProcIdle => proc[q].tx \in Tx
      /\ \A q \in Proc : proc[q].pc \in {"opened", "half"} => proc[q].tx # NoTx
  BY Carries, NoValueAssumption DEF TypeOK, ProcIdle
<1>1. ASSUME NEW p \in Proc, Become(p, ProcIdle), UNCHANGED <<settled, lost, half>>,
             journal' = journal
      PROVE  PendingInv'
  BY <1>0, <1>1, OneProcess, PendingStays
<1>2. ASSUME NEW p \in Proc, journal # NoTx, Become(p, [pc |-> "opened", tx |-> journal]),
             UNCHANGED <<journal, settled, lost, half>>
      PROVE  PendingInv'
  <2>1. proc'[p] = [pc |-> "opened", tx |-> journal]
        /\ \A q \in Proc : q # p => proc'[q] = proc[q]
    BY <1>2, OneProcess
  <2>2. QED
    BY <1>0, <1>2, <2>1, PendingStays
<1>3. ASSUME NEW p \in Proc, Preparing(p) PROVE PendingInv'
  <2>1. PICK tx : Prepare(p, tx)
    BY <1>3 DEF Preparing, PrepareCreate, PrepareAttach, PrepareUpdate, PrepareSeal,
                PrepareDetach, PrepareDelete
  <2>2. /\ proc'[p] = [pc |-> "prepared", tx |-> tx]
        /\ \A q \in Proc : q # p => proc'[q] = proc[q]
        /\ UNCHANGED <<journal, settled, lost, half>>
    BY <2>1 DEF Prepare, filePair, TypeOK
  <2>3. QED
    BY <1>0, <2>2, PendingStays
<1>4. ASSUME NEW p \in Proc, Publish(p) PROVE PendingInv'
  <2>1. proc[p] # ProcIdle /\ UNCHANGED <<settled, lost, half>>
    BY <1>0, <1>4 DEF Publish, history
  <2>2. CASE journal = NoTx
    <3>1. Advance(p, "published")
      BY <1>4, <2>2 DEF Publish
    <3>2. QED
      BY <1>0, <2>1, <2>2, <3>1, Advancing, PendingStays
  <2>3. CASE journal # NoTx
    BY <1>1, <1>4, <2>1, <2>3 DEF Publish
  <2>4. QED
    BY <2>2, <2>3
<1>5. ASSUME NEW p \in Proc, OpenOwn(p) PROVE PendingInv'
  <2>1. CASE journal = NoTx
    BY <1>1, <1>5, <2>1 DEF OpenOwn, filePair, history
  <2>2. CASE journal # NoTx
    BY <1>2, <1>5, <2>2 DEF OpenOwn, filePair, history
  <2>3. QED
    BY <2>1, <2>2
<1>6. ASSUME NEW p \in Proc, OpenFound(p) PROVE PendingInv'
  BY <1>2, <1>6 DEF OpenFound, filePair, history
<1>7. ASSUME NEW p \in Proc, FileHalf(p) PROVE PendingInv'
  <2>1. proc[p] # ProcIdle /\ proc[p].pc = "opened" /\ Advance(p, "half")
        /\ UNCHANGED <<journal, settled, lost>> /\ half' = NoTx
    BY <1>0, <1>7 DEF FileHalf
  <2>2. QED
    BY <1>0, <2>1, Advancing, PendingStays DEF PendingInv
<1>8. ASSUME NEW p \in Proc, FailFileHalf(p) PROVE PendingInv'
  BY <1>1, <1>8 DEF FailFileHalf, filePair, history
<1>9. ASSUME NEW p \in Proc, WriteRow(p) \/ Discard(p) PROVE PendingInv'
  <2>1. proc[p] # ProcIdle /\ Advance(p, "settled") /\ settled' = settled \union {proc[p].tx}
        /\ UNCHANGED <<journal, lost, half>>
    BY <1>0, <1>9 DEF WriteRow, Discard, Intent, filePair
  <2>2. QED
    BY <1>0, <2>1, Advancing, PendingStays
<1>10. ASSUME NEW p \in Proc, CompareJournal(p) PROVE PendingInv'
  <2>1. proc[p] # ProcIdle /\ proc[p].pc = "settled"
        /\ UNCHANGED <<journal, settled, lost, half>>
    BY <1>0, <1>10 DEF CompareJournal, filePair, history
  <2>2. CASE journal = Intent(p)
    <3>1. Advance(p, "compared")
      BY <1>10, <2>2 DEF CompareJournal
    <3>2. QED
      BY <1>0, <2>1, <3>1, Advancing, PendingStays DEF PendingInv
  <2>3. CASE journal # Intent(p)
    BY <1>1, <1>10, <2>1, <2>3 DEF CompareJournal
  <2>4. QED
    BY <2>2, <2>3
<1>11. ASSUME NEW p \in Proc, UnlinkJournal(p) PROVE PendingInv'
  <2>1. /\ proc[p].tx \in settled
        /\ proc'[p] = ProcIdle /\ \A q \in Proc : q # p => proc'[q] = proc[q]
        /\ lost' = lost \union ({journal} \ {NoTx, proc[p].tx})
        /\ UNCHANGED <<settled, half>>
    BY <1>11, OneProcess DEF UnlinkJournal, PendingInv, Intent
  <2>2. QED
    BY <1>0, <2>1, PendingStays
<1>12. ASSUME NEW p \in Proc, Crash(p) PROVE PendingInv'
  <2>1. /\ proc'[p] = ProcIdle /\ \A q \in Proc : q # p => proc'[q] = proc[q]
        /\ UNCHANGED <<journal, settled, lost>>
        /\ half' = half \/ (proc[p].pc = "half" /\ half' = proc[p].tx)
    BY <1>12, OneProcess DEF Crash, Intent, filePair
  <2>2. half' = half \/ half' \in settled \union lost \union {journal}
    BY <2>1 DEF PendingInv
  <2>3. QED
    BY <1>0, <2>1, <2>2, PendingStays
<1>13. ASSUME Touch \/ DeletePlain \/ EditByHand \/ UNCHANGED vars PROVE PendingInv'
  BY <1>13 DEF Touch, DeletePlain, EditByHand, vars, filePair, history,
               PendingInv, InterruptedIsPending
<1>14. QED
  BY <1>3, <1>4, <1>5, <1>6, <1>7, <1>8, <1>9, <1>10, <1>11, <1>12, <1>13 DEF Next, Executing

\* A transaction that was cut off between its halves stays on disk until it is
\* applied or found in conflict, unless its journal is removed by mistake.
THEOREM InterruptionIsRecoverable == Spec => []InterruptedIsPending
<1>1. Init => PendingInv
  BY DEF Init, PendingInv, InterruptedIsPending, ProcIdle
<1>2. TypeOK /\ PendingInv /\ [Next]_vars => PendingInv'
  BY PendingStep
<1>3. PendingInv => InterruptedIsPending
  BY DEF PendingInv
<1>4. QED
  BY <1>1, <1>2, <1>3, TypeCorrect, PTL DEF Spec

---------------------------------------------------------------------------
(* The daemon of a board                                                    *)


Asking == {"lock", "derive", "overlay", "schedule"}

\* The signature a request took is of the past of this daemon.
Signing == \A t \in Thread : pc[t] \in Asking =>
    /\ sig[t] \in Signed
    /\ sig[t].files <= files
    /\ sig[t].drift <= stamp

\* What a request has built is at least as new as its signature.
Building == \A t \in Thread :
    /\ view[t].files <= files
    /\ pc[t] \in {"overlay", "schedule"} => view[t].files >= sig[t].files
    /\ pc[t] = "schedule" => view[t].stamp >= sig[t].drift

Keeping == cached # None =>
    /\ cached.view.files >= cached.sig.files
    /\ cached.view.stamp >= cached.sig.drift
    /\ cached.view.files <= files

\* What the stream is about to send is no older than what the page shows.
Streaming ==
    /\ shown.files <= files
    /\ pc[Stream] \in Asking => sig[Stream].files >= shown.files
    /\ pc[Stream] \in {"overlay", "schedule", "send"} =>
         view[Stream].files >= shown.files

BoardInv == Signing /\ Building /\ Keeping /\ Streaming
-----------------------------------------------------------------------------
(* Types.                                                                  *)

LEMMA InitTyped == ServeInit => ServeTypeOK
<1> SUFFICES ASSUME ServeInit PROVE ServeTypeOK
  OBVIOUS
<1>1. 0 \in Version /\ 1 \in Version /\ Unseen \in View
  BY BoardAssumption DEF Version, View, Unseen
<1>2. Glance(Unseen) \in [files : Version, drift : Version]
  BY <1>1 DEF Glance, Unseen
<1>3. /\ pc \in [Thread -> {"poll", "state", "lock", "derive", "overlay",
                            "schedule", "send", "idle"}]
      /\ sig \in [Thread -> Signed \cup {None}]
      /\ view \in [Thread -> View] /\ base \in [Thread -> Version]
  BY <1>1 DEF ServeInit, FirstPc
<1>4. job \in 0..MaxJobs /\ requests \in 0..MaxRequests /\ faults \in 0..MaxFaults
  BY BoardAssumption DEF ServeInit
<1>5. stamp \in Nat /\ acting \in BOOLEAN
  BY DEF ServeInit
<1> QED  BY <1>1, <1>2, <1>3, <1>4, <1>5 DEF ServeInit, ServeTypeOK

LEMMA ViewTyped ==
    ASSUME ServeTypeOK, cached # None
    PROVE  cached.view \in View
BY DEF ServeTypeOK

LEMMA SignatureTyped == ASSUME ServeTypeOK PROVE Signature \in Signed
BY DEF ServeTypeOK, Signature, Signed

LEMMA SendTyped ==
    ASSUME ServeTypeOK, NEW t \in Thread, NEW v \in View, Send(t, v)
    PROVE  /\ pc' \in [Thread -> {"poll", "state", "lock", "derive", "overlay",
                                  "schedule", "send", "idle"}]
           /\ sig' \in [Thread -> Signed \cup {None}]
           /\ view' \in [Thread -> View] /\ base' \in [Thread -> Version]
<1>1. 0 \in Version
  BY BoardAssumption DEF Version
<1> QED  BY <1>1 DEF ServeTypeOK, Send, Goto

LEMMA EndTyped ==
    ASSUME ServeTypeOK, NEW t \in Thread, End(t)
    PROVE  /\ pc' \in [Thread -> {"poll", "state", "lock", "derive", "overlay",
                                  "schedule", "send", "idle"}]
           /\ sig' \in [Thread -> Signed \cup {None}]
           /\ view' \in [Thread -> View] /\ base' \in [Thread -> Version]
<1>1. 0 \in Version /\ Unseen \in View
  BY BoardAssumption DEF Version, View, Unseen
<1> QED  BY <1>1 DEF ServeTypeOK, End, Goto, Finished

LEMMA StepTyped ==
    ASSUME ServeTypeOK, Signing, NEW t \in Thread, Step(t)
    PROVE  ServeTypeOK'
<1>1. CASE Look(t)
  <2>1. CASE Hit(Signature)
    <3>1. Send(t, cached.view) /\ cached.view \in View
      BY <1>1, <2>1, ViewTyped DEF Look, Hit
    <3> QED  BY <1>1, <3>1, SendTyped DEF ServeTypeOK, Look, cache, drifts, client
  <2>2. CASE ~Hit(Signature)
    BY <1>1, <2>2, SignatureTyped DEF ServeTypeOK, Look, Goto, cache, drifts, client
  <2> QED  BY <2>1, <2>2
<1>2. CASE Lock(t)
  <2>1. CASE Hit(sig[t])
    <3>1. Send(t, cached.view) /\ cached.view \in View
      BY <1>2, <2>1, ViewTyped DEF Lock, Hit
    <3> QED  BY <1>2, <2>1, <3>1, SendTyped DEF ServeTypeOK, Lock, drifts, client
  <2>2. CASE ~Hit(sig[t])
    BY <1>2, <2>2 DEF ServeTypeOK, Lock, Goto, drifts, client
  <2> QED  BY <2>1, <2>2
<1>3. CASE Derive(t)
  <2>1. [files |-> files, drift |-> 0, stamp |-> 0] \in View
    BY BoardAssumption DEF ServeTypeOK, View, Version
  <2>2. view' \in [Thread -> View]
    BY <1>3, <2>1 DEF ServeTypeOK, Derive
  <2> QED  BY <1>3, <2>2 DEF ServeTypeOK, Derive, Goto, cache, drifts, client
<1>4. CASE Overlay(t)
  <2>1. view' = [view EXCEPT ![t] = [@ EXCEPT !.drift = drift, !.stamp = stamp]]
    BY <1>4 DEF ServeTypeOK, Overlay, View
  <2>2. [view[t] EXCEPT !.drift = drift, !.stamp = stamp] \in View
    BY DEF ServeTypeOK, View
  <2>3. view' \in [Thread -> View]
    BY <2>1, <2>2 DEF ServeTypeOK
  <2>4. base' \in [Thread -> Version]
    BY <1>4 DEF ServeTypeOK, Overlay
  <2> QED  BY <1>4, <2>3, <2>4 DEF ServeTypeOK, Overlay, Goto, cache, drifts, client
<1>5. CASE Schedule(t)
  <2>1. Send(t, view[t]) /\ view[t] \in View
    BY <1>5 DEF Schedule, ServeTypeOK
  <2>2. jobs' \subseteq Job /\ job' \in 0..MaxJobs
    <3>1. CASE Running(base[t]) \/ done = base[t]
      BY <1>5, <3>1 DEF Schedule, ServeTypeOK
    <3>2. CASE ~(Running(base[t]) \/ done = base[t])
      <4>1. PICK n \in 1..MaxJobs :
              /\ jobs' = jobs \cup {[n |-> n, base |-> base[t], read |-> 0,
                                     failed |-> FALSE]}
              /\ job' = n
        BY <1>5, <3>2 DEF Schedule
      <4>2. [n |-> n, base |-> base[t], read |-> 0, failed |-> FALSE] \in Job
        BY BoardAssumption DEF ServeTypeOK, Job, Version
      <4>3. job' \in 0..MaxJobs
        BY <4>1, BoardAssumption
      <4> QED  BY <4>1, <4>2, <4>3 DEF ServeTypeOK
    <3> QED  BY <3>1, <3>2
  <2>3. cached' \in [sig : Signed, view : View]
    BY <1>5, <2>1 DEF Schedule, Entry, ServeTypeOK, Signing, Asking
  <2> QED  BY <1>5, <2>1, <2>2, <2>3, SendTyped DEF ServeTypeOK, Schedule, client
<1>6. CASE Answer(t)
  BY <1>6, EndTyped DEF ServeTypeOK, Answer, cache, drifts, client
<1> QED  BY <1>1, <1>2, <1>3, <1>4, <1>5, <1>6 DEF Step
LEMMA JobTyped ==
    ASSUME ServeTypeOK, NEW j \in jobs, Reconcile(j) \/ Land(j)
    PROVE  ServeTypeOK'
<1>1. j \in Job
  BY DEF ServeTypeOK
<1>2. CASE Reconcile(j)
  <2>1. jobs' \subseteq Job
    <3>1. /\ [j EXCEPT !.read = files] \in Job
          /\ [j EXCEPT !.read = files, !.failed = TRUE] \in Job
      BY <1>1 DEF ServeTypeOK, Job
    <3> QED  BY <1>2, <3>1 DEF Reconcile, ServeTypeOK
  <2>2. faults' \in 0..MaxFaults
    BY <1>2, BoardAssumption DEF Reconcile, ServeTypeOK
  <2> QED  BY <1>2, <2>1, <2>2 DEF ServeTypeOK, Reconcile, cache, thread, client
<1>3. CASE Land(j)
  <2>1. drift' \in Version /\ done' \in Version /\ unread' \subseteq Version
    BY <1>1, <1>3 DEF ServeTypeOK, Land, Found, Job
  <2>2. stamp' \in Nat /\ jobs' \subseteq Job
    BY <1>3 DEF ServeTypeOK, Land, StampNext
  <2> QED  BY <1>3, <2>1, <2>2 DEF ServeTypeOK, Land, cache, thread, client
<1> QED  BY <1>2, <1>3

LEMMA NextTyped ==
    ASSUME ServeTypeOK, Signing, ServeNext
    PROVE  ServeTypeOK'
<1>1. ASSUME NEW t \in Thread, Step(t) PROVE ServeTypeOK'
  BY <1>1, StepTyped
<1>2. CASE Sign
  <2>1. Stream \in Thread
    BY DEF Thread
  <2>2. CASE Signature = previous
    BY <1>2, <2>1, <2>2, EndTyped DEF ServeTypeOK, Sign, cache, drifts
  <2>3. CASE Signature # previous
    BY <1>2, <2>1, <2>3, SignatureTyped DEF ServeTypeOK, Sign, Goto, cache, drifts
  <2> QED  BY <2>2, <2>3
<1>3. CASE Push
  <2>1. Stream \in Thread
    BY DEF Thread
  <2>2. shown' \in [files : Version, drift : Version]
    BY <1>3, <2>1 DEF ServeTypeOK, Push, Glance, View
  <2> QED  BY <1>3, <2>1, <2>2, EndTyped DEF ServeTypeOK, Push, Previous, cache, drifts
<1>4. CASE Acted
  BY <1>4 DEF ServeTypeOK, Acted, drifts, thread, client
<1>5. ASSUME NEW click \in BOOLEAN, Change(click) PROVE ServeTypeOK'
  <2>1. files' \in Version /\ acting' \in BOOLEAN
    BY <1>5, BoardAssumption DEF ServeTypeOK, Change, Version
  <2> QED  BY <1>5, <2>1 DEF ServeTypeOK, Change, cache, drifts, thread, client
<1>6. ASSUME NEW t \in Thread, Request(t) PROVE ServeTypeOK'
  <2>1. requests' \in 0..MaxRequests
    BY <1>6, BoardAssumption DEF ServeTypeOK, Request
  <2> QED  BY <1>6, <2>1 DEF ServeTypeOK, Request, Goto, cache, drifts, client
<1>7. ASSUME NEW t \in Thread, DeriveFails(t) PROVE ServeTypeOK'
  <2>1. faults' \in 0..MaxFaults
    BY <1>7, BoardAssumption DEF ServeTypeOK, DeriveFails
  <2> QED  BY <1>7, <2>1, EndTyped DEF ServeTypeOK, DeriveFails, drifts, client
<1>8. ASSUME NEW j \in jobs, Reconcile(j) \/ Land(j) PROVE ServeTypeOK'
  BY <1>8, JobTyped
<1>9. CASE Lose
  <2>1. faults' \in 0..MaxFaults /\ Stream \in Thread
    BY <1>9, BoardAssumption DEF ServeTypeOK, Lose, Thread
  <2> QED  BY <1>9, <2>1, EndTyped DEF ServeTypeOK, Lose, cache, drifts
<1>10. CASE Restart
  <2>1. faults' \in 0..MaxFaults /\ 0 \in Version /\ Unseen \in View
    BY <1>10, BoardAssumption DEF ServeTypeOK, Restart, Version, View, Unseen
  <2>2. /\ pc' \in [Thread -> {"poll", "state", "lock", "derive", "overlay",
                               "schedule", "send", "idle"}]
        /\ sig' \in [Thread -> Signed \cup {None}]
        /\ view' \in [Thread -> View] /\ base' \in [Thread -> Version]
    BY <1>10, <2>1 DEF Restart, FirstPc
  <2>3. job' \in 0..MaxJobs /\ stamp' \in Nat
    BY <1>10, BoardAssumption DEF Restart
  <2> QED  BY <1>10, <2>1, <2>2, <2>3 DEF ServeTypeOK, Restart
<1> QED
  BY <1>1, <1>2, <1>3, <1>4, <1>5, <1>6, <1>7, <1>8, <1>9, <1>10 DEF ServeNext, Serve

-----------------------------------------------------------------------------
(* What the threads hold, and the cache.                                   *)

LEMMA InitHolds == ServeInit => BoardInv
<1> SUFFICES ASSUME ServeInit PROVE BoardInv
  OBVIOUS
<1>1. \A t \in Thread : view[t].files = 0 /\ pc[t] \in {"poll", "idle"}
  BY DEF ServeInit, Unseen, FirstPc
<1>2. pc[Stream] = "poll" /\ files = 1 /\ shown.files = 0 /\ cached = None
  BY DEF ServeInit, Unseen, Glance, FirstPc, Thread
<1> QED
  BY <1>1, <1>2 DEF BoardInv, Signing, Building, Keeping, Streaming, Asking

\* What a state that is sent has to be like.
LEMMA SendHolds ==
    ASSUME ServeTypeOK, BoardInv, NEW t \in Thread, NEW v \in View, Send(t, v),
           v.files <= files, t = Stream => v.files >= shown.files,
           UNCHANGED <<files, stamp, shown>>
    PROVE  (Signing /\ Building /\ Streaming)'
<1> USE DEF Asking
<1>1. /\ pc' = [pc EXCEPT ![t] = "send"]
      /\ view' = [view EXCEPT ![t] = v]
      /\ sig' = [sig EXCEPT ![t] = None]
  BY DEF Send, Goto
<1>2. \A u \in Thread \ {t} : /\ pc'[u] = pc[u] /\ sig'[u] = sig[u]
                              /\ view'[u] = view[u]
  BY <1>1 DEF ServeTypeOK
<1>3. pc'[t] = "send" /\ view'[t] = v
  BY <1>1 DEF ServeTypeOK
<1>4. Stream \in Thread
  BY DEF Thread
<1>5. Signing'
  BY <1>2, <1>3 DEF BoardInv, Signing
<1>6. Building'
  BY <1>2, <1>3 DEF BoardInv, Building
<1>7. Streaming'
  BY <1>2, <1>3, <1>4 DEF BoardInv, Streaming
<1> QED  BY <1>5, <1>6, <1>7

\* A request that ends is of no more account.
LEMMA EndHolds ==
    ASSUME ServeTypeOK, BoardInv, NEW t \in Thread, End(t),
           files' = files, stamp' = stamp, shown' = shown \/ t = Stream,
           shown'.files <= files
    PROVE  (Signing /\ Building /\ Streaming)'
<1> USE DEF Asking
<1>1. /\ pc' = [pc EXCEPT ![t] = Finished(t)]
      /\ view' = [view EXCEPT ![t] = Unseen]
      /\ sig' = [sig EXCEPT ![t] = None]
  BY DEF End, Goto
<1>2. \A u \in Thread \ {t} : /\ pc'[u] = pc[u] /\ sig'[u] = sig[u]
                              /\ view'[u] = view[u]
  BY <1>1 DEF ServeTypeOK
<1>3. pc'[t] \in {"poll", "idle"} /\ view'[t].files = 0
  BY <1>1 DEF ServeTypeOK, Finished, Unseen
<1>4. Stream \in Thread
  BY DEF Thread
<1>5. Signing'
  BY <1>2, <1>3 DEF BoardInv, Signing
<1>6. Building'
  <2>1. 0 <= files'
    BY DEF ServeTypeOK, Version
  <2> QED  BY <1>2, <1>3, <2>1 DEF BoardInv, Building
<1>7. Streaming'
  BY <1>2, <1>3, <1>4 DEF BoardInv, Streaming
<1> QED  BY <1>5, <1>6, <1>7
LEMMA StepHolds ==
    ASSUME ServeTypeOK, BoardInv, NEW t \in Thread, Step(t)
    PROVE  BoardInv'
<1> USE DEF Asking
<1>1. Stream \in Thread
  BY DEF Thread
<1>2. CASE Look(t)
  <2>1. CASE Hit(Signature)
    <3>1. Send(t, cached.view) /\ cached.view \in View
      BY <1>2, <2>1, ViewTyped DEF Look, Hit
    <3>2. cached.view.files = files
      <4>1. cached.sig.files = files
        BY <2>1 DEF Hit, Signature
      <4>2. cached.view.files \in Nat /\ files \in Nat
        BY <3>1 DEF ServeTypeOK, Version, View
      <4> QED  BY <2>1, <4>1, <4>2 DEF BoardInv, Keeping, Hit
    <3>3. UNCHANGED <<files, stamp, shown, cached>>
      BY <1>2 DEF Look, cache, drifts, client
    <3>4. cached.view.files <= files /\ cached.view.files >= shown.files
      BY <3>2 DEF BoardInv, Streaming, ServeTypeOK, Version
    <3>5. (Signing /\ Building /\ Streaming)'
      BY <3>1, <3>3, <3>4, SendHolds
    <3> QED  BY <3>3, <3>5 DEF BoardInv, Keeping
  <2>2. CASE ~Hit(Signature)
    <3>1. /\ sig' = [sig EXCEPT ![t] = Signature]
          /\ pc' = [pc EXCEPT ![t] = "lock"]
          /\ UNCHANGED <<files, stamp, shown, cached, view>>
      BY <1>2, <2>2 DEF Look, Goto, cache, drifts, client
    <3>2. \A u \in Thread \ {t} : pc'[u] = pc[u] /\ sig'[u] = sig[u]
      BY <3>1 DEF ServeTypeOK
    <3>3. pc'[t] = "lock" /\ sig'[t] = Signature /\ Signature \in Signed
      BY <3>1, SignatureTyped DEF ServeTypeOK
    <3>4. Signature.files = files /\ Signature.drift = stamp
      BY DEF Signature
    <3>5. Signing'
      BY <3>1, <3>2, <3>3, <3>4 DEF BoardInv, Signing, ServeTypeOK, Version
    <3>6. Building' /\ Keeping'
      BY <3>1, <3>2, <3>3 DEF BoardInv, Building, Keeping
    <3>7. Streaming'
      BY <1>1, <3>1, <3>2, <3>3, <3>4 DEF BoardInv, Streaming
    <3> QED  BY <3>5, <3>6, <3>7 DEF BoardInv
  <2> QED  BY <2>1, <2>2
<1>3. CASE Lock(t)
  <2>1. CASE Hit(sig[t])
    <3>1. Send(t, cached.view) /\ cached.view \in View
      BY <1>3, <2>1, ViewTyped DEF Lock, Hit
    <3>2. UNCHANGED <<files, stamp, shown, cached>>
      BY <1>3 DEF Lock, drifts, client
    <3>3. cached.view.files <= files /\ cached.view.files >= sig[t].files
      BY <2>1 DEF BoardInv, Keeping, Hit
    <3>4. t = Stream => cached.view.files >= shown.files
      <4>1. pc[t] = "lock" /\ sig[t] \in Signed
        BY <1>3 DEF Lock, BoardInv, Signing
      <4> QED  BY <3>1, <3>3, <4>1
               DEF BoardInv, Streaming, ServeTypeOK, Version, View, Signed
    <3>5. (Signing /\ Building /\ Streaming)'
      BY <3>1, <3>2, <3>3, <3>4, SendHolds
    <3> QED  BY <3>2, <3>5 DEF BoardInv, Keeping
  <2>2. CASE ~Hit(sig[t])
    <3>1. /\ pc' = [pc EXCEPT ![t] = "derive"] /\ pc[t] = "lock"
          /\ UNCHANGED <<files, stamp, shown, cached, sig, view>>
      BY <1>3, <2>2 DEF Lock, Goto, drifts, client
    <3>2. pc'[t] = "derive" /\ \A u \in Thread \ {t} : pc'[u] = pc[u]
      BY <3>1 DEF ServeTypeOK
    <3>3. Signing' /\ Building' /\ Keeping'
      BY <3>1, <3>2 DEF BoardInv, Signing, Building, Keeping
    <3>4. Streaming'
      BY <1>1, <3>1, <3>2 DEF BoardInv, Streaming
    <3> QED  BY <3>3, <3>4 DEF BoardInv
  <2> QED  BY <2>1, <2>2
<1>4. CASE Derive(t)
  <2>1. /\ pc' = [pc EXCEPT ![t] = "overlay"] /\ pc[t] = "derive"
        /\ view' = [view EXCEPT ![t] = [files |-> files, drift |-> 0, stamp |-> 0]]
        /\ UNCHANGED <<files, stamp, shown, cached, sig>>
    BY <1>4 DEF Derive, Goto, cache, drifts, client
  <2>2. pc'[t] = "overlay" /\ view'[t].files = files
    BY <2>1 DEF ServeTypeOK
  <2>3. \A u \in Thread \ {t} : pc'[u] = pc[u] /\ view'[u] = view[u]
    BY <2>1 DEF ServeTypeOK
  <2>4. Signing' /\ Keeping'
    BY <2>1, <2>2, <2>3 DEF BoardInv, Signing, Keeping
  <2>5. Building'
    <3>1. sig[t] \in Signed /\ sig[t].files <= files /\ files <= files
      BY <2>1 DEF BoardInv, Signing, ServeTypeOK, Version
    <3>2. sig[t].files \in Nat /\ files \in Nat
      BY <3>1 DEF ServeTypeOK, Version, Signed
    <3> QED  BY <2>1, <2>2, <2>3, <3>1, <3>2 DEF BoardInv, Building
  <2>6. Streaming'
    BY <1>1, <2>1, <2>2, <2>3 DEF BoardInv, Streaming
  <2> QED  BY <2>4, <2>5, <2>6 DEF BoardInv
<1>5. CASE Overlay(t)
  <2>1. /\ pc' = [pc EXCEPT ![t] = "schedule"] /\ pc[t] = "overlay"
        /\ view' = [view EXCEPT ![t] = [@ EXCEPT !.drift = drift, !.stamp = stamp]]
        /\ UNCHANGED <<files, stamp, shown, cached, sig>>
    BY <1>5 DEF ServeTypeOK, Overlay, View, Goto, cache, drifts, client
  <2>2. /\ pc'[t] = "schedule" /\ view'[t].files = view[t].files
        /\ view'[t].stamp = stamp
    <3>1. view[t] \in View /\ view'[t] = [view[t] EXCEPT !.drift = drift, !.stamp = stamp]
      BY <2>1 DEF ServeTypeOK
    <3> QED  BY <2>1, <3>1 DEF ServeTypeOK, View
  <2>3. \A u \in Thread \ {t} : pc'[u] = pc[u] /\ view'[u] = view[u]
    BY <2>1 DEF ServeTypeOK
  <2>4. Signing' /\ Keeping'
    BY <2>1, <2>2, <2>3 DEF BoardInv, Signing, Keeping
  <2>5. Building'
    <3>1. sig[t] \in Signed /\ sig[t].drift <= stamp
      BY <2>1 DEF BoardInv, Signing
    <3>2. stamp >= sig[t].drift
      BY <3>1 DEF ServeTypeOK, Signed
    <3> QED  BY <2>1, <2>2, <2>3, <3>2 DEF BoardInv, Building
  <2>6. Streaming'
    BY <1>1, <2>1, <2>2, <2>3 DEF BoardInv, Streaming
  <2> QED  BY <2>4, <2>5, <2>6 DEF BoardInv
<1>6. CASE Schedule(t)
  <2>1. /\ pc[t] = "schedule" /\ cached' = [sig |-> sig[t], view |-> view[t]]
        /\ Send(t, view[t]) /\ UNCHANGED <<files, stamp, shown>>
    BY <1>6 DEF Schedule, Entry, client
  <2>2. view[t] \in View
    BY DEF ServeTypeOK
  <2>3. view[t].files <= files /\ (t = Stream => view[t].files >= shown.files)
    BY <2>1 DEF BoardInv, Building, Streaming
  <2>4. (Signing /\ Building /\ Streaming)'
    BY <2>1, <2>2, <2>3, SendHolds
  <2>5. Keeping'
    BY <2>1 DEF BoardInv, Building, Keeping
  <2> QED  BY <2>4, <2>5 DEF BoardInv
<1>7. CASE Answer(t)
  <2>1. End(t) /\ UNCHANGED <<files, stamp, shown, cached>>
    BY <1>7 DEF Answer, cache, drifts, client
  <2>2. (Signing /\ Building /\ Streaming)'
    BY <2>1, EndHolds DEF BoardInv, Streaming
  <2> QED  BY <2>1, <2>2 DEF BoardInv, Keeping
<1> QED  BY <1>2, <1>3, <1>4, <1>5, <1>6, <1>7 DEF Step

LEMMA NextHolds ==
    ASSUME ServeTypeOK, BoardInv, ServeNext
    PROVE  BoardInv'
<1> USE DEF Asking
<1>1. Stream \in Thread
  BY DEF Thread
<1>2. ASSUME NEW t \in Thread, Step(t) PROVE BoardInv'
  BY <1>2, StepHolds
<1>3. CASE Sign
  <2>1. UNCHANGED <<files, stamp, shown, cached>>
    BY <1>3 DEF Sign, cache, drifts
  <2>2. CASE Signature = previous
    <3>1. (Signing /\ Building /\ Streaming)'
      BY <1>1, <1>3, <2>1, <2>2, EndHolds DEF Sign, BoardInv, Streaming
    <3> QED  BY <2>1, <3>1 DEF BoardInv, Keeping
  <2>3. CASE Signature # previous
    <3>1. pc' = [pc EXCEPT ![Stream] = "state"] /\ UNCHANGED <<sig, view>>
      BY <1>3, <2>3 DEF Sign, Goto
    <3>2. pc'[Stream] = "state" /\ \A u \in Thread \ {Stream} : pc'[u] = pc[u]
      BY <1>1, <3>1 DEF ServeTypeOK
    <3> QED  BY <1>1, <2>1, <3>1, <3>2
             DEF BoardInv, Signing, Building, Keeping, Streaming
  <2> QED  BY <2>2, <2>3
<1>4. CASE Push
  <2>1. /\ pc[Stream] = "send" /\ End(Stream) /\ shown'.files = view[Stream].files
        /\ UNCHANGED <<files, stamp, cached>>
    BY <1>4 DEF Push, Glance, cache, drifts
  <2>2. shown'.files <= files
    BY <1>1, <2>1 DEF BoardInv, Building
  <2>3. (Signing /\ Building /\ Streaming)'
    BY <1>1, <2>1, <2>2, EndHolds
  <2> QED  BY <2>1, <2>3 DEF BoardInv, Keeping
<1>5. CASE Acted
  BY <1>5 DEF Acted, drifts, thread, client, BoardInv, Signing, Building, Keeping,
              Streaming
<1>6. ASSUME NEW click \in BOOLEAN, Change(click) PROVE BoardInv'
  <2>1. files' = files + 1 /\ UNCHANGED <<cached, stamp, shown, pc, sig, view>>
    BY <1>6 DEF Change, cache, drifts, thread, client
  <2>2. files \in Nat /\ \A t \in Thread : view[t].files \in Nat
    BY DEF ServeTypeOK, Version, View
  <2>3. Signing'
    <3>1. ASSUME NEW t \in Thread, pc[t] \in Asking
          PROVE  sig[t] \in Signed /\ sig[t].files <= files + 1 /\ sig[t].drift <= stamp
      <4>1. sig[t] \in Signed /\ sig[t].files <= files /\ sig[t].drift <= stamp
        BY <3>1 DEF BoardInv, Signing
      <4>2. sig[t].files \in Nat
        BY <4>1 DEF Signed, Version
      <4> QED  BY <2>2, <4>1, <4>2
    <3> QED  BY <2>1, <3>1 DEF Signing
  <2>4. Building' /\ Streaming'
    BY <2>1, <2>2 DEF BoardInv, Building, Streaming, ServeTypeOK, Version
  <2>5. Keeping'
    BY <2>1, <2>2, ViewTyped DEF BoardInv, Keeping, View, Version
  <2> QED  BY <2>3, <2>4, <2>5 DEF BoardInv
<1>7. ASSUME NEW t \in Thread, Request(t) PROVE BoardInv'
  <2>1. /\ t # Stream /\ pc' = [pc EXCEPT ![t] = "state"]
        /\ UNCHANGED <<files, stamp, shown, cached, sig, view>>
    BY <1>7, BoardAssumption DEF Request, Goto, cache, drifts, client
  <2>2. pc'[t] = "state" /\ \A u \in Thread \ {t} : pc'[u] = pc[u]
    BY <2>1 DEF ServeTypeOK
  <2> QED  BY <1>1, <2>1, <2>2
           DEF BoardInv, Signing, Building, Keeping, Streaming
<1>8. ASSUME NEW t \in Thread, DeriveFails(t) PROVE BoardInv'
  <2>1. End(t) /\ UNCHANGED <<files, stamp, shown, cached>>
    BY <1>8 DEF DeriveFails, drifts, client
  <2>2. (Signing /\ Building /\ Streaming)'
    BY <2>1, EndHolds DEF BoardInv, Streaming
  <2> QED  BY <2>1, <2>2 DEF BoardInv, Keeping
<1>9. ASSUME NEW j \in jobs, Reconcile(j) PROVE BoardInv'
  BY <1>9 DEF Reconcile, cache, thread, client, BoardInv, Signing, Building,
              Keeping, Streaming
<1>10. ASSUME NEW j \in jobs, Land(j) PROVE BoardInv'
  <2>1. stamp' = stamp + 1 /\ UNCHANGED <<files, cached, shown, pc, sig, view>>
    BY <1>10 DEF Land, StampNext, cache, thread, client
  <2>2. Signing'
    BY <2>1 DEF BoardInv, Signing, Signed, ServeTypeOK
  <2>3. Building' /\ Keeping' /\ Streaming'
    BY <2>1 DEF BoardInv, Building, Keeping, Streaming
  <2> QED  BY <2>2, <2>3 DEF BoardInv
<1>11. CASE Lose
  <2>1. End(Stream) /\ UNCHANGED <<files, stamp, shown, cached>>
    BY <1>11 DEF Lose, cache, drifts
  <2>2. (Signing /\ Building /\ Streaming)'
    BY <1>1, <2>1, EndHolds DEF BoardInv, Streaming
  <2> QED  BY <2>1, <2>2 DEF BoardInv, Keeping
<1>12. CASE Restart
  <2>1. /\ \A t \in Thread : pc'[t] \in {"poll", "idle"} /\ view'[t].files = 0
        /\ cached' = None /\ UNCHANGED <<files, shown>>
    BY <1>12 DEF Restart, FirstPc, Unseen
  <2>2. 0 <= files
    BY DEF ServeTypeOK, Version
  <2> QED  BY <1>1, <2>1, <2>2 DEF BoardInv, Signing, Building, Keeping, Streaming
<1> QED
  BY <1>2, <1>3, <1>4, <1>5, <1>6, <1>7, <1>8, <1>9, <1>10, <1>11, <1>12
     DEF ServeNext, Serve

LEMMA StutterHolds ==
    ASSUME ServeTypeOK, BoardInv, UNCHANGED serveVars
    PROVE  (ServeTypeOK /\ BoardInv)'
<1>1. ServeTypeOK'
  BY DEF ServeTypeOK, serveVars, cache, drifts, thread, client
<1>2. BoardInv'
  BY DEF BoardInv, Signing, Building, Keeping, Streaming, serveVars, cache, drifts,
         thread, client
<1> QED  BY <1>1, <1>2

-----------------------------------------------------------------------------
\* Every step of the daemon, its threads, its reconciles and its restarts keeps
\* the types and what the threads and the cache hold.
LEMMA Inductive == ServeSpec => [](ServeTypeOK /\ BoardInv)
<1>1. ServeInit => ServeTypeOK /\ BoardInv
  BY InitTyped, InitHolds
<1>2. ServeTypeOK /\ BoardInv /\ [ServeNext]_serveVars => (ServeTypeOK /\ BoardInv)'
  BY NextTyped, NextHolds, StutterHolds DEF BoardInv
<1> QED  BY <1>1, <1>2, PTL DEF ServeSpec

\* The state of the daemon has its types.
THEOREM ServeTypeCorrect == ServeSpec => []ServeTypeOK
BY Inductive, PTL

\* BoardCache.state keeps no state under a signature newer than what it was read
\* from, neither of the files nor of the drift, whoever stores it: a page never
\* waits for a change that is already there.
THEOREM CacheIsNeverOlder == ServeSpec => []CacheIsNotOlder
<1>1. BoardInv => CacheIsNotOlder
  BY DEF BoardInv, Keeping, CacheIsNotOlder
<1> QED  BY <1>1, Inductive, PTL

LEMMA StepsAreThePages ==
    ASSUME ServeTypeOK, BoardInv, [ServeNext]_serveVars
    PROVE  [Shown!Next]_(Shown!pageVars)
<1> USE DEF Shown!Next, Shown!pageVars
<1>1. CASE Push
  <2>1. /\ pc[Stream] = "send" /\ shown'.files = view[Stream].files
        /\ UNCHANGED files
    BY <1>1 DEF Push, Glance
  <2>2. view[Stream].files >= shown.files /\ view[Stream].files <= files
    BY <2>1 DEF BoardInv, Streaming, Building, Thread
  <2>3. view[Stream].files \in Nat /\ shown.files \in Nat /\ files \in Nat
    BY DEF ServeTypeOK, View, Version, Thread
  <2>4. CASE view[Stream].files = shown.files
    BY <2>1, <2>4
  <2>5. CASE view[Stream].files # shown.files
    <3>1. Shown!Push
      BY <2>1, <2>2, <2>3, <2>5 DEF Shown!Push
    <3> QED  BY <3>1
  <2> QED  BY <2>4, <2>5
<1>2. ASSUME NEW click \in BOOLEAN, Change(click) PROVE Shown!Change
  BY <1>2 DEF Change, client, Shown!Change
<1>3. CASE Acted \/ Sign \/ Lose \/ Restart \/ UNCHANGED serveVars
  BY <1>3 DEF Acted, Sign, Lose, Restart, serveVars, client
<1>4. ASSUME NEW t \in Thread, Step(t) \/ Request(t) \/ DeriveFails(t)
      PROVE  UNCHANGED <<files, shown>>
  BY <1>4 DEF Step, Look, Lock, Derive, Overlay, Schedule, Answer, Request,
              DeriveFails, client
<1>5. ASSUME NEW j \in jobs, Reconcile(j) \/ Land(j)
      PROVE  UNCHANGED <<files, shown>>
  BY <1>5 DEF Reconcile, Land, client
<1> QED  BY <1>1, <1>2, <1>3, <1>4, <1>5 DEF ServeNext, Serve

\* stream: of the versions of the board a page is shown some, no older one after
\* a newer one and none before it exists, over lost connections and restarts of
\* the daemon: every step of the daemon is one BoardPage allows, or none of its.
THEOREM StreamStepsAsPromised == ServeSpec => Shown!Safety
<1>1. ServeInit => Shown!Init
  BY DEF ServeInit, Shown!Init, Glance, Unseen
<1>2. ServeTypeOK /\ BoardInv /\ [ServeNext]_serveVars => [Shown!Next]_(Shown!pageVars)
  BY StepsAreThePages
<1> QED  BY <1>1, <1>2, Inductive, PTL DEF ServeSpec, Shown!Safety
===========================================================================
