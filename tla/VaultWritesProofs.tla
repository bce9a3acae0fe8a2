-------------------------- MODULE VaultWritesProofs --------------------------
(***************************************************************************)
(* Theorems about VaultWrites, for any number of commands and notes, any    *)
(* edits, kills and interrupts: the types, the write lock, and, while no    *)
(* lock is broken, that what was accepted is kept and what failed undone.   *)
(***************************************************************************)
EXTENDS VaultWrites, WellFoundedInduction, TLAPS

---------------------------------------------------------------------------
(* Types.                                                                  *)

\* The next path of a plan is one of the plan.
LEMMA MinIsMember ==
    ASSUME NEW S, S \subseteq Path, S # {}
    PROVE  Min(S) \in S /\ Min(S) \in Path
<1> DEFINE R == {ss \in Nat \X Nat : ss[1] < ss[2]}
<1>1. IsWellFoundedOn(R, Nat)
      BY NatLessThanWellFounded DEF OpToRel
<1> HIDE DEF R
<1>2. PICK x \in S : \A y \in S : <<y, x>> \notin R
      BY <1>1, PathAssumption, WFMin
<1>3. ASSUME NEW y \in S PROVE x <= y
  <2>1. x \in Nat /\ y \in Nat
        BY PathAssumption
  <2>2. ~ (y < x)
    <3>1. y < x => <<y, x>> \in R
          BY <2>1 DEF R
    <3> QED BY <3>1, <1>2
  <2> QED BY <2>1, <2>2
<1> QED BY <1>3 DEF Min

LEMMA WriteFileType ==
    ASSUME TypeOK, NEW p \in Path, NEW text \in SUBSET Token, WriteFile(p, text)
    PROVE  /\ vault' \in [Path -> Note \cup {None}]
           /\ vault'[p] # None /\ vault'[p].text = text
           /\ \A r \in Path \ {p} : vault'[r] = vault[r]
<1>1. Fresh \in Nat
      BY DEF WriteFile
<1> HIDE DEF Fresh
<1> QED BY <1>1, NoneAssumption DEF WriteFile, TypeOK, Note

\* What the commands put into a note is made of what was in notes.
LEMMA Stamped ==
    ASSUME TypeOK, NEW ps \in SUBSET Path
    PROVE  Stamps(ps) \in [Path -> Nat]
BY DEF TypeOK, Stamps, Exists, Note

LEMMA BackupsAreNotes ==
    ASSUME TypeOK, NEW w \in Writer, BackedUp(w) # {}
    PROVE  /\ Min(BackedUp(w)) \in BackedUp(w)
           /\ Min(BackedUp(w)) \in Path
BY MinIsMember DEF BackedUp

LEMMA StartTypes ==
    ASSUME TypeOK, NEW w \in Writer, Begin(w)
    PROVE  TypeOK'
<1> PICK o \in Ops[w] :
        \/ StartAppend(w, o) \/ StartDaily(w, o) \/ StartProp(w, o)
        \/ StartPlain(w, o) \/ StartRetag(w, o) \/ StartMove(w, o)
    BY DEF Begin
<1>1. o \in Command /\ o.p \in Path /\ o.q \in Path
      BY OpsAssumption DEF Command
<1>2. ASSUME NEW l \in Alive, Start(w, o, l)
      PROVE  /\ op' \in [Writer -> Command \cup {None}]
             /\ aim' \in [Writer -> Path \cup {None}]
             /\ pc' \in [Writer -> Alive \cup {"idle", "done", "dead"}]
             /\ UNCHANGED <<vault, trash, lock, backup, who, result,
                            edits, kills, broken, clobbered>>
      BY <1>1, <1>2 DEF TypeOK, Start, Goto
<1>3. CASE StartAppend(w, o)
      BY <1>1, <1>2, <1>3, Stamped DEF StartAppend, TypeOK, Alive
<1>4. CASE StartDaily(w, o)
      BY <1>1, <1>2, <1>4 DEF StartDaily, TypeOK, Alive
<1>5. CASE StartProp(w, o)
  <2>1. vault[o.p].text \cup {w} \in SUBSET Token
        BY <1>1, <1>5 DEF StartProp, TypeOK, Exists, Note, Token
  <2> QED BY <1>2, <1>5, <2>1 DEF StartProp, TypeOK, Alive
<1>6. CASE StartPlain(w, o)
      BY <1>1, <1>2, <1>6 DEF StartPlain, TypeOK, Alive
<1>7. CASE StartRetag(w, o)
      BY <1>1, <1>2, <1>7, Stamped DEF StartRetag, TypeOK, Alive
<1>8. CASE StartMove(w, o)
      BY <1>1, <1>2, <1>8, Stamped DEF StartMove, TypeOK, Alive
<1> QED BY <1>3, <1>4, <1>5, <1>6, <1>7, <1>8

LEMMA NewLockType ==
    ASSUME NEW w \in Writer
    PROVE  /\ NewLock(w) \in Lock /\ [NewLock(w) EXCEPT !.signed = TRUE] \in Lock
           /\ NewLock(w).owner = w /\ [NewLock(w) EXCEPT !.signed = TRUE].owner = w
BY DEF NewLock, Lock

LEMMA LockTypes ==
    ASSUME TypeOK, NEW w \in Writer, Locking(w)
    PROVE  TypeOK'
<1>1. CASE TryLock(w)
  <2>1. lock' \in Lock \cup {None}
        BY <1>1, NewLockType DEF TryLock, TypeOK
  <2>2. pc' \in [Writer -> Alive \cup {"idle", "done", "dead"}]
        BY <1>1 DEF TryLock, TypeOK, Goto, Alive, Holding
  <2> QED BY <1>1, <2>1, <2>2 DEF TryLock, TypeOK, files, local
<1>2. CASE Sign(w)
  <2>1. lock' \in Lock \cup {None}
        BY <1>2, NewLockType DEF Sign, TypeOK
  <2>2. pc' \in [Writer -> Alive \cup {"idle", "done", "dead"}]
        BY <1>2 DEF Sign, TypeOK, Goto, Alive, Holding
  <2> QED BY <1>2, <2>1, <2>2 DEF Sign, TypeOK, files, local
<1>3. CASE Probe(w)
      BY <1>3 DEF Probe, TypeOK, Goto, Lock, files, local, Alive
<1>4. CASE Judge(w)
      BY <1>4 DEF Judge, TypeOK, Goto, Unlink, files, local, Alive
<1>5. CASE Retake(w)
  <2>1. lock' \in Lock \cup {None}
        BY <1>5, NewLockType DEF Retake, TypeOK
  <2>2. pc' \in [Writer -> Alive \cup {"idle", "done", "dead"}]
        BY <1>5 DEF Retake, TypeOK, Goto, Alive, Holding
  <2> QED BY <1>5, <2>1, <2>2 DEF Retake, TypeOK, files, local
<1>6. CASE Refused(w)
      BY <1>6 DEF Refused, TypeOK, Goto, Unlink, Over, NoStamps, files
<1>7. CASE Release(w)
      BY <1>7 DEF Release, TypeOK, Goto, Unlink, Over, NoStamps, files
<1> QED BY <1>1, <1>2, <1>3, <1>4, <1>5, <1>6, <1>7 DEF Locking

\* A command that has begun has its command, and a place to write to.
Assigned == \A w \in Writer :
    /\ pc[w] # "idle" => op[w] \in Command
    /\ pc[w] \in Alive => aim[w] \in Path

LEMMA WorkTypes ==
    ASSUME TypeOK, Assigned, NEW w \in Writer, Work(w)
    PROVE  TypeOK'
<1>0. pc[w] # "idle" => op[w].p \in Path /\ op[w].q \in Path
      BY DEF Command, Assigned
<1> DEFINE Places == [Writer -> Alive \cup {"idle", "done", "dead"}]
           Results == [Writer -> {"none", "ok", "failed", "unrecorded", "interrupted"}]
<1>f. ASSUME Fail(w) PROVE pc' \in Places /\ result' \in Results
      BY <1>f DEF Fail, Goto, TypeOK, Alive, Holding
<1>1. CASE Born(w)
  <2>1. WriteFile(op[w].p, {}) /\ op[w].p \in Path
        BY <1>0, <1>1 DEF Born
  <2>2. vault' \in [Path -> Note \cup {None}]
        BY <2>1, WriteFileType
  <2>3. pc' \in Places /\ clobbered' \in BOOLEAN
        BY <1>1 DEF Born, Goto, TypeOK, Alive
  <2> QED BY <1>1, <2>2, <2>3 DEF Born, TypeOK, local
<1>2. CASE BornTaken(w)
      BY <1>2 DEF BornTaken, TypeOK, Goto, files, local
<1>3. CASE Again(w)
  <2>1. Stamps({op[w].p}) \in [Path -> Nat]
    <3>1. {op[w].p} \in SUBSET Path
          BY <1>0, <1>3 DEF Again
    <3> QED BY <3>1, Stamped
  <2> QED BY <1>3, <2>1 DEF Again, TypeOK, Goto, Alive, files
<1>4. CASE Compose(w)
  <2>1. copy' \in [Writer -> SUBSET Token]
    <3>1. Exists(aim[w]) => vault[aim[w]].text \cup {w} \in SUBSET Token
      <4>1. aim[w] \in Path
            BY <1>4 DEF Compose, Working, Assigned, Alive, Holding
      <4> QED BY <4>1 DEF TypeOK, Exists, Note, Token
    <3>2. {w} \in SUBSET Token
          BY DEF Token
    <3> QED BY <1>4, <3>1, <3>2 DEF Compose, TypeOK
  <2>2. pc' \in Places /\ result' \in Results
        BY <1>4, <1>f DEF Compose, Goto, TypeOK, Alive, Holding
  <2> QED BY <1>4, <2>1, <2>2 DEF Compose, TypeOK, files
<1>5. CASE Write(w)
  <2>1. vault' \in [Path -> Note \cup {None}]
    <3>1. aim[w] \in Path /\ copy[w] \in SUBSET Token /\ WriteFile(aim[w], copy[w])
          BY <1>5 DEF Write, TypeOK, Assigned, Alive, Holding
    <3> QED BY <3>1, WriteFileType
  <2>2. pc' \in Places /\ result' \in Results
        BY <1>5 DEF Write, Goto, TypeOK, Alive, Holding
  <2>3. copy' \in [Writer -> SUBSET Token] /\ clobbered' \in BOOLEAN
        BY <1>5 DEF Write, TypeOK
  <2>4. aim' \in [Writer -> Path \cup {None}]
    <3>1. op[w].q \in Path
          BY <1>0, <1>5 DEF Write
    <3> QED BY <1>5, <3>1 DEF Write, TypeOK
  <2> QED BY <1>5, <2>1, <2>2, <2>3, <2>4 DEF Write, TypeOK
<1>6. CASE Trash(w)
  <2>1. vault' \in [Path -> Note \cup {None}] /\ trash' \in [Path -> Note \cup {None}]
        BY <1>0, <1>6 DEF Trash, Working, TypeOK, Exists
  <2>2. pc' \in Places /\ result' \in Results /\ clobbered' \in BOOLEAN
        BY <1>6, <1>f DEF Trash, Goto, TypeOK, Alive, Holding
  <2> QED BY <1>6, <2>1, <2>2 DEF Trash, TypeOK, local
<1>7. CASE Visit(w)
  <2> DEFINE p == Min(todo[w])
  <2>1. p \in Path /\ todo[w] \ {p} \subseteq Path
        BY <1>7, MinIsMember DEF Visit, TypeOK
  <2> HIDE DEF p
  <2>2. todo' \in [Writer -> SUBSET Path]
        BY <1>7, <2>1 DEF Visit, TypeOK, p
  <2>3. backup' \in [Writer -> [Path -> Note \cup {None}]]
    <3>1. backup' = backup \/ backup' = [backup EXCEPT ![w][p] = vault[p]]
          BY <1>7 DEF Visit, p
    <3>2. vault[p] \in Note \cup {None} /\ backup[w] \in [Path -> Note \cup {None}]
          BY <2>1 DEF TypeOK
    <3>3. [backup[w] EXCEPT ![p] = vault[p]] \in [Path -> Note \cup {None}]
          BY <2>1, <3>2
    <3> QED BY <2>1, <3>1, <3>3 DEF TypeOK
  <2>4. copy' \in [Writer -> SUBSET Token]
    <3>1. \/ UNCHANGED copy
          \/ /\ Exists(p)
             /\ copy' = [copy EXCEPT ![w] = (vault[p].text \ {Tag}) \cup {w}]
          BY <1>7 DEF Visit, p
    <3>2. Exists(p) => (vault[p].text \ {Tag}) \cup {w} \in SUBSET Token
      <4>1. Exists(p) => vault[p].text \in SUBSET Token
            BY <2>1 DEF TypeOK, Exists, Note
      <4>2. w \in Token
            BY DEF Token
      <4> QED BY <4>1, <4>2
    <3> QED BY <3>1, <3>2 DEF TypeOK
  <2>5. aim' \in [Writer -> Path \cup {None}]
        BY <1>7, <2>1 DEF Visit, TypeOK, p
  <2>6. pc' \in Places /\ result' \in Results
        BY <1>7, <1>f DEF Visit, Goto, TypeOK, Alive, Holding
  <2> QED BY <1>7, <2>2, <2>3, <2>4, <2>5, <2>6 DEF Visit, TypeOK, files
<1>8. CASE Rename(w)
  <2>0. op[w].p \in Path /\ op[w].q \in Path
        BY <1>0, <1>8 DEF Rename, Working
  <2>1. vault' \in [Path -> Note \cup {None}]
    <3>1. vault[op[w].p] \in Note \cup {None} /\ vault \in [Path -> Note \cup {None}]
          BY <2>0 DEF TypeOK
    <3>2. \/ vault' = vault
          \/ vault' = [vault EXCEPT ![op[w].q] = vault[op[w].p], ![op[w].p] = None]
          BY <1>8 DEF Rename
    <3> QED BY <2>0, <3>1, <3>2
  <2>3. todo' \in [Writer -> SUBSET Path]
    <3>1. UNCHANGED todo \/ todo' = [todo EXCEPT ![w] = BackedUp(w) \ {op[w].p}]
          BY <1>8 DEF Rename
    <3>2. BackedUp(w) \ {op[w].p} \in SUBSET Path
          BY DEF BackedUp
    <3> QED BY <3>1, <3>2 DEF TypeOK
  <2>2. pc' \in Places /\ result' \in Results /\ clobbered' \in BOOLEAN
        BY <1>8, <1>f DEF Rename, Goto, TypeOK, Alive, Holding
  <2> QED BY <1>8, <2>1, <2>3, <2>2 DEF Rename, TypeOK
<1>9. CASE Relink(w)
  <2> DEFINE p == Min(todo[w])
  <2>1. p \in Path /\ todo[w] \ {p} \subseteq Path
        BY <1>9, MinIsMember DEF Relink, TypeOK
  <2> HIDE DEF p
  <2>2. todo' \in [Writer -> SUBSET Path]
        BY <1>9, <2>1 DEF Relink, TypeOK, p
  <2>3. copy' \in [Writer -> SUBSET Token]
    <3> DEFINE text == (vault[p].text \ {Link(op[w].p)}) \cup {Link(op[w].q)}
    <3>1. UNCHANGED copy \/ (Exists(p) /\ copy' = [copy EXCEPT ![w] = text])
          BY <1>9 DEF Relink, p
    <3>2. Exists(p) => text \in SUBSET Token
      <4>1. Link(op[w].q) \in Token
            BY <1>0, <1>9 DEF Relink, Token
      <4> QED BY <2>1, <4>1 DEF TypeOK, Exists, Note
    <3> HIDE DEF text
    <3> QED BY <3>1, <3>2 DEF TypeOK
  <2>4. aim' \in [Writer -> Path \cup {None}]
        BY <1>9, <2>1 DEF Relink, TypeOK, p
  <2>5. pc' \in Places /\ result' \in Results
        BY <1>9, <1>f DEF Relink, Goto, TypeOK, Alive, Holding
  <2> QED BY <1>9, <2>2, <2>3, <2>4, <2>5 DEF Relink, TypeOK, files
<1>10. CASE Verify(w)
      BY <1>10, <1>f DEF Verify, TypeOK, Goto, Alive, Holding, files, local
<1>11. CASE Restore(w)
  <2> DEFINE p == Min(BackedUp(w))
  <2>1. p \in BackedUp(w) /\ p \in Path
        BY <1>11, BackupsAreNotes DEF Restore
  <2> HIDE DEF p
  <2>2. backup[w][p] \in Note
        BY <2>1 DEF BackedUp, TypeOK
  <2>3. /\ vault' = [vault EXCEPT ![p] = backup[w][p]]
        /\ backup' = [backup EXCEPT ![w][p] = None]
        BY <1>11 DEF Restore, p
  <2>4. vault' \in [Path -> Note \cup {None}]
        BY <2>1, <2>2, <2>3 DEF TypeOK
  <2>5. backup' \in [Writer -> [Path -> Note \cup {None}]]
        BY <2>1, <2>3 DEF TypeOK
  <2> QED BY <1>11, <2>4, <2>5 DEF Restore, TypeOK
<1>12. CASE Restored(w)
      BY <1>0, <1>12 DEF Restored, TypeOK, Goto, Alive, Holding, local
<1>13. CASE HubUnrecorded(w)
      BY <1>13 DEF HubUnrecorded, TypeOK, Goto, Alive, Holding, files, local
<1> QED BY <1>1, <1>2, <1>3, <1>4, <1>5, <1>6, <1>7, <1>8, <1>9, <1>10, <1>11, <1>12,
           <1>13 DEF Work

LEMMA OutsideTypes ==
    ASSUME TypeOK, Assigned,
           \/ \E w \in Writer : Kill(w) \/ Interrupt(w)
           \/ \E p \in Path : EditNote(p)
    PROVE  TypeOK'
<1>1. ASSUME NEW w \in Writer, Kill(w) PROVE TypeOK'
  <2>1. vault' \in [Path -> Note \cup {None}]
    <3>1. CASE pc[w] = "write" /\ WriteFile(aim[w], {})
      <4>1. aim[w] \in Path
            BY <3>1 DEF Assigned, Alive, Holding
      <4> QED BY <3>1, <4>1, WriteFileType
    <3> QED BY <1>1, <3>1 DEF Kill, TypeOK
  <2>2. kills' \in 0..MaxOutside
        BY <1>1, BoundAssumption DEF Kill, TypeOK
  <2> QED BY <1>1, <2>1, <2>2 DEF Kill, TypeOK, Goto, local
<1>2. ASSUME NEW w \in Writer, Interrupt(w) PROVE TypeOK'
  <2>1. kills' \in 0..MaxOutside
        BY <1>2, BoundAssumption DEF Interrupt, TypeOK
  <2> QED BY <1>2, <2>1 DEF Interrupt, TypeOK, Goto, files, local, Alive, Holding
<1>3. ASSUME NEW p \in Path, EditNote(p) PROVE TypeOK'
  <2>1. vault' \in [Path -> Note \cup {None}]
    <3>1. vault[p].text \cup {Edit} \in SUBSET Token
          BY <1>3 DEF EditNote, Exists, TypeOK, Note, Token
    <3> QED BY <1>3, <3>1, WriteFileType DEF EditNote
  <2>2. edits' \in 0..MaxOutside
        BY <1>3, BoundAssumption DEF EditNote, TypeOK
  <2> QED BY <1>3, <2>1, <2>2 DEF EditNote, TypeOK, local
<1> QED BY <1>1, <1>2, <1>3

\* A step of a process.
Step(w) == Begin(w) \/ Locking(w) \/ Work(w) \/ Kill(w) \/ Interrupt(w)

LEMMA StartAssigns ==
    ASSUME TypeOK, Assigned, NEW w \in Writer, Begin(w)
    PROVE  /\ \A v \in Writer \ {w} : /\ pc'[v] = pc[v] /\ op'[v] = op[v]
                                     /\ aim'[v] = aim[v]
           /\ pc[w] = "idle" /\ op'[w] \in Ops[w] /\ aim'[w] = op'[w].p
           /\ pc'[w] \in {"lock", "born", "again"}
BY DEF Begin, TypeOK, Start, Goto, StartAppend, StartDaily, StartProp, StartPlain,
       StartRetag, StartMove

LEMMA AssignedHolds ==
    ASSUME TypeOK, Assigned, Next
    PROVE  Assigned'
<1>1. ASSUME NEW w \in Writer, Begin(w) PROVE Assigned'
      BY <1>1, StartAssigns, OpsAssumption DEF Assigned, Command
<1>2. ASSUME NEW w \in Writer, Locking(w) PROVE Assigned'
  <2>1. CASE Refused(w) \/ Release(w)
        BY <2>1 DEF Refused, Release, Over, Goto, Assigned, TypeOK, Alive, Holding
  <2>2. CASE TryLock(w) \/ Sign(w) \/ Probe(w) \/ Judge(w) \/ Retake(w)
        BY <2>2 DEF TryLock, Sign, Probe, Judge, Retake, Goto, Assigned, TypeOK,
                    Alive, Holding, local
  <2> QED BY <1>2, <2>1, <2>2 DEF Locking
<1>3. ASSUME NEW w \in Writer, Work(w) PROVE Assigned'
  <2>1. \A v \in Writer \ {w} : pc'[v] = pc[v] /\ aim'[v] = aim[v]
        BY <1>3 DEF Work, Born, BornTaken, Again, Compose, Write, HubUnrecorded,
           Trash, Visit, Rename, Relink, Verify, Restore, Restored, Goto, Fail, TypeOK, local
  <2>2. op' = op /\ pc[w] \in Alive
        BY <1>3 DEF Work, Born, BornTaken, Again, Compose, Write, HubUnrecorded,
           Trash, Visit, Rename, Relink, Verify, Restore, Restored, local, Working,
           Alive, Holding
  <2>3. aim'[w] = aim[w] \/ aim'[w] \in Path
    <3>0. todo[w] # {} => Min(todo[w]) \in Path
          BY MinIsMember DEF TypeOK
    <3>1. CASE Visit(w)
      <4>1. aim' = aim \/ aim' = [aim EXCEPT ![w] = Min(todo[w])]
            BY <3>1 DEF Visit
      <4> QED BY <3>0, <3>1, <4>1 DEF Visit, TypeOK
    <3>2. CASE Relink(w)
      <4>1. aim' = aim \/ aim' = [aim EXCEPT ![w] = Min(todo[w])]
            BY <3>2 DEF Relink
      <4> QED BY <3>0, <3>2, <4>1 DEF Relink, TypeOK
    <3>3. CASE Write(w)
      <4>1. aim' = aim \/ aim' = [aim EXCEPT ![w] = aim[w]]
                        \/ aim' = [aim EXCEPT ![w] = op[w].q]
            BY <3>3 DEF Write
      <4>2. op[w].q \in Path
            BY <3>3 DEF Write, Assigned, Command
      <4> QED BY <4>1, <4>2 DEF TypeOK
    <3> QED BY <1>3, <3>1, <3>2, <3>3 DEF Work, Born, BornTaken, Again, Compose,
           HubUnrecorded, Trash, Rename, Verify, Restore, Restored, TypeOK, local
  <2> QED BY <2>1, <2>2, <2>3 DEF Assigned, Alive, Holding
<1>4. ASSUME NEW w \in Writer, Kill(w) \/ Interrupt(w) PROVE Assigned'
      BY <1>4 DEF Kill, Interrupt, Goto, Assigned, TypeOK, Alive, Holding, local
<1>5. ASSUME NEW p \in Path, EditNote(p) PROVE Assigned'
      BY <1>5 DEF EditNote, Assigned, local
<1> QED BY <1>1, <1>2, <1>3, <1>4, <1>5 DEF Next

LEMMA InitialAreNotes ==
    ASSUME NEW p \in Path, Initial[p] # None
    PROVE  [text |-> Initial[p], stamp |-> 0] \in Note
<1>1. ASSUME NEW t \in Initial[p] PROVE t \in Token
  <2>1. t \in {Tag} \cup {Body(r) : r \in Path} \cup {Link(r) : r \in Path}
        BY InitialAssumption
  <2> QED BY <2>1, Zenon DEF Token
<1> QED BY <1>1 DEF Note

LEMMA TypeHolds == Spec => [](TypeOK /\ Assigned)
<1>1. Init => TypeOK /\ Assigned
  <2> SUFFICES ASSUME Init PROVE TypeOK /\ Assigned
      OBVIOUS
  <2>1. vault \in [Path -> Note \cup {None}]
        BY InitialAreNotes DEF Init
  <2>2. /\ seen \in [Writer -> [Path -> Nat]]
        /\ backup \in [Writer -> [Path -> Note \cup {None}]]
        BY DEF Init, NoStamps, NoBackup
  <2>3. edits \in 0..MaxOutside /\ kills \in 0..MaxOutside
        BY BoundAssumption DEF Init
  <2>4. Assigned
        BY DEF Init, Assigned, Alive, Holding
  <2>5. /\ copy \in [Writer -> SUBSET Token] /\ todo \in [Writer -> SUBSET Path]
        /\ trash \in [Path -> Note \cup {None}]
        /\ aim \in [Writer -> Path \cup {None}] /\ who \in [Writer -> Writer \cup {None}]
        BY DEF Init
  <2> QED BY <2>1, <2>2, <2>3, <2>4, <2>5 DEF Init, TypeOK
<1>2. TypeOK /\ Assigned /\ [Next]_vars => TypeOK' /\ Assigned'
  <2> SUFFICES ASSUME TypeOK, Assigned, [Next]_vars PROVE TypeOK' /\ Assigned'
      OBVIOUS
  <2>1. CASE UNCHANGED vars
        BY <2>1 DEF vars, TypeOK, Assigned
  <2>2. CASE Next
    <3>1. TypeOK'
          BY <2>2, StartTypes, LockTypes, WorkTypes, OutsideTypes DEF Next
    <3> QED BY <2>2, <3>1, AssignedHolds
  <2> QED BY <2>1, <2>2
<1> QED BY <1>1, <1>2, PTL DEF Spec

\* Every variable keeps its type.
THEOREM TypeCorrect == Spec => []TypeOK
BY TypeHolds, PTL

---------------------------------------------------------------------------
(* The lock.                                                               *)

\* While no lock of a live holder was unlinked, a holder's lock is there and its own.
HolderOwns == ~broken => \A w \in Writer :
    pc[w] \in Holding => lock # None /\ lock.owner = w

LEMMA HolderStays ==
    ASSUME TypeOK, Assigned, HolderOwns, Next
    PROVE  HolderOwns'
<1>1. ASSUME NEW w \in Writer, Begin(w) PROVE HolderOwns'
  <2>1. lock' = lock /\ broken' = broken
        BY <1>1 DEF Begin, Start, StartAppend, StartDaily, StartProp, StartPlain,
           StartRetag, StartMove
  <2> QED BY <1>1, <2>1, StartAssigns DEF HolderOwns, Holding
<1>2. ASSUME NEW w \in Writer, Locking(w) PROVE HolderOwns'
  <2>1. CASE TryLock(w)
    <3>1. lock = None => NewLock(w) # None /\ NewLock(w).owner = w
          BY NewLockType, NoneAssumption
    <3> QED BY <2>1, <3>1 DEF TryLock, Goto, HolderOwns, TypeOK, Holding
  <2>2. CASE Sign(w)
    <3>1. [NewLock(w) EXCEPT !.signed = TRUE] # None
          BY NewLockType, NoneAssumption
    <3>2. lock' = lock \/ (lock = NewLock(w) /\ lock' = [NewLock(w) EXCEPT !.signed = TRUE])
          BY <2>2 DEF Sign
    <3>3. lock # None => lock' # None /\ lock'.owner = lock.owner
          BY <3>1, <3>2, NewLockType
    <3> QED BY <2>2, <3>3 DEF Sign, Goto, HolderOwns, TypeOK, Holding
  <2>3. CASE Probe(w)
        BY <2>3 DEF Probe, Goto, HolderOwns, TypeOK, Holding
  <2>4. CASE Judge(w)
    <3>1. ASSUME Unlink(w), ~broken'
          PROVE  ~broken /\ (lock = None \/ lock.owner = w \/ pc[lock.owner] \notin Holding)
          BY <3>1 DEF Unlink, TypeOK
    <3>2. CASE pc[who[w]] \in Alive
          BY <2>4, <3>2 DEF Judge, Goto, HolderOwns, TypeOK, Holding
    <3>3. CASE pc[who[w]] \notin Alive
          BY <2>4, <3>1, <3>3 DEF Judge, Goto, HolderOwns, TypeOK, Holding
    <3> QED BY <3>2, <3>3
  <2>5. CASE Retake(w)
    <3>1. lock = None => NewLock(w) # None /\ NewLock(w).owner = w
          BY NewLockType, NoneAssumption
    <3> QED BY <2>5, <3>1 DEF Retake, Goto, HolderOwns, TypeOK, Holding
  <2>6. CASE Refused(w)
        BY <2>6 DEF Refused, Over, Unlink, Goto, HolderOwns, TypeOK, Holding
  <2>7. CASE Release(w)
        BY <2>7 DEF Release, Over, Unlink, Goto, HolderOwns, TypeOK, Holding
  <2> QED BY <1>2, <2>1, <2>2, <2>3, <2>4, <2>5, <2>6, <2>7 DEF Locking
<1>3. ASSUME NEW w \in Writer, Work(w) PROVE HolderOwns'
  <2>1. lock' = lock /\ broken' = broken
        BY <1>3 DEF Work, Born, BornTaken, Again, Compose, Write, HubUnrecorded,
           Trash, Visit, Rename, Relink, Verify, Restore, Restored
  <2>2. \A v \in Writer \ {w} : pc'[v] = pc[v]
        BY <1>3 DEF Work, Born, BornTaken, Again, Compose, Write, HubUnrecorded,
           Trash, Visit, Rename, Relink, Verify, Restore, Restored, Goto, Fail, TypeOK, local
  <2>3. pc'[w] \in Holding => pc[w] \in Holding
        BY <1>3 DEF Work, Born, BornTaken, Again, Compose, Write, HubUnrecorded,
           Trash, Visit, Rename, Relink, Verify, Restore, Restored, Goto, Fail, TypeOK,
           Working, Holding
  <2> QED BY <2>1, <2>2, <2>3 DEF HolderOwns
<1>4. ASSUME NEW w \in Writer, Kill(w) \/ Interrupt(w) PROVE HolderOwns'
      BY <1>4 DEF Kill, Interrupt, Goto, HolderOwns, TypeOK, Holding
<1>5. ASSUME NEW p \in Path, EditNote(p) PROVE HolderOwns'
      BY <1>5 DEF EditNote, HolderOwns
<1> QED BY <1>1, <1>2, <1>3, <1>4, <1>5 DEF Next

LEMMA LockHolds == Spec => []HolderOwns
<1>1. Init => HolderOwns
      BY DEF Init, HolderOwns, Holding
<1>2. TypeOK /\ Assigned /\ HolderOwns /\ [Next]_vars => HolderOwns'
  <2> SUFFICES ASSUME TypeOK, Assigned, HolderOwns, [Next]_vars PROVE HolderOwns'
      OBVIOUS
  <2>1. CASE UNCHANGED vars
        BY <2>1 DEF vars, HolderOwns
  <2> QED BY <2>1, HolderStays
<1> QED BY <1>1, <1>2, TypeHolds, PTL DEF Spec

\* write_lock: two commands are at work together only after the lock of one of
\* them was unlinked under it.
THEOREM LockIsExclusive == Spec => []ExclusiveUntilBroken
<1>1. HolderOwns => ExclusiveUntilBroken
      BY DEF HolderOwns, ExclusiveUntilBroken, LockExcludes
<1> QED BY <1>1, LockHolds, PTL

\* write_lock: the first lock of a live holder to be unlinked is unlinked by a
\* contender that is refused, or that judged its owner gone.
THEOREM OnlyContendersBreak == Spec => BrokenByContender
<1>1. TypeOK /\ HolderOwns /\ [Next]_vars => (~broken /\ broken' =>
          \E w \in Writer : pc[w] \in {"refused", "judge"} /\ pc'[w] # pc[w])
  <2> SUFFICES ASSUME TypeOK, HolderOwns, [Next]_vars, ~broken, broken'
               PROVE  \E w \in Writer : pc[w] \in {"refused", "judge"} /\ pc'[w] # pc[w]
      OBVIOUS
  <2>1. PICK w \in Writer : Judge(w) \/ Refused(w) \/ Release(w)
    <3>1. ASSUME NEW w \in Writer, Work(w) \/ Kill(w) \/ Interrupt(w) PROVE FALSE
          BY <3>1 DEF Work, Born, BornTaken, Again, Compose, Write, HubUnrecorded,
           Trash, Visit, Rename,
             Relink, Verify, Restore, Restored, Kill, Interrupt
    <3>2. ASSUME NEW w \in Writer, Begin(w) PROVE FALSE
          BY <3>2 DEF Begin, Start, StartAppend, StartDaily, StartProp, StartPlain,
             StartRetag, StartMove
    <3>3. ASSUME NEW p \in Path, EditNote(p) PROVE FALSE
          BY <3>3 DEF EditNote
    <3>4. ASSUME NEW w \in Writer, TryLock(w) \/ Sign(w) \/ Probe(w) \/ Retake(w) PROVE FALSE
          BY <3>4 DEF TryLock, Sign, Probe, Retake
    <3> QED BY <3>1, <3>2, <3>3, <3>4 DEF Next, Locking, vars
  <2>2. ~Release(w)
        BY DEF Release, Unlink, HolderOwns, TypeOK, Holding
  <2> QED BY <2>1, <2>2 DEF Judge, Refused, Over, Goto, TypeOK
<1>2. TypeOK /\ HolderOwns /\ [Next]_vars =>
          [~broken /\ broken' => \E w \in Writer :
               pc[w] \in {"refused", "judge"} /\ pc'[w] # pc[w]]_vars
      BY <1>1
<1> QED BY <1>2, TypeHolds, LockHolds, PTL DEF Spec, BrokenByContender

---------------------------------------------------------------------------
(* What a command keeps to itself, whatever the others do.                 *)

Multi == {"retag", "move"}
Busy == {"work", "write", "relink", "rollback"}
Says(note) == IF note = None THEN {} ELSE note.text

\* A command that has not begun has no command and no answer, and one that is not
\* over has not succeeded.
Unanswered(w) ==
    /\ pc[w] = "idle" => op[w] = None
    /\ pc[w] \notin {"release", "done", "dead"} => result[w] \notin {"ok", "unrecorded"}

\* Backups are made with the lock taken, by the commands on many files.
BackupsArePlanned(w) == \A p \in Path : backup[w][p] # None =>
    /\ pc[w] \in Busy \cup {"release", "done", "dead"}
    /\ op[w].kind \in Multi

\* What is left to visit has no backup yet; what is left to relink has one.
PlanIsAhead(w) == \A p \in todo[w] :
    /\ pc[w] = "work" \/ (pc[w] = "write" /\ op[w].kind = "retag") => backup[w][p] = None
    /\ pc[w] = "relink" \/ (pc[w] = "write" /\ op[w].kind = "move") => backup[w][p] # None

KindsFit(w) ==
    /\ pc[w] = "relink" => op[w].kind = "move"
    /\ pc[w] = "rollback" => op[w].kind \in Multi
    /\ pc[w] = "write" /\ op[w].kind \in Multi => backup[w][aim[w]] # None
    /\ pc[w] = "write" /\ op[w].kind \notin Multi \cup {"prop"} => w \in copy[w]

\* A command on one note writes to that note, a save-group to its hub or its child,
\* and a move goes somewhere else.
Placed(w) ==
    /\ pc[w] \in Alive /\ op[w].kind \notin Multi \cup {"group"} => aim[w] = op[w].p
    /\ op[w] # None /\ op[w].kind \in {"move", "group"} => op[w].q # op[w].p

Local(w) == /\ Unanswered(w) /\ BackupsArePlanned(w) /\ PlanIsAhead(w)
            /\ KindsFit(w) /\ Placed(w)

---------------------------------------------------------------------------
(* What was accepted.                                                      *)

Accepted(w) == result[w] = "ok" /\ op[w].kind \notin {"retag", "move", "delete"}
Kept == {w \in Writer : Accepted(w)} \cup {Body(p) : p \in {r \in Path : Initial[r] # None}}

KeptInv ==
    /\ \A t \in Kept : \E p \in Path : t \in Says(vault[p]) \cup Says(trash[p])
    /\ \A w \in Writer : pc[w] = "write" /\ op[w].kind # "apply"
          => Kept \cap Says(vault[aim[w]]) \subseteq copy[w]
    /\ \A w \in Writer, p \in Path : pc[w] \in Busy /\ backup[w][p] # None
          => Kept \cap Says(vault[p]) \subseteq Says(backup[w][p])
    /\ \A w \in Writer : pc[w] = "write" /\ op[w].kind \in Multi
          => Kept \cap copy[w] \subseteq Says(backup[w][aim[w]])
    /\ \A w \in Writer, p \in Path :
          pc[w] = "work" /\ op[w].kind = "move" /\ backup[w][p] # None => Exists(p)

---------------------------------------------------------------------------
(* What failed.                                                            *)

Mover(w, r) == op[w] # None /\ op[w].kind = "move" /\ op[w].q = r
Own(w) == {w} \cup {Link(r) : r \in {x \in Path : /\ Mover(w, x) /\ ~Written(Link(x))
                                                  /\ \A v \in Writer \ {w} : ~Mover(v, x)}}
\* It has to leave nothing behind; a save-group leaves its hub.
Open(w) == /\ result[w] \notin {"ok", "unrecorded"}
           /\ op[w] # None => op[w].kind # "group"

OwnInv ==
    /\ \A w \in Writer : pc[w] # "write" => copy[w] = {}
    /\ \A r \in Path : ~Written(Link(r)) /\ (\A v \in Writer : ~Mover(v, r)) =>
          /\ \A p \in Path : Link(r) \notin Says(vault[p]) \cup Says(trash[p])
          /\ \A v \in Writer : Link(r) \notin copy[v]
          /\ \A v \in Writer, p \in Path : Link(r) \notin Says(backup[v][p])
    /\ \A w \in Writer : Open(w) => \A t \in Own(w) :
          /\ \A p \in Path : t \notin Says(trash[p])
          /\ \A v \in Writer, p \in Path : t \notin Says(backup[v][p])
          /\ \A v \in Writer \ {w} : t \notin copy[v]
          /\ \A p \in Path : t \in Says(vault[p]) =>
                /\ backup[w][p] # None /\ pc[w] \in Busy
                /\ op[w].kind = "move" => pc[w] # "work"

TagInv == \A w \in Writer : op[w] # None /\ op[w].kind = "retag" =>
    /\ pc[w] = "write" => Tag \notin copy[w]
    /\ pc[w] \in {"work", "write"} \/ (pc[w] = "release" /\ result[w] = "ok") =>
          \A p \in Path : backup[w][p] # None /\ ~(pc[w] = "write" /\ aim[w] = p)
              => Tag \notin Says(vault[p])

---------------------------------------------------------------------------
(* Steps leave the others alone.                                           *)

Same(v) == /\ pc'[v] = pc[v] /\ op'[v] = op[v] /\ todo'[v] = todo[v]
           /\ backup'[v] = backup[v] /\ copy'[v] = copy[v] /\ aim'[v] = aim[v]
           /\ result'[v] = result[v]

Acts(w) == Begin(w) \/ Locking(w) \/ Work(w) \/ Kill(w) \/ Interrupt(w)

LEMMA OthersSame ==
    ASSUME TypeOK, NEW w \in Writer, Acts(w), NEW v \in Writer \ {w}
    PROVE  Same(v)
<1>1. CASE Begin(w)
      BY <1>1 DEF Begin, Start, StartAppend, StartDaily, StartProp, StartPlain,
         StartRetag, StartMove, Goto, TypeOK, Same
<1>2. CASE Locking(w)
      BY <1>2 DEF Locking, TryLock, Sign, Probe, Judge, Retake, Refused, Release, Over,
         Goto, TypeOK, Same, local
<1>3. CASE \/ Born(w) \/ BornTaken(w) \/ Again(w)
           \/ Compose(w) \/ Write(w) \/ HubUnrecorded(w) \/ Trash(w)
      BY <1>3 DEF Born, BornTaken, Again, Compose, Write, HubUnrecorded, Trash, Goto,
         Fail, TypeOK, Same, local
<1>4. CASE Visit(w) \/ Rename(w) \/ Relink(w)
      BY <1>4 DEF Visit, Rename, Relink, Goto, Fail, TypeOK, Same
<1>5. CASE Verify(w) \/ Restore(w) \/ Restored(w)
      BY <1>5 DEF Verify, Restore, Restored, Goto, Fail, TypeOK, Same, local
<1>6. CASE Kill(w) \/ Interrupt(w)
      BY <1>6 DEF Kill, Interrupt, Goto, TypeOK, Same, local
<1> QED BY <1>1, <1>2, <1>3, <1>4, <1>5, <1>6 DEF Acts, Work

LEMMA LocalStands ==
    ASSUME NEW v \in Writer, Local(v), Same(v)
    PROVE  Local(v)'
BY DEF Local, Unanswered, BackupsArePlanned, PlanIsAhead, KindsFit, Placed, Same

LEMMA LocalOwn ==
    ASSUME TypeOK, Assigned, NEW w \in Writer, Local(w), Acts(w)
    PROVE  Local(w)'
<1> USE DEF Local, Unanswered, BackupsArePlanned, PlanIsAhead, KindsFit, Placed, Multi, Busy,
           Alive, Holding
<1>1. CASE Begin(w)
  <2>1. /\ backup' = backup /\ result' = result
        /\ pc[w] = "idle" /\ pc'[w] \in {"lock", "born", "again"}
        BY <1>1, StartAssigns DEF Begin, Start, StartAppend, StartDaily, StartProp, StartPlain,
           StartRetag, StartMove
  <2>2. op'[w].kind \in {"move", "group"} => op'[w].q # op'[w].p
        BY <1>1 DEF Begin, Start, StartAppend, StartDaily, StartProp, StartPlain,
           StartRetag, StartMove, TypeOK
  <2> QED BY <1>1, <2>1, <2>2, StartAssigns
<1>2. CASE Locking(w)
  <2>1. CASE TryLock(w)
        BY <2>1 DEF TryLock, Goto, TypeOK, local
  <2>2. CASE Sign(w)
        BY <2>2 DEF Sign, Goto, TypeOK, local
  <2>3. CASE Probe(w)
        BY <2>3 DEF Probe, Goto, TypeOK, local
  <2>4. CASE Judge(w)
        BY <2>4 DEF Judge, Goto, TypeOK, local
  <2>5. CASE Retake(w)
        BY <2>5 DEF Retake, Goto, TypeOK, local
  <2>6. CASE Refused(w)
        BY <2>6 DEF Refused, Over, Goto, TypeOK
  <2>7. CASE Release(w)
        BY <2>7 DEF Release, Over, Goto, TypeOK
  <2> QED BY <1>2, <2>1, <2>2, <2>3, <2>4, <2>5, <2>6, <2>7 DEF Locking
<1>3. CASE Work(w)
  <2>1. CASE Born(w)
        BY <2>1 DEF Born, Goto, TypeOK, local
  <2>2. CASE BornTaken(w)
        BY <2>2 DEF BornTaken, Goto, TypeOK, local
  <2>3. CASE Again(w)
        BY <2>3 DEF Again, Goto, TypeOK
  <2>4. CASE Compose(w)
    <3>1. /\ pc[w] = "work" /\ op[w].kind \notin Multi /\ op' = op /\ backup' = backup
          /\ todo' = todo /\ aim' = aim
          BY <2>4 DEF Compose, Working
    <3>2. \/ Fail(w)
          \/ /\ Goto(w, "write") /\ UNCHANGED result
             /\ op[w].kind # "prop" => w \in copy'[w]
          BY <2>4 DEF Compose, Working, TypeOK
    <3> QED BY <3>1, <3>2 DEF Fail, Goto, TypeOK
  <2>5. CASE Write(w)
    <3>1. /\ pc[w] = "write" /\ op' = op /\ backup' = backup /\ todo' = todo
          /\ op[w].kind \in Multi => aim'[w] = aim[w] /\ result' = result
          BY <2>5 DEF Write, TypeOK
    <3>2. \/ /\ op[w].kind = "group" /\ Goto(w, "work") /\ UNCHANGED result
          \/ /\ op[w].kind = "retag" /\ Goto(w, "work")
          \/ /\ op[w].kind = "move" /\ Goto(w, "relink")
          \/ /\ op[w].kind \notin Multi /\ Goto(w, "release")
             /\ aim'[w] = aim[w] \/ op[w].kind = "group"
          BY <2>5 DEF Write, TypeOK
    <3> QED BY <3>1, <3>2 DEF Goto, TypeOK
  <2>6. CASE Trash(w)
        BY <2>6 DEF Trash, Working, Fail, Goto, TypeOK, local
  <2>7. CASE Visit(w)
    <3> DEFINE m == Min(todo[w])
    <3>1. m \in todo[w] /\ m \in Path /\ pc[w] = "work" /\ op[w].kind \in Multi
          BY <2>7, MinIsMember DEF Visit, Working, TypeOK
    <3>2. \/ /\ op[w].kind = "move" /\ todo' = [todo EXCEPT ![w] = @ \ {m}]
             /\ UNCHANGED <<pc, result, backup, copy, aim>>
          \/ Fail(w) /\ UNCHANGED <<todo, backup, copy, aim>>
          \/ /\ vault[m] # None /\ todo' = [todo EXCEPT ![w] = @ \ {m}]
             /\ backup' = [backup EXCEPT ![w][m] = vault[m]]
             /\ UNCHANGED result
             /\ \/ op[w].kind = "retag" /\ aim' = [aim EXCEPT ![w] = m] /\ Goto(w, "write")
                \/ op[w].kind = "move" /\ UNCHANGED <<copy, aim, pc>>
          BY <2>7, <3>1 DEF Visit, Exists
    <3>3. op' = op
          BY <2>7 DEF Visit
    <3> HIDE DEF m
    <3> QED BY <3>1, <3>2, <3>3 DEF Fail, Goto, TypeOK
  <2>8. CASE Rename(w)
        BY <2>8 DEF Rename, Working, Fail, Goto, TypeOK, BackedUp
  <2>9. CASE Relink(w)
    <3> DEFINE m == Min(todo[w])
    <3>1. m \in todo[w] /\ m \in Path /\ pc[w] = "relink"
          BY <2>9, MinIsMember DEF Relink, TypeOK
    <3>2. \/ Fail(w) /\ UNCHANGED <<todo, aim>>
          \/ /\ todo' = [todo EXCEPT ![w] = @ \ {m}] /\ UNCHANGED result
             /\ \/ aim' = [aim EXCEPT ![w] = m] /\ Goto(w, "write")
                \/ UNCHANGED <<pc, aim>>
          BY <2>9 DEF Relink
    <3>3. op' = op /\ backup' = backup
          BY <2>9 DEF Relink
    <3> HIDE DEF m
    <3> QED BY <3>1, <3>2, <3>3 DEF Fail, Goto, TypeOK
  <2>10. CASE Verify(w)
        BY <2>10 DEF Verify, Working, Fail, Goto, TypeOK, local
  <2>11. CASE Restore(w)
        BY <2>11, BackupsAreNotes DEF Restore, Goto, TypeOK
  <2>12. CASE Restored(w)
        BY <2>12 DEF Restored, Goto, TypeOK, local
  <2>13. CASE HubUnrecorded(w)
        BY <2>13 DEF HubUnrecorded, Working, Goto, TypeOK, local
  <2> QED BY <1>3, <2>1, <2>2, <2>3, <2>4, <2>5, <2>6, <2>7, <2>8, <2>9, <2>10, <2>11,
             <2>12, <2>13 DEF Work
<1>4. CASE Kill(w) \/ Interrupt(w)
      BY <1>4 DEF Kill, Interrupt, Goto, TypeOK, local, Holding
<1> QED BY <1>1, <1>2, <1>3, <1>4 DEF Acts

LEMMA LocalHolds == Spec => [](\A w \in Writer : Local(w))
<1>1. Init => \A w \in Writer : Local(w)
      BY DEF Init, Local, Unanswered, BackupsArePlanned, PlanIsAhead, KindsFit, Placed,
         NoBackup, Alive, Holding
<1>2. TypeOK /\ Assigned /\ (\A w \in Writer : Local(w)) /\ [Next]_vars
          => (\A w \in Writer : Local(w))'
  <2> SUFFICES ASSUME TypeOK, Assigned, \A w \in Writer : Local(w), [Next]_vars,
                      NEW v \in Writer
               PROVE  Local(v)'
      OBVIOUS
  <2>1. ASSUME NEW w \in Writer, Acts(w) PROVE Local(v)'
    <3>1. CASE v = w
          BY <2>1, <3>1, LocalOwn
    <3>2. CASE v # w
          BY <2>1, <3>2, OthersSame, LocalStands
    <3> QED BY <3>1, <3>2
  <2>2. CASE UNCHANGED vars \/ \E p \in Path : EditNote(p)
    <3>1. Same(v)
          BY <2>2 DEF vars, EditNote, Same, local
    <3> QED BY <3>1, LocalStands
  <2> QED BY <2>1, <2>2 DEF Next, Acts
<1> QED BY <1>1, <1>2, TypeHolds, PTL DEF Spec

---------------------------------------------------------------------------
(* What is told apart.                                                     *)

LEMMA LinksDiffer ==
    ASSUME NEW r \in Path, NEW s \in Path
    PROVE  /\ Link(r) # Body(s) /\ (Link(r) = Link(s) => r = s)
           /\ Link(r) \notin Writer /\ Link(r) # Tag /\ Link(r) # Edit
           /\ Body(r) \notin Writer /\ Body(r) # Tag /\ Body(r) # Edit
<1>1. Link(r) # Body(s) /\ (Link(r) = Link(s) => r = s)
      BY DEF Link, Body
<1> QED BY <1>1, TokenAssumption

LEMMA KeptAre ==
    ASSUME NEW t \in Kept
    PROVE  /\ t # Tag /\ t # Edit /\ \A r \in Path : t # Link(r)
           /\ t \in Writer => Accepted(t)
<1>1. CASE t \in Writer /\ Accepted(t)
      BY <1>1, LinksDiffer, TokenAssumption
<1>2. ASSUME NEW p \in Path, t = Body(p) PROVE t # Tag /\ t # Edit /\ t \notin Writer
                                               /\ \A r \in Path : t # Link(r)
      BY <1>2, LinksDiffer
<1> QED BY <1>1, <1>2 DEF Kept

\* Only a command that answers ok adds to what is kept.
LEMMA KeptGrows ==
    ASSUME NEW w \in Writer, \A v \in Writer \ {w} : Same(v)
    PROVE  \A t \in Kept' : t \in Kept \/ (t = w /\ Accepted(w)')
BY DEF Kept, Accepted, Same

LEMMA OwnAre ==
    ASSUME NEW v \in Writer, NEW t \in Own(v)
    PROVE  /\ t # Edit /\ t # Tag
           /\ \A w \in Writer \ {v} : t # w /\ \A q \in Path : Mover(w, q) => t # Link(q)
<1>1. CASE t = v
      BY <1>1, LinksDiffer, TokenAssumption
<1>2. CASE t # v
  <2>1. PICK r \in Path : t = Link(r) /\ \A w \in Writer \ {v} : ~Mover(w, r)
        BY <1>2 DEF Own
  <2> QED BY <2>1, LinksDiffer
<1> QED BY <1>1, <1>2

LEMMA OwnStands ==
    ASSUME \A u \in Writer : op'[u] = op[u]
    PROVE  /\ \A u \in Writer : Own(u)' = Own(u)
           /\ \A u \in Writer, r \in Path : Mover(u, r)' = Mover(u, r)
<1>1. \A u \in Writer, r \in Path : Mover(u, r)' = Mover(u, r)
      BY DEF Mover
<1>2. ASSUME NEW u \in Writer PROVE Own(u)' = Own(u)
      BY <1>1 DEF Own, Written
<1> QED BY <1>1, <1>2

---------------------------------------------------------------------------
(* Steps that take nothing out of a note.                                  *)

Untouched ==
    /\ \A p \in Path : /\ Exists(p) => Exists(p)'
                       /\ Says(vault[p]) \subseteq Says(vault[p])'
                       /\ Says(vault[p])' \subseteq Says(vault[p]) \cup {Edit}
    /\ trash' = trash /\ backup' = backup

\* A step that finds nothing, writes nothing new, or only moves on.
Calm(w) ==
    /\ pc[w] # "write" /\ pc'[w] # "write" /\ copy'[w] \subseteq copy[w]
    /\ op'[w] = op[w] \/ (op[w] = None /\ pc'[w] \notin Busy \cup {"release"})
    /\ pc'[w] \in Busy => pc[w] \in Busy \cup {"sign"}
    /\ pc'[w] = "work" => pc[w] \in {"work", "sign"}
    /\ Accepted(w)' => Accepted(w)
    /\ Open(w)' => Open(w) /\ (pc[w] \in Busy =>
                       pc'[w] \in Busy \/ \A p \in Path : backup[w][p] = None)
    /\ pc'[w] = "release" /\ result'[w] = "ok" => pc[w] = "work" \/ op[w].kind # "retag"

Rest == Untouched /\ \A v \in Writer : Same(v) \/ Calm(v)

LEMMA RestKeeps ==
    ASSUME TypeOK, Assigned, \A w \in Writer : Local(w), Rest, KeptInv
    PROVE  KeptInv'
<1>1. \A t \in Kept' : t \in Kept
      BY DEF Rest, Same, Calm, Kept, Accepted
<1>2. \A t \in Kept' : \E p \in Path : t \in Says(vault[p])' \cup Says(trash[p])'
      BY <1>1 DEF KeptInv, Rest, Untouched
<1>3. ASSUME NEW w \in Writer, pc'[w] = "write", op'[w].kind # "apply"
      PROVE  Kept' \cap Says(vault[aim[w]])' \subseteq copy'[w]
  <2>1. Same(w)
        BY <1>3 DEF Rest, Calm
  <2>2. pc[w] = "write" /\ aim[w] \in Path
        BY <1>3, <2>1 DEF Assigned, Same, Alive, Holding
  <2>3. Kept \cap Says(vault[aim[w]]) \subseteq copy[w]
        BY <1>3, <2>1, <2>2 DEF KeptInv, Same
  <2> QED BY <1>1, <2>1, <2>2, <2>3, KeptAre DEF Rest, Untouched, Same
<1>4. ASSUME NEW w \in Writer, NEW p \in Path, pc'[w] \in Busy, backup'[w][p] # None
      PROVE  Kept' \cap Says(vault[p])' \subseteq Says(backup[w][p])'
  <2>1. pc[w] \in Busy
        BY <1>4 DEF Rest, Untouched, Same, Calm, Local, BackupsArePlanned, Busy
  <2> QED BY <1>1, <1>4, <2>1, KeptAre DEF KeptInv, Rest, Untouched
<1>5. ASSUME NEW w \in Writer, pc'[w] = "write", op'[w].kind \in Multi
      PROVE  Kept' \cap copy'[w] \subseteq Says(backup[w][aim[w]])'
      BY <1>1, <1>5 DEF KeptInv, Rest, Untouched, Same, Calm
<1>6. ASSUME NEW w \in Writer, NEW p \in Path,
             pc'[w] = "work", op'[w].kind = "move", backup'[w][p] # None
      PROVE  Exists(p)'
  <2>1. pc[w] = "work" /\ op[w].kind = "move"
        BY <1>6 DEF Rest, Untouched, Same, Calm, Local, BackupsArePlanned, Busy
  <2> QED BY <1>6, <2>1 DEF KeptInv, Rest, Untouched
<1> QED BY <1>2, <1>3, <1>4, <1>5, <1>6 DEF KeptInv

LEMMA RestOwns ==
    ASSUME TypeOK, \A w \in Writer : Local(w), Rest, OwnInv
    PROVE  OwnInv'
<1>0. /\ \A w \in Writer, r \in Path : Mover(w, r) => Mover(w, r)'
      /\ \A w \in Writer : copy'[w] \subseteq copy[w]
      BY DEF Rest, Same, Calm, Mover
<1>1. ASSUME NEW w \in Writer, pc'[w] # "write" PROVE copy'[w] = {}
      BY <1>1 DEF Rest, Same, Calm, OwnInv
<1>2. ASSUME NEW r \in Path, ~Written(Link(r)), \A v \in Writer : ~Mover(v, r)'
      PROVE  /\ \A p \in Path : Link(r) \notin Says(vault[p])' \cup Says(trash[p])'
             /\ \A v \in Writer : Link(r) \notin copy'[v]
             /\ \A v \in Writer, p \in Path : Link(r) \notin Says(backup[v][p])'
      BY <1>0, <1>2, LinksDiffer DEF OwnInv, Rest, Untouched
<1>3. ASSUME NEW w \in Writer, Open(w)', NEW t \in Own(w)'
      PROVE  /\ \A p \in Path : t \notin Says(trash[p])'
             /\ \A v \in Writer, p \in Path : t \notin Says(backup[v][p])'
             /\ \A v \in Writer \ {w} : t \notin copy'[v]
             /\ \A p \in Path : t \in Says(vault[p])' =>
                   /\ backup'[w][p] # None /\ pc'[w] \in Busy
                   /\ op'[w].kind = "move" => pc'[w] # "work"
  <2>1. Open(w)
        BY <1>3 DEF Rest, Same, Calm, Open
  <2>2. CASE t \in Own(w)
    <3>1. t # Edit
          BY <2>2, OwnAre
    <3>2. \A p \in Path : t \in Says(vault[p])' =>
              t \in Says(vault[p]) /\ backup'[w][p] # None /\ pc[w] \in Busy
          BY <2>1, <2>2, <3>1 DEF OwnInv, Rest, Untouched
    <3>3. \A p \in Path : t \in Says(vault[p])' => pc'[w] \in Busy
          BY <1>3, <3>2 DEF Rest, Untouched, Same, Calm
    <3>4. \A p \in Path : t \in Says(vault[p])' /\ op'[w].kind = "move" => pc'[w] # "work"
      <4> SUFFICES ASSUME NEW p \in Path, t \in Says(vault[p])', op'[w].kind = "move",
                          pc'[w] = "work"
                   PROVE  FALSE
          OBVIOUS
      <4>1. pc[w] = "work" /\ op[w].kind = "move"
            BY <3>2 DEF Rest, Same, Calm, Busy
      <4> QED BY <2>1, <2>2, <3>2, <4>1 DEF OwnInv
    <3> QED BY <1>0, <2>1, <2>2, <3>2, <3>3, <3>4 DEF OwnInv, Rest, Untouched
  <2>3. CASE t \notin Own(w)
    <3>1. PICK r \in Path : /\ t = Link(r) /\ Mover(w, r)' /\ ~Written(Link(r))
                            /\ \A v \in Writer \ {w} : ~Mover(v, r)'
          BY <1>3, <2>3 DEF Own, Written
    <3>2. \A v \in Writer \ {w} : ~Mover(v, r)
          BY <1>0, <3>1
    <3>3. ~Mover(w, r)
          BY <2>3, <3>1, <3>2 DEF Own
    <3>4. /\ \A p \in Path : t \notin Says(vault[p]) \cup Says(trash[p])
          /\ \A v \in Writer : t \notin copy[v]
          /\ \A v \in Writer, p \in Path : t \notin Says(backup[v][p])
          BY <3>1, <3>2, <3>3 DEF OwnInv
    <3> QED BY <1>0, <3>1, <3>4, LinksDiffer DEF Rest, Untouched
  <2> QED BY <2>2, <2>3
<1>4. QED
  <2>1. \A r \in Path : Written(Link(r))' = Written(Link(r))
        BY DEF Written
  <2> QED BY <1>1, <1>2, <1>3, <2>1 DEF OwnInv

LEMMA RestTags ==
    ASSUME TypeOK, \A w \in Writer : Local(w), Rest, TagInv
    PROVE  TagInv'
<1> SUFFICES ASSUME NEW w \in Writer, op'[w] # None, op'[w].kind = "retag"
             PROVE  /\ pc'[w] = "write" => Tag \notin copy'[w]
                    /\ pc'[w] \in {"work", "write"} \/ (pc'[w] = "release" /\ result'[w] = "ok") =>
                          \A p \in Path : backup'[w][p] # None /\ ~(pc'[w] = "write" /\ aim'[w] = p)
                              => Tag \notin Says(vault[p])'
    BY DEF TagInv
<1>1. CASE Same(w)
      BY <1>1, TokenAssumption DEF TagInv, Rest, Untouched, Same
<1>2. CASE Calm(w)
  <2> SUFFICES ASSUME pc'[w] = "work" \/ (pc'[w] = "release" /\ result'[w] = "ok"),
                      NEW p \in Path, backup'[w][p] # None
               PROVE  Tag \notin Says(vault[p])'
      BY <1>2 DEF Calm
  <2>1. op'[w] = op[w]
        BY <1>2 DEF Calm, Busy
  <2>2. pc[w] = "work"
        BY <1>2, <2>1 DEF Calm, Rest, Untouched, Local, BackupsArePlanned, Busy
  <2> QED BY <2>1, <2>2, TokenAssumption DEF TagInv, Rest, Untouched
<1> QED BY <1>1, <1>2 DEF Rest

---------------------------------------------------------------------------
(* Steps of the one command that has the lock.                             *)

Ours(w) == /\ pc[w] \in Busy /\ op'[w] = op[w]
           /\ \A v \in Writer \ {w} : Same(v) /\ pc[v] \notin Busy \cup {"release"}

\* What is in it was in a note, in a backup, or is the command's own to write.
Known(w, t) ==
    \/ t = w \/ \E q \in Path : Mover(w, q) /\ t = Link(q)
    \/ t \in copy[w]
    \/ \E p \in Path : t \in Says(vault[p]) \cup Says(trash[p])
    \/ \E v \in Writer, p \in Path : t \in Says(backup[v][p])

NothingNew(w) ==
    /\ \A p \in Path : \A t \in Says(vault[p])' \cup Says(trash[p])' : Known(w, t)
    /\ \A v \in Writer, p \in Path : \A t \in Says(backup[v][p])' : Known(w, t)
    /\ \A t \in copy'[w] : Known(w, t)

LEMMA OursOwn ==
    ASSUME NEW w \in Writer, Ours(w), OwnInv, NothingNew(w),
           pc'[w] # "write" => copy'[w] = {},
           Open(w)' => \A t \in Own(w) :
               /\ \A p \in Path : t \notin Says(trash[p])'
               /\ \A v \in Writer, p \in Path : t \notin Says(backup[v][p])'
               /\ \A p \in Path : t \in Says(vault[p])' =>
                     /\ backup'[w][p] # None /\ pc'[w] \in Busy
                     /\ op[w].kind = "move" => pc'[w] # "work"
    PROVE  OwnInv'
<1>0. \A u \in Writer : op'[u] = op[u]
      BY DEF Ours, Same
<1>1. /\ \A u \in Writer : Own(u)' = Own(u)
      /\ \A u \in Writer, r \in Path : Mover(u, r)' = Mover(u, r)
      /\ \A r \in Path : Written(Link(r))' = Written(Link(r))
  <2>1. \A r \in Path : Written(Link(r))' = Written(Link(r))
        BY DEF Written
  <2> QED BY <1>0, <2>1, OwnStands
<1>2. \A u \in Writer : pc'[u] # "write" => copy'[u] = {}
      BY DEF OwnInv, Ours, Same
<1>3. ASSUME NEW r \in Path, ~Written(Link(r)), \A v \in Writer : ~Mover(v, r)
      PROVE  /\ \A p \in Path : Link(r) \notin Says(vault[p])' \cup Says(trash[p])'
             /\ \A v \in Writer : Link(r) \notin copy'[v]
             /\ \A v \in Writer, p \in Path : Link(r) \notin Says(backup[v][p])'
  <2>1. ~Known(w, Link(r))
        BY <1>3, LinksDiffer DEF Known, OwnInv
  <2>2. \A v \in Writer \ {w} : Link(r) \notin copy'[v]
        BY <1>3 DEF OwnInv, Ours, Same
  <2> QED BY <2>1, <2>2 DEF NothingNew
<1>4. ASSUME NEW u \in Writer, Open(u)', NEW t \in Own(u)
      PROVE  /\ \A p \in Path : t \notin Says(trash[p])'
             /\ \A v \in Writer, p \in Path : t \notin Says(backup[v][p])'
             /\ \A v \in Writer \ {u} : t \notin copy'[v]
             /\ \A p \in Path : t \in Says(vault[p])' =>
                   /\ backup'[u][p] # None /\ pc'[u] \in Busy
                   /\ op'[u].kind = "move" => pc'[u] # "work"
  <2>1. CASE u = w
    <3>1. \A v \in Writer \ {w} : t \notin copy'[v]
          BY <2>1, <1>2 DEF Ours, Busy, Same
    <3> QED BY <1>0, <1>4, <2>1, <3>1
  <2>2. CASE u # w
    <3>1. Open(u) /\ pc[u] \notin Busy
          BY <1>0, <1>4, <2>2 DEF Ours, Same, Open
    <3>2. ~Known(w, t)
          BY <1>4, <2>2, <3>1, OwnAre DEF Known, OwnInv
    <3>3. \A v \in Writer \ {u, w} : t \notin copy'[v]
          BY <1>4, <3>1 DEF OwnInv, Ours, Same
    <3> QED BY <3>2, <3>3 DEF NothingNew
  <2> QED BY <2>1, <2>2
<1> QED BY <1>1, <1>2, <1>3, <1>4 DEF OwnInv

LEMMA OursKept ==
    ASSUME NEW w \in Writer, Ours(w), KeptInv,
           \A t \in Kept' : \E p \in Path : t \in Says(vault[p])' \cup Says(trash[p])',
           pc'[w] = "write" =>
               /\ op[w].kind # "apply" => Kept' \cap Says(vault[aim[w]])' \subseteq copy'[w]
               /\ op[w].kind \in Multi => Kept' \cap copy'[w] \subseteq Says(backup[w][aim[w]])',
           pc'[w] \in Busy => \A p \in Path : backup'[w][p] # None =>
               /\ Kept' \cap Says(vault[p])' \subseteq Says(backup[w][p])'
               /\ pc'[w] = "work" /\ op[w].kind = "move" => Exists(p)'
    PROVE  KeptInv'
BY DEF KeptInv, Ours, Same, Busy

LEMMA OursTag ==
    ASSUME NEW w \in Writer, Ours(w), TagInv,
           op[w].kind = "retag" =>
               /\ pc'[w] = "write" => Tag \notin copy'[w]
               /\ pc'[w] \in {"work", "write"} \/ (pc'[w] = "release" /\ result'[w] = "ok") =>
                     \A p \in Path : backup'[w][p] # None /\ ~(pc'[w] = "write" /\ aim'[w] = p)
                         => Tag \notin Says(vault[p])'
    PROVE  TagInv'
BY DEF TagInv, Ours, Same, Busy

Clean == KeptInv /\ OwnInv /\ TagInv

\* What a step of the holder may be assumed to start from.
Turn(w) == /\ TypeOK /\ Assigned /\ Local(w) /\ Ours(w) /\ Clean
           /\ op[w] # None /\ op[w].p \in Path /\ op[w].q \in Path

LEMMA KeptStands ==
    ASSUME NEW w \in Writer, Ours(w), ~Accepted(w)'
    PROVE  \A t \in Kept' : t \in Kept
BY KeptGrows DEF Ours

LEMMA ComposeKeeps ==
    ASSUME NEW w \in Writer, Turn(w), Compose(w), pc'[w] = "write", op[w].kind # "prop"
    PROVE  Clean'
<1> USE DEF Turn, Clean
<1>1. /\ pc[w] = "work"
      /\ op[w].kind \in {"append", "daily", "task", "create", "apply", "group"}
      /\ aim[w] \in Path
      /\ vault' = vault /\ trash' = trash /\ backup' = backup /\ aim' = aim
      /\ result' = result
  <2>1. ~Fail(w)
        BY DEF Fail, Goto, TypeOK
  <2>2. pc[w] = "work" /\ op[w].kind \in {"append", "daily", "task", "create", "apply", "group"}
        BY DEF Compose, Working
  <2>3. aim[w] \in Path
        BY <2>2 DEF Assigned, Alive, Holding
  <2> QED BY <2>1, <2>2, <2>3 DEF Compose, files
<1>2. \A p \in Path : backup[w][p] = None
      BY <1>1 DEF Local, BackupsArePlanned, Multi
<1>3. /\ w \in copy'[w]
      /\ op[w].kind # "apply" => Says(vault[aim[w]]) \subseteq copy'[w]
      /\ copy'[w] \subseteq Says(vault[aim[w]]) \cup {w}
      BY <1>1 DEF Compose, Working, Fail, Goto, TypeOK, Exists, Says
<1>4. \A t \in Kept' : t \in Kept
  <2>1. ~Accepted(w)'
        BY <1>1 DEF Accepted, Local, Unanswered
  <2> QED BY <2>1, KeptStands
<1>5. KeptInv'
  <2>1. op[w].kind \notin Multi
        BY <1>1 DEF Multi
  <2> QED BY <1>1, <1>2, <1>3, <1>4, <2>1, OursKept DEF KeptInv
<1>6. NothingNew(w)
      BY <1>1, <1>3 DEF NothingNew, Known
<1>7. OwnInv'
  <2>1. Open(w)' => Open(w)
        BY <1>1 DEF Open, Ours
  <2> QED BY <1>1, <1>2, <1>6, <2>1, OursOwn DEF OwnInv
<1>8. TagInv'
      BY <1>1, OursTag
<1> QED BY <1>5, <1>7, <1>8

LEMMA WriteKeeps ==
    ASSUME NEW w \in Writer, Turn(w), Write(w), op[w].kind # "prop", ~clobbered'
    PROVE  Clean'
<1> USE DEF Turn, Clean
<1>0. PICK a \in Path : a = aim[w]
      BY DEF Write, Assigned, Alive, Holding
<1>1. /\ pc[w] = "write" /\ a = aim[w] /\ copy[w] \subseteq Token
      /\ trash' = trash /\ backup' = backup /\ copy'[w] = {}
      /\ op[w].kind \in Multi => aim'[w] = aim[w]
      /\ op[w].kind = "retag" => pc'[w] = "work" /\ result' = result
      /\ op[w].kind = "move" => pc'[w] = "relink" /\ result' = result
      /\ op[w].kind \notin Multi => \/ pc'[w] = "release" /\ result'[w] = "ok"
                                    \/ pc'[w] = "work" /\ op[w].kind = "group"
      BY <1>0 DEF Write, Goto, TypeOK, Assigned, Multi, Alive, Holding
<1>2. /\ Says(vault[a])' = copy[w] /\ Exists(a)'
      /\ \A p \in Path \ {a} : Says(vault[p])' = Says(vault[p]) /\ Exists(p)' = Exists(p)
  <2>1. WriteFile(a, copy[w])
        BY <1>1 DEF Write
  <2> QED BY <1>1, <2>1, WriteFileType DEF Says, Exists
<1>3. op[w].kind = "apply" => ~Exists(a)
      BY <1>1 DEF Write
<1>4. op[w].kind \notin Multi => w \in copy[w] /\ \A p \in Path : backup[w][p] = None
      BY <1>1 DEF Local, KindsFit, BackupsArePlanned
<1>5. op[w].kind \in Multi => backup[w][a] # None
      BY <1>1 DEF Local, KindsFit
<1>6. KeptInv'
  <2>1. ASSUME NEW t \in Kept' PROVE \E p \in Path : t \in Says(vault[p])' \cup Says(trash[p])'
    <3>1. CASE t = w /\ Accepted(w)'
      <4>1. op[w].kind \notin Multi
            BY <1>1, <3>1 DEF Accepted, Ours, Local, Unanswered, Multi
      <4> QED BY <1>1, <1>2, <1>4, <3>1, <4>1
    <3>2. CASE t \in Kept
      <4>1. PICK p \in Path : t \in Says(vault[p]) \cup Says(trash[p])
            BY <3>2 DEF KeptInv
      <4>2. t \in Says(vault[a]) => t \in copy[w]
            BY <1>1, <1>3, <3>2 DEF KeptInv, Exists, Says
      <4> QED BY <1>1, <1>2, <4>1, <4>2
    <3> QED BY <3>1, <3>2, KeptGrows DEF Ours
  <2>2. ASSUME pc'[w] \in Busy, NEW p \in Path, backup'[w][p] # None
        PROVE  /\ Kept' \cap Says(vault[p])' \subseteq Says(backup[w][p])'
               /\ pc'[w] = "work" /\ op[w].kind = "move" => Exists(p)'
    <3>1. op[w].kind \in Multi
          BY <1>1, <1>4, <2>2 DEF Busy
    <3>2. \A t \in Kept' : t \in Kept
      <4>1. ~Accepted(w)'
            BY <1>1, <3>1 DEF Accepted, Local, Unanswered, Multi
      <4> QED BY <4>1, KeptStands
    <3>3. Kept' \cap Says(vault[p])' \subseteq Says(backup[w][p])'
          BY <1>1, <1>2, <2>2, <3>1, <3>2 DEF KeptInv, Busy
    <3> QED BY <1>1, <3>3
  <2>3. pc'[w] # "write"
        BY <1>1 DEF Multi
  <2> QED BY <2>1, <2>2, <2>3, OursKept
<1>7. OwnInv'
  <2>1. NothingNew(w)
        BY <1>1, <1>2, OthersSame DEF NothingNew, Known
  <2>2. ASSUME Open(w)', NEW t \in Own(w)
        PROVE  /\ \A p \in Path : t \notin Says(trash[p])'
               /\ \A v \in Writer, p \in Path : t \notin Says(backup[v][p])'
               /\ \A p \in Path : t \in Says(vault[p])' =>
                     /\ backup'[w][p] # None /\ pc'[w] \in Busy
                     /\ op[w].kind = "move" => pc'[w] # "work"
    <3>1. op[w].kind \in Multi /\ Open(w)
          BY <1>1, <2>2 DEF Open, Multi, Ours
    <3>2. pc'[w] \in Busy /\ (op[w].kind = "move" => pc'[w] # "work")
          BY <1>1, <3>1 DEF Busy, Multi
    <3> QED BY <1>1, <1>2, <1>5, <2>2, <3>1, <3>2 DEF OwnInv
  <2> QED BY <1>1, <2>1, <2>2, OursOwn
<1>8. TagInv'
  <2>1. ASSUME op[w].kind = "retag", NEW p \in Path, backup'[w][p] # None
        PROVE  Tag \notin Says(vault[p])'
        BY <1>1, <1>2, <2>1 DEF TagInv
  <2>2. pc'[w] # "write"
        BY <1>1 DEF Multi
  <2> QED BY <2>1, <2>2, OursTag
<1> QED BY <1>6, <1>7, <1>8

LEMMA TrashKeeps ==
    ASSUME NEW w \in Writer, Turn(w), Trash(w), Exists(op[w].p), ~clobbered'
    PROVE  Clean'
<1> USE DEF Turn, Clean
<1>0. PICK a \in Path : a = op[w].p
      OBVIOUS
<1>1. /\ pc[w] = "work" /\ op[w].kind = "delete"
      /\ vault' = [vault EXCEPT ![a] = None] /\ trash' = [trash EXCEPT ![a] = vault[a]]
      /\ trash[a] = None
      /\ backup' = backup /\ copy' = copy /\ pc'[w] = "release" /\ result'[w] = "ok"
      BY <1>0 DEF Trash, Working, Goto, TypeOK, local
<1>2. /\ Says(vault[a])' = {} /\ Says(trash[a])' = Says(vault[a]) /\ Says(trash[a]) = {}
      /\ \A p \in Path \ {a} : Says(vault[p])' = Says(vault[p]) /\ Says(trash[p])' = Says(trash[p])
      BY <1>1 DEF TypeOK, Says
<1>3. KeptInv'
  <2>1. \A t \in Kept' : t \in Kept
    <3>1. ~Accepted(w)'
          BY <1>1 DEF Accepted, Ours
    <3> QED BY <3>1, KeptStands
  <2>2. ASSUME NEW t \in Kept' PROVE \E p \in Path : t \in Says(vault[p])' \cup Says(trash[p])'
    <3>1. PICK p \in Path : t \in Says(vault[p]) \cup Says(trash[p])
          BY <2>1, <2>2 DEF KeptInv
    <3> QED BY <1>2, <3>1
  <2> QED BY <1>1, <2>2, OursKept DEF Busy
<1>4. OwnInv'
  <2>1. NothingNew(w)
        BY <1>1, <1>2 DEF NothingNew, Known
  <2>2. ~Open(w)' /\ copy'[w] = {}
        BY <1>1 DEF Open, OwnInv
  <2> QED BY <2>1, <2>2, OursOwn
<1>5. TagInv'
      BY <1>1, OursTag
<1> QED BY <1>3, <1>4, <1>5

LEMMA VisitKeeps ==
    ASSUME NEW w \in Writer, Turn(w), Visit(w), backup' # backup
    PROVE  Clean'
<1> USE DEF Turn, Clean
<1>0. PICK m \in Path : m = Min(todo[w]) /\ m \in todo[w]
      BY MinIsMember DEF Visit, TypeOK
<1>1. pc[w] = "work" /\ op[w].kind \in Multi
      BY DEF Visit, Working, TypeOK, Multi
<1>2. /\ backup' = [backup EXCEPT ![w][m] = vault[m]] /\ vault[m] # None
      /\ vault' = vault /\ trash' = trash /\ result' = result
      /\ \/ /\ op[w].kind = "retag" /\ pc'[w] = "write" /\ aim'[w] = m
            /\ copy'[w] = (Says(vault[m]) \ {Tag}) \cup {w}
         \/ op[w].kind = "move" /\ pc'[w] = "work" /\ copy'[w] = copy[w]
  <2>1. /\ backup' = [backup EXCEPT ![w][m] = vault[m]] /\ vault[m] # None
        /\ UNCHANGED <<files, result>>
        /\ IF op[w].kind = "retag"
           THEN /\ copy' = [copy EXCEPT ![w] = (vault[m].text \ {Tag}) \cup {w}]
                /\ aim' = [aim EXCEPT ![w] = m] /\ Goto(w, "write")
           ELSE UNCHANGED <<copy, aim, pc>>
        BY <1>0 DEF Visit, Exists
  <2> QED BY <1>1, <2>1 DEF Goto, TypeOK, Says, files, Multi
<1>3. /\ Says(backup[w][m])' = Says(vault[m]) /\ backup'[w][m] # None
      /\ \A p \in Path \ {m} : backup'[w][p] = backup[w][p]
      /\ \A v \in Writer \ {w} : backup'[v] = backup[v]
      BY <1>2 DEF TypeOK
<1>4. backup[w][m] = None
      BY <1>0, <1>1 DEF Local, PlanIsAhead
<1>5. KeptInv'
  <2>1. ~Accepted(w)' /\ \A t \in Kept' : t \in Kept
    <3>1. ~Accepted(w)'
          BY <1>1, <1>2 DEF Accepted, Ours, Multi
    <3> QED BY <3>1, KeptStands
  <2>2. \A t \in Kept' : t # w /\ t # Tag
    <3>1. ~Accepted(w)
          BY <1>1 DEF Accepted, Multi
    <3> QED BY <2>1, <3>1, KeptAre
  <2>3. \A t \in Kept' : \E p \in Path : t \in Says(vault[p])' \cup Says(trash[p])'
        BY <1>2, <2>1 DEF KeptInv
  <2>4. pc'[w] = "write" => /\ Kept' \cap Says(vault[aim[w]])' \subseteq copy'[w]
                            /\ Kept' \cap copy'[w] \subseteq Says(backup[w][aim[w]])'
        BY <1>2, <1>3, <2>2
  <2>5. ASSUME NEW p \in Path, backup'[w][p] # None
        PROVE  /\ Kept' \cap Says(vault[p])' \subseteq Says(backup[w][p])'
               /\ pc'[w] = "work" /\ op[w].kind = "move" => Exists(p)'
    <3>1. CASE p = m
          BY <1>2, <1>3, <3>1 DEF Exists
    <3>2. CASE p # m
          BY <1>1, <1>2, <1>3, <2>1, <2>5, <3>2 DEF KeptInv, Busy, Exists
    <3> QED BY <3>1, <3>2
  <2> QED BY <2>3, <2>4, <2>5, OursKept
<1>6. OwnInv'
  <2>1. NothingNew(w)
        BY <1>2, <1>3 DEF NothingNew, Known
  <2>2. ASSUME Open(w)', NEW t \in Own(w)
        PROVE  /\ \A p \in Path : t \notin Says(trash[p])'
               /\ \A v \in Writer, p \in Path : t \notin Says(backup[v][p])'
               /\ \A p \in Path : t \in Says(vault[p])' =>
                     /\ backup'[w][p] # None /\ pc'[w] \in Busy
                     /\ op[w].kind = "move" => pc'[w] # "work"
    <3>1. Open(w)
          BY <1>2, <2>2 DEF Open, Ours
    <3>2. t \notin Says(vault[m])
          BY <1>1, <1>4, <2>2, <3>1 DEF OwnInv
    <3>3. \A v \in Writer, p \in Path : t \notin Says(backup[v][p])'
          BY <1>3, <2>2, <3>1, <3>2 DEF OwnInv
    <3> QED BY <1>1, <1>2, <1>3, <2>2, <3>1, <3>3 DEF OwnInv, Busy
  <2>3. pc'[w] # "write" => copy'[w] = {}
        BY <1>1, <1>2 DEF OwnInv
  <2> QED BY <2>1, <2>2, <2>3, OursOwn
<1>7. TagInv'
      BY <1>1, <1>2, <1>3, OursTag, TokenAssumption DEF TagInv, Ours
<1> QED BY <1>5, <1>6, <1>7

LEMMA RenameKeeps ==
    ASSUME NEW w \in Writer, Turn(w), Rename(w), Exists(op[w].p), ~clobbered'
    PROVE  Clean'
<1> USE DEF Turn, Clean
<1>0. PICK a \in Path, b \in Path : a = op[w].p /\ b = op[w].q
      OBVIOUS
<1>1. /\ pc[w] = "work" /\ op[w].kind = "move" /\ vault[b] = None /\ a # b
      /\ vault' = [vault EXCEPT ![b] = vault[a], ![a] = None] /\ trash' = trash
      /\ backup' = backup /\ copy' = copy /\ pc'[w] = "relink" /\ result' = result
      BY <1>0 DEF Rename, Working, Goto, TypeOK, Exists, Local, Placed
<1>2. /\ Says(vault[b])' = Says(vault[a]) /\ vault'[a] = None /\ Says(vault[a])' = {}
      /\ Says(vault[b]) = {}
      /\ \A p \in Path \ {a, b} : vault'[p] = vault[p]
      BY <1>1 DEF TypeOK, Says
<1>3. backup[w][b] = None
      BY <1>1 DEF KeptInv, Exists
<1>4. KeptInv'
  <2>1. \A t \in Kept' : t \in Kept
    <3>1. ~Accepted(w)'
          BY <1>1 DEF Accepted, Ours
    <3> QED BY <3>1, KeptStands
  <2>2. ASSUME NEW t \in Kept' PROVE \E p \in Path : t \in Says(vault[p])' \cup Says(trash[p])'
    <3>1. PICK p \in Path : t \in Says(vault[p]) \cup Says(trash[p])
          BY <2>1, <2>2 DEF KeptInv
    <3> QED BY <1>1, <1>2, <3>1
  <2>3. ASSUME NEW p \in Path, backup'[w][p] # None
        PROVE  Kept' \cap Says(vault[p])' \subseteq Says(backup[w][p])'
        BY <1>1, <1>2, <1>3, <2>1, <2>3 DEF KeptInv, Busy
  <2> QED BY <1>1, <2>2, <2>3, OursKept
<1>5. OwnInv'
  <2>1. NothingNew(w)
        BY <1>1, <1>2 DEF NothingNew, Known
  <2>2. ASSUME Open(w)', NEW t \in Own(w)
        PROVE  /\ \A p \in Path : t \notin Says(trash[p])'
               /\ \A v \in Writer, p \in Path : t \notin Says(backup[v][p])'
               /\ \A p \in Path : t \notin Says(vault[p])'
    <3>1. Open(w)
          BY <1>1, <2>2 DEF Open, Ours
    <3>2. \A p \in Path : t \notin Says(vault[p])
          BY <1>1, <2>2, <3>1 DEF OwnInv
    <3> QED BY <1>1, <1>2, <2>2, <3>1, <3>2 DEF OwnInv
  <2>3. copy'[w] = {}
        BY <1>1 DEF OwnInv
  <2> QED BY <2>1, <2>2, <2>3, OursOwn
<1>6. TagInv'
      BY <1>1, OursTag
<1> QED BY <1>4, <1>5, <1>6

LEMMA RelinkKeeps ==
    ASSUME NEW w \in Writer, Turn(w), Relink(w), pc'[w] = "write"
    PROVE  Clean'
<1> USE DEF Turn, Clean
<1>0. PICK m \in Path : m = Min(todo[w]) /\ m \in todo[w]
      BY MinIsMember DEF Relink, TypeOK
<1>1. PICK q \in Path : q = op[w].q /\ Mover(w, q)
      BY DEF Mover, Local, KindsFit, Relink
<1>2. /\ pc[w] = "relink" /\ op[w].kind = "move" /\ result' = result
      /\ vault' = vault /\ trash' = trash /\ backup' = backup /\ aim'[w] = m
      /\ copy'[w] = (Says(vault[m]) \ {Link(op[w].p)}) \cup {Link(q)}
  <2>1. ~Fail(w)
        BY DEF Fail, Goto, TypeOK
  <2>2. pc[w] = "relink" /\ op[w].kind = "move"
        BY DEF Relink, Local, KindsFit
  <2>3. Exists(m) /\ Link(op[w].p) \in vault[m].text
        BY <1>0, <2>1, <2>2 DEF Relink
  <2>4. /\ aim' = [aim EXCEPT ![w] = m] /\ UNCHANGED <<files, backup, result>>
        /\ copy' = [copy EXCEPT ![w] = (vault[m].text \ {Link(op[w].p)}) \cup {Link(q)}]
        BY <1>0, <1>1, <2>1, <2>3 DEF Relink
  <2> QED BY <2>2, <2>3, <2>4 DEF TypeOK, Says, Exists, files
<1>3. backup[w][m] # None
      BY <1>0, <1>2 DEF Local, PlanIsAhead
<1>4. KeptInv'
  <2>1. \A t \in Kept' : t \in Kept /\ \A r \in Path : t # Link(r)
    <3>1. ~Accepted(w)'
          BY <1>2 DEF Accepted, Ours
    <3> QED BY <3>1, KeptStands, KeptAre
  <2>2. Kept' \cap Says(vault[m]) \subseteq Says(backup[w][m])
        BY <1>2, <1>3, <2>1 DEF KeptInv, Busy
  <2>3. /\ Kept' \cap Says(vault[aim[w]])' \subseteq copy'[w]
        /\ Kept' \cap copy'[w] \subseteq Says(backup[w][aim[w]])'
        BY <1>1, <1>2, <2>1, <2>2
  <2>4. \A t \in Kept' : \E p \in Path : t \in Says(vault[p])' \cup Says(trash[p])'
        BY <1>2, <2>1 DEF KeptInv
  <2>5. ASSUME NEW p \in Path, backup'[w][p] # None
        PROVE  Kept' \cap Says(vault[p])' \subseteq Says(backup[w][p])'
        BY <1>2, <2>1, <2>5 DEF KeptInv, Busy
  <2> QED BY <2>3, <2>4, <2>5, OursKept
<1>5. OwnInv'
  <2>1. NothingNew(w)
        BY <1>1, <1>2 DEF NothingNew, Known
  <2>2. ASSUME Open(w)', NEW t \in Own(w)
        PROVE  /\ \A p \in Path : t \notin Says(trash[p])'
               /\ \A v \in Writer, p \in Path : t \notin Says(backup[v][p])'
               /\ \A p \in Path : t \in Says(vault[p])' => backup'[w][p] # None
    <3>1. Open(w)
          BY <1>2, <2>2 DEF Open, Ours
    <3> QED BY <1>2, <2>2, <3>1 DEF OwnInv
  <2> QED BY <2>1, <2>2, OursOwn DEF Busy
<1>6. TagInv'
      BY <1>2, OursTag
<1> QED BY <1>4, <1>5, <1>6

LEMMA RestoreKeeps ==
    ASSUME NEW w \in Writer, Turn(w), Restore(w)
    PROVE  Clean'
<1> USE DEF Turn, Clean
<1>0. PICK m \in Path : m = Min(BackedUp(w)) /\ backup[w][m] # None
      BY BackupsAreNotes DEF Restore, BackedUp
<1>1. /\ pc[w] = "rollback" /\ pc' = pc /\ copy' = copy /\ result' = result /\ trash' = trash
      /\ vault' = [vault EXCEPT ![m] = backup[w][m]]
      /\ backup' = [backup EXCEPT ![w][m] = None]
      BY <1>0 DEF Restore
<1>2. /\ Says(vault[m])' = Says(backup[w][m]) /\ backup'[w][m] = None /\ Says(backup[w][m])' = {}
      /\ \A p \in Path \ {m} : vault'[p] = vault[p] /\ backup'[w][p] = backup[w][p]
      /\ \A v \in Writer \ {w} : backup'[v] = backup[v]
      BY <1>1 DEF TypeOK, Says
<1>3. op[w].kind \in Multi
      BY <1>1 DEF Local, KindsFit
<1>4. KeptInv'
  <2>1. \A t \in Kept' : t \in Kept
    <3>1. ~Accepted(w)'
          BY <1>3 DEF Accepted, Ours, Multi
    <3> QED BY <3>1, KeptStands
  <2>2. ASSUME NEW t \in Kept' PROVE \E p \in Path : t \in Says(vault[p])' \cup Says(trash[p])'
    <3>1. PICK p \in Path : t \in Says(vault[p]) \cup Says(trash[p])
          BY <2>1, <2>2 DEF KeptInv
    <3>2. t \in Says(vault[m]) => t \in Says(backup[w][m])
          BY <1>0, <1>1, <2>1, <2>2 DEF KeptInv, Busy
    <3> QED BY <1>1, <1>2, <3>1, <3>2
  <2>3. ASSUME NEW p \in Path, backup'[w][p] # None
        PROVE  Kept' \cap Says(vault[p])' \subseteq Says(backup[w][p])'
        BY <1>1, <1>2, <2>1, <2>3 DEF KeptInv, Busy
  <2> QED BY <1>1, <2>2, <2>3, OursKept
<1>5. OwnInv'
  <2>1. NothingNew(w)
        BY <1>1, <1>2 DEF NothingNew, Known
  <2>2. ASSUME Open(w)', NEW t \in Own(w)
        PROVE  /\ \A p \in Path : t \notin Says(trash[p])'
               /\ \A v \in Writer, p \in Path : t \notin Says(backup[v][p])'
               /\ \A p \in Path : t \in Says(vault[p])' => backup'[w][p] # None
    <3>1. Open(w)
          BY <1>1, <2>2 DEF Open, Ours
    <3>2. \A v \in Writer, p \in Path : t \notin Says(backup[v][p])'
          BY <1>2, <2>2, <3>1 DEF OwnInv
    <3> QED BY <1>1, <1>2, <2>2, <3>1, <3>2 DEF OwnInv
  <2>3. copy'[w] = {}
        BY <1>1 DEF OwnInv
  <2> QED BY <1>1, <2>1, <2>2, <2>3, OursOwn DEF Busy
<1>6. TagInv'
      BY <1>1, OursTag
<1> QED BY <1>4, <1>5, <1>6

LEMMA RestoredKeeps ==
    ASSUME NEW w \in Writer, Turn(w), Restored(w), Exists(op[w].q), ~Exists(op[w].p),
           op[w].kind = "move"
    PROVE  Clean'
<1> USE DEF Turn, Clean
<1>0. PICK a \in Path, b \in Path : a = op[w].p /\ b = op[w].q
      OBVIOUS
<1>1. /\ pc[w] = "rollback" /\ vault[a] = None /\ a # b /\ \A p \in Path : backup[w][p] = None
      /\ vault' = [vault EXCEPT ![a] = vault[b], ![b] = None] /\ trash' = trash
      /\ backup' = backup /\ copy' = copy /\ pc'[w] = "release" /\ result' = result
      BY <1>0 DEF Restored, Goto, TypeOK, Exists, Local, Placed, BackedUp, local
<1>2. /\ Says(vault[a])' = Says(vault[b]) /\ Says(vault[b])' = {} /\ Says(vault[a]) = {}
      /\ \A p \in Path \ {a, b} : vault'[p] = vault[p]
      BY <1>1 DEF TypeOK, Says
<1>3. KeptInv'
  <2>1. \A t \in Kept' : t \in Kept
    <3>1. ~Accepted(w)'
          BY DEF Accepted, Ours
    <3> QED BY <3>1, KeptStands
  <2>2. ASSUME NEW t \in Kept' PROVE \E p \in Path : t \in Says(vault[p])' \cup Says(trash[p])'
    <3>1. PICK p \in Path : t \in Says(vault[p]) \cup Says(trash[p])
          BY <2>1, <2>2 DEF KeptInv
    <3> QED BY <1>1, <1>2, <3>1
  <2> QED BY <1>1, <2>2, OursKept DEF Busy
<1>4. OwnInv'
  <2>1. NothingNew(w)
        BY <1>1, <1>2 DEF NothingNew, Known
  <2>2. ASSUME Open(w)', NEW t \in Own(w)
        PROVE  /\ \A p \in Path : t \notin Says(trash[p])'
               /\ \A v \in Writer, p \in Path : t \notin Says(backup[v][p])'
               /\ \A p \in Path : t \notin Says(vault[p])'
    <3>1. Open(w)
          BY <1>1, <2>2 DEF Open, Ours
    <3>2. \A p \in Path : t \notin Says(vault[p])
          BY <1>1, <2>2, <3>1 DEF OwnInv
    <3> QED BY <1>1, <1>2, <2>2, <3>1, <3>2 DEF OwnInv
  <2>3. copy'[w] = {}
        BY <1>1 DEF OwnInv
  <2> QED BY <2>1, <2>2, <2>3, OursOwn
<1>5. TagInv'
      BY OursTag
<1> QED BY <1>3, <1>4, <1>5

---------------------------------------------------------------------------
(* Every step.                                                             *)

Quiet == Orderly /\ ~clobbered

LEMMA SameNotes ==
    ASSUME vault' = vault, trash' = trash, backup' = backup
    PROVE  Untouched
BY DEF Untouched, Exists

LEMMA BeginIsCalm ==
    ASSUME TypeOK, Assigned, NEW w \in Writer, Local(w), Begin(w), op'[w].kind # "prop"
    PROVE  Untouched /\ Calm(w)
<1>1. /\ vault' = vault /\ trash' = trash /\ backup' = backup /\ result' = result
      /\ copy' = copy
  <2> PICK o \in Ops[w] :
        \/ StartAppend(w, o) \/ StartDaily(w, o) \/ StartProp(w, o)
        \/ StartPlain(w, o) \/ StartRetag(w, o) \/ StartMove(w, o)
      BY DEF Begin
  <2>1. ~StartProp(w, o)
        BY DEF StartProp, Start, TypeOK
  <2> QED BY <2>1 DEF Start, StartAppend, StartDaily, StartPlain, StartRetag, StartMove
<1>2. Untouched
      BY <1>1, SameNotes
<1>3. pc[w] = "idle" /\ pc'[w] \in {"lock", "born", "again"}
      BY StartAssigns
<1>4. op[w] = None /\ Open(w) /\ ~Accepted(w)'
      BY <1>1, <1>3 DEF Local, Unanswered, Open, Accepted
<1> QED BY <1>1, <1>2, <1>3, <1>4 DEF Calm, Busy

LEMMA LockingIsCalm ==
    ASSUME TypeOK, NEW w \in Writer, Local(w), Locking(w)
    PROVE  Untouched /\ Calm(w) /\ clobbered' = clobbered
<1>1. vault' = vault /\ trash' = trash /\ backup' = backup /\ clobbered' = clobbered /\ op' = op
      BY DEF Locking, TryLock, Sign, Probe, Judge, Retake, Refused, Release, Over, files, local
<1>2. Untouched
      BY <1>1, SameNotes
<1>3. CASE Refused(w) \/ Release(w)
  <2>1. /\ pc[w] \in {"refused", "release"} /\ pc'[w] = "done" /\ copy'[w] = {}
        BY <1>3 DEF Refused, Release, Over, Goto, TypeOK
  <2>2. result'[w] = "ok" => result[w] = "ok"
        BY <1>3 DEF Refused, Release, TypeOK
  <2>3. Open(w)' => Open(w)
        BY <1>3 DEF Refused, Release, Open, TypeOK
  <2> QED BY <1>1, <1>2, <2>1, <2>2, <2>3 DEF Calm, Busy, Accepted
<1>4. CASE TryLock(w) \/ Sign(w) \/ Probe(w) \/ Judge(w) \/ Retake(w)
  <2>1. /\ pc[w] \in {"lock", "sign", "probe", "judge", "retake"}
        /\ pc'[w] \in {"sign", "probe", "work", "judge", "refused", "retake"}
        /\ pc'[w] = "work" => pc[w] = "sign"
        BY <1>4 DEF TryLock, Sign, Probe, Judge, Retake, Goto, TypeOK
  <2>2. copy' = copy /\ result' = result
        BY <1>4 DEF TryLock, Sign, Probe, Judge, Retake, local
  <2> QED BY <1>1, <1>2, <2>1, <2>2 DEF Calm, Busy, Accepted, Open
<1> QED BY <1>1, <1>3, <1>4 DEF Locking

\* A holder that fails, finds nothing, or comes to the end.
LEMMA PassIsCalm ==
    ASSUME TypeOK, NEW w \in Writer, Local(w), pc[w] \in Busy \ {"write"},
           vault' = vault, trash' = trash, backup' = backup, copy' = copy, op' = op,
           \/ Fail(w)
           \/ pc' = pc /\ result' = result
           \/ /\ Goto(w, "release") /\ result' = [result EXCEPT ![w] = "ok"]
              /\ op[w].kind \in Multi
              /\ pc[w] = "work" \/ op[w].kind = "move"
           \/ /\ Goto(w, "release") /\ result' = result
              /\ \A p \in Path : backup[w][p] = None
              /\ pc[w] = "rollback"
           \/ /\ Goto(w, "release") /\ result' = [result EXCEPT ![w] = "unrecorded"]
              /\ op[w].kind = "group"
    PROVE  Untouched /\ Calm(w)
<1>1. Untouched
      BY SameNotes
<1>2. result[w] \notin {"ok", "unrecorded"} /\ (Open(w)' => Open(w))
      BY DEF Local, Unanswered, Open, Busy
<1>3. op[w].kind \notin Multi => \A p \in Path : backup[w][p] = None
      BY DEF Local, BackupsArePlanned
<1>4. CASE Fail(w)
  <2>1. /\ pc'[w] = IF op[w].kind \in Multi THEN "rollback" ELSE "release"
        /\ result'[w] = "failed"
        BY <1>4 DEF Fail, Goto, TypeOK, Multi
  <2> QED BY <1>1, <1>2, <1>3, <2>1 DEF Calm, Busy, Accepted, Open
<1>5. CASE pc' = pc /\ result' = result
      BY <1>1, <1>2, <1>5 DEF Calm, Busy, Accepted, Open, Local, Unanswered
<1>6. CASE /\ Goto(w, "release") /\ result' = [result EXCEPT ![w] = "ok"]
           /\ op[w].kind \in Multi
           /\ pc[w] = "work" \/ op[w].kind = "move"
  <2>1. pc'[w] = "release" /\ result'[w] = "ok"
        BY <1>6 DEF Goto, TypeOK
  <2> QED BY <1>1, <1>2, <1>6, <2>1 DEF Calm, Busy, Accepted, Open, Multi
<1>7. CASE /\ Goto(w, "release") /\ result' = result
           /\ \A p \in Path : backup[w][p] = None
           /\ pc[w] = "rollback"
  <2>1. pc'[w] = "release" /\ result'[w] # "ok"
        BY <1>2, <1>7 DEF Goto, TypeOK, Open
  <2> QED BY <1>1, <1>2, <1>7, <2>1 DEF Calm, Busy, Accepted, Open
<1>8. CASE /\ Goto(w, "release") /\ result' = [result EXCEPT ![w] = "unrecorded"]
           /\ op[w].kind = "group"
  <2>1. pc'[w] = "release" /\ result'[w] = "unrecorded"
        BY <1>8 DEF Goto, TypeOK
  <2> QED BY <1>1, <1>8, <2>1 DEF Calm, Busy, Accepted, Open
<1> QED BY <1>4, <1>5, <1>6, <1>7, <1>8

\* Before the lock is asked for: the daily note is created, and found again.
LEMMA BirthIsCalm ==
    ASSUME TypeOK, Assigned, NEW w \in Writer, Local(w), ~clobbered',
           Born(w) \/ BornTaken(w) \/ Again(w)
    PROVE  Untouched /\ Calm(w)
<1>1. /\ op[w].p \in Path /\ (Open(w)' => Open(w)) /\ result[w] \notin {"ok", "unrecorded"}
      /\ copy' = copy /\ op' = op /\ trash' = trash /\ backup' = backup
  <2>1. pc[w] \in {"born", "again"}
        BY DEF Born, BornTaken, Again
  <2> QED BY <2>1 DEF Born, BornTaken, Again, Assigned, Command, Local, Unanswered, Open,
             files, local
<1>2. Calm(w)
  <2>1. pc[w] \in {"born", "again"} /\ pc'[w] \in {"again", "done", "lock"}
        BY DEF Born, BornTaken, Again, Goto, TypeOK
  <2>2. result'[w] = result[w] \/ result'[w] = "failed"
        BY DEF Born, BornTaken, Again, TypeOK
  <2> QED BY <1>1, <2>1, <2>2 DEF Calm, Busy, Accepted, Open
<1>3. Untouched
  <2>1. CASE Born(w)
    <3>1. PICK a \in Path : a = op[w].p /\ WriteFile(a, {}) /\ vault[a] = None
          BY <1>1, <2>1 DEF Born, Exists
    <3>2. /\ vault'[a] # None /\ vault'[a].text = {}
          /\ \A p \in Path \ {a} : vault'[p] = vault[p]
          BY <3>1, WriteFileType
    <3> QED BY <1>1, <3>1, <3>2 DEF Untouched, Exists, Says
  <2>2. CASE BornTaken(w) \/ Again(w)
        BY <1>1, <2>2, SameNotes DEF BornTaken, Again, files
  <2> QED BY <2>1, <2>2
<1> QED BY <1>2, <1>3

LEMMA WorkKeeps ==
    ASSUME TypeOK, Assigned, NEW w \in Writer, Local(w), Work(w),
           \A v \in Writer \ {w} : Same(v),
           pc[w] \in Holding => \A v \in Writer \ {w} : pc[v] \notin Holding,
           op[w] = None \/ op[w].kind # "prop",
           Clean, ~clobbered'
    PROVE  Clean' \/ (Untouched /\ Calm(w))
<1>1. CASE Born(w) \/ BornTaken(w) \/ Again(w)
      BY <1>1, BirthIsCalm
<1>2. CASE pc[w] \in Busy
  <2>1. op' = op
        BY <1>2 DEF Work, Born, BornTaken, Again, Compose, Write, HubUnrecorded,
           Trash, Visit, Rename, Relink, Verify, Restore, Restored, local, Busy
  <2>2. Turn(w) /\ op[w].kind # "prop"
    <3>1. op[w] \in Command
          BY <1>2 DEF Assigned, Busy
    <3> QED BY <1>2, <2>1, <3>1, NoneAssumption DEF Turn, Ours, Command, Busy, Holding
  <2>3. CASE Compose(w)
    <3>1. pc'[w] = "write" \/ (Fail(w) /\ copy' = copy)
          BY <2>3 DEF Compose, Goto, TypeOK
    <3>2. /\ pc[w] = "work" /\ vault' = vault /\ trash' = trash /\ backup' = backup
          BY <2>3 DEF Compose, Working, files
    <3> QED BY <2>1, <2>2, <2>3, <3>1, <3>2, ComposeKeeps, PassIsCalm DEF Busy
  <2>4. CASE Write(w)
        BY <2>2, <2>4, WriteKeeps
  <2>5. CASE Trash(w)
    <3>1. CASE Exists(op[w].p)
          BY <2>2, <2>5, <3>1, TrashKeeps
    <3>2. CASE ~Exists(op[w].p)
      <4>1. /\ pc[w] = "work" /\ Fail(w) /\ vault' = vault /\ trash' = trash
            /\ backup' = backup /\ copy' = copy
            BY <2>5, <3>2 DEF Trash, Working, local
      <4> QED BY <2>1, <4>1, PassIsCalm DEF Busy
    <3> QED BY <3>1, <3>2
  <2>6. CASE Visit(w)
    <3>1. CASE backup' # backup
          BY <2>2, <2>6, <3>1, VisitKeeps
    <3>2. CASE backup' = backup
      <4>1. PICK m \in Path : m = Min(todo[w]) /\ m \in todo[w]
            BY <2>6, MinIsMember DEF Visit, TypeOK
      <4>2. pc[w] = "work" /\ op[w].kind \in Multi /\ vault' = vault /\ trash' = trash
            BY <2>6 DEF Visit, Working, files, Multi
      <4>3. \/ UNCHANGED <<pc, result, copy>>
            \/ Fail(w) /\ copy' = copy
            \/ backup' = [backup EXCEPT ![w][m] = vault[m]] /\ vault[m] # None
            BY <2>6, <4>1 DEF Visit, Exists
      <4>4. ~ (backup' = [backup EXCEPT ![w][m] = vault[m]] /\ vault[m] # None)
        <5>1. backup[w][m] = None
              BY <4>1, <4>2 DEF Local, PlanIsAhead
        <5> QED BY <3>2, <4>1, <5>1 DEF TypeOK
      <4> QED BY <2>1, <3>2, <4>2, <4>3, <4>4, PassIsCalm DEF Busy
    <3> QED BY <3>1, <3>2
  <2>7. CASE Rename(w)
    <3>1. CASE Exists(op[w].p)
          BY <2>2, <2>7, <3>1, RenameKeeps
    <3>2. CASE ~Exists(op[w].p)
      <4>1. /\ pc[w] = "work" /\ Fail(w) /\ vault' = vault /\ trash' = trash
            /\ backup' = backup /\ copy' = copy
            BY <2>7, <3>2 DEF Rename, Working
      <4> QED BY <2>1, <4>1, PassIsCalm DEF Busy
    <3> QED BY <3>1, <3>2
  <2>8. CASE Relink(w)
    <3>1. CASE pc'[w] = "write"
          BY <2>2, <2>8, <3>1, RelinkKeeps
    <3>2. CASE pc'[w] # "write"
      <4>1. /\ pc[w] = "relink" /\ vault' = vault /\ trash' = trash /\ backup' = backup
            BY <2>8 DEF Relink, files
      <4>2. copy' = copy /\ (Fail(w) \/ (pc' = pc /\ result' = result))
            BY <2>8, <3>2 DEF Relink, Goto, TypeOK
      <4> QED BY <2>1, <4>1, <4>2, PassIsCalm DEF Busy
    <3> QED BY <3>1, <3>2
  <2>9. CASE Verify(w)
    <3>1. /\ vault' = vault /\ trash' = trash /\ backup' = backup /\ copy' = copy
          /\ pc[w] \in {"work", "relink"} /\ op[w].kind \in Multi
          /\ pc[w] = "work" \/ op[w].kind = "move"
          BY <2>9 DEF Verify, Working, files, local, Local, KindsFit, Multi
    <3>2. Fail(w) \/ (Goto(w, "release") /\ result' = [result EXCEPT ![w] = "ok"])
          BY <2>9 DEF Verify
    <3> QED BY <2>1, <3>1, <3>2, PassIsCalm DEF Busy
  <2>10. CASE Restore(w)
        BY <2>2, <2>10, RestoreKeeps
  <2>11. CASE Restored(w)
    <3>1. CASE op[w].kind = "move" /\ Exists(op[w].q) /\ ~Exists(op[w].p)
          BY <2>2, <2>11, <3>1, RestoredKeeps
    <3>2. CASE ~ (op[w].kind = "move" /\ Exists(op[w].q) /\ ~Exists(op[w].p))
      <4>1. /\ pc[w] = "rollback" /\ Goto(w, "release") /\ vault' = vault /\ trash' = trash
            /\ backup' = backup /\ copy' = copy /\ result' = result
            /\ \A p \in Path : backup[w][p] = None
            BY <2>11, <3>2 DEF Restored, local, BackedUp
      <4> QED BY <2>1, <4>1, PassIsCalm DEF Busy
    <3> QED BY <3>1, <3>2
  <2>12. CASE HubUnrecorded(w)
    <3>1. /\ pc[w] = "work" /\ op[w].kind = "group" /\ vault' = vault /\ trash' = trash
          /\ backup' = backup /\ copy' = copy /\ Goto(w, "release")
          /\ result' = [result EXCEPT ![w] = "unrecorded"]
          BY <2>12 DEF HubUnrecorded, Working, files, local
    <3> QED BY <2>1, <3>1, PassIsCalm DEF Busy
  <2> QED BY <1>2, <2>3, <2>4, <2>5, <2>6, <2>7, <2>8, <2>9, <2>10, <2>11, <2>12
          DEF Work, Born, BornTaken, Again, Busy
<1> QED BY <1>1, <1>2 DEF Work, Compose, Write, HubUnrecorded, Trash, Visit, Rename,
           Relink, Verify, Restore, Restored, Working, Busy

LEMMA QuietBefore ==
    ASSUME TypeOK, \A w \in Writer : Local(w), Next, Quiet'
    PROVE  /\ Quiet
           /\ \A w \in Writer : ~Kill(w) /\ ~Interrupt(w)
           /\ \A w \in Writer : Begin(w) => op'[w].kind # "prop"
<1>1. ASSUME NEW w \in Writer PROVE ~Kill(w) /\ ~Interrupt(w)
      BY BoundAssumption DEF Kill, Interrupt, Quiet, Orderly, TypeOK
<1>2. ASSUME NEW w \in Writer PROVE Begin(w) => op'[w].kind # "prop"
  <2>1. Begin(w) => op'[w] # None
        BY NoneAssumption, OpsAssumption DEF Begin, TypeOK, Start, StartAppend, StartDaily,
           StartProp, StartPlain, StartRetag, StartMove
  <2> QED BY <2>1 DEF Quiet, Orderly
<1>3. kills' = kills /\ (broken => broken') /\ (clobbered => clobbered')
  <2>1. ASSUME NEW w \in Writer, Begin(w)
        PROVE  kills' = kills /\ broken' = broken /\ clobbered' = clobbered
        BY <2>1 DEF Begin, Start, StartAppend, StartDaily, StartProp, StartPlain,
           StartRetag, StartMove
  <2>2. ASSUME NEW w \in Writer, Locking(w)
        PROVE  kills' = kills /\ (broken => broken') /\ clobbered' = clobbered
        BY <2>2 DEF Locking, TryLock, Sign, Probe, Judge, Retake, Refused, Release, Unlink,
           TypeOK
  <2>3. ASSUME NEW w \in Writer, Work(w)
        PROVE  kills' = kills /\ broken' = broken /\ (clobbered => clobbered')
        BY <2>3 DEF Work, Born, BornTaken, Again, Compose, Write, HubUnrecorded,
           Trash, Visit, Rename, Relink, Verify, Restore, Restored, TypeOK
  <2>4. ASSUME NEW p \in Path, EditNote(p)
        PROVE  kills' = kills /\ broken' = broken /\ clobbered' = clobbered
        BY <2>4 DEF EditNote
  <2> QED BY <1>1, <2>1, <2>2, <2>3, <2>4 DEF Next
<1>4. \A w \in Writer : op'[w] = op[w] \/ op[w] = None
  <2>1. ASSUME NEW w \in Writer, Acts(w) PROVE op'[w] = op[w] \/ op[w] = None
    <3>1. CASE Begin(w)
          BY <3>1 DEF Begin, Start, StartAppend, StartDaily, StartProp, StartPlain,
             StartRetag, StartMove, Local, Unanswered
    <3>2. CASE ~Begin(w)
          BY <2>1, <3>2 DEF Acts, Locking, TryLock, Sign, Probe, Judge, Retake, Refused,
             Release, Over, Work, Born, BornTaken, Again, Compose, Write, HubUnrecorded,
             Trash, Visit, Rename, Relink, Verify, Restore, Restored, Kill, Interrupt, local
    <3> QED BY <3>1, <3>2
  <2>2. ASSUME NEW p \in Path, EditNote(p) PROVE op' = op
        BY <2>2 DEF EditNote, local
  <2> QED BY <2>1, <2>2, OthersSame DEF Next, Acts, Same
<1>5. Quiet
      BY <1>3, <1>4 DEF Quiet, Orderly
<1> QED BY <1>1, <1>2, <1>5

LEMMA CleanStep ==
    ASSUME TypeOK, Assigned, \A w \in Writer : Local(w), HolderOwns, Quiet => Clean,
           Next, Quiet'
    PROVE  Clean'
<1>1. Quiet /\ Clean /\ ~clobbered'
      BY QuietBefore DEF Quiet
<1>2. \A v, w \in Writer : pc[v] \in Holding /\ pc[w] \in Holding => v = w
      BY <1>1 DEF HolderOwns, Quiet, Orderly
<1>3. Rest => Clean'
      BY <1>1, RestKeeps, RestOwns, RestTags DEF Clean
<1>4. ASSUME NEW w \in Writer, Acts(w) PROVE Clean'
  <2>1. \A v \in Writer \ {w} : Same(v)
        BY <1>4, OthersSame
  <2>2. Clean' \/ (Untouched /\ Calm(w))
    <3>1. CASE Begin(w)
          BY <3>1, QuietBefore, BeginIsCalm
    <3>2. CASE Locking(w)
          BY <3>2, LockingIsCalm
    <3>3. CASE Work(w)
          BY <1>1, <1>2, <2>1, <3>3, WorkKeeps DEF Quiet, Orderly
    <3> QED BY <1>4, <3>1, <3>2, <3>3, QuietBefore DEF Acts
  <2> QED BY <1>3, <2>1, <2>2 DEF Rest
<1>5. ASSUME NEW p \in Path, EditNote(p) PROVE Clean'
  <2>1. Untouched
    <3>1. WriteFile(p, vault[p].text \cup {Edit}) /\ vault[p] # None
          BY <1>5 DEF EditNote, Exists
    <3>2. vault[p].text \cup {Edit} \in SUBSET Token
          BY <3>1 DEF TypeOK, Note, Token
    <3>3. /\ vault'[p] # None /\ vault'[p].text = vault[p].text \cup {Edit}
          /\ \A r \in Path \ {p} : vault'[r] = vault[r]
          BY <3>1, <3>2, WriteFileType
    <3>4. trash' = trash /\ backup' = backup
          BY <1>5 DEF EditNote, local
    <3> QED BY <3>1, <3>3, <3>4 DEF Untouched, Exists, Says
  <2>2. \A v \in Writer : Same(v)
        BY <1>5 DEF EditNote, Same, local
  <2> QED BY <1>3, <2>1, <2>2 DEF Rest
<1> QED BY <1>4, <1>5 DEF Next, Acts

LEMMA CleanAtFirst == Init => Clean
<1> SUFFICES ASSUME Init PROVE Clean
    OBVIOUS
<1>1. /\ \A p \in Path : Says(trash[p]) = {} /\ (vault[p] = None <=> Initial[p] = None)
      /\ \A p \in Path : Initial[p] = None => Says(vault[p]) = {}
      /\ \A p \in Path : Initial[p] # None => Says(vault[p]) = Initial[p]
      /\ \A w \in Writer : /\ copy[w] = {} /\ pc[w] = "idle" /\ op[w] = None
                           /\ result[w] = "none" /\ \A p \in Path : Says(backup[w][p]) = {}
  <2>1. \A p \in Path : Initial[p] # None => [text |-> Initial[p], stamp |-> 0] \in Note
        BY InitialAreNotes
  <2> QED BY <2>1, NoneAssumption DEF Init, Says, NoBackup
<1>2. \A w \in Writer : w \notin Kept
      BY <1>1, LinksDiffer DEF Kept, Accepted
<1>3. KeptInv
  <2>1. ASSUME NEW t \in Kept PROVE \E p \in Path : t \in Says(vault[p])
        BY <1>1, <1>2, <2>1, InitialAssumption DEF Kept, Accepted
  <2> QED BY <1>1, <2>1 DEF KeptInv, Busy
<1>4. \A p \in Path : \A t \in Says(vault[p]) : t \notin Writer
      BY <1>1, LinksDiffer, TokenAssumption, InitialAssumption
<1>5. \A r, p \in Path : Link(r) \in Says(vault[p]) => Written(Link(r))
      BY <1>1 DEF Written
<1>6. OwnInv
  <2>1. ASSUME NEW w \in Writer PROVE Own(w) = {w}
        BY <1>1 DEF Own, Mover
  <2>2. ASSUME NEW w \in Writer, NEW p \in Path
        PROVE  /\ w \notin Says(vault[p]) /\ w \notin Says(trash[p])
               /\ \A v \in Writer : w \notin copy[v] /\ w \notin Says(backup[v][p])
        BY <1>1, <1>4
  <2>3. ASSUME NEW r \in Path, ~Written(Link(r)), NEW p \in Path
        PROVE  /\ Link(r) \notin Says(vault[p]) \cup Says(trash[p])
               /\ \A v \in Writer : Link(r) \notin copy[v] /\ Link(r) \notin Says(backup[v][p])
        BY <1>1, <1>5, <2>3
  <2>4. \A r \in Path : ~Written(Link(r)) => \A v \in Writer : Link(r) \notin copy[v]
        BY <1>1
  <2>5. \A w, v \in Writer : w \notin copy[v] /\ copy[v] = {}
        BY <1>1
  <2> QED BY <2>1, <2>2, <2>3, <2>4, <2>5 DEF OwnInv
<1>7. TagInv
      BY <1>1 DEF TagInv
<1> QED BY <1>3, <1>6, <1>7 DEF Clean

LEMMA CleanHolds == Spec => [](Quiet => Clean)
<1>1. TypeOK /\ Assigned /\ (\A w \in Writer : Local(w)) /\ HolderOwns /\ (Quiet => Clean)
          /\ [Next]_vars => (Quiet => Clean)'
  <2> SUFFICES ASSUME TypeOK, Assigned, \A w \in Writer : Local(w), HolderOwns,
                      Quiet => Clean, [Next]_vars, Quiet'
               PROVE  Clean'
      OBVIOUS
  <2>1. CASE UNCHANGED vars
    <3>1. Quiet /\ Clean
          BY <2>1 DEF vars, Quiet, Orderly
    <3>2. Untouched /\ \A v \in Writer : Same(v)
          BY <2>1, SameNotes DEF vars, Same
    <3> QED BY <3>1, <3>2, RestKeeps, RestOwns, RestTags DEF Rest, Clean
  <2> QED BY <2>1, CleanStep
<1> QED BY <1>1, CleanAtFirst, TypeHolds, LocalHolds, LockHolds, PTL DEF Spec

\* append, daily, tasks, save: while the lock is not broken, nobody is killed and
\* nothing is overwritten unread, every text that was reported as written, and the
\* text of every note there was, is in the vault or its trash.
THEOREM NothingAcceptedIsLost == Spec => []AcceptedIsKept
<1>1. TypeOK /\ (Quiet => Clean) => AcceptedIsKept
  <2> SUFFICES ASSUME Quiet, KeptInv PROVE AcceptedIsKept
      BY DEF AcceptedIsKept, Quiet, Clean
  <2>1. \A t \in Kept : Stored(t)
        BY DEF KeptInv, Stored, Says
  <2> QED BY <2>1 DEF AcceptedIsKept, Kept, Accepted
<1> QED BY <1>1, CleanHolds, TypeHolds, PTL

\* rewrite_tags, cmd_move and the preflights: a command that reports failure has left
\* nothing of its own behind (save-group apart, which leaves its hub), and a rename of
\* a tag that succeeds leaves the tag in no note of its plan.
THEOREM FailureLeavesNothing == Spec => []AllOrNothing
<1>1. TypeOK /\ Assigned /\ (Quiet => Clean) => AllOrNothing
  <2> SUFFICES ASSUME TypeOK, Assigned, Quiet, OwnInv, TagInv, NEW w \in Writer
               PROVE
    /\ pc[w] = "done" /\ result[w] = "failed" /\ op[w].kind # "group" => ~Stored(w)
    /\ pc[w] = "done" /\ result[w] = "failed" /\ op[w].kind = "move" =>
          \A p \in Path : (vault[p] # None /\ Link(op[w].q) \in vault[p].text) =>
              \/ Written(Link(op[w].q))
              \/ \E v \in Writer \ {w} : op[v] # None /\ op[v].kind = "move"
                                                      /\ op[v].q = op[w].q
    /\ pc[w] = "release" /\ result[w] = "ok" /\ op[w].kind = "retag" =>
          \A p \in BackedUp(w) : vault[p] # None => Tag \notin vault[p].text
      BY DEF AllOrNothing, Quiet, Clean
  <2>1. ASSUME pc[w] = "done", result[w] = "failed", op[w].kind # "group",
               NEW t \in Own(w), NEW p \in Path
        PROVE  t \notin Says(vault[p]) \cup Says(trash[p])
        BY <2>1 DEF OwnInv, Open, Busy
  <2>2. ASSUME pc[w] = "done", result[w] = "failed", op[w].kind # "group" PROVE ~Stored(w)
        BY <2>1, <2>2 DEF Stored, Says, Own
  <2>3. ASSUME pc[w] = "done", result[w] = "failed", op[w].kind = "move",
               ~Written(Link(op[w].q)), NEW p \in Path,
               \A v \in Writer \ {w} : ~(op[v] # None /\ op[v].kind = "move"
                                                      /\ op[v].q = op[w].q)
        PROVE  ~(vault[p] # None /\ Link(op[w].q) \in vault[p].text)
    <3>1. op[w] # None /\ op[w].q \in Path
          BY <2>3, NoneAssumption DEF Assigned, Command
    <3>2. Link(op[w].q) \in Own(w)
          BY <2>3, <3>1 DEF Own, Mover
    <3> QED BY <2>1, <2>3, <3>2 DEF Says
  <2>4. ASSUME pc[w] = "release", result[w] = "ok", op[w].kind = "retag",
               NEW p \in BackedUp(w), vault[p] # None
        PROVE  Tag \notin vault[p].text
    <3>1. op[w] # None
          BY <2>4, NoneAssumption DEF Assigned
    <3> QED BY <2>4, <3>1 DEF TagInv, BackedUp, Says
  <2> QED BY <2>2, <2>3, <2>4
<1> QED BY <1>1, CleanHolds, TypeHolds, PTL
===========================================================================
