------------------------- MODULE MannaBoardProofs -------------------------
(***************************************************************************)
(* Theorems about MannaBoard, for any board, any sessions and any number of *)
(* editor and reconcile processes.                                          *)
(***************************************************************************)
EXTENDS MannaBoard, TLAPS

---------------------------------------------------------------------------
(* The operators of MannaIssue yield rows                                  *)

\* Every transition of the issue model maps rows to rows.
LEMMA IssueTypes ==
    ASSUME NEW issue \in Issue, NEW now \in Nat, NEW session \in Identity,
           NEW blocker \in IssueId, NEW blockers \in SUBSET IssueId
    PROVE  /\ ClaimBy(issue, session, now) \in Issue
           /\ ClearClaim(issue, now) \in Issue
           /\ Release(issue, now) \in Issue
           /\ MarkDone(issue, now) \in Issue
           /\ ReleaseDeadClaim(issue, now) \in Issue
           /\ UpdateBlockedStatus(issue) \in Issue
           /\ AddBlocker(issue, blocker, now) \in Issue
           /\ RemoveBlockers(issue, blockers, now) \in Issue
<1>1. ClaimBy(issue, session, now) \in Issue
  BY DEF ClaimBy, Issue, Identity, IssueStatus
<1>2. ClearClaim(issue, now) \in Issue
  BY DEF ClearClaim, Issue
<1>3. Release(issue, now) \in Issue
  BY <1>2 DEF Release, ClearClaim, UnclaimedStatus, Issue, IssueStatus
<1>4. MarkDone(issue, now) \in Issue
  BY DEF MarkDone, Issue, IssueStatus
<1>5. ReleaseDeadClaim(issue, now) \in Issue
  BY DEF ReleaseDeadClaim, ClearClaim, UnclaimedStatus, Issue, IssueStatus
<1>6. \A i \in Issue : UpdateBlockedStatus(i) \in Issue
  BY DEF UpdateBlockedStatus, Issue, IssueStatus
<1>7. AddBlocker(issue, blocker, now) \in Issue
  <2>1. [issue EXCEPT !.blocked_by = @ \union {blocker}, !.updated_at = now] \in Issue
    BY DEF Issue
  <2>2. QED
    BY <1>6, <2>1 DEF AddBlocker
<1>8. RemoveBlockers(issue, blockers, now) \in Issue
  <2>1. [issue EXCEPT !.blocked_by = @ \ blockers, !.updated_at = now] \in Issue
    BY DEF Issue
  <2>2. QED
    BY <1>6, <2>1 DEF RemoveBlockers
<1>9. QED
  BY <1>1, <1>2, <1>3, <1>4, <1>5, <1>6, <1>7, <1>8

\* A fresh row is a row.
LEMMA NewIssueType ==
    ASSUME NEW type \in IssueType, NEW now \in Nat
    PROVE  NewIssue(type, now) \in Issue
  BY DEF NewIssue, Issue, IssueStatus

---------------------------------------------------------------------------
(* Every transition keeps a row's lifecycle fields coherent                *)

RowOK(row) == RowCoherent(row) /\ (row.type = "dream" => ~Claimed(row))

\* A claim taken, completed, released or closed by its verbs leaves a coherent
\* row.
LEMMA LifecycleRows ==
    ASSUME NEW issue \in Issue, NEW now \in Nat, NEW session \in Identity, RowOK(issue)
    PROVE  /\ CanClaim(issue) => RowOK(ClaimBy(issue, session, now))
           /\ RowOK(MarkDone(issue, now))
           /\ RowOK(Release(issue, now)) \/ ~CanRelease(issue, session)
           /\ RowOK(ReleaseDeadClaim(issue, now))
           /\ RowOK(MarkDone(ReleaseDeadClaim(issue, now), now))
<1> USE NoneAssumption DEF RowOK, RowCoherent, Claimed, Issue
<1>1. CanClaim(issue) => RowOK(ClaimBy(issue, session, now))
  BY DEF CanClaim, ClaimBy, IssueStatus, Identity
<1>2. RowOK(MarkDone(issue, now))
  BY DEF MarkDone
<1>3. RowOK(Release(issue, now)) \/ ~CanRelease(issue, session)
  BY DEF Release, ClearClaim, UnclaimedStatus, CanRelease
<1>4. RowOK(ReleaseDeadClaim(issue, now))
  BY DEF ReleaseDeadClaim, ClearClaim, UnclaimedStatus
<1>5. RowOK(MarkDone(ReleaseDeadClaim(issue, now), now))
  BY DEF MarkDone, ReleaseDeadClaim, ClearClaim, UnclaimedStatus
<1>6. QED
  BY <1>1, <1>2, <1>3, <1>4, <1>5

\* A fresh row is coherent.
LEMMA FreshRows ==
    \A type \in IssueType, now \in Nat :
        NewIssue(type, now) \in Issue /\ RowOK(NewIssue(type, now))
  BY NewIssueType DEF RowOK, RowCoherent, NewIssue, Claimed

\* The rows a board may start with are coherent.
LEMMA InitialRows == \A row \in InitialRow : row \in Issue /\ RowOK(row)
<1> DEFINE fresh == NewIssue("item", 0)
<1>1. \A type \in IssueType : NewIssue(type, 0) \in Issue /\ RowOK(NewIssue(type, 0))
  BY FreshRows
<1>2. fresh \in Issue /\ RowOK(fresh)
  BY <1>1 DEF IssueType
<1>3. fresh.type = "item" /\ fresh.blocked_by = {}
  BY DEF NewIssue
<1>4. ASSUME NEW l \in Label PROVE LegacyClaim(l) \in Issue /\ RowOK(LegacyClaim(l))
  <2>1. LegacyClaim(l) = [fresh EXCEPT !.status = "in_progress", !.claimed_by = l]
    BY DEF LegacyClaim
  <2> HIDE DEF fresh
  <2>2. /\ LegacyClaim(l) \in Issue /\ LegacyClaim(l).status = "in_progress"
        /\ LegacyClaim(l).claimed_by = l /\ LegacyClaim(l).type = "item"
        /\ LegacyClaim(l).blocked_by = {}
    BY <1>2, <1>3, <2>1 DEF Issue, IssueStatus
  <2>3. l # None
    BY NoneAssumption
  <2> HIDE DEF LegacyClaim
  <2>4. QED
    BY <2>2, <2>3 DEF RowOK, RowCoherent, Claimed
<1>5. ASSUME NEW s \in Session
      PROVE  ClaimBy(fresh, s, 0) \in Issue /\ RowOK(ClaimBy(fresh, s, 0))
  <2>1. CanClaim(fresh)
    BY DEF CanClaim, NewIssue, Claimed
  <2> HIDE DEF fresh
  <2>2. s \in Identity
    BY SessionAssumption
  <2>3. ClaimBy(fresh, s, 0) \in Issue
    BY <1>2, <2>2 DEF ClaimBy, Issue, Identity, IssueStatus
  <2>4. QED
    BY <1>2, <2>1, <2>2, <2>3, LifecycleRows
<1> HIDE DEF fresh
<1>6. TAKE row \in InitialRow
<1>7. row \in EarlyRow
  BY InitialRowAssumption
<1>8. QED
  BY <1>1, <1>4, <1>5, <1>7 DEF EarlyRow, fresh

\* Recomputing the blocked status makes any row coherent whose claim already
\* agrees with an open or in_progress status.
LEMMA BlockedStatusRows ==
    ASSUME NEW issue \in Issue,
           issue.status = "open" => ~Claimed(issue),
           issue.status = "in_progress" => Claimed(issue),
           issue.type = "dream" => ~Claimed(issue)
    PROVE  RowOK(UpdateBlockedStatus(issue))
  BY DEF RowOK, RowCoherent, Claimed, UpdateBlockedStatus, Issue, IssueStatus

\* Adding and removing blockers leaves a coherent row.
LEMMA DependencyRows ==
    ASSUME NEW issue \in Issue, NEW now \in Nat, RowOK(issue),
           NEW blocker \in IssueId, NEW blockers \in SUBSET IssueId
    PROVE  /\ RowOK(AddBlocker(issue, blocker, now))
           /\ RowOK(RemoveBlockers(issue, blockers, now))
           /\ RowOK([UpdateBlockedStatus(RemoveBlockers(issue, blockers, now))
                       EXCEPT !.updated_at = now])
<1> DEFINE added   == [issue EXCEPT !.blocked_by = @ \union {blocker}, !.updated_at = now]
           removed == [issue EXCEPT !.blocked_by = @ \ blockers, !.updated_at = now]
<1>1. added \in Issue /\ removed \in Issue
  BY DEF Issue
<1>2. RowOK(UpdateBlockedStatus(added)) /\ RowOK(UpdateBlockedStatus(removed))
  <2>1. /\ added.status = issue.status /\ added.claimed_by = issue.claimed_by
        /\ added.type = issue.type
        /\ removed.status = issue.status /\ removed.claimed_by = issue.claimed_by
        /\ removed.type = issue.type
    BY DEF Issue
  <2>2. QED
    BY <1>1, <2>1, BlockedStatusRows DEF RowOK, RowCoherent, Claimed
<1>3. RowOK(AddBlocker(issue, blocker, now))
  BY <1>2 DEF AddBlocker
<1>4. RowOK(RemoveBlockers(issue, blockers, now)) /\ RemoveBlockers(issue, blockers, now) \in Issue
  <2>1. \A row \in Issue : UpdateBlockedStatus(row) \in Issue
    BY DEF UpdateBlockedStatus, Issue, IssueStatus
  <2>2. QED
    BY <1>1, <1>2, <2>1 DEF RemoveBlockers
<1>5. \A row \in Issue : RowOK(row) =>
          RowOK([UpdateBlockedStatus(row) EXCEPT !.updated_at = now])
  <2>1. ASSUME NEW row \in Issue, RowOK(row)
        PROVE  RowOK([UpdateBlockedStatus(row) EXCEPT !.updated_at = now])
    <3>1. RowOK(UpdateBlockedStatus(row))
      BY <2>1, BlockedStatusRows DEF RowOK, RowCoherent
    <3>2. UpdateBlockedStatus(row) \in Issue
      BY DEF UpdateBlockedStatus, Issue, IssueStatus
    <3>3. QED
      BY <3>1, <3>2 DEF RowOK, RowCoherent, Claimed, Issue
  <2>2. QED
    BY <2>1
<1>6. QED
  BY <1>3, <1>4, <1>5

---------------------------------------------------------------------------
(* The locked section                                                      *)

\* The part of the invariant that a locked section touches.
RowsInv ==
    /\ rows \in [IssueId -> Issue \union {NoRow}]
    /\ clock \in Nat
    /\ presence \in [Label -> PeerStatus]
    /\ tenure \in [IssueId -> SUBSET PeerStatus]
    /\ \A id \in IssueId : Exists(id) => RowOK(rows[id])

LEMMA RowsInvOfBoardInv == BoardInv => RowsInv
  BY DEF BoardInv, TypeOK, RowsInv, RowsCoherent, DreamsAreInert, RowOK

\* Writing a coherent row, or removing one, keeps the board well-formed.
LEMMA WriteKeepsRows ==
    ASSUME RowsInv, NEW id \in IssueId, NEW row \in Issue \union {NoRow},
           row # NoRow => RowOK(row), Write(id, row), UNCHANGED presence
    PROVE  RowsInv'
<1> USE NoRowAssumption
<1>1. /\ rows' = [rows EXCEPT ![id] = row]
      /\ clock' = clock + 1
      /\ tenure' = [tenure EXCEPT ![id] =
                      IF SameClaim(rows[id], row) THEN tenure[id] ELSE TenureAfter(row)]
  BY DEF Write, Now
<1>2. rows' \in [IssueId -> Issue \union {NoRow}] /\ clock' \in Nat
  BY <1>1 DEF RowsInv
<1>3. tenure' \in [IssueId -> SUBSET PeerStatus]
  <2>1. TenureAfter(row) \in SUBSET PeerStatus
    BY DEF TenureAfter, RowsInv, Claimed, Issue
  <2>2. QED
    BY <1>1, <2>1 DEF RowsInv
<1>4. (\A i \in IssueId : Exists(i) => RowOK(rows[i]))'
  <2> SUFFICES ASSUME NEW i \in IssueId, rows'[i] # NoRow PROVE RowOK(rows'[i])
    BY DEF Exists, RowOK, RowCoherent, Claimed
  <2>1. CASE i = id
    BY <2>1, <1>1 DEF RowsInv
  <2>2. CASE i # id
    BY <2>2, <1>1 DEF RowsInv, Exists
  <2>3. QED
    BY <2>1, <2>2
<1>5. QED
  BY <1>2, <1>3, <1>4 DEF RowsInv

---------------------------------------------------------------------------
(* The inductive invariant                                                 *)

LEMMA InitInv == Init => BoardInv
<1> SUFFICES ASSUME Init PROVE BoardInv
  OBVIOUS
<1> USE NoRowAssumption
<1>1. \A id \in IssueId : rows[id] # NoRow => rows[id] \in Issue /\ RowOK(rows[id])
  <2> TAKE id \in IssueId
  <2>1. rows[id] \in InitialRow \union {NoRow}
    BY DEF Init
  <2>2. QED
    BY <2>1, InitialRows
<1>2. rows \in [IssueId -> Issue \union {NoRow}]
  BY <1>1 DEF Init
<1>3. tenure \in [IssueId -> SUBSET PeerStatus]
  <2>1. presence \in [Label -> PeerStatus] /\ tenure = [id \in IssueId |-> TenureAfter(rows[id])]
    BY DEF Init
  <2>2. \A id \in IssueId : TenureAfter(rows[id]) \in SUBSET PeerStatus
    <3> TAKE id \in IssueId
    <3>1. CASE rows[id] = NoRow
      BY <3>1 DEF TenureAfter
    <3>2. CASE rows[id] # NoRow
      <4>1. rows[id].claimed_by \in Label \union {None}
        BY <1>1, <3>2 DEF Issue
      <4>2. QED
        BY <2>1, <3>2, <4>1 DEF TenureAfter, Claimed
    <3>3. QED
      BY <3>1, <3>2
  <2>3. QED
    BY <2>1, <2>2
<1>4. TypeOK
  BY <1>2, <1>3 DEF Init, TypeOK, EditState, ReconState
<1>5. RowsCoherent /\ DreamsAreInert
  BY <1>1 DEF RowsCoherent, DreamsAreInert, Exists, RowOK
<1>6. \A e \in Editor : EditEntitled(e)
  BY DEF Init, EditEntitled
<1>7. QED
  BY <1>4, <1>5, <1>6 DEF BoardInv

\* What EditEntitled says, of a held value rather than of a process.
Entitled(held) ==
    held # EditIdle =>
       /\ RequireOwner(held.before, held.who)
       /\ MetadataOnly(held.before, held.after)
       /\ held.after.type # held.before.type => ~Claimed(held.before)

LEMMA EntitledIs ==
    ASSUME NEW e \in Editor
    PROVE  EditEntitled(e) <=> Entitled(edit[e])
  BY DEF EditEntitled, Entitled

LEMMA EntitledIsNext ==
    ASSUME NEW e \in Editor
    PROVE  EditEntitled(e)' <=> Entitled(edit'[e])
  BY DEF EditEntitled, Entitled, RequireOwner, Claimed, EditIdle, MetadataOnly

\* A step that leaves the editors alone keeps what they are entitled to.
LEMMA EditsKept ==
    ASSUME \A e \in Editor : EditEntitled(e), UNCHANGED edit
    PROVE  (\A e \in Editor : EditEntitled(e))'
  BY DEF EditEntitled

\* A single locked mutation by a command that holds nothing else.
LEMMA MutateInv ==
    ASSUME BoardInv, NEW id \in IssueId, NEW row \in Issue, RowOK(row), Mutate(id, row)
    PROVE  BoardInv'
<1>1. RowsInv'
  BY RowsInvOfBoardInv, WriteKeepsRows DEF Mutate
<1>2. (\A e \in Editor : EditEntitled(e))'
  BY EditsKept DEF BoardInv, Mutate
<1>3. QED
  BY <1>1, <1>2 DEF BoardInv, TypeOK, Mutate, RowsInv, RowsCoherent, DreamsAreInert, RowOK

LEMMA LifecycleInv ==
    ASSUME BoardInv, NEW s \in Session, NEW id \in IssueId, Lifecycle(s, id)
    PROVE  BoardInv'
<1>1. /\ rows \in [IssueId -> Issue \union {NoRow}] /\ Now \in Nat /\ s \in Identity
      /\ \A i \in IssueId : Exists(i) => rows[i] \in Issue /\ RowOK(rows[i])
  BY RowsInvOfBoardInv, SessionAssumption DEF RowsInv, Exists, Now
<1>2. CASE Claim(s, id)
  BY <1>1, <1>2, LifecycleRows, IssueTypes, MutateInv DEF Claim
<1>3. CASE Done(s, id)
  BY <1>1, <1>3, LifecycleRows, IssueTypes, MutateInv DEF Done
<1>4. CASE Abandon(s, id)
  BY <1>1, <1>4, LifecycleRows, IssueTypes, MutateInv DEF Abandon
<1>5. ASSUME NEW b \in IssueId, Block(s, id, b) PROVE BoardInv'
  BY <1>1, <1>5, DependencyRows, IssueTypes, MutateInv DEF Block
<1>6. ASSUME NEW b \in IssueId, Unblock(s, id, b) PROVE BoardInv'
  <2>1. {b} \in SUBSET IssueId
    OBVIOUS
  <2>2. QED
    BY <1>1, <1>6, <2>1, DependencyRows, IssueTypes, MutateInv DEF Unblock
<1>7. QED
  BY <1>2, <1>3, <1>4, <1>5, <1>6 DEF Lifecycle

\* The editor steps: what is loaded is entitled, what is committed was entitled
\* and is still what the board holds.
LEMMA EditingInv ==
    ASSUME BoardInv, NEW e \in Editor, Editing(e)
    PROVE  BoardInv'
<1> USE NoRowAssumption
<1>1. /\ RowsInv
      /\ edit \in [Editor -> EditState]
      /\ recon \in [Reconciler -> ReconState]
      /\ landed \in SUBSET IssueId
      /\ \A i \in Editor : EditEntitled(i)
      /\ \A i \in IssueId : Exists(i) => rows[i] \in Issue /\ RowOK(rows[i])
  BY RowsInvOfBoardInv DEF BoardInv, TypeOK, RowsInv, Exists
\* It is enough that rows stay well-formed and that editor e is entitled.
<1>2. ASSUME RowsInv', UNCHANGED <<recon, landed>>, NEW new \in EditState,
             edit' = [edit EXCEPT ![e] = new], EditEntitled(e)'
      PROVE  BoardInv'
  <2>1. edit' \in [Editor -> EditState]
    BY <1>1, <1>2
  <2>2. ASSUME NEW i \in Editor PROVE EditEntitled(i)'
    <3>1. CASE i = e
      BY <1>2, <3>1
    <3>2. CASE i # e
      <4>1. edit'[i] = edit[i]
        BY <1>1, <1>2, <3>2
      <4>2. QED
        BY <1>1, <4>1, EntitledIs, EntitledIsNext
    <3>3. QED
      BY <3>1, <3>2
  <2>3. QED
    BY <1>1, <1>2, <2>1, <2>2
       DEF BoardInv, TypeOK, RowsInv, RowsCoherent, DreamsAreInert, RowOK
\* Dropping what the editor holds is always fine.
<1>3. ASSUME RowsInv', UNCHANGED <<recon, landed>>, EndEdit(e)
      PROVE  BoardInv'
  <2>1. EditEntitled(e)'
    BY <1>1, <1>3 DEF EndEdit, EditEntitled
  <2>2. QED
    BY <1>2, <1>3, <2>1 DEF EndEdit, EditState
<1>4. ASSUME NEW s \in Session, NEW id \in IssueId, NEW type \in IssueType,
             BeginUpdate(e, s, id, type)
      PROVE  BoardInv'
  <2> DEFINE after == [rows[id] EXCEPT !.type = type, !.updated_at = Now]
             new   == [op |-> "update", who |-> s, id |-> id,
                       before |-> rows[id], after |-> after]
  <2>1. /\ Exists(id) /\ RequireOwner(rows[id], s)
        /\ type # rows[id].type => ~Claimed(rows[id])
        /\ edit' = [edit EXCEPT ![e] = new]
        /\ clock' = Now
        /\ UNCHANGED <<rows, recon, presence, landed, tenure>>
    BY <1>4 DEF BeginUpdate
  <2>2. rows[id] \in Issue /\ Now \in Nat /\ s \in Identity
    BY <1>1, <2>1, SessionAssumption DEF RowsInv, Now
  <2>3. after \in Issue /\ after.type = type
    BY <2>2 DEF Issue
  <2>4. new \in EditState
    BY <2>2, <2>3 DEF EditState
  <2>5. RowsInv'
    BY <1>1, <2>1, <2>2 DEF RowsInv, Exists
  <2>6. edit'[e] = new
    BY <1>1, <2>1
  <2>7. Entitled(new)
    <3>1. new.before = rows[id] /\ new.who = s /\ new.after = after
      OBVIOUS
    <3> HIDE DEF new
    <3>2. MetadataOnly(rows[id], after)
      BY <2>2, <2>3 DEF MetadataOnly, Issue
    <3>3. after.type # rows[id].type => ~Claimed(rows[id])
      BY <2>1, <2>3
    <3> HIDE DEF after
    <3>4. MetadataOnly(new.before, new.after)
      BY <3>1, <3>2
    <3>5. RequireOwner(new.before, new.who)
      BY <2>1, <3>1
    <3>6. new.after.type # new.before.type => ~Claimed(new.before)
      BY <3>1, <3>3
    <3>7. QED
      BY <3>4, <3>5, <3>6 DEF Entitled
  <2>8. EditEntitled(e)'
    BY <2>6, <2>7, EntitledIsNext
  <2>9. QED
    BY <1>2, <2>1, <2>4, <2>5, <2>8
<1>5. ASSUME NEW s \in Session, NEW id \in IssueId, BeginDelete(e, s, id)
      PROVE  BoardInv'
  <2> DEFINE new == [op |-> "delete", who |-> s, id |-> id,
                     before |-> rows[id], after |-> rows[id]]
  <2>1. /\ Exists(id) /\ RequireOwner(rows[id], s)
        /\ edit' = [edit EXCEPT ![e] = new]
        /\ UNCHANGED <<rows, clock, recon, presence, landed, tenure>>
    BY <1>5 DEF BeginDelete
  <2>2. rows[id] \in Issue
    BY <1>1, <2>1
  <2>3. new \in EditState
    BY <2>2 DEF EditState
  <2>4. RowsInv'
    BY <1>1, <2>1 DEF RowsInv, Exists
  <2>5. edit'[e] = new
    BY <1>1, <2>1
  <2>6. Entitled(new)
    <3>1. new.before = rows[id] /\ new.who = s /\ new.after = rows[id]
      OBVIOUS
    <3> HIDE DEF new
    <3>2. MetadataOnly(rows[id], rows[id])
      BY <2>2 DEF MetadataOnly, Issue
    <3>3. QED
      BY <2>1, <3>1, <3>2 DEF Entitled
  <2>7. EditEntitled(e)'
    BY <2>5, <2>6, EntitledIsNext
  <2>8. QED
    BY <1>2, <2>1, <2>3, <2>4, <2>7
<1>6. CASE CommitUpdate(e)
  <2> DEFINE held == edit[e]
  <2>1. /\ held.op = "update" /\ rows[held.id] = held.before
        /\ Write(held.id, held.after) /\ EndEdit(e)
        /\ UNCHANGED <<recon, presence, landed>>
    BY <1>6 DEF CommitUpdate
  <2>2. held # EditIdle
    BY <2>1 DEF EditIdle
  <2>3. held.id \in IssueId /\ held.before \in Issue /\ held.after \in Issue
    BY <1>1, <2>2 DEF EditState
  <2>4. Exists(held.id) /\ RowOK(held.before)
    BY <1>1, <2>1, <2>3 DEF Exists
  <2>5. MetadataOnly(held.before, held.after)
    BY <1>1, <2>2 DEF EditEntitled
  <2>6. /\ held.after.status = held.before.status
        /\ held.after.claimed_by = held.before.claimed_by
        /\ held.after.blocked_by = held.before.blocked_by
    BY <2>3, <2>5 DEF MetadataOnly, Issue
  <2>7. held.after.type # held.before.type => ~Claimed(held.before)
    BY <1>1, <2>2 DEF EditEntitled
  <2>8. RowOK(held.after)
    BY <2>4, <2>6, <2>7 DEF RowOK, RowCoherent, Claimed
  <2>9. RowsInv'
    BY <1>1, <2>1, <2>3, <2>8, WriteKeepsRows
  <2>10. QED
    BY <1>3, <2>1, <2>9
<1>7. CASE CommitPairedDelete(e) \/ CommitPlainDelete(e)
  <2>1. /\ edit[e].op = "delete" /\ Write(edit[e].id, NoRow) /\ EndEdit(e)
        /\ UNCHANGED <<recon, presence, landed>>
    BY <1>7 DEF CommitPairedDelete, CommitPlainDelete
  <2>2. edit[e] # EditIdle
    BY <2>1 DEF EditIdle
  <2>3. edit[e].id \in IssueId
    BY <1>1, <2>2 DEF EditState
  <2>4. RowsInv'
    BY <1>1, <2>1, <2>3, WriteKeepsRows
  <2>5. QED
    BY <1>3, <2>1, <2>4
<1>8. CASE GiveUpEdit(e)
  <2>1. RowsInv'
    BY <1>1, <1>8 DEF GiveUpEdit, RowsInv, Exists
  <2>2. QED
    BY <1>3, <1>8, <2>1 DEF GiveUpEdit
<1>9. QED
  BY <1>4, <1>5, <1>6, <1>7, <1>8 DEF Editing

\* The reconcile steps: whatever a run works from, a repair goes through the
\* compare-and-swap and the transitions of the issue model.
LEMMA ReconcilingInv ==
    ASSUME BoardInv, NEW r \in Reconciler, Reconciling(r)
    PROVE  BoardInv'
<1> USE NoRowAssumption
<1>1. /\ RowsInv /\ Now \in Nat
      /\ recon \in [Reconciler -> ReconState]
      /\ edit \in [Editor -> EditState]
      /\ landed \in SUBSET IssueId
      /\ \A e \in Editor : EditEntitled(e)
      /\ \A i \in IssueId : Exists(i) => rows[i] \in Issue /\ RowOK(rows[i])
  BY RowsInvOfBoardInv DEF BoardInv, TypeOK, RowsInv, Exists, Now
\* It is enough that rows stay well-formed and the process state well-typed.
<1>2. ASSUME RowsInv', UNCHANGED <<edit, landed>>, NEW new \in ReconState,
             recon' = [recon EXCEPT ![r] = new]
      PROVE  BoardInv'
  <2>1. recon' \in [Reconciler -> ReconState]
    BY <1>1, <1>2
  <2>2. (\A e \in Editor : EditEntitled(e))'
    BY <1>1, <1>2, EditsKept
  <2>3. QED
    BY <1>1, <1>2, <2>1, <2>2
       DEF BoardInv, TypeOK, RowsInv, RowsCoherent, DreamsAreInert, RowOK
<1>3. ASSUME UNCHANGED <<rows, clock, edit, presence, landed, tenure>>
      PROVE  RowsInv' /\ UNCHANGED <<edit, landed>>
  BY <1>1, <1>3 DEF RowsInv, Exists
\* A run that has inspected stays well-typed when part of it is replaced.
<1>4. ASSUME recon[r] # ReconIdle
      PROVE  /\ recon[r].who \in Session
             /\ recon[r].board \in [IssueId -> Issue \union {NoRow}]
             /\ recon[r].todo \in SUBSET Finding
             /\ recon[r].peers \in PeerReading
             /\ recon[r] \in [phase : {"inspected", "fixing"}, who : Session,
                              board : [IssueId -> Issue \union {NoRow}],
                              todo : SUBSET Finding, peers : PeerReading]
  BY <1>1, <1>4 DEF ReconState
<1>5. ASSUME NEW s \in Session, Inspect(r, s) PROVE BoardInv'
  <2>1. Unread \in PeerReading
    BY DEF Unread, PeerReading
  <2> DEFINE new == [phase |-> "inspected", who |-> s, board |-> rows,
                     todo |-> {}, peers |-> Unread]
  <2>2. new \in ReconState
    BY <1>1, <2>1 DEF ReconState, RowsInv
  <2>3. QED
    BY <1>2, <1>3, <1>5, <2>2 DEF Inspect
<1>6. CASE GatherEvidence(r)
  <2>1. PICK open \in {LandedOpen(recon[r].board), {}}, dead \in {DeadClaims(recon[r].board), {}} :
          recon' = [recon EXCEPT
                      ![r].phase = "fixing",
                      ![r].todo  = ({"landed_open"} \X open)
                                   \union ({"dead_claim"} \X dead)
                                   \union ({"blocker_desync"} \X BlockerDesync(recon[r].board)),
                      ![r].board = [id \in IssueId |->
                                      IF id \in open \union dead \union BlockerDesync(recon[r].board)
                                      THEN @[id] ELSE NoRow]]
    BY <1>6 DEF GatherEvidence
  <2> DEFINE desync == BlockerDesync(recon[r].board)
             todo  == ({"landed_open"} \X open) \union ({"dead_claim"} \X dead)
                      \union ({"blocker_desync"} \X desync)
             board == [id \in IssueId |->
                         IF id \in open \union dead \union desync
                         THEN recon[r].board[id] ELSE NoRow]
             new   == [recon[r] EXCEPT !.phase = "fixing", !.todo = todo, !.board = board]
  <2>2. recon[r] # ReconIdle
    BY <1>6 DEF GatherEvidence, ReconIdle
  <2>3. open \in SUBSET IssueId /\ dead \in SUBSET IssueId /\ desync \in SUBSET IssueId
    BY <1>1, <2>1 DEF LandedOpen, DeadClaims, BlockerDesync
  <2>4. todo \in SUBSET Finding
    BY <2>3 DEF Finding, FindingKind
  <2>5. board \in [IssueId -> Issue \union {NoRow}]
    BY <1>4, <2>2
  <2>6. recon' = [recon EXCEPT ![r] = new]
    BY <1>1, <2>1
  <2> HIDE DEF todo, board
  <2>7. new \in ReconState
    BY <1>4, <2>2, <2>4, <2>5 DEF ReconState
  <2>8. QED
    BY <1>2, <1>3, <1>6, <2>6, <2>7 DEF GatherEvidence
<1>7. CASE ReadPeers(r)
  <2>1. PICK reading \in {presence, Unavailable} :
          recon' = [recon EXCEPT ![r].peers = reading]
    BY <1>7 DEF ReadPeers
  <2>2. reading \in PeerReading
    BY <1>1 DEF RowsInv, Unavailable, PeerReading
  <2>3. recon[r] # ReconIdle
    BY <1>7 DEF ReadPeers, ReconIdle
  <2>4. [recon[r] EXCEPT !.peers = reading] \in ReconState
    BY <1>4, <2>2, <2>3 DEF ReconState
  <2>5. recon' = [recon EXCEPT ![r] = [recon[r] EXCEPT !.peers = reading]]
    BY <1>1, <2>1
  <2>6. QED
    BY <1>2, <1>3, <1>7, <2>4, <2>5 DEF ReadPeers
\* Settling a finding, by a repair or a refusal.
<1>8. ASSUME NEW finding, IsNext(r, finding), Settle(r, finding),
             RowsInv', UNCHANGED <<edit, landed>>
      PROVE  BoardInv'
  <2>1. recon[r] # ReconIdle
    BY <1>8 DEF IsNext, ReconIdle
  <2>2. [recon[r] EXCEPT !.todo = @ \ {finding}] \in ReconState
    BY <1>4, <2>1 DEF ReconState
  <2>3. recon' = [recon EXCEPT ![r] = [recon[r] EXCEPT !.todo = @ \ {finding}]]
    BY <1>1, <1>8 DEF Settle
  <2>4. QED
    BY <1>2, <1>8, <2>2, <2>3
<1>9. ASSUME NEW id \in IssueId, Repair(r, id) PROVE BoardInv'
  <2>1. PICK kind \in FindingKind, row \in Issue :
          /\ IsNext(r, <<kind, id>>) /\ Settle(r, <<kind, id>>)
          /\ RowOK(row) /\ Write(id, row)
          /\ UNCHANGED <<edit, presence, landed>>
    <3>1. CASE FixLandedOpen(r, id)
      <4> DEFINE row == MarkDone(ReleaseDeadClaim(rows[id], Now), Now)
      <4>1. rows[id] \in Issue /\ RowOK(rows[id])
        BY <1>1, <3>1 DEF FixLandedOpen, Unchanged
      <4>2. ReleaseDeadClaim(rows[id], Now) \in Issue
        BY <1>1, <4>1 DEF ReleaseDeadClaim, ClearClaim, UnclaimedStatus, Issue, IssueStatus
      <4>3. row \in Issue
        BY <1>1, <4>2 DEF MarkDone, Issue, IssueStatus
      <4>4. RowOK(row)
        BY <4>1 DEF RowOK, RowCoherent, Claimed, MarkDone, ReleaseDeadClaim,
                    ClearClaim, UnclaimedStatus, Issue
      <4>5. QED
        BY <3>1, <4>3, <4>4 DEF FixLandedOpen, FindingKind
    <3>2. CASE FixDeadClaim(r, id)
      <4> DEFINE row == ReleaseDeadClaim(rows[id], Now)
      <4>1. rows[id] \in Issue /\ RowOK(rows[id])
        BY <1>1, <3>2 DEF FixDeadClaim, Unchanged
      <4>2. row \in Issue
        BY <1>1, <4>1 DEF ReleaseDeadClaim, ClearClaim, UnclaimedStatus, Issue, IssueStatus
      <4>3. RowOK(row)
        BY <4>1 DEF RowOK, RowCoherent, Claimed, ReleaseDeadClaim,
                    ClearClaim, UnclaimedStatus, Issue
      <4>4. QED
        BY <3>2, <4>2, <4>3 DEF FixDeadClaim, FindingKind
    <3>3. CASE FixBlockerDesync(r, id)
      <4> DEFINE resolved == {b \in rows[id].blocked_by : ResolvedOn(rows, b)}
                 inner    == UpdateBlockedStatus(RemoveBlockers(rows[id], resolved, Now))
                 row      == [inner EXCEPT !.updated_at = Now]
      <4>1. rows[id] \in Issue /\ RowOK(rows[id])
        BY <1>1, <3>3 DEF FixBlockerDesync, Unchanged
      <4>2. resolved \in SUBSET IssueId
        BY <4>1 DEF Issue
      <4>3. RowOK(row)
        BY <1>1, <4>1, <4>2, DependencyRows
      <4>4. RemoveBlockers(rows[id], resolved, Now) \in Issue
        <5>1. \A i \in Issue : UpdateBlockedStatus(i) \in Issue
          BY DEF UpdateBlockedStatus, Issue, IssueStatus
        <5>2. [rows[id] EXCEPT !.blocked_by = @ \ resolved, !.updated_at = Now] \in Issue
          BY <1>1, <4>1 DEF Issue
        <5>3. QED
          BY <4>1, <5>1, <5>2 DEF RemoveBlockers
      <4>5. inner \in Issue
        BY <4>4 DEF UpdateBlockedStatus, Issue, IssueStatus
      <4> HIDE DEF inner
      <4>6. row \in Issue
        BY <1>1, <4>5 DEF Issue
      <4> USE DEF inner
      <4>7. QED
        BY <3>3, <4>3, <4>6 DEF FixBlockerDesync, FindingKind
    <3>4. QED
      BY <1>9, <3>1, <3>2, <3>3 DEF Repair
  <2>2. RowsInv'
    BY <1>1, <2>1, WriteKeepsRows
  <2>3. QED
    BY <1>8, <2>1, <2>2
<1>10. ASSUME NEW finding \in Finding, RefuseFix(r, finding) PROVE BoardInv'
  BY <1>3, <1>8, <1>10 DEF RefuseFix
<1>11. CASE EndReconcile(r)
  BY <1>2, <1>3, <1>11 DEF EndReconcile, ReconState
<1>12. QED
  BY <1>5, <1>6, <1>7, <1>9, <1>10, <1>11 DEF Reconciling

\* The environment changes nothing the board's coherence depends on.
LEMMA EnvironmentInv ==
    ASSUME BoardInv, Environment
    PROVE  BoardInv'
<1>1. RowsInv
  BY RowsInvOfBoardInv
<1>2. ASSUME RowsInv', UNCHANGED <<edit, recon>>, landed' \in SUBSET IssueId
      PROVE  BoardInv'
  <2>1. (\A e \in Editor : EditEntitled(e))'
    BY <1>2, EditsKept DEF BoardInv
  <2>2. QED
    BY <1>2, <2>1 DEF BoardInv, TypeOK, RowsInv, RowsCoherent, DreamsAreInert, RowOK
<1>3. ASSUME NEW label \in Label, NEW status \in PeerStatus, ChangePresence(label, status)
      PROVE  BoardInv'
  <2>1. presence' \in [Label -> PeerStatus] /\ tenure' \in [IssueId -> SUBSET PeerStatus]
    BY <1>1, <1>3 DEF ChangePresence, RowsInv
  <2>2. RowsInv'
    BY <1>1, <1>3, <2>1 DEF ChangePresence, RowsInv, Exists
  <2>3. QED
    BY <1>2, <1>3, <2>2 DEF ChangePresence, BoardInv, TypeOK
<1>4. ASSUME NEW id \in IssueId, LandCommit(id) PROVE BoardInv'
  <2>1. RowsInv'
    BY <1>1, <1>4 DEF LandCommit, RowsInv, Exists
  <2>2. QED
    BY <1>2, <1>4, <2>1 DEF LandCommit, BoardInv, TypeOK
<1>5. QED
  BY <1>3, <1>4 DEF Environment

LEMMA NextInv == BoardInv /\ [Next]_vars => BoardInv'
<1> SUFFICES ASSUME BoardInv, [Next]_vars PROVE BoardInv'
  OBVIOUS
<1>1. ASSUME NEW id \in IssueId, NEW type \in IssueType, Create(id, type) PROVE BoardInv'
  <2>1. Now \in Nat
    BY DEF BoardInv, TypeOK, Now
  <2>2. NewIssue(type, Now) \in Issue /\ RowOK(NewIssue(type, Now))
    BY <2>1, FreshRows
  <2>3. QED
    BY <1>1, <2>2, MutateInv DEF Create
<1>2. CASE UNCHANGED vars
  <2>1. (\A e \in Editor : EditEntitled(e))'
    BY <1>2, EditsKept DEF BoardInv, vars
  <2>2. QED
    BY <1>2, <2>1 DEF BoardInv, TypeOK, RowsCoherent, DreamsAreInert, Exists, vars
<1>3. QED
  BY <1>1, <1>2, LifecycleInv, EditingInv, ReconcilingInv, EnvironmentInv DEF Next

---------------------------------------------------------------------------
(* Theorems                                                                *)

\* The inductive invariant holds of every behaviour of the board.
THEOREM BoardInvariant == Spec => []BoardInv
  BY InitInv, NextInv, PTL DEF Spec

\* Every variable keeps its type.
THEOREM TypeCorrect == Spec => []TypeOK
<1>1. BoardInv => TypeOK
  BY DEF BoardInv
<1>2. QED
  BY <1>1, BoardInvariant, PTL

\* Status, claim and blockers of every row always agree, whatever commands and
\* repairs interleave.
THEOREM Coherent == Spec => []RowsCoherent
<1>1. BoardInv => RowsCoherent
  BY DEF BoardInv
<1>2. QED
  BY <1>1, BoardInvariant, PTL

\* No dream is ever claimed, however conversions and claims race.
THEOREM DreamsInert == Spec => []DreamsAreInert
<1>1. BoardInv => DreamsAreInert
  BY DEF BoardInv
<1>2. QED
  BY <1>1, BoardInvariant, PTL

---------------------------------------------------------------------------
(* What a step may do to a claimed or finished row                         *)

\* The ways a row that exists can change.
RowStep(id) ==
    \/ \E s \in Session : Lifecycle(s, id)
    \/ \E e \in Editor : /\ edit[e] # EditIdle /\ edit[e].id = id
                         /\ CommitUpdate(e) \/ CommitPairedDelete(e) \/ CommitPlainDelete(e)
    \/ \E r \in Reconciler : Repair(r, id)

LEMMA OnlyRowSteps ==
    ASSUME BoardInv, Next, NEW id \in IssueId, Exists(id), rows'[id] # rows[id]
    PROVE  RowStep(id)
<1>1. rows \in [IssueId -> Issue \union {NoRow}] /\ edit \in [Editor -> EditState]
  BY DEF BoardInv, TypeOK
<1>2. ASSUME NEW i \in IssueId, NEW row, Write(i, row) PROVE i = id
  BY <1>1, <1>2 DEF Write
<1>3. ASSUME NEW i \in IssueId, NEW type \in IssueType, Create(i, type) PROVE FALSE
  BY <1>2, <1>3 DEF Create, Mutate
<1>4. ASSUME NEW s \in Session, NEW i \in IssueId, Lifecycle(s, i) PROVE RowStep(id)
  <2>1. i = id
    BY <1>2, <1>4 DEF Lifecycle, Claim, Done, Abandon, Block, Unblock, Mutate
  <2>2. QED
    BY <1>4, <2>1 DEF RowStep
<1>5. ASSUME NEW e \in Editor, Editing(e) PROVE RowStep(id)
  <2>1. CASE CommitUpdate(e) \/ CommitPairedDelete(e) \/ CommitPlainDelete(e)
    <3>1. edit[e] # EditIdle
      BY <2>1 DEF CommitUpdate, CommitPairedDelete, CommitPlainDelete, EditIdle
    <3>2. edit[e].id \in IssueId
      BY <1>1, <3>1 DEF EditState
    <3>3. edit[e].id = id
      BY <1>2, <2>1, <3>2 DEF CommitUpdate, CommitPairedDelete, CommitPlainDelete
    <3>4. QED
      BY <2>1, <3>1, <3>3 DEF RowStep
  <2>2. QED
    BY <1>5, <2>1 DEF Editing, BeginUpdate, BeginDelete, GiveUpEdit
<1>6. ASSUME NEW r \in Reconciler, Reconciling(r) PROVE RowStep(id)
  <2>1. ASSUME NEW i \in IssueId, Repair(r, i) PROVE RowStep(id)
    <3>1. i = id
      BY <1>2, <2>1 DEF Repair, FixLandedOpen, FixDeadClaim, FixBlockerDesync
    <3>2. QED
      BY <2>1, <3>1 DEF RowStep
  <2>2. QED
    BY <1>6, <2>1 DEF Reconciling, Inspect, GatherEvidence, ReadPeers, RefuseFix, EndReconcile
<1>7. QED
  BY <1>3, <1>4, <1>5, <1>6 DEF Next, Environment, ChangePresence, LandCommit

\* A stale update or delete, and a session that only knows the owner's label,
\* never touch a claimed row.
THEOREM OwnershipIsRespected == Spec => OnlyOwnerOrRepair
<1> DEFINE Respected ==
       \A id \in IssueId :
         Exists(id) /\ Claimed(rows[id]) /\ rows'[id] # rows[id] =>
            \/ \E s \in Session : RequireOwner(rows[id], s) /\ StepOf(s, id)
            \/ \E r \in Reconciler : Repair(r, id)
<1>1. BoardInv /\ [Next]_vars => [Respected]_vars
  <2> SUFFICES ASSUME BoardInv, Next, NEW id \in IssueId, Exists(id), Claimed(rows[id]),
                      rows'[id] # rows[id]
               PROVE  \/ \E s \in Session : RequireOwner(rows[id], s) /\ StepOf(s, id)
                      \/ \E r \in Reconciler : Repair(r, id)
    OBVIOUS
  <2>1. RowStep(id)
    BY OnlyRowSteps
  <2>2. ASSUME NEW s \in Session, Lifecycle(s, id)
        PROVE  RequireOwner(rows[id], s) /\ StepOf(s, id)
    <3>1. RequireOwner(rows[id], s)
      BY <2>2 DEF Lifecycle, Claim, CanClaim, Done, CanCloseDream, CanComplete,
                  Abandon, CanRelease, Block, Unblock
    <3>2. QED
      BY <2>2, <3>1 DEF StepOf
  <2>3. ASSUME NEW e \in Editor, edit[e] # EditIdle, edit[e].id = id,
               CommitUpdate(e) \/ CommitPairedDelete(e) \/ CommitPlainDelete(e)
        PROVE  \E s \in Session : RequireOwner(rows[id], s) /\ StepOf(s, id)
    <3>1. edit[e].who \in Session
      BY <2>3 DEF BoardInv, TypeOK, EditState
    <3>2. RequireOwner(edit[e].before, edit[e].who)
      BY <2>3 DEF BoardInv, EditEntitled
    <3>3. RequireOwner(rows[id], edit[e].who)
      BY <2>3, <3>2 DEF CommitUpdate, CommitPairedDelete, CommitPlainDelete
    <3>4. StepOf(edit[e].who, id)
      BY <2>3 DEF StepOf
    <3>5. QED
      BY <3>1, <3>3, <3>4
  <2>4. QED
    BY <2>1, <2>2, <2>3 DEF RowStep
<1>2. QED
  BY <1>1, BoardInvariant, PTL DEF Spec, OnlyOwnerOrRepair

\* No verb, stale edit or repair reopens a finished row.
THEOREM FinishedStaysFinished == Spec => DoneIsFinal
<1> DEFINE Final ==
       \A id \in IssueId :
         Exists(id) /\ rows[id].status = "done" /\ rows'[id] # NoRow
            => rows'[id].status = "done"
<1>1. BoardInv /\ [Next]_vars => [Final]_vars
  <2> SUFFICES ASSUME BoardInv, Next, NEW id \in IssueId, Exists(id),
                      rows[id].status = "done", rows'[id] # NoRow
               PROVE  rows'[id].status = "done"
    OBVIOUS
  <2>1. rows[id] \in Issue /\ rows \in [IssueId -> Issue \union {NoRow}]
    BY DEF BoardInv, TypeOK, Exists
  <2>2. ASSUME NEW row, Write(id, row) PROVE rows'[id] = row
    BY <2>1, <2>2 DEF Write
  <2>3. SUFFICES ASSUME RowStep(id) PROVE rows'[id].status = "done"
    BY OnlyRowSteps
  <2>4. ASSUME NEW s \in Session, Lifecycle(s, id) PROVE rows'[id].status = "done"
    <3>1. CASE Claim(s, id) \/ Done(s, id) \/ Abandon(s, id)
      BY <2>1, <3>1 DEF Claim, CanClaim, Done, CanCloseDream, CanComplete,
                        Abandon, CanRelease
    <3>2. ASSUME NEW b \in IssueId, Block(s, id, b) PROVE rows'[id].status = "done"
      <4>1. rows'[id] = AddBlocker(rows[id], b, Now)
        BY <2>2, <3>2 DEF Block, Mutate
      <4>2. QED
        BY <2>1, <4>1 DEF AddBlocker, UpdateBlockedStatus, Issue
    <3>3. ASSUME NEW b \in IssueId, Unblock(s, id, b) PROVE rows'[id].status = "done"
      <4>1. rows'[id] = RemoveBlockers(rows[id], {b}, Now)
        BY <2>2, <3>3 DEF Unblock, Mutate
      <4>2. QED
        BY <2>1, <4>1 DEF RemoveBlockers, UpdateBlockedStatus, Issue
    <3>4. QED
      BY <2>4, <3>1, <3>2, <3>3 DEF Lifecycle
  <2>5. ASSUME NEW e \in Editor, edit[e] # EditIdle, edit[e].id = id,
               CommitUpdate(e) \/ CommitPairedDelete(e) \/ CommitPlainDelete(e)
        PROVE  rows'[id].status = "done"
    <3>1. CASE CommitUpdate(e)
      <4>1. rows'[id] = edit[e].after /\ edit[e].before = rows[id]
        BY <2>2, <2>5, <3>1 DEF CommitUpdate
      <4>2. MetadataOnly(edit[e].before, edit[e].after)
        BY <2>5 DEF BoardInv, EditEntitled
      <4>3. QED
        BY <2>1, <4>1, <4>2 DEF MetadataOnly, Issue
    <3>2. CASE CommitPairedDelete(e) \/ CommitPlainDelete(e)
      BY <2>2, <2>5, <3>2 DEF CommitPairedDelete, CommitPlainDelete
    <3>3. QED
      BY <2>5, <3>1, <3>2
  <2>6. ASSUME NEW r \in Reconciler, Repair(r, id) PROVE rows'[id].status = "done"
    <3>1. CASE FixLandedOpen(r, id)
      <4>1. rows'[id] = MarkDone(ReleaseDeadClaim(rows[id], Now), Now)
        BY <2>2, <3>1 DEF FixLandedOpen
      <4>2. QED
        BY <2>1, <4>1 DEF MarkDone, ReleaseDeadClaim, ClearClaim, UnclaimedStatus, Issue
    <3>2. CASE FixDeadClaim(r, id)
      <4>1. rows'[id] = ReleaseDeadClaim(rows[id], Now)
        BY <2>2, <3>2 DEF FixDeadClaim
      <4>2. QED
        BY <2>1, <4>1 DEF ReleaseDeadClaim, ClearClaim, UnclaimedStatus, Issue
    <3>3. CASE FixBlockerDesync(r, id)
      <4>1. PICK blockers :
              rows'[id] = [UpdateBlockedStatus(RemoveBlockers(rows[id], blockers, Now))
                             EXCEPT !.updated_at = Now]
        BY <2>2, <3>3 DEF FixBlockerDesync
      <4>2. QED
        BY <2>1, <4>1 DEF RemoveBlockers, UpdateBlockedStatus, Issue
    <3>4. QED
      BY <2>6, <3>1, <3>2, <3>3 DEF Repair
  <2>7. QED
    BY <2>3, <2>4, <2>5, <2>6 DEF RowStep
<1>2. QED
  BY <1>1, BoardInvariant, PTL DEF Spec, DoneIsFinal
---------------------------------------------------------------------------
(* Why a repair is justified: stamps and evidence                          *)

\* The editors that hold a replacement row, and its stamp.
Pending  == {e \in Editor : edit[e].op = "update"}
Stamp(e) == edit[e].after.updated_at

\* No two rows that differ are stamped alike: what an editor has in hand is on
\* no board yet, neither the one on disk nor one that was inspected.
StampsAreNew ==
    /\ \A id \in IssueId : Exists(id) =>
          rows[id].updated_at <= clock /\ \A e \in Pending : rows[id].updated_at # Stamp(e)
    /\ \A e \in Pending : Stamp(e) <= clock
    /\ \A e, f \in Pending : e # f => Stamp(e) # Stamp(f)
    /\ \A r \in Reconciler, id \in IssueId :
          recon[r] # ReconIdle /\ recon[r].board[id] # NoRow =>
             /\ recon[r].board[id].updated_at <= clock
             /\ \A e \in Pending : recon[r].board[id].updated_at # Stamp(e)

\* The owner of a claim is as coord sees it.
OwnersAreSeen ==
    \A id \in IssueId : Exists(id) /\ Claimed(rows[id]) =>
       presence[rows[id].claimed_by] \in tenure[id]

\* What a run may repair it has evidence for, as long as the row is the one it
\* inspected.
EvidenceFor(held, id) ==
    /\ <<"landed_open", id>> \in held.todo =>
          /\ id \in landed /\ held.board[id] # NoRow
          /\ held.board[id].status = "in_progress" /\ Claimed(held.board[id])
    /\ <<"dead_claim", id>> \in held.todo =>
          /\ held.board[id] # NoRow /\ Claimed(held.board[id])
          /\ rows[id] = held.board[id] => tenure[id] \intersect DeadStatuses # {}
    /\ held.peers # Unread /\ held.board[id] # NoRow /\ Claimed(held.board[id])
          /\ rows[id] = held.board[id] =>
       held.peers[held.board[id].claimed_by] \in tenure[id] \union {"unavailable"}

EvidenceStands ==
    \A r \in Reconciler, id \in IssueId :
       recon[r] # ReconIdle => EvidenceFor(recon[r], id)

RepairInv == StampsAreNew /\ OwnersAreSeen /\ EvidenceStands
\* Every transition stamps the row it changes.
LEMMA VerbStamps ==
    ASSUME NEW issue \in Issue, NEW now \in Nat
    PROVE  /\ \A s \in Identity : /\ ClaimBy(issue, s, now) \in Issue
                                  /\ ClaimBy(issue, s, now).updated_at = now
           /\ MarkDone(issue, now) \in Issue
           /\ MarkDone(issue, now).updated_at = now
           /\ MarkDone(issue, now).blocked_by = issue.blocked_by
           /\ Release(issue, now) \in Issue
           /\ Release(issue, now).updated_at = now
           /\ ReleaseDeadClaim(issue, now) \in Issue
           /\ ReleaseDeadClaim(issue, now).updated_at = now
           /\ ReleaseDeadClaim(issue, now).blocked_by = issue.blocked_by
<1>1. \A s \in Identity : /\ ClaimBy(issue, s, now) \in Issue
                          /\ ClaimBy(issue, s, now).updated_at = now
  BY DEF ClaimBy, Identity, Issue, IssueStatus
<1>2. /\ MarkDone(issue, now) \in Issue /\ MarkDone(issue, now).updated_at = now
      /\ MarkDone(issue, now).blocked_by = issue.blocked_by
  BY DEF MarkDone, Issue, IssueStatus
<1>3. Release(issue, now) \in Issue /\ Release(issue, now).updated_at = now
  BY DEF Release, ClearClaim, UnclaimedStatus, Issue, IssueStatus
<1>4. /\ ReleaseDeadClaim(issue, now) \in Issue
      /\ ReleaseDeadClaim(issue, now).updated_at = now
      /\ ReleaseDeadClaim(issue, now).blocked_by = issue.blocked_by
  BY DEF ReleaseDeadClaim, ClearClaim, UnclaimedStatus, Issue, IssueStatus
<1>5. QED
  BY <1>1, <1>2, <1>3, <1>4

\* A change of the dependencies stamps the row, if there is one, and leaves the
\* claim.
LEMMA DependencyStamps ==
    ASSUME NEW issue \in Issue, NEW now \in Nat
    PROVE  /\ UpdateBlockedStatus(issue) \in Issue
           /\ \A b \in IssueId :
                 /\ AddBlocker(issue, b, now) \in Issue
                 /\ \/ AddBlocker(issue, b, now) = issue
                    \/ AddBlocker(issue, b, now).updated_at = now
           /\ \A bs \in SUBSET IssueId :
                 /\ RemoveBlockers(issue, bs, now) \in Issue
                 /\ \/ RemoveBlockers(issue, bs, now) = issue
                    \/ RemoveBlockers(issue, bs, now).updated_at = now
                 /\ RemoveBlockers(issue, bs, now).blocked_by = issue.blocked_by \ bs
                 /\ RemoveBlockers(issue, bs, now).claimed_by = issue.claimed_by
                 /\ RemoveBlockers(issue, bs, now).proof = issue.proof
<1>1. \A i \in Issue :
         /\ UpdateBlockedStatus(i) \in Issue
         /\ UpdateBlockedStatus(i).updated_at = i.updated_at
         /\ UpdateBlockedStatus(i).blocked_by = i.blocked_by
         /\ UpdateBlockedStatus(i).claimed_by = i.claimed_by
         /\ UpdateBlockedStatus(i).proof = i.proof
  BY DEF UpdateBlockedStatus, Issue, IssueStatus
<1>2. ASSUME NEW b \in IssueId
      PROVE  /\ AddBlocker(issue, b, now) \in Issue
             /\ \/ AddBlocker(issue, b, now) = issue
                \/ AddBlocker(issue, b, now).updated_at = now
  <2>1. PICK added : added = [issue EXCEPT !.blocked_by = @ \union {b}, !.updated_at = now]
    OBVIOUS
  <2>2. added \in Issue /\ added.updated_at = now
    BY <2>1 DEF Issue
  <2>3. QED
    BY <1>1, <2>1, <2>2 DEF AddBlocker
<1>3. ASSUME NEW bs \in SUBSET IssueId
      PROVE  /\ RemoveBlockers(issue, bs, now) \in Issue
             /\ \/ RemoveBlockers(issue, bs, now) = issue
                \/ RemoveBlockers(issue, bs, now).updated_at = now
             /\ RemoveBlockers(issue, bs, now).blocked_by = issue.blocked_by \ bs
             /\ RemoveBlockers(issue, bs, now).claimed_by = issue.claimed_by
             /\ RemoveBlockers(issue, bs, now).proof = issue.proof
  <2>1. PICK cut : cut = [issue EXCEPT !.blocked_by = @ \ bs, !.updated_at = now]
    OBVIOUS
  <2>2. /\ cut \in Issue /\ cut.updated_at = now /\ cut.blocked_by = issue.blocked_by \ bs
        /\ cut.claimed_by = issue.claimed_by /\ cut.proof = issue.proof
    BY <2>1 DEF Issue
  <2>3. QED
    BY <1>1, <2>1, <2>2 DEF RemoveBlockers
<1>4. QED
  BY <1>1, <1>2, <1>3

\* What an editor holds has a stamp.
LEMMA PendingTypes ==
    ASSUME BoardInv
    PROVE  \A e \in Pending : /\ e \in Editor /\ edit[e] # EditIdle
                              /\ edit[e].after \in Issue /\ Stamp(e) \in Nat
<1>1. \A e \in Pending : edit[e] # EditIdle /\ edit[e] \in EditState /\ e \in Editor
  BY DEF Pending, EditIdle, BoardInv, TypeOK
<1>2. \A e \in Pending : edit[e].after \in Issue
  BY <1>1 DEF EditState
<1>3. \A row \in Issue : row.updated_at \in Nat
  BY DEF Issue
<1>4. QED
  BY <1>1, <1>2, <1>3 DEF Stamp

\* What a run holds has its types.
LEMMA HeldTypes ==
    ASSUME BoardInv, NEW r \in Reconciler, recon[r] # ReconIdle
    PROVE  /\ recon[r].board \in [IssueId -> Issue \union {NoRow}]
           /\ recon[r].todo \in SUBSET Finding
           /\ recon[r].peers \in PeerReading
           /\ recon[r].phase \in {"inspected", "fixing"}
           /\ recon[r].who \in Session
  BY DEF BoardInv, TypeOK, ReconState

\* The locked sections keep the evidence of every run: a row that is written is
\* the old one, none, a new one, or the one an editor had in hand.
LEMMA WriteRepairs ==
    ASSUME BoardInv, RepairInv, NEW id \in IssueId, NEW row \in Issue \union {NoRow},
           Write(id, row), UNCHANGED <<presence, landed>>,
           \A e \in Editor : edit'[e] = edit[e] \/ edit'[e].op # "update",
           \A r \in Reconciler : \/ recon'[r] = recon[r]
                                 \/ /\ recon[r] # ReconIdle
                                    /\ recon'[r].board = recon[r].board
                                    /\ recon'[r].peers = recon[r].peers
                                    /\ recon'[r].todo \subseteq recon[r].todo,
           \/ row \in {rows[id], NoRow}
           \/ row \in Issue /\ row.updated_at = Now
           \/ \E e \in Pending : row = edit[e].after /\ edit'[e].op # "update"
    PROVE  RepairInv'
<1> USE NoRowAssumption
<1>1. /\ clock' = clock + 1 /\ clock \in Nat
      /\ \A i \in IssueId : rows'[i] = IF i = id THEN row ELSE rows[i]
      /\ \A i \in IssueId : tenure'[i] =
            IF i # id \/ SameClaim(rows[id], row) THEN tenure[i] ELSE TenureAfter(row)
  BY DEF Write, Now, BoardInv, TypeOK
<1>2. /\ Pending' \subseteq Pending
      /\ \A e \in Pending' : Stamp(e)' = Stamp(e)
  BY DEF Pending, Stamp
<1>3. \A e \in Pending : Stamp(e) \in Nat /\ Stamp(e) <= clock
  BY PendingTypes DEF RepairInv, StampsAreNew
<1>4. \A i \in IssueId : rows[i] # NoRow => rows[i] \in Issue /\ rows[i].updated_at \in Nat
  BY DEF BoardInv, TypeOK, Issue
<1>5. ASSUME row # NoRow
      PROVE  /\ row.updated_at <= clock'
             /\ \A e \in Pending' : row.updated_at # Stamp(e)'
  <2>1. CASE row = rows[id]
    BY <1>1, <1>2, <1>4, <1>5, <2>1 DEF RepairInv, StampsAreNew, Exists
  <2>2. CASE row \in Issue /\ row.updated_at = Now
    BY <1>1, <1>2, <1>3, <2>2 DEF Now
  <2>3. CASE \E e \in Pending : row = edit[e].after /\ edit'[e].op # "update"
    <3>1. PICK e \in Pending : row = edit[e].after /\ edit'[e].op # "update"
      BY <2>3
    <3>2. row.updated_at = Stamp(e) /\ e \notin Pending'
      BY <3>1 DEF Stamp, Pending
    <3>3. \A f \in Pending' : f # e /\ Stamp(f)' = Stamp(f) /\ Stamp(f) # Stamp(e)
      BY <1>2, <3>2 DEF RepairInv, StampsAreNew
    <3>4. QED
      BY <1>1, <1>3, <3>2, <3>3
  <2>4. QED
    BY <1>5, <2>1, <2>2, <2>3
<1>6. ASSUME NEW r \in Reconciler, recon'[r] # ReconIdle
      PROVE  recon[r] # ReconIdle /\ recon'[r].board = recon[r].board
             /\ recon'[r].peers = recon[r].peers /\ recon'[r].todo \subseteq recon[r].todo
  BY <1>6
<1>7. ASSUME NEW r \in Reconciler, NEW i \in IssueId, recon[r] # ReconIdle,
             recon[r].board[i] # NoRow
      PROVE  /\ recon[r].board[i].updated_at \in Nat
             /\ recon[r].board[i].updated_at <= clock
             /\ \A e \in Pending : recon[r].board[i].updated_at # Stamp(e)
  BY <1>7, HeldTypes DEF RepairInv, StampsAreNew, Issue
<1>8. StampsAreNew'
  <2>1. ASSUME NEW i \in IssueId, rows'[i] # NoRow
        PROVE  /\ rows'[i].updated_at <= clock'
               /\ \A e \in Pending' : rows'[i].updated_at # Stamp(e)'
    <3>1. CASE i = id
      BY <1>1, <1>5, <2>1, <3>1
    <3>2. CASE i # id
      BY <1>1, <1>2, <1>4, <2>1, <3>2 DEF RepairInv, StampsAreNew, Exists
    <3>3. QED
      BY <3>1, <3>2
  <2>2. \A e \in Pending' : Stamp(e)' <= clock'
    BY <1>1, <1>2, <1>3
  <2>3. \A e, f \in Pending' : e # f => Stamp(e)' # Stamp(f)'
    BY <1>2 DEF RepairInv, StampsAreNew
  <2>4. ASSUME NEW r \in Reconciler, NEW i \in IssueId,
               recon'[r] # ReconIdle, recon'[r].board[i] # NoRow
        PROVE  /\ recon'[r].board[i].updated_at <= clock'
               /\ \A e \in Pending' : recon'[r].board[i].updated_at # Stamp(e)'
    BY <1>1, <1>2, <1>6, <1>7, <2>4
  <2>5. QED
    BY <2>1, <2>2, <2>3, <2>4 DEF StampsAreNew, Exists
<1>9. OwnersAreSeen'
  <2> SUFFICES ASSUME NEW i \in IssueId, rows'[i] # NoRow, Claimed(rows'[i])
               PROVE  presence[rows'[i].claimed_by] \in tenure'[i]
    BY DEF OwnersAreSeen, Exists, Claimed
  <2>1. CASE i # id
    BY <1>1, <2>1 DEF RepairInv, OwnersAreSeen, Exists
  <2>2. CASE i = id /\ SameClaim(rows[id], row)
    BY <1>1, <2>2 DEF RepairInv, OwnersAreSeen, Exists, SameClaim, Claimed
  <2>3. CASE i = id /\ ~SameClaim(rows[id], row)
    BY <1>1, <2>3 DEF TenureAfter
  <2>4. QED
    BY <2>1, <2>2, <2>3
\* A row that is the inspected one was it before, and its claim is as old.
<1>10. ASSUME NEW r \in Reconciler, NEW i \in IssueId, recon[r] # ReconIdle,
              recon[r].board[i] # NoRow, rows'[i] = recon[r].board[i]
       PROVE  rows[i] = recon[r].board[i] /\ tenure'[i] = tenure[i]
  <2>1. CASE i # id
    BY <1>1, <1>10, <2>1
  <2>2. CASE i = id /\ row = rows[id]
    BY <1>1, <1>10, <2>2 DEF SameClaim
  <2>3. CASE i = id /\ row # rows[id]
    <3>1. row = recon[r].board[i] /\ row # NoRow
      BY <1>1, <1>10, <2>3
    <3>2. row.updated_at # Now
      BY <1>1, <1>7, <1>10, <3>1 DEF Now
    <3>3. \A e \in Pending : row # edit[e].after
      BY <1>7, <1>10, <3>1 DEF Stamp
    <3>4. QED
      BY <2>3, <3>1, <3>2, <3>3
  <2>4. QED
    BY <2>1, <2>2, <2>3
<1>11. EvidenceStands'
  <2> SUFFICES ASSUME NEW r \in Reconciler, NEW i \in IssueId, recon'[r] # ReconIdle
               PROVE  EvidenceFor(recon[r], i)'
    BY DEF EvidenceStands
  <2>1. EvidenceFor(recon[r], i)
    BY <1>6 DEF RepairInv, EvidenceStands
  <2>2. QED
    BY <1>6, <1>10, <2>1 DEF EvidenceFor, Claimed
<1>12. QED
  BY <1>8, <1>9, <1>11 DEF RepairInv
LEMMA InitRepairs == Init => RepairInv
<1> SUFFICES ASSUME Init PROVE RepairInv
  OBVIOUS
<1> USE NoRowAssumption
<1>1. Pending = {} /\ \A r \in Reconciler : recon[r] = ReconIdle
  BY DEF Init, Pending, EditIdle
<1>2. \A id \in IssueId : rows[id] # NoRow => rows[id] \in Issue /\ rows[id].updated_at = 0
  <2> SUFFICES ASSUME NEW row \in InitialRow PROVE row \in Issue /\ row.updated_at = 0
    BY DEF Init
  <2>1. row \in Issue /\ row \in EarlyRow
    BY InitialRows, InitialRowAssumption
  <2>2. \A type \in IssueType : NewIssue(type, 0).updated_at = 0
    BY DEF NewIssue
  <2>3. \A l \in Label : LegacyClaim(l).updated_at = 0
    BY DEF LegacyClaim, NewIssue
  <2>4. \A x \in Session : ClaimBy(NewIssue("item", 0), x, 0).updated_at = 0
    BY DEF ClaimBy, NewIssue
  <2>5. QED
    BY <2>1, <2>2, <2>3, <2>4 DEF EarlyRow
<1>3. clock = 0 /\ \A id \in IssueId : tenure[id] = TenureAfter(rows[id])
  BY DEF Init
<1>4. StampsAreNew
  BY <1>1, <1>2, <1>3 DEF StampsAreNew, Exists
<1>5. OwnersAreSeen
  BY <1>3 DEF OwnersAreSeen, TenureAfter, Exists
<1>6. QED
  BY <1>1, <1>4, <1>5 DEF RepairInv, EvidenceStands

LEMMA LifecycleRepairs ==
    ASSUME BoardInv, RepairInv, NEW s \in Session, NEW id \in IssueId, Lifecycle(s, id)
    PROVE  RepairInv'
<1>1. /\ Now \in Nat /\ s \in Identity
      /\ \A i \in IssueId : Exists(i) => rows[i] \in Issue
  BY SessionAssumption DEF BoardInv, TypeOK, Exists, Now
<1>2. ASSUME NEW row \in Issue, Mutate(id, row), row = rows[id] \/ row.updated_at = Now
      PROVE  RepairInv'
  BY <1>2, WriteRepairs DEF Mutate
<1>3. CASE Claim(s, id)
  BY <1>1, <1>2, <1>3, VerbStamps DEF Claim
<1>4. CASE Done(s, id)
  BY <1>1, <1>2, <1>4, VerbStamps DEF Done
<1>5. CASE Abandon(s, id)
  BY <1>1, <1>2, <1>5, VerbStamps DEF Abandon
<1>6. ASSUME NEW b \in IssueId, Block(s, id, b) PROVE RepairInv'
  <2>1. rows[id] \in Issue /\ Mutate(id, AddBlocker(rows[id], b, Now))
    BY <1>1, <1>6 DEF Block
  <2>2. /\ AddBlocker(rows[id], b, Now) \in Issue
        /\ \/ AddBlocker(rows[id], b, Now) = rows[id]
           \/ AddBlocker(rows[id], b, Now).updated_at = Now
    <3>1. \A x \in IssueId :
             /\ AddBlocker(rows[id], x, Now) \in Issue
             /\ \/ AddBlocker(rows[id], x, Now) = rows[id]
                \/ AddBlocker(rows[id], x, Now).updated_at = Now
      BY <1>1, <2>1, DependencyStamps
    <3>2. QED
      BY <3>1, Zenon
  <2>3. QED
    BY <1>2, <2>1, <2>2
<1>7. ASSUME NEW b \in IssueId, Unblock(s, id, b) PROVE RepairInv'
  <2>1. {b} \in SUBSET IssueId
    OBVIOUS
  <2>2. QED
    BY <1>1, <1>2, <1>7, <2>1, DependencyStamps DEF Unblock
<1>8. QED
  BY <1>3, <1>4, <1>5, <1>6, <1>7 DEF Lifecycle

LEMMA EditingRepairs ==
    ASSUME BoardInv, RepairInv, NEW e \in Editor, Editing(e)
    PROVE  RepairInv'
<1> USE NoRowAssumption
<1>1. edit \in [Editor -> EditState] /\ clock \in Nat
  BY DEF BoardInv, TypeOK
\* A step after which an editor holds nothing more is of no account.
<1>2. ASSUME UNCHANGED <<rows, clock, recon, presence, landed, tenure>>,
             Pending' \subseteq Pending, \A f \in Pending' : Stamp(f)' = Stamp(f)
      PROVE  RepairInv'
  <2>1. StampsAreNew'
    BY <1>2 DEF RepairInv, StampsAreNew, Exists
  <2>2. OwnersAreSeen' /\ EvidenceStands'
    BY <1>2 DEF RepairInv, OwnersAreSeen, EvidenceStands, EvidenceFor, Exists, Claimed
  <2>3. QED
    BY <2>1, <2>2 DEF RepairInv
<1>3. ASSUME NEW s \in Session, NEW id \in IssueId, NEW type \in IssueType,
             BeginUpdate(e, s, id, type)
      PROVE  RepairInv'
  <2>1. /\ UNCHANGED <<rows, recon, presence, landed, tenure>>
        /\ clock' = clock + 1 /\ rows[id] \in Issue
        /\ edit' = [edit EXCEPT ![e] =
              [op |-> "update", who |-> s, id |-> id, before |-> rows[id],
               after |-> [rows[id] EXCEPT !.type = type, !.updated_at = clock + 1]]]
    BY <1>3 DEF BeginUpdate, Now, Exists, BoardInv, TypeOK
  <2>2. /\ Stamp(e)' = clock + 1
        /\ \A f \in Pending' : f # e => f \in Pending /\ Stamp(f)' = Stamp(f)
    BY <1>1, <2>1 DEF Pending, Stamp, Issue
  <2>3. \A f \in Pending : Stamp(f) \in Nat /\ Stamp(f) <= clock
    BY PendingTypes DEF RepairInv, StampsAreNew
  <2>4. ASSUME NEW row \in Issue, row.updated_at <= clock,
               \A f \in Pending : row.updated_at # Stamp(f)
        PROVE  row.updated_at <= clock' /\ \A f \in Pending' : row.updated_at # Stamp(f)'
    BY <1>1, <2>1, <2>2, <2>4 DEF Issue
  <2>5. StampsAreNew'
    <3>1. ASSUME NEW i \in IssueId, rows[i] # NoRow
          PROVE  /\ rows[i].updated_at <= clock'
                 /\ \A f \in Pending' : rows[i].updated_at # Stamp(f)'
      <4>1. rows[i] \in Issue
        BY <3>1 DEF BoardInv, TypeOK
      <4>2. QED
        BY <2>4, <3>1, <4>1 DEF RepairInv, StampsAreNew, Exists
    <3>2. ASSUME NEW r \in Reconciler, NEW i \in IssueId, recon[r] # ReconIdle,
                 recon[r].board[i] # NoRow
          PROVE  /\ recon[r].board[i].updated_at <= clock'
                 /\ \A f \in Pending' : recon[r].board[i].updated_at # Stamp(f)'
      <4>1. recon[r].board[i] \in Issue
        BY <3>2, HeldTypes
      <4>2. QED
        BY <2>4, <3>2, <4>1 DEF RepairInv, StampsAreNew
    <3>3. \A f \in Pending' : Stamp(f)' <= clock'
      BY <1>1, <2>1, <2>2, <2>3
    <3>4. ASSUME NEW f \in Pending', NEW g \in Pending', f # g PROVE Stamp(f)' # Stamp(g)'
      <4>1. CASE f # e /\ g # e
        BY <2>2, <3>4, <4>1 DEF RepairInv, StampsAreNew
      <4>2. CASE f = e \/ g = e
        BY <1>1, <2>2, <2>3, <3>4, <4>2
      <4>3. QED
        BY <4>1, <4>2
    <3>5. QED
      BY <2>1, <3>1, <3>2, <3>3, <3>4 DEF StampsAreNew, Exists
  <2>6. OwnersAreSeen' /\ EvidenceStands'
    BY <2>1 DEF RepairInv, OwnersAreSeen, EvidenceStands, EvidenceFor, Exists, Claimed
  <2>7. QED
    BY <2>5, <2>6 DEF RepairInv
<1>4. ASSUME NEW s \in Session, NEW id \in IssueId, BeginDelete(e, s, id) PROVE RepairInv'
  <2>1. /\ Pending' \subseteq Pending /\ \A f \in Pending' : Stamp(f)' = Stamp(f)
    BY <1>1, <1>4 DEF BeginDelete, Pending, Stamp
  <2>2. QED
    BY <1>2, <1>4, <2>1 DEF BeginDelete
<1>5. CASE GiveUpEdit(e)
  <2>1. /\ Pending' \subseteq Pending /\ \A f \in Pending' : Stamp(f)' = Stamp(f)
    BY <1>1, <1>5 DEF GiveUpEdit, EndEdit, EditIdle, Pending, Stamp
  <2>2. QED
    BY <1>2, <1>5, <2>1 DEF GiveUpEdit
\* What an editor commits it no longer holds.
<1>6. ASSUME EndEdit(e)
      PROVE  \A f \in Editor : edit'[f] = edit[f] \/ edit'[f].op # "update"
  BY <1>1, <1>6 DEF EndEdit, EditIdle
<1>7. CASE CommitUpdate(e)
  <2>1. e \in Pending /\ edit[e].id \in IssueId /\ edit[e].after \in Issue
    <3>1. e \in Pending /\ edit[e] # EditIdle
      BY <1>7 DEF CommitUpdate, Pending, EditIdle
    <3>2. QED
      BY <1>1, <3>1, PendingTypes DEF EditState
  <2>2. edit'[e].op # "update"
    BY <1>1, <1>7 DEF CommitUpdate, EndEdit, EditIdle
  <2>3. /\ Write(edit[e].id, edit[e].after) /\ UNCHANGED <<recon, presence, landed>>
        /\ EndEdit(e)
    BY <1>7 DEF CommitUpdate
  <2>4. QED
    BY <1>6, <2>1, <2>2, <2>3, WriteRepairs
<1>8. CASE CommitPairedDelete(e) \/ CommitPlainDelete(e)
  <2>1. /\ Write(edit[e].id, NoRow) /\ UNCHANGED <<recon, presence, landed>>
        /\ EndEdit(e) /\ edit[e] # EditIdle
    BY <1>8 DEF CommitPairedDelete, CommitPlainDelete, EditIdle
  <2>2. edit[e].id \in IssueId
    BY <1>1, <2>1 DEF EditState
  <2>3. QED
    BY <1>6, <2>1, <2>2, WriteRepairs
<1>9. QED
  BY <1>3, <1>4, <1>5, <1>7, <1>8 DEF Editing

\* What a repair writes.
LEMMA RepairWrites ==
    ASSUME BoardInv, NEW r \in Reconciler, NEW id \in IssueId, Repair(r, id)
    PROVE  \E kind \in FindingKind, row \in Issue :
              /\ Write(id, row) /\ row.updated_at = Now
              /\ rows'[id] = row /\ rows[id] \in Issue
              /\ IsNext(r, <<kind, id>>) /\ Settle(r, <<kind, id>>)
              /\ UNCHANGED <<edit, presence, landed>> /\ Unchanged(r, id)
              /\ \/ kind = "landed_open" /\ FixLandedOpen(r, id)
                 \/ kind = "dead_claim" /\ FixDeadClaim(r, id)
                 \/ kind = "blocker_desync" /\ FixBlockerDesync(r, id)
              /\ kind = "blocker_desync" => SameClaim(rows[id], row)
<1> USE NoRowAssumption
<1>1. Unchanged(r, id) /\ rows[id] \in Issue /\ Now \in Nat
  BY DEF Repair, FixLandedOpen, FixDeadClaim, FixBlockerDesync, Unchanged, Exists,
         BoardInv, TypeOK, Now
<1>2. \A row : Write(id, row) => rows'[id] = row
  BY DEF Write, BoardInv, TypeOK
<1>3. CASE FixLandedOpen(r, id)
  <2>1. PICK row : row = MarkDone(ReleaseDeadClaim(rows[id], Now), Now)
    OBVIOUS
  <2>2. ReleaseDeadClaim(rows[id], Now) \in Issue
    BY <1>1, VerbStamps
  <2>3. row \in Issue
    BY <1>1, <2>1, <2>2, VerbStamps
  <2>4. row.updated_at = Now
    BY <1>1, <2>1, <2>2, VerbStamps
  <2>5. /\ Write(id, row) /\ IsNext(r, <<"landed_open", id>>)
        /\ Settle(r, <<"landed_open", id>>) /\ UNCHANGED <<edit, presence, landed>>
    BY <1>3, <2>1 DEF FixLandedOpen
  <2>6. QED
    BY <1>1, <1>2, <1>3, <2>3, <2>4, <2>5 DEF FindingKind
<1>4. CASE FixDeadClaim(r, id)
  <2>1. PICK row : row = ReleaseDeadClaim(rows[id], Now)
    OBVIOUS
  <2>2. row \in Issue
    BY <1>1, <2>1, VerbStamps
  <2>3. row.updated_at = Now
    BY <1>1, <2>1, VerbStamps
  <2>4. /\ Write(id, row) /\ IsNext(r, <<"dead_claim", id>>)
        /\ Settle(r, <<"dead_claim", id>>) /\ UNCHANGED <<edit, presence, landed>>
    BY <1>4, <2>1 DEF FixDeadClaim
  <2>5. QED
    BY <1>1, <1>2, <1>4, <2>2, <2>3, <2>4 DEF FindingKind
<1>5. CASE FixBlockerDesync(r, id)
  <2>1. PICK resolved : resolved = {b \in rows[id].blocked_by : ResolvedOn(rows, b)}
    OBVIOUS
  <2>2. resolved \in SUBSET IssueId
    BY <1>1, <2>1 DEF Issue
  <2>3. PICK cut : cut = RemoveBlockers(rows[id], resolved, Now)
    OBVIOUS
  <2>4. /\ cut \in Issue /\ cut.blocked_by = rows[id].blocked_by \ resolved
        /\ cut.claimed_by = rows[id].claimed_by /\ cut.proof = rows[id].proof
    BY <1>1, <2>2, <2>3, DependencyStamps
  <2>5. PICK row : row = [UpdateBlockedStatus(cut) EXCEPT !.updated_at = Now]
    OBVIOUS
  <2>6. UpdateBlockedStatus(cut) \in Issue
    BY <1>1, <2>4, DependencyStamps
  <2>7. /\ UpdateBlockedStatus(cut).blocked_by = cut.blocked_by
        /\ UpdateBlockedStatus(cut).claimed_by = cut.claimed_by
        /\ UpdateBlockedStatus(cut).proof = cut.proof
    BY <2>4 DEF UpdateBlockedStatus, Issue
  <2>8. /\ row \in Issue /\ row.updated_at = Now
        /\ row.claimed_by = cut.claimed_by /\ row.proof = cut.proof
    BY <1>1, <2>5, <2>6, <2>7 DEF Issue
  <2>9. SameClaim(rows[id], row)
    BY <1>1, <2>4, <2>8 DEF SameClaim
  <2>10. /\ Write(id, row) /\ IsNext(r, <<"blocker_desync", id>>)
         /\ Settle(r, <<"blocker_desync", id>>) /\ UNCHANGED <<edit, presence, landed>>
    BY <1>5, <2>1, <2>3, <2>5 DEF FixBlockerDesync
  <2>11. QED
    BY <1>1, <1>2, <1>5, <2>8, <2>9, <2>10 DEF FindingKind
<1>6. QED
  BY <1>3, <1>4, <1>5 DEF Repair
LEMMA ReconcilingRepairs ==
    ASSUME BoardInv, RepairInv, NEW r \in Reconciler, Reconciling(r)
    PROVE  RepairInv'
<1> USE NoRowAssumption
<1>1. /\ recon \in [Reconciler -> ReconState]
      /\ rows \in [IssueId -> Issue \union {NoRow}] /\ clock \in Nat
  BY DEF BoardInv, TypeOK
\* A step that changes only what run r holds: its board shows nothing new but
\* what is on disk, and it has evidence for what it is about to do.
<1>2. ASSUME UNCHANGED <<rows, clock, edit, presence, landed, tenure>>, NEW new,
             recon' = [recon EXCEPT ![r] = new],
             new # ReconIdle => \A id \in IssueId :
                /\ \/ new.board[id] = NoRow
                   \/ new.board[id] = rows[id]
                   \/ recon[r] # ReconIdle /\ new.board[id] = recon[r].board[id]
                /\ EvidenceFor(new, id)
      PROVE  RepairInv'
  <2>1. recon'[r] = new /\ \A q \in Reconciler \ {r} : recon'[q] = recon[q]
    BY <1>1, <1>2
  <2>2. Pending' = Pending /\ \A e \in Pending : Stamp(e)' = Stamp(e)
    BY <1>2 DEF Pending, Stamp
  <2>3. ASSUME NEW q \in Reconciler, NEW id \in IssueId, recon'[q] # ReconIdle,
               recon'[q].board[id] # NoRow
        PROVE  /\ recon'[q].board[id].updated_at <= clock
               /\ \A e \in Pending : recon'[q].board[id].updated_at # Stamp(e)
    BY <1>2, <2>1, <2>3 DEF RepairInv, StampsAreNew, Exists
  <2>4. StampsAreNew'
    BY <1>2, <2>2, <2>3 DEF RepairInv, StampsAreNew, Exists
  <2>5. OwnersAreSeen'
    BY <1>2 DEF RepairInv, OwnersAreSeen, Exists, Claimed
  <2>6. ASSUME NEW q \in Reconciler, NEW id \in IssueId, recon'[q] # ReconIdle
        PROVE  EvidenceFor(recon[q], id)'
    <3>1. PICK held : held = recon'[q]
      OBVIOUS
    <3>2. EvidenceFor(held, id)
      BY <1>2, <2>1, <2>6, <3>1 DEF RepairInv, EvidenceStands
    <3>3. QED
      BY <1>2, <3>1, <3>2 DEF EvidenceFor, Claimed
  <2>7. QED
    BY <2>4, <2>5, <2>6 DEF RepairInv, EvidenceStands
<1>3. ASSUME NEW s \in Session, Inspect(r, s) PROVE RepairInv'
  <2>1. PICK new : new = [phase |-> "inspected", who |-> s, board |-> rows,
                          todo |-> {}, peers |-> Unread]
    OBVIOUS
  <2>2. \A id \in IssueId : new.board[id] = rows[id] /\ EvidenceFor(new, id)
    BY <2>1 DEF EvidenceFor
  <2>3. QED
    BY <1>2, <1>3, <2>1, <2>2 DEF Inspect
<1>4. CASE GatherEvidence(r)
  <2>1. PICK open \in {LandedOpen(recon[r].board), {}},
             dead \in {DeadClaims(recon[r].board), {}} :
          recon' = [recon EXCEPT
                      ![r].phase = "fixing",
                      ![r].todo  = ({"landed_open"} \X open)
                                   \union ({"dead_claim"} \X dead)
                                   \union ({"blocker_desync"} \X BlockerDesync(recon[r].board)),
                      ![r].board = [id \in IssueId |->
                           IF id \in open \union dead \union BlockerDesync(recon[r].board)
                           THEN @[id] ELSE NoRow]]
    BY <1>4 DEF GatherEvidence
  <2>2. recon[r] # ReconIdle
    BY <1>4 DEF GatherEvidence, ReconIdle
  <2>3. PICK desync : desync = BlockerDesync(recon[r].board)
    OBVIOUS
  <2>4. PICK todo : todo = ({"landed_open"} \X open) \union ({"dead_claim"} \X dead)
                           \union ({"blocker_desync"} \X desync)
    OBVIOUS
  <2>5. PICK board : board = [id \in IssueId |->
                                IF id \in open \union dead \union desync
                                THEN recon[r].board[id] ELSE NoRow]
    OBVIOUS
  <2>6. PICK new : new = [recon[r] EXCEPT !.phase = "fixing", !.todo = todo,
                                          !.board = board]
    OBVIOUS
  <2>7. recon' = [recon EXCEPT ![r] = new]
    BY <1>1, <2>1, <2>3, <2>4, <2>5, <2>6
  <2>8. new.todo = todo /\ new.board = board /\ new.peers = recon[r].peers
    BY <1>1, <2>2, <2>6 DEF ReconState
  <2>9. ASSUME NEW id \in IssueId
        PROVE  /\ new.board[id] = NoRow \/ new.board[id] = recon[r].board[id]
               /\ id \in open \union dead \union desync => new.board[id] = recon[r].board[id]
    BY <2>5, <2>8
  <2>10. ASSUME NEW id \in IssueId PROVE EvidenceFor(new, id)
    <3>1. EvidenceFor(recon[r], id)
      BY <2>2 DEF RepairInv, EvidenceStands
    <3>2. ASSUME <<"landed_open", id>> \in new.todo
          PROVE  /\ id \in landed /\ new.board[id] # NoRow
                 /\ new.board[id].status = "in_progress" /\ Claimed(new.board[id])
      <4>1. id \in open
        BY <2>4, <2>8, <3>2
      <4>2. QED
        BY <2>9, <4>1 DEF LandedOpen
    <3>3. ASSUME <<"dead_claim", id>> \in new.todo
          PROVE  /\ new.board[id] # NoRow /\ Claimed(new.board[id])
                 /\ rows[id] = new.board[id] => tenure[id] \intersect DeadStatuses # {}
      <4>1. id \in dead
        BY <2>4, <2>8, <3>3
      <4>2. /\ new.board[id] # NoRow /\ Claimed(new.board[id])
            /\ presence[new.board[id].claimed_by] \in DeadStatuses
        BY <2>9, <4>1 DEF DeadClaims
      <4>3. QED
        BY <4>2 DEF RepairInv, OwnersAreSeen, Exists
    <3>4. ASSUME new.peers # Unread, new.board[id] # NoRow, Claimed(new.board[id]),
                 rows[id] = new.board[id]
          PROVE  new.peers[new.board[id].claimed_by] \in tenure[id] \union {"unavailable"}
      BY <2>8, <2>9, <3>1, <3>4 DEF EvidenceFor
    <3>5. QED
      BY <3>2, <3>3, <3>4 DEF EvidenceFor
  <2>11. QED
    BY <1>2, <1>4, <2>2, <2>7, <2>9, <2>10 DEF GatherEvidence
<1>5. CASE ReadPeers(r)
  <2>1. PICK reading \in {presence, Unavailable} :
          recon' = [recon EXCEPT ![r].peers = reading]
    BY <1>5 DEF ReadPeers
  <2>2. recon[r] # ReconIdle
    BY <1>5 DEF ReadPeers, ReconIdle
  <2>3. PICK new : new = [recon[r] EXCEPT !.peers = reading]
    OBVIOUS
  <2>4. recon' = [recon EXCEPT ![r] = new]
    BY <1>1, <2>1, <2>3
  <2>5. new.todo = recon[r].todo /\ new.board = recon[r].board /\ new.peers = reading
    BY <1>1, <2>2, <2>3 DEF ReconState
  <2>6. ASSUME NEW id \in IssueId PROVE EvidenceFor(new, id)
    <3>1. EvidenceFor(recon[r], id)
      BY <2>2 DEF RepairInv, EvidenceStands
    <3>2. ASSUME new.board[id] # NoRow, Claimed(new.board[id]), rows[id] = new.board[id]
          PROVE  new.peers[new.board[id].claimed_by] \in tenure[id] \union {"unavailable"}
      <4>1. rows[id] \in Issue
        BY <1>1, <3>2
      <4>2. rows[id].claimed_by \in Label
        BY <3>2, <4>1 DEF Issue, Claimed
      <4>3. presence[rows[id].claimed_by] \in tenure[id]
        BY <3>2 DEF RepairInv, OwnersAreSeen, Exists
      <4>4. QED
        BY <2>5, <3>2, <4>2, <4>3 DEF Unavailable
    <3>3. QED
      BY <2>5, <3>1, <3>2 DEF EvidenceFor
  <2>7. QED
    BY <1>2, <1>5, <2>2, <2>4, <2>5, <2>6 DEF ReadPeers
<1>6. ASSUME NEW finding, IsNext(r, finding), Settle(r, finding)
      PROVE  \E new : /\ recon[r] # ReconIdle /\ recon' = [recon EXCEPT ![r] = new]
                      /\ new.board = recon[r].board /\ new.peers = recon[r].peers
                      /\ new.todo \subseteq recon[r].todo
                      /\ recon'[r] = new /\ \A q \in Reconciler \ {r} : recon'[q] = recon[q]
  <2>1. recon[r] # ReconIdle
    BY <1>6 DEF IsNext, ReconIdle
  <2>2. PICK new : new = [recon[r] EXCEPT !.todo = recon[r].todo \ {finding}]
    OBVIOUS
  <2>3. recon' = [recon EXCEPT ![r] = new]
    BY <1>1, <1>6, <2>2 DEF Settle
  <2>4. /\ new.board = recon[r].board /\ new.peers = recon[r].peers
        /\ new.todo \subseteq recon[r].todo
    BY <1>1, <2>1, <2>2 DEF ReconState
  <2>5. recon'[r] = new /\ \A q \in Reconciler \ {r} : recon'[q] = recon[q]
    BY <1>1, <2>3
  <2>6. QED
    BY <2>1, <2>3, <2>4, <2>5
<1>7. ASSUME NEW id \in IssueId, Repair(r, id) PROVE RepairInv'
  <2>1. PICK kind \in FindingKind, row \in Issue :
          /\ Write(id, row) /\ row.updated_at = Now
          /\ IsNext(r, <<kind, id>>) /\ Settle(r, <<kind, id>>)
          /\ UNCHANGED <<edit, presence, landed>>
    BY <1>7, RepairWrites
  <2>2. \A q \in Reconciler : \/ recon'[q] = recon[q]
                              \/ /\ recon[q] # ReconIdle
                                 /\ recon'[q].board = recon[q].board
                                 /\ recon'[q].peers = recon[q].peers
                                 /\ recon'[q].todo \subseteq recon[q].todo
    BY <1>6, <2>1
  <2>3. QED
    BY <2>1, <2>2, WriteRepairs
<1>8. ASSUME NEW finding \in Finding, RefuseFix(r, finding) PROVE RepairInv'
  <2>1. PICK new : /\ recon[r] # ReconIdle /\ recon' = [recon EXCEPT ![r] = new]
                   /\ new.board = recon[r].board /\ new.peers = recon[r].peers
                   /\ new.todo \subseteq recon[r].todo
    BY <1>6, <1>8 DEF RefuseFix
  <2>2. ASSUME NEW id \in IssueId PROVE EvidenceFor(new, id)
    <3>1. EvidenceFor(recon[r], id)
      BY <2>1 DEF RepairInv, EvidenceStands
    <3>2. QED
      BY <2>1, <3>1 DEF EvidenceFor
  <2>3. QED
    BY <1>2, <1>8, <2>1, <2>2 DEF RefuseFix
<1>9. CASE EndReconcile(r)
  BY <1>2, <1>9 DEF EndReconcile
<1>10. QED
  BY <1>3, <1>4, <1>5, <1>7, <1>8, <1>9 DEF Reconciling

LEMMA EnvironmentRepairs ==
    ASSUME BoardInv, RepairInv, Environment
    PROVE  RepairInv'
<1> USE NoRowAssumption
<1>1. ASSUME NEW label \in Label, NEW status \in PeerStatus, ChangePresence(label, status)
      PROVE  RepairInv'
  <2>1. /\ UNCHANGED <<rows, clock, edit, recon, landed>>
        /\ \A id \in IssueId :
              /\ tenure[id] \subseteq tenure'[id]
              /\ Exists(id) /\ rows[id].claimed_by = label => status \in tenure'[id]
        /\ \A l \in Label : presence'[l] = IF l = label THEN status ELSE presence[l]
    BY <1>1 DEF ChangePresence, BoardInv, TypeOK
  <2>2. StampsAreNew'
    BY <2>1 DEF RepairInv, StampsAreNew, Exists, Pending, Stamp
  <2>3. OwnersAreSeen'
    <3> SUFFICES ASSUME NEW id \in IssueId, rows[id] # NoRow, Claimed(rows[id])
                 PROVE  presence'[rows[id].claimed_by] \in tenure'[id]
      BY <2>1 DEF OwnersAreSeen, Exists, Claimed
    <3>1. rows[id].claimed_by \in Label
      BY DEF BoardInv, TypeOK, Issue, Claimed
    <3>2. QED
      BY <2>1, <3>1 DEF RepairInv, OwnersAreSeen, Exists
  <2>4. ASSUME NEW r \in Reconciler, NEW id \in IssueId, recon[r] # ReconIdle
        PROVE  EvidenceFor(recon[r], id)'
    <3>1. EvidenceFor(recon[r], id)
      BY <2>4 DEF RepairInv, EvidenceStands
    <3>2. QED
      BY <2>1, <3>1 DEF EvidenceFor, Claimed
  <2>5. QED
    BY <2>1, <2>2, <2>3, <2>4 DEF RepairInv, EvidenceStands
<1>2. ASSUME NEW id \in IssueId, LandCommit(id) PROVE RepairInv'
  <2>1. UNCHANGED <<rows, clock, edit, recon, presence, tenure>> /\ landed \subseteq landed'
    BY <1>2 DEF LandCommit
  <2>2. StampsAreNew' /\ OwnersAreSeen'
    BY <2>1 DEF RepairInv, StampsAreNew, OwnersAreSeen, Exists, Claimed, Pending, Stamp
  <2>3. EvidenceStands'
    BY <2>1 DEF RepairInv, EvidenceStands, EvidenceFor, Claimed
  <2>4. QED
    BY <2>2, <2>3 DEF RepairInv
<1>3. QED
  BY <1>1, <1>2 DEF Environment

LEMMA NextRepairs == BoardInv /\ RepairInv /\ [Next]_vars => RepairInv'
<1> SUFFICES ASSUME BoardInv, RepairInv, [Next]_vars PROVE RepairInv'
  OBVIOUS
<1>1. ASSUME NEW id \in IssueId, NEW type \in IssueType, Create(id, type) PROVE RepairInv'
  <2>1. Now \in Nat
    BY DEF BoardInv, TypeOK, Now
  <2>2. PICK row : row = NewIssue(type, Now)
    OBVIOUS
  <2>3. row \in Issue /\ row.updated_at = Now
    BY <2>1, <2>2, FreshRows DEF NewIssue
  <2>4. Write(id, row) /\ UNCHANGED <<edit, recon, presence, landed>>
    BY <1>1, <2>2 DEF Create, Mutate
  <2>5. QED
    BY <2>3, <2>4, WriteRepairs
<1>2. CASE UNCHANGED vars
  BY <1>2 DEF RepairInv, StampsAreNew, OwnersAreSeen, EvidenceStands, EvidenceFor,
              Exists, Claimed, Pending, Stamp, vars
<1>3. QED
  BY <1>1, <1>2, LifecycleRepairs, EditingRepairs, ReconcilingRepairs,
     EnvironmentRepairs DEF Next

\* The inductive invariant behind what is proved of repairs.
THEOREM RepairInvariant == Spec => [](BoardInv /\ RepairInv)
  BY InitInv, InitRepairs, NextInv, NextRepairs, PTL DEF Spec

\* A claim is taken away by reconcile only on what coord said of its owner since
\* the claim was made, or on a landed commit that names the issue together with an
\* owner inactive since then or verified, for any number of runs, editors and
\* sessions and whatever they do between the moment a run looks and the moment it
\* writes.
THEOREM RepairsAreJustified == Spec => RepairJustified
<1> DEFINE Justified ==
       \A r \in Reconciler, id \in IssueId :
         Repair(r, id) /\ ~SameClaim(rows[id], rows'[id]) =>
            \/ tenure[id] \intersect DeadStatuses # {}
            \/ /\ id \in landed
               /\ \/ tenure[id] \ {"active"} # {}
                  \/ RequireOwner(rows[id], recon[r].who)
<1>1. BoardInv /\ RepairInv /\ [Next]_vars => [Justified]_vars
  <2> SUFFICES ASSUME BoardInv, RepairInv, NEW r \in Reconciler, NEW id \in IssueId,
                      Repair(r, id), ~SameClaim(rows[id], rows'[id])
               PROVE  \/ tenure[id] \intersect DeadStatuses # {}
                      \/ /\ id \in landed
                         /\ \/ tenure[id] \ {"active"} # {}
                            \/ RequireOwner(rows[id], recon[r].who)
    OBVIOUS
  <2>1. PICK kind \in FindingKind, row \in Issue :
          /\ rows'[id] = row /\ IsNext(r, <<kind, id>>) /\ Unchanged(r, id)
          /\ \/ kind = "landed_open" /\ FixLandedOpen(r, id)
             \/ kind = "dead_claim" /\ FixDeadClaim(r, id)
             \/ kind = "blocker_desync" /\ FixBlockerDesync(r, id)
          /\ kind = "blocker_desync" => SameClaim(rows[id], row)
    BY RepairWrites
  <2>2. /\ <<kind, id>> \in recon[r].todo /\ recon[r] # ReconIdle
        /\ rows[id] = recon[r].board[id] /\ rows[id] # NoRow
    BY <2>1 DEF IsNext, ReconIdle, Unchanged, Exists
  <2>3. EvidenceFor(recon[r], id)
    BY <2>2 DEF RepairInv, EvidenceStands
  <2>4. CASE kind = "landed_open"
    <3>1. id \in landed /\ Claimed(rows[id])
      BY <2>2, <2>3, <2>4 DEF EvidenceFor
    <3>2. \/ RequireOwner(rows[id], recon[r].who)
          \/ recon[r].peers # Unread /\ ~CloseBlocked(r, id)
      BY <2>1, <2>2, <2>4 DEF FixLandedOpen, VerifiedOwner
    <3>3. ASSUME recon[r].peers # Unread, ~CloseBlocked(r, id)
          PROVE  tenure[id] \ {"active"} # {}
      <4>1. recon[r].peers[rows[id].claimed_by] \in tenure[id] \union {"unavailable"}
        BY <2>2, <2>3, <3>1, <3>3 DEF EvidenceFor
      <4>2. recon[r].peers[rows[id].claimed_by] \notin {"active", "unavailable"}
        BY <2>2, <3>3 DEF CloseBlocked
      <4>3. QED
        BY <4>1, <4>2
    <3>4. QED
      BY <3>1, <3>2, <3>3
  <2>5. CASE kind = "dead_claim"
    BY <2>2, <2>3, <2>5 DEF EvidenceFor
  <2>6. QED
    BY <2>1, <2>4, <2>5
<1>2. QED
  BY <1>1, RepairInvariant, PTL DEF Spec, RepairJustified

\* Nothing but a dream is finished with a dependency left, by its owner or by a
\* repair.
THEOREM FinishedUnblocked == Spec => FinishedWorkIsUnblocked
<1> DEFINE Cleared ==
       \A id \in IssueId :
         BecomesDone(id) /\ rows[id].type # "dream" => rows[id].blocked_by = {}
<1>1. BoardInv /\ RepairInv /\ [Next]_vars => [Cleared]_vars
  <2> SUFFICES ASSUME BoardInv, RepairInv, Next, NEW id \in IssueId, BecomesDone(id),
                      rows[id].type # "dream"
               PROVE  rows[id].blocked_by = {}
    OBVIOUS
  <2>1. /\ rows[id] \in Issue /\ rows \in [IssueId -> Issue \union {NoRow}]
        /\ rows[id].status # "done" /\ rows'[id].status = "done" /\ rows'[id] # NoRow
        /\ rows[id].status \in {"open", "in_progress"} => rows[id].blocked_by = {}
    BY DEF BoardInv, TypeOK, BecomesDone, Exists, RowsCoherent, RowCoherent
  <2>2. RowStep(id)
    BY <2>1, OnlyRowSteps DEF BecomesDone
  <2>3. ASSUME NEW row, Write(id, row) PROVE rows'[id] = row
    BY <2>1, <2>3 DEF Write
  <2>4. ASSUME NEW s \in Session, Lifecycle(s, id) PROVE rows[id].blocked_by = {}
    <3>1. CASE Claim(s, id)
      BY <2>1, <3>1 DEF Claim, CanClaim
    <3>2. CASE Done(s, id)
      BY <2>1, <3>2 DEF Done, CanComplete
    <3>3. CASE Abandon(s, id)
      <4>1. rows'[id] = Release(rows[id], Now)
        BY <2>3, <3>3 DEF Abandon, Mutate
      <4>2. QED
        BY <2>1, <4>1 DEF Release, ClearClaim, UnclaimedStatus, Issue
    <3>4. ASSUME NEW b \in IssueId, Block(s, id, b) PROVE FALSE
      <4>1. rows'[id] = AddBlocker(rows[id], b, Now)
        BY <2>3, <3>4 DEF Block, Mutate
      <4>2. QED
        BY <2>1, <4>1 DEF AddBlocker, UpdateBlockedStatus, Issue
    <3>5. ASSUME NEW b \in IssueId, Unblock(s, id, b) PROVE FALSE
      <4>1. rows'[id] = RemoveBlockers(rows[id], {b}, Now)
        BY <2>3, <3>5 DEF Unblock, Mutate
      <4>2. QED
        BY <2>1, <4>1 DEF RemoveBlockers, UpdateBlockedStatus, Issue
    <3>6. QED
      BY <2>4, <3>1, <3>2, <3>3, <3>4, <3>5 DEF Lifecycle
  <2>5. ASSUME NEW e \in Editor, edit[e] # EditIdle, edit[e].id = id,
               CommitUpdate(e) \/ CommitPairedDelete(e) \/ CommitPlainDelete(e)
        PROVE  FALSE
    <3>1. CASE CommitUpdate(e)
      <4>1. rows'[id] = edit[e].after /\ edit[e].before = rows[id]
        BY <2>3, <2>5, <3>1 DEF CommitUpdate
      <4>2. MetadataOnly(edit[e].before, edit[e].after)
        BY <2>5 DEF BoardInv, EditEntitled
      <4>3. QED
        BY <2>1, <4>1, <4>2 DEF MetadataOnly, Issue
    <3>2. CASE CommitPairedDelete(e) \/ CommitPlainDelete(e)
      BY <2>1, <2>3, <2>5, <3>2 DEF CommitPairedDelete, CommitPlainDelete
    <3>3. QED
      BY <2>5, <3>1, <3>2
  <2>6. ASSUME NEW r \in Reconciler, Repair(r, id) PROVE rows[id].blocked_by = {}
    <3>1. CASE FixLandedOpen(r, id)
      <4>1. /\ <<"landed_open", id>> \in recon[r].todo /\ recon[r] # ReconIdle
            /\ rows[id] = recon[r].board[id]
        BY <3>1 DEF FixLandedOpen, IsNext, ReconIdle, Unchanged
      <4>2. rows[id].status = "in_progress"
        BY <4>1 DEF RepairInv, EvidenceStands, EvidenceFor
      <4>3. QED
        BY <2>1, <4>2
    <3>2. CASE FixDeadClaim(r, id)
      <4>1. rows'[id] = ReleaseDeadClaim(rows[id], Now)
        BY <2>3, <3>2 DEF FixDeadClaim
      <4>2. QED
        BY <2>1, <4>1 DEF ReleaseDeadClaim, ClearClaim, UnclaimedStatus, Issue
    <3>3. CASE FixBlockerDesync(r, id)
      <4>1. PICK blockers :
              rows'[id] = [UpdateBlockedStatus(RemoveBlockers(rows[id], blockers, Now))
                             EXCEPT !.updated_at = Now]
        BY <2>3, <3>3 DEF FixBlockerDesync
      <4>2. QED
        BY <2>1, <4>1 DEF RemoveBlockers, UpdateBlockedStatus, Issue
    <3>4. QED
      BY <2>6, <3>1, <3>2, <3>3 DEF Repair
  <2>7. QED
    BY <2>2, <2>4, <2>5, <2>6 DEF RowStep
<1>2. QED
  BY <1>1, RepairInvariant, PTL DEF Spec, FinishedWorkIsUnblocked
===========================================================================
