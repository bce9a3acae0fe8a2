---------------------------- MODULE MannaBoard ----------------------------
(***************************************************************************)
(* The lifecycle of a Manna board: the rows of issues.jsonl, the commands   *)
(* that change them and `manna reconcile --fix`                             *)
(* (tools/agent-manna/src/{store,main,reconcile}.rs).                       *)
(*                                                                         *)
(* Every command is an operating-system process.  What it does under the    *)
(* board lock is one action here; what it read before taking the lock is    *)
(* kept in the state of its process, so that any other command may run in   *)
(* between:                                                                 *)
(*   - claim, done, abandon, block and unblock decide on the row they       *)
(*     reload under the lock: one action each;                              *)
(*   - update, handoff seal and delete decide on a row they loaded without   *)
(*     the lock and commit by compare-and-swap: Begin... and Commit...;      *)
(*   - reconcile inspects the board, then git and coord, then repairs one    *)
(*     finding at a time, each by compare-and-swap: Inspect, GatherEvidence, *)
(*     ReadPeers, Fix....                                                   *)
(* A process may be killed between any two steps (the SessionEnd hook kills  *)
(* reconcile after four seconds).                                           *)
(*                                                                         *)
(* External, modelled from how this code uses them: the presence statuses    *)
(* that `coord peers` reports, which may change at any time, and the commit  *)
(* trailers of the git log, which only accumulate.                          *)
(***************************************************************************)
EXTENDS MannaIssue

CONSTANTS
    NoRow,        \* what a missing row looks like
    Session,      \* the identities that run commands
    Editor,       \* processes that run update, seal and delete
    Reconciler,   \* processes that run reconcile --fix
    PeerStatus,   \* the coord statuses this instance distinguishes
    Strict,       \* does the board pair items with handoff files?
    InitialRow,   \* the rows a board may start with
    MaxClock      \* bound: mutations stamped per behaviour

CoordStatus == {"active", "idle", "stale", "stopped", "dead", "absent"}

\* A claim written before ownership proofs existed.
LegacyClaim(label) ==
    [NewIssue("item", 0) EXCEPT !.status = "in_progress", !.claimed_by = label]

\* Rows as they were made, or claimed since.
EarlyRow ==
    {NewIssue(type, 0) : type \in IssueType}
        \union {LegacyClaim(l) : l \in Label}
        \union {ClaimBy(NewIssue("item", 0), s, 0) : s \in Session}

ASSUME InitialRowAssumption == InitialRow \subseteq EarlyRow
ASSUME NoRowAssumption      == NoRow \notin Issue
ASSUME SessionAssumption    == Session \subseteq Identity
ASSUME PeerStatusAssumption == PeerStatus \subseteq CoordStatus
ASSUME StrictAssumption     == Strict \in BOOLEAN
ASSUME MaxClockAssumption   == MaxClock \in Nat

VARIABLES
    rows,       \* issues.jsonl: IssueId -> row or NoRow
    clock,      \* Utc::now(), advanced by every mutation
    edit,       \* what each editor process has in hand
    recon,      \* what each reconcile process has in hand
    presence,   \* coord's status of each label
    landed,     \* the issues named by Manna: trailers in the git log
    tenure      \* history: the statuses coord had for the owner of a row's
                \* present claim, since that claim was made

vars == <<rows, clock, edit, recon, presence, landed, tenure>>

---------------------------------------------------------------------------
(* State of the processes                                                  *)

EditIdle == [op |-> "idle"]

EditState ==
    {EditIdle} \union
    [op : {"update", "delete"}, who : Session, id : IssueId,
     before : Issue, after : Issue]

ReconIdle == [phase |-> "idle"]

FindingKind == {"landed_open", "dead_claim", "blocker_desync"}
Finding     == FindingKind \X IssueId

\* coord_statuses in apply_reconcile_fixes: not asked yet, a failed call, or
\* the statuses read.
PeerReading == [Label -> PeerStatus \union {"unread", "unavailable"}]
Unread      == [l \in Label |-> "unread"]
Unavailable == [l \in Label |-> "unavailable"]

ReconState ==
    {ReconIdle} \union
    [phase : {"inspected", "fixing"}, who : Session,
     board : [IssueId -> Issue \union {NoRow}],
     todo : SUBSET Finding, peers : PeerReading]

TypeOK ==
    /\ rows \in [IssueId -> Issue \union {NoRow}]
    /\ clock \in Nat
    /\ edit \in [Editor -> EditState]
    /\ recon \in [Reconciler -> ReconState]
    /\ presence \in [Label -> PeerStatus]
    /\ landed \in SUBSET IssueId
    /\ tenure \in [IssueId -> SUBSET PeerStatus]

---------------------------------------------------------------------------
(* Locked sections                                                         *)

Exists(id) == rows[id] # NoRow
Now == clock + 1

\* coord_status_for_owner looks the row's label up among the peers.
TenureAfter(row) == IF row # NoRow /\ Claimed(row) THEN {presence[row.claimed_by]} ELSE {}

SameClaim(row1, row2) ==
    /\ row1 # NoRow /\ row2 # NoRow
    /\ row1.claimed_by = row2.claimed_by
    /\ row1.proof = row2.proof

\* The end of a locked section: the row is validated and written.
Write(id, row) ==
    /\ clock < MaxClock
    /\ row # NoRow => Validate(row)
    /\ rows' = [rows EXCEPT ![id] = row]
    /\ clock' = Now
    /\ tenure' = [tenure EXCEPT ![id] =
                    IF SameClaim(rows[id], row) THEN @ ELSE TenureAfter(row)]

\* mutate_issue_locked for a command that holds nothing else.
Mutate(id, row) == Write(id, row) /\ UNCHANGED <<edit, recon, presence, landed>>

Create(id, type) ==
    /\ ~Exists(id)
    /\ Mutate(id, NewIssue(type, Now))

Claim(s, id) ==
    /\ Exists(id)
    /\ CanClaim(rows[id])
    /\ Mutate(id, ClaimBy(rows[id], s, Now))

Done(s, id) ==
    /\ Exists(id)
    /\ \/ rows[id].type = "dream" /\ CanCloseDream(rows[id], s)
       \/ rows[id].type # "dream" /\ CanComplete(rows[id], s)
    /\ Mutate(id, MarkDone(rows[id], Now))

Abandon(s, id) ==
    /\ Exists(id)
    /\ CanRelease(rows[id], s)
    /\ Mutate(id, Release(rows[id], Now))

Block(s, id, blocker) ==
    /\ Exists(id)
    /\ RequireOwner(rows[id], s)
    /\ Exists(blocker)
    /\ Mutate(id, AddBlocker(rows[id], blocker, Now))

Unblock(s, id, blocker) ==
    /\ Exists(id)
    /\ RequireOwner(rows[id], s)
    /\ Mutate(id, RemoveBlockers(rows[id], {blocker}, Now))

---------------------------------------------------------------------------
(* update, handoff seal and delete: load, check, compare-and-swap          *)

\* Mutant of BeginUpdate: a claimed row may be converted.
BeginUpdateOfClaimed(e, s, id, type) ==
    /\ edit[e] = EditIdle
    /\ Exists(id)
    /\ RequireOwner(rows[id], s)
    /\ clock < MaxClock
    /\ edit' = [edit EXCEPT ![e] =
                  [op |-> "update", who |-> s, id |-> id, before |-> rows[id],
                   after |-> [rows[id] EXCEPT !.type = type, !.updated_at = Now]]]
    /\ clock' = Now
    /\ UNCHANGED <<rows, recon, presence, landed, tenure>>

\* cmd_update refuses to convert a claimed row; a seal keeps the type.  Both
\* stamp updated_at before the commit.
BeginUpdate(e, s, id, type) ==
    /\ edit[e] = EditIdle
    /\ Exists(id)
    /\ RequireOwner(rows[id], s)
    /\ type # rows[id].type => ~Claimed(rows[id])
    /\ clock < MaxClock
    /\ edit' = [edit EXCEPT ![e] =
                  [op |-> "update", who |-> s, id |-> id, before |-> rows[id],
                   after |-> [rows[id] EXCEPT !.type = type, !.updated_at = Now]]]
    /\ clock' = Now
    /\ UNCHANGED <<rows, recon, presence, landed, tenure>>

\* Mutants of BeginDelete: a missing row is not noticed; ownership is left to
\* the commit.
BeginDeleteOfMissing(e, s, id) ==
    /\ edit[e] = EditIdle
    /\ edit' = [edit EXCEPT ![e] =
                  [op |-> "delete", who |-> s, id |-> id, before |-> rows[id],
                   after |-> rows[id]]]
    /\ UNCHANGED <<rows, clock, recon, presence, landed, tenure>>

BeginDeleteUnowned(e, s, id) == Exists(id) /\ BeginDeleteOfMissing(e, s, id)

BeginDelete(e, s, id) ==
    /\ edit[e] = EditIdle
    /\ Exists(id)
    /\ RequireOwner(rows[id], s)
    /\ edit' = [edit EXCEPT ![e] =
                  [op |-> "delete", who |-> s, id |-> id, before |-> rows[id],
                   after |-> rows[id]]]
    /\ UNCHANGED <<rows, clock, recon, presence, landed, tenure>>

\* On a strict board every item has its handoff pointer and digest.
Paired(row) == Strict /\ row.type = "item"

EndEdit(e) == edit' = [edit EXCEPT ![e] = EditIdle]

\* replace_metadata_atomically and recover_replace_issue_with: the row must
\* still be the one that was loaded.
CommitUpdate(e) ==
    /\ edit[e].op = "update"
    /\ rows[edit[e].id] = edit[e].before
    /\ Write(edit[e].id, edit[e].after)
    /\ EndEdit(e)
    /\ UNCHANGED <<recon, presence, landed>>

\* recover_delete_issue_with, the journaled deletion of a paired item: the
\* row must still be the one that was loaded.
CommitPairedDelete(e) ==
    /\ edit[e].op = "delete"
    /\ Paired(edit[e].before)
    /\ rows[edit[e].id] = edit[e].before
    /\ Write(edit[e].id, NoRow)
    /\ EndEdit(e)
    /\ UNCHANGED <<recon, presence, landed>>

\* Mutant of CommitPlainDelete: the ownership checked at load time is trusted.
CommitPlainDeleteStale(e) ==
    /\ edit[e].op = "delete"
    /\ ~Paired(edit[e].before)
    /\ Exists(edit[e].id)
    /\ ~Paired(rows[edit[e].id])
    /\ Write(edit[e].id, NoRow)
    /\ EndEdit(e)
    /\ UNCHANGED <<recon, presence, landed>>

\* delete_issue_owned, the deletion of a row without a handoff: ownership is
\* checked again, on the row reloaded under the lock.
CommitPlainDelete(e) ==
    /\ edit[e].op = "delete"
    /\ ~Paired(edit[e].before)
    /\ Exists(edit[e].id)
    /\ ~Paired(rows[edit[e].id])
    /\ RequireOwner(rows[edit[e].id], edit[e].who)
    /\ Write(edit[e].id, NoRow)
    /\ EndEdit(e)
    /\ UNCHANGED <<recon, presence, landed>>

\* The command reports a conflict, or is killed before its locked section.
GiveUpEdit(e) ==
    /\ edit[e] # EditIdle
    /\ EndEdit(e)
    /\ UNCHANGED <<rows, clock, recon, presence, landed, tenure>>

---------------------------------------------------------------------------
(* reconcile --fix                                                         *)

DeadStatuses == {"dead", "stale", "stopped"}

\* The board a reconcile run works from; findings compare against it.
Inspect(r, s) ==
    /\ recon[r] = ReconIdle
    /\ recon' = [recon EXCEPT ![r] =
                   [phase |-> "inspected", who |-> s, board |-> rows,
                    todo |-> {}, peers |-> Unread]]
    /\ UNCHANGED <<rows, clock, edit, presence, landed, tenure>>

\* check_landed_open, as far as --fix acts on it: an in_progress claim.
LandedOpen(board) ==
    {id \in landed : /\ board[id] # NoRow
                     /\ board[id].status = "in_progress"
                     /\ Claimed(board[id])}

\* check_dead_claims: a status read now for the owner of an inspected claim.
DeadClaims(board) ==
    {id \in IssueId : /\ board[id] # NoRow
                      /\ board[id].status # "done"
                      /\ Claimed(board[id])
                      /\ presence[board[id].claimed_by] \in DeadStatuses}

\* A blocker is resolved when it is done or no longer on the board.
ResolvedOn(board, blocker) == board[blocker] # NoRow => board[blocker].status = "done"

\* check_blocker_desync: all blockers resolved but the row is still blocked.
BlockerDesync(board) ==
    {id \in IssueId : /\ board[id] # NoRow
                      /\ board[id].status = "blocked"
                      /\ \A b \in board[id].blocked_by : ResolvedOn(board, b)}

\* git log and coord peers are read after the board; a call that fails or times
\* out only skips the check it was for.  Rows without a finding are not looked
\* at again, so the model forgets them.
GatherEvidence(r) ==
    /\ recon[r].phase = "inspected"
    /\ \E open \in {LandedOpen(recon[r].board), {}}, dead \in {DeadClaims(recon[r].board), {}} :
          LET desync == BlockerDesync(recon[r].board)
          IN  recon' = [recon EXCEPT
                          ![r].phase = "fixing",
                          ![r].todo  = ({"landed_open"} \X open)
                                       \union ({"dead_claim"} \X dead)
                                       \union ({"blocker_desync"} \X desync),
                          ![r].board = [id \in IssueId |->
                                          IF id \in open \union dead \union desync
                                          THEN @[id] ELSE NoRow]]
    /\ UNCHANGED <<rows, clock, edit, presence, landed, tenure>>

\* Findings are repaired in the order the checks ran.
Rank(kind) == CASE kind = "landed_open"    -> 1
                [] kind = "dead_claim"     -> 2
                [] kind = "blocker_desync" -> 3

IsNext(r, finding) ==
    /\ recon[r].phase = "fixing"
    /\ finding \in recon[r].todo
    /\ \A other \in recon[r].todo : Rank(finding[1]) <= Rank(other[1])

Settle(r, finding) == recon' = [recon EXCEPT ![r].todo = @ \ {finding}]

\* Mutant of Unchanged: a repair does not compare the row with what it inspected.
StillThere(r, id) == Exists(id)

\* The compare-and-swap every repair makes before it touches the row.
Unchanged(r, id) == Exists(id) /\ rows[id] = recon[r].board[id]

FixDeadClaim(r, id) ==
    /\ IsNext(r, <<"dead_claim", id>>)
    /\ Unchanged(r, id)
    /\ Write(id, ReleaseDeadClaim(rows[id], Now))
    /\ Settle(r, <<"dead_claim", id>>)
    /\ UNCHANGED <<edit, presence, landed>>

FixBlockerDesync(r, id) ==
    /\ IsNext(r, <<"blocker_desync", id>>)
    /\ Unchanged(r, id)
    /\ LET resolved == {b \in rows[id].blocked_by : ResolvedOn(rows, b)}
       IN  Write(id, [UpdateBlockedStatus(RemoveBlockers(rows[id], resolved, Now))
                        EXCEPT !.updated_at = Now])
    /\ Settle(r, <<"blocker_desync", id>>)
    /\ UNCHANGED <<edit, presence, landed>>

VerifiedOwner(r, id) == RequireOwner(recon[r].board[id], recon[r].who)

\* The first landed_open repair that is not the verified owner's asks coord,
\* and the answer serves the rest of the run.
ReadPeers(r) ==
    /\ recon[r].phase = "fixing"
    /\ recon[r].peers = Unread
    /\ \E id \in IssueId : IsNext(r, <<"landed_open", id>>) /\ ~VerifiedOwner(r, id)
    /\ \E reading \in {presence, Unavailable} :
          recon' = [recon EXCEPT ![r].peers = reading]
    /\ UNCHANGED <<rows, clock, edit, presence, landed, tenure>>

\* landed_open_close_blocked: never over an active session, never blind.
CloseBlocked(r, id) ==
    recon[r].peers[recon[r].board[id].claimed_by] \in {"active", "unavailable"}

FixLandedOpen(r, id) ==
    /\ IsNext(r, <<"landed_open", id>>)
    /\ \/ VerifiedOwner(r, id)
       \/ recon[r].peers # Unread /\ ~CloseBlocked(r, id)
    /\ Unchanged(r, id)
    /\ Write(id, MarkDone(ReleaseDeadClaim(rows[id], Now), Now))
    /\ Settle(r, <<"landed_open", id>>)
    /\ UNCHANGED <<edit, presence, landed>>

\* A repair that is refused is reported and leaves the board alone.
RefuseFix(r, finding) ==
    /\ IsNext(r, finding)
    /\ \/ ~Unchanged(r, finding[2])
       \/ /\ finding[1] = "landed_open"
          /\ ~VerifiedOwner(r, finding[2])
          /\ recon[r].peers # Unread
          /\ CloseBlocked(r, finding[2])
    /\ Settle(r, finding)
    /\ UNCHANGED <<rows, clock, edit, presence, landed, tenure>>

\* The run ends, or is killed.
EndReconcile(r) ==
    /\ recon[r] # ReconIdle
    /\ recon' = [recon EXCEPT ![r] = ReconIdle]
    /\ UNCHANGED <<rows, clock, edit, presence, landed, tenure>>

---------------------------------------------------------------------------
(* The environment: coord presence and the git log                         *)

ChangePresence(label, status) ==
    /\ presence[label] # status
    /\ presence' = [presence EXCEPT ![label] = status]
    /\ tenure' = [id \in IssueId |->
                    IF Exists(id) /\ rows[id].claimed_by = label
                    THEN tenure[id] \union {status} ELSE tenure[id]]
    /\ UNCHANGED <<rows, clock, edit, recon, landed>>

LandCommit(id) ==
    /\ id \notin landed
    /\ landed' = landed \union {id}
    /\ UNCHANGED <<rows, clock, edit, recon, presence, tenure>>

---------------------------------------------------------------------------
Init ==
    /\ rows \in [IssueId -> InitialRow \union {NoRow}]
    /\ clock = 0
    /\ edit = [e \in Editor |-> EditIdle]
    /\ recon = [r \in Reconciler |-> ReconIdle]
    /\ presence \in [Label -> PeerStatus]
    /\ landed = {}
    /\ tenure = [id \in IssueId |-> TenureAfter(rows[id])]

Lifecycle(s, id) ==
    \/ Claim(s, id) \/ Done(s, id) \/ Abandon(s, id)
    \/ \E b \in IssueId : Block(s, id, b) \/ Unblock(s, id, b)

Editing(e) ==
    \/ \E s \in Session, id \in IssueId :
          \/ \E type \in IssueType : BeginUpdate(e, s, id, type)
          \/ BeginDelete(e, s, id)
    \/ CommitUpdate(e) \/ CommitPairedDelete(e) \/ CommitPlainDelete(e)
    \/ GiveUpEdit(e)

Repair(r, id) == FixLandedOpen(r, id) \/ FixDeadClaim(r, id) \/ FixBlockerDesync(r, id)

Reconciling(r) ==
    \/ \E s \in Session : Inspect(r, s)
    \/ GatherEvidence(r) \/ ReadPeers(r)
    \/ \E id \in IssueId : Repair(r, id)
    \/ \E finding \in Finding : RefuseFix(r, finding)
    \/ EndReconcile(r)

Environment ==
    \/ \E label \in Label, status \in PeerStatus : ChangePresence(label, status)
    \/ \E id \in IssueId : LandCommit(id)

Next ==
    \/ \E id \in IssueId, type \in IssueType : Create(id, type)
    \/ \E s \in Session, id \in IssueId : Lifecycle(s, id)
    \/ \E e \in Editor : Editing(e)
    \/ \E r \in Reconciler : Reconciling(r)
    \/ Environment

Spec == Init /\ [][Next]_vars

---------------------------------------------------------------------------
(* Properties                                                              *)

\* The lifecycle fields of a row agree with each other: an open row has no
\* claim, a row in progress has one, and an unfinished row is blocked exactly
\* when it has blockers, so nobody works on, and nobody completes, an item with
\* a recorded dependency.
RowCoherent(row) ==
    /\ row.status = "open" => ~Claimed(row)
    /\ row.status = "in_progress" => Claimed(row)
    /\ row.status # "done" => (row.status = "blocked" <=> row.blocked_by # {})

RowsCoherent == \A id \in IssueId : Exists(id) => RowCoherent(rows[id])

\* A dream is never anybody's work: whatever interleaving of claim and type
\* conversion, no dream carries a claim.
DreamsAreInert ==
    \A id \in IssueId : Exists(id) /\ rows[id].type = "dream" => ~Claimed(rows[id])

MetadataOnly(before, after) ==
    after = [before EXCEPT !.type = after.type, !.updated_at = after.updated_at]

\* What an editor has in hand it was entitled to when it loaded the row, and the
\* replacement differs from that row only in metadata; the type only if the row
\* was not claimed.
EditEntitled(e) ==
    edit[e] # EditIdle =>
       /\ RequireOwner(edit[e].before, edit[e].who)
       /\ MetadataOnly(edit[e].before, edit[e].after)
       /\ edit[e].after.type # edit[e].before.type => ~Claimed(edit[e].before)

\* The inductive invariant behind the theorems of MannaBoardProofs.
BoardInv ==
    /\ TypeOK
    /\ RowsCoherent
    /\ DreamsAreInert
    /\ \A e \in Editor : EditEntitled(e)

\* The steps by which session s changes row id on its own authority.
StepOf(s, id) ==
    \/ Lifecycle(s, id)
    \/ \E e \in Editor : /\ edit[e] # EditIdle /\ edit[e].who = s /\ edit[e].id = id
                         /\ CommitUpdate(e) \/ CommitPairedDelete(e) \/ CommitPlainDelete(e)

\* While a row is claimed, only the session that can prove the claim changes or
\* deletes it; the one exception is a repair by reconcile.  A stale update or
\* delete, and a session that only knows the owner's label, never do.
OnlyOwnerOrRepair ==
    [][\A id \in IssueId :
         Exists(id) /\ Claimed(rows[id]) /\ rows'[id] # rows[id] =>
            \/ \E s \in Session : RequireOwner(rows[id], s) /\ StepOf(s, id)
            \/ \E r \in Reconciler : Repair(r, id)]_vars

\* A repair takes a claim away only on evidence about the owner that is not older
\* than this claim: the owner was dead, stale or stopped at some moment after it
\* was made; or a commit that names the issue has landed, and the owner was seen
\* inactive since the claim or proved to be the one running the repair.  What
\* coord said during an earlier claim never releases a newer one; a landed commit
\* may, since trailers name issues and not claims (reconcile.rs:194): one from
\* before an abandon still closes the next claim once its owner is inactive.
RepairJustified ==
    [][\A r \in Reconciler, id \in IssueId :
         Repair(r, id) /\ ~SameClaim(rows[id], rows'[id]) =>
            \/ tenure[id] \intersect DeadStatuses # {}
            \/ /\ id \in landed
               /\ \/ tenure[id] \ {"active"} # {}
                  \/ RequireOwner(rows[id], recon[r].who)]_vars

BecomesDone(id) ==
    /\ Exists(id) /\ rows[id].status # "done"
    /\ rows'[id] # NoRow /\ rows'[id].status = "done"

\* A finished row is never reopened, by a verb, a stale edit or a repair; it
\* can only be deleted.
DoneIsFinal ==
    [][\A id \in IssueId :
         Exists(id) /\ rows[id].status = "done" /\ rows'[id] # NoRow
            => rows'[id].status = "done"]_vars

\* Work is finished only with all its dependencies cleared: an item or track
\* that becomes done had no blocker left.
FinishedWorkIsUnblocked ==
    [][\A id \in IssueId :
         BecomesDone(id) /\ rows[id].type # "dream" => rows[id].blocked_by = {}]_vars

\* What the documentation says of landed_open ("report-only; merge judgment
\* stays human"): only the done verb finishes a row.  The code closes a claimed
\* row on landed evidence, so this does not hold.
LandedOpenIsReportOnly ==
    [][\A id \in IssueId :
         BecomesDone(id) => \E s \in Session : Done(s, id)]_vars
===========================================================================
