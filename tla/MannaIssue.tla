---------------------------- MODULE MannaIssue ----------------------------
(***************************************************************************)
(* One row of a Manna board and the transitions the issue model allows on  *)
(* it (tools/agent-manna/src/issue.rs).  The operators are pure: a guard   *)
(* operator Can... says when the Rust method returns Ok, the operator      *)
(* named after the method gives the row it leaves behind.                  *)
(*                                                                         *)
(* Title, description, source, the handoff pointer and the track edge are  *)
(* data that no transition of this module looks at; updated_at stands for  *)
(* all of them, since every edit stamps it.  claimed_at is set and cleared *)
(* by exactly the assignments that set and clear claimed_by.               *)
(***************************************************************************)
EXTENDS Naturals

CONSTANTS
    IssueId,   \* the mn-xxxxxx identifiers
    Label,     \* visible session ids, what claimed_by holds
    Token,     \* private bearer tokens, whose digest claim_token_hash holds
    None       \* an empty claimed_by or claim_token_hash

ASSUME NoneAssumption == None \notin Label /\ None \notin Token

\* A session pinned by MANNA_SESSION_ID and MANNA_SESSION_TOKEN.
Identity == [id : Label, token : Token]

IssueType   == {"item", "dream", "track"}
IssueStatus == {"open", "in_progress", "blocked", "done"}

Issue == [ type       : IssueType,
           status     : IssueStatus,
           blocked_by : SUBSET IssueId,
           claimed_by : Label \union {None},
           proof      : Token \union {None},
           updated_at : Nat ]

NewIssue(type, now) ==
    [ type |-> type, status |-> "open", blocked_by |-> {},
      claimed_by |-> None, proof |-> None, updated_at |-> now ]

Claimed(issue) == issue.claimed_by # None

---------------------------------------------------------------------------
(* Ownership: an unclaimed row is editable by anyone, a claimed one only by *)
(* a session that presents both the label and the token.  A claim without a *)
(* stored proof (written before proofs existed) has no owner.               *)

RequireOwner(issue, session) ==
    Claimed(issue) => /\ issue.claimed_by = session.id
                      /\ issue.proof = session.token

\* The status of a row that just lost its claim.
UnclaimedStatus(blocked_by) == IF blocked_by = {} THEN "open" ELSE "blocked"

ClearClaim(issue, now) ==
    [issue EXCEPT !.claimed_by = None, !.proof = None, !.updated_at = now]

CanClaim(issue) ==
    /\ issue.type # "dream"
    /\ issue.status = "open"
    /\ ~Claimed(issue)

ClaimBy(issue, session, now) ==
    [issue EXCEPT !.claimed_by = session.id, !.proof = session.token,
                  !.status = "in_progress", !.updated_at = now]

CanRelease(issue, session) ==
    /\ Claimed(issue)
    /\ RequireOwner(issue, session)
    /\ issue.status \in {"in_progress", "blocked"}

Release(issue, now) ==
    [ClearClaim(issue, now) EXCEPT !.status = UnclaimedStatus(issue.blocked_by)]

\* Mutant of CanComplete: a blocked claim may be completed.
CanCompleteBlocked(issue, session) ==
    /\ issue.status \in {"in_progress", "blocked"}
    /\ RequireOwner(issue, session)

CanComplete(issue, session) ==
    /\ issue.status = "in_progress"
    /\ RequireOwner(issue, session)

CanCloseDream(issue, session) ==
    /\ issue.type = "dream"
    /\ RequireOwner(issue, session)
    /\ issue.status \in {"open", "blocked"}

\* complete and close_dream leave the claim fields as they are.
MarkDone(issue, now) == [issue EXCEPT !.status = "done", !.updated_at = now]

\* The administrative release reconcile uses: no ownership check, and a done
\* row keeps its status.
ReleaseDeadClaim(issue, now) ==
    [ClearClaim(issue, now) EXCEPT
        !.status = IF issue.status = "done" THEN "done"
                   ELSE UnclaimedStatus(issue.blocked_by)]

---------------------------------------------------------------------------
(* Dependencies: blocked_by is a list without duplicates, so a set here.    *)

\* Mutant of UpdateBlockedStatus: a new blocker reopens a done row.
UpdateBlockedStatusOfAny(issue) ==
    [issue EXCEPT !.status =
        CASE issue.blocked_by # {} -> "blocked"
          [] issue.blocked_by = {} /\ issue.status = "blocked" ->
                IF Claimed(issue) THEN "in_progress" ELSE "open"
          [] OTHER -> issue.status]

UpdateBlockedStatus(issue) ==
    [issue EXCEPT !.status =
        CASE issue.blocked_by # {} /\ issue.status # "done" -> "blocked"
          [] issue.blocked_by = {} /\ issue.status = "blocked" ->
                IF Claimed(issue) THEN "in_progress" ELSE "open"
          [] OTHER -> issue.status]

\* Mutant of AddBlocker: the status is not recomputed.
AddBlockerOnly(issue, blocker, now) ==
    [issue EXCEPT !.blocked_by = @ \union {blocker}, !.updated_at = now]

AddBlocker(issue, blocker, now) ==
    IF blocker \in issue.blocked_by THEN issue
    ELSE UpdateBlockedStatus([issue EXCEPT !.blocked_by = @ \union {blocker},
                                           !.updated_at = now])

\* Removing several blockers one after another and recomputing once is the
\* same as recomputing after each removal: the status is a function of what
\* is left.
RemoveBlockers(issue, blockers, now) ==
    IF blockers \intersect issue.blocked_by = {} THEN issue
    ELSE UpdateBlockedStatus([issue EXCEPT !.blocked_by = @ \ blockers,
                                           !.updated_at = now])

---------------------------------------------------------------------------
\* The part of Issue::validate that concerns the lifecycle fields; every
\* locked mutation runs it on the row it is about to write.
Validate(issue) ==
    /\ issue.status = "in_progress" => Claimed(issue)
    /\ Claimed(issue) <=> issue.proof # None
===========================================================================
