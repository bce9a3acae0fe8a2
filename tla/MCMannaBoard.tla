--------------------------- MODULE MCMannaBoard ---------------------------
(***************************************************************************)
(* Instances of MannaBoard for TLC: two sessions, and a third that knows    *)
(* the label of the first but not its token.                                *)
(***************************************************************************)
EXTENDS MannaBoard, TLC

CONSTANTS a, b, ta, tb

MCSession == { [id |-> a, token |-> ta],
               [id |-> b, token |-> tb],
               [id |-> a, token |-> tb] }

MCTwoSession == { [id |-> a, token |-> ta], [id |-> b, token |-> tb] }

\* Rows without an owner: fresh ones and claims that prove nothing.
MCUnownedRow == {NewIssue("item", 0), NewIssue("dream", 0)}
                    \union {LegacyClaim(l) : l \in Label}

\* A row the first session works on.
MCClaimedRow == {ClaimBy(NewIssue("item", 0), [id |-> a, token |-> ta], 0)}

IssueSymmetry == Permutations(IssueId)
===========================================================================
