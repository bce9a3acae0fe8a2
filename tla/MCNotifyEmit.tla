---------------------------- MODULE MCNotifyEmit ----------------------------
(* Two rules: one for a group of bob, who has a live provider behind a      *)
(* plain one, and ann; and one for a recipient that is not configured.      *)
EXTENDS NotifyEmit, TLC

CONSTANTS p1, p2, ann, bob, cat, app

MCRule == 1..2
MCEvents == {{1}, {1, 2}}
MCMembersOf == [r \in MCRule |-> IF r = 1 THEN <<bob, ann>> ELSE <<cat>>]
MCAttempts == [m \in Recipient |-> CASE m = bob -> <<"pipe", "live">>
                                     [] m = ann -> <<"pipe">>
                                     [] OTHER -> None]
MCCooldown == [r \in MCRule |-> 2]
MCModifiers == {None, <<"desktop", NoApp>>}
MCRequests == {[scope |-> "browser", app |-> NoApp, modifier |-> None, ttl |-> 0]}
Symmetry == Permutations(Proc)
=============================================================================
