--------------------------- MODULE MCRouteCache ---------------------------
(***************************************************************************)
(* An instance of RouteCache for TLC: one intent is asked for, in a project *)
(* and outside, and the other one, near to it, may be in the earlier table. *)
(***************************************************************************)
EXTENDS RouteCache, TLC

CONSTANTS i1, i2, here

RequestOf(n, c, m) == [intent |-> n, scope |-> c, mode |-> m]

MCAsked == {RequestOf(i1, here, "run"), RequestOf(i1, Anywhere, "run"),
            RequestOf(i1, here, "how")}

MCNear == Intent \X Intent

Symmetry == Permutations(Proc) \cup Permutations(Route)
===========================================================================
