-------------------------- MODULE MCCoordPresence --------------------------
(* CoordPresence on small instances. *)
EXTENDS CoordPresence, TLC

Symmetry == Permutations(Proc)
===========================================================================
