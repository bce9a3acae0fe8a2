---------------------------- MODULE MCMannaPair ----------------------------
(* MannaPair on small instances. *)
EXTENDS MannaPair, TLC

Symmetry == Permutations(Proc)
===========================================================================
