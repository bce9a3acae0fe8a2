---------------------------- MODULE MCVaultWrites ----------------------------
(* Three commands on three paths, the third path empty at first: one of    *)
(* every kind but creation, one of the kinds that wait for a preflight or a *)
(* deletion, and a task or a creation to run into the lock of the others.   *)
EXTENDS VaultWrites

CONSTANTS w1, w2, w3

MCPath == 1..3
On(k, p) == [kind |-> k, p |-> p, q |-> 3]
MCOps == [w \in Writer |->
    CASE w = w1 -> {On("append", 1), On("task", 2), On("prop", 1),
                    On("daily", 3), On("apply", 3), On("retag", 1),
                    On("move", 1), On("delete", 1),
                    [kind |-> "group", p |-> 3, q |-> 2]}
      [] w = w2 -> {On("append", 1), On("retag", 1), On("delete", 2)}
      [] OTHER  -> {On("task", 2), On("create", 3)}]
MCInitial == [p \in MCPath |-> CASE p = 1 -> {Body(1), Tag}
                                 [] p = 2 -> {Body(2), Tag, Link(1)}
                                 [] OTHER -> None]
=============================================================================
