-------------------------- MODULE MCTaskboardTasks --------------------------
(* A move and a creation, each sent twice; a patch of the version the move *)
(* expects, and another move that reuses the key of the first and expects  *)
(* the version that follows.                                               *)
EXTENDS TaskboardTasks, TLC

CONSTANTS k1, k2

MoveTask == [kind |-> "move", key |-> k1, expected |-> 1, value |-> "doing"]
Reused == [kind |-> "move", key |-> k1, expected |-> 2, value |-> "done"]
New == [kind |-> "create", key |-> k2, expected |-> 1, value |-> "new"]
Patch == [kind |-> "patch", key |-> None, expected |-> 1, value |-> "second"]

MCOps == {MoveTask, Reused, New, Patch}
MCSends == (MoveTask :> 2) @@ (Reused :> 1) @@ (New :> 2) @@ (Patch :> 1)
MCRule == [limit |-> 1, length |-> 2]
=============================================================================
