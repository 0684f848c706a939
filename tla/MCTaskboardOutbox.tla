------------------------- MODULE MCTaskboardOutbox -------------------------
EXTENDS TaskboardOutbox, TLC

CONSTANTS r1, r2, r3, w1, w2, ann, bob

MCRequests == {r1, r2, r3}
MCWorkers == {w1, w2}
MCUsers == {ann, bob}

(* Two requests add bob: a client's retry, or two owners at once. *)
MCTarget == (r1 :> ann) @@ (r2 :> bob) @@ (r3 :> bob)

(* Every worker rejects the message about bob. *)
MCRejects == {w1, w2} \X {bob}

(* w1 runs an older release, to which that message is an unknown job. *)
MCMixedRejects == {<<w1, bob>>}
=============================================================================
