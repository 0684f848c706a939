--------------------------- MODULE MCServedProcess ---------------------------
(* What a deployed process runs beside its routes.  The five share an      *)
(* event loop and nothing else, so that a behaviour here is one of them.   *)
EXTENDS Preflight, Health, ToolMcp, RateLimit, ClientRetry, TLC

CONSTANTS database, schema, disk, r1, r2, c1, c2, alice, bob, search, delete, loose, strict, other, broken

VARIABLE subject   \* "preflight" | "health" | "tools" | "limits" | "client"

MCTimeouts == (database :> 1) @@ (schema :> 3)
MCCredentials == (c1 :> alice) @@ (c2 :> bob)
(* A value under another spelling, one that is its own, and an invalid one. *)
MCNormal == (loose :> strict) @@ (other :> other) @@ (broken :> Invalid)

(* A window that is not a whole number of seconds, and a rule that         *)
(* replaces it.                                                            *)
MCRules == {[limit |-> 2, length |-> 3], [limit |-> 3, length |-> 2]}

(* Three retry policies that differ in what limits them, and a call        *)
(* without one.                                                            *)
MCTimed == [attempts |-> 3, base |-> 1, max |-> 3, jitter |-> 10, total |-> 4]
MCTight == [attempts |-> 2, base |-> 2, max |-> 2, jitter |-> 0, total |-> 2]
MCUntimed == [attempts |-> 3, base |-> 1, max |-> 2, jitter |-> 0, total |-> Nothing]
MCSingle == [attempts |-> 1, base |-> 0, max |-> 0, jitter |-> 0, total |-> Nothing]
MCRetryPolicies == {MCTimed, MCTight, MCUntimed, MCSingle}
MCWaits == {0, 1, 3}

(* Whichever is not the subject stays in one of its initial states.        *)
AtRest ==
  /\ subject # "tools" => ~hasApprover
  /\ subject # "limits" => store = "memory" /\ \A i \in Identities : rule[i].limit = 2
  /\ subject # "client" => policy = MCSingle

Init ==
  /\ PreflightInit /\ HealthInit /\ ToolInit /\ RateInit /\ ClientInit
  /\ subject \in {"preflight", "health", "tools", "limits", "client"}
  /\ AtRest

Next ==
  \/ subject = "preflight" /\ PreflightNext /\ UNCHANGED <<healthVars, toolVars, rateVars, clientVars, subject>>
  \/ subject = "health" /\ HealthNext /\ UNCHANGED <<preflightVars, toolVars, rateVars, clientVars, subject>>
  \/ subject = "tools" /\ ToolNext /\ UNCHANGED <<preflightVars, healthVars, rateVars, clientVars, subject>>
  \/ subject = "limits" /\ RateNext /\ UNCHANGED <<preflightVars, healthVars, toolVars, clientVars, subject>>
  \/ subject = "client" /\ ClientNext /\ UNCHANGED <<preflightVars, healthVars, toolVars, rateVars, subject>>

allVars == <<preflightVars, healthVars, toolVars, rateVars, clientVars, subject>>
(* asyncio's timers fire and its tasks are resumed; no check need end.     *)
Spec ==
  /\ Init /\ [][Next]_allVars
  /\ WF_allVars(/\ subject = "health" /\ HealthProgress
                /\ UNCHANGED <<preflightVars, toolVars, rateVars, clientVars, subject>>)
=============================================================================
