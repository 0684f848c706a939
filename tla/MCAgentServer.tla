---------------------------- MODULE MCAgentServer ----------------------------
EXTENDS AgentServer, TLC

CONSTANTS inspect, again, preflight, evaluation_run, verify

Kinds == (inspect :> "inspection") @@ (again :> "inspection")
         @@ (preflight :> "inline") @@ (evaluation_run :> "inline") @@ (verify :> "validation")

(* Two inspections that may be cancelled, and a call that runs beside them *)
(* or after them; one call of each kind; and one inspection only.          *)
MCInspections     == {inspect, again, preflight}
MCInspectionsKind == [c \in MCInspections |-> Kinds[c]]
MCSymmetry        == Permutations({inspect, again})
MCEach            == {inspect, preflight, verify}
MCEachKind        == [c \in MCEach |-> Kinds[c]]
MCOne             == {inspect, preflight, evaluation_run}
MCOneKind         == [c \in MCOne |-> Kinds[c]]
=============================================================================
