---------------------- MODULE EvaluationCompatibility ----------------------
(***************************************************************************)
(* How two releases of an evaluation policy are compared, and what a       *)
(* policy decides of the results of a run.  A policy is                    *)
(*   [kind, cases, case_schema, metrics, timeout_seconds, max_tokens,      *)
(*    max_cost_usd]                                                        *)
(* with the cases as a sequence of names and the metrics as a function     *)
(* from names to thresholds, in percent.                                   *)
(***************************************************************************)
EXTENDS Integers, Sequences, FiniteSets

CONSTANT NoLimit    \* a budget the policy does not declare

ASSUME NoLimitAssumption == NoLimit \notin Int

Names(seq) == {seq[i] : i \in DOMAIN seq}

_compare_limit(before, after, stricter) ==
  IF before = after THEN {} ELSE IF stricter THEN {"additive"} ELSE {"breaking"}

(* A limit that is dropped, taken for one that was never there.            *)
_compare_optional_limit_Falsy(before, after) ==
  IF before = NoLimit \/ after = NoLimit THEN {} ELSE _compare_limit(before, after, after < before)

_compare_optional_limit(before, after) ==
  IF before = after THEN {}
  ELSE IF before = NoLimit THEN {"additive"}
  ELSE IF after = NoLimit THEN {"breaking"}
  ELSE _compare_limit(before, after, after < before)

(* Names that came and went, and the order of those that stayed.           *)
_compare_case_names(before, after) ==
  LET b == Names(before)
      a == Names(after)
      place(seq, name) == CHOOSE i \in DOMAIN seq : seq[i] = name IN
  {"additive" : name \in a \ b}
  \cup {"breaking" : name \in b \ a}
  \cup {"unknown" : pair \in {p \in (a \cap b) \X (a \cap b) :
                       /\ place(before, p[1]) < place(before, p[2])
                       /\ place(after, p[1]) > place(after, p[2])}}

_compare_metrics(before, after) ==
  {"additive" : name \in DOMAIN after \ DOMAIN before}
  \cup {"breaking" : name \in DOMAIN before \ DOMAIN after}
  \cup UNION {_compare_limit(before[name], after[name], after[name] > before[name]) :
                name \in DOMAIN before \cap DOMAIN after}

_compare_evaluation(before, after) ==
  (IF before.kind = after.kind THEN {} ELSE IF after.kind = "model" THEN {"breaking"} ELSE {"additive"})
  \cup _compare_case_names(before.cases, after.cases)
  \cup (IF before.case_schema = after.case_schema THEN {} ELSE {"unknown"})
  \cup _compare_metrics(before.metrics, after.metrics)
  \cup _compare_limit(before.timeout_seconds, after.timeout_seconds, after.timeout_seconds < before.timeout_seconds)
  \cup _compare_optional_limit(before.max_tokens, after.max_tokens)
  \cup _compare_optional_limit(before.max_cost_usd, after.max_cost_usd)

compatible(severities) == severities \cap {"breaking", "unknown"} = {}

-----------------------------------------------------------------------------
(* What a policy decides of a run's results: how long its slowest case     *)
(* took, what it spent, and the sum of each metric's scores over the cases.*)
WithinBudget(limit, consumed) == limit = NoLimit \/ consumed <= limit

Passes(policy, results) ==
  /\ results.slowest < policy.timeout_seconds
  /\ WithinBudget(policy.max_tokens, results.tokens)
  /\ WithinBudget(policy.max_cost_usd, results.cost)
  /\ \A name \in DOMAIN policy.metrics :
       results.total[name] >= policy.metrics[name] * Len(policy.cases)
=============================================================================
