----------------------------- MODULE ChangePlan -----------------------------
(***************************************************************************)
(* The change plan that a generator leaves beside a contract's use case    *)
(* and that verify holds the finished tree to.  A plan names its baseline, *)
(* its feature and its contract target (a feature and a symbol), carries   *)
(* the postconditions and is addressed by its content.                     *)
(***************************************************************************)
REQUIRED_CHANGE_PLAN_POSTCONDITIONS ==
  {"generated_files_exist", "incomplete_markers_removed", "contract_registered",
   "use_case_registered", "route_binds_contract", "route_binds_use_case",
   "test_imports_use_case", "test_executes"}

(* A digest without collisions: the canonical content itself.              *)
_plan_id(p) ==
  [baseline |-> p.baseline, feature |-> p.feature, target |-> p.target,
   postconditions |-> p.postconditions]

(* The contract belongs to the selected feature.                           *)
_validate_semantics(p) == p.target.feature = p.feature

create_contract_use_case_change_plan(baseline, feature, target) ==
  LET content == [baseline |-> baseline, feature |-> feature, target |-> target,
                  postconditions |-> REQUIRED_CHANGE_PLAN_POSTCONDITIONS] IN
  [baseline |-> baseline, feature |-> feature, target |-> target,
   postconditions |-> REQUIRED_CHANGE_PLAN_POSTCONDITIONS, plan_id |-> _plan_id(content)]

(* load_change_plan accepts a text exactly when it is what the generator   *)
(* writes for the text's own baseline and contract.                        *)
Accepts(p) ==
  /\ p = create_contract_use_case_change_plan(p.baseline, p.feature, p.target)
  /\ _validate_semantics(p)
=============================================================================
