------------------------- MODULE VerificationPolicy -------------------------
(***************************************************************************)
(* tenchi.toml: which evidence a verification receipt must hold, and how   *)
(* the policy of a tree compares with the policy of its Git baseline.      *)
(*                                                                         *)
(* A policy text is a record: present (the file exists), readable (it      *)
(* parses: TOML, schema version 1, a [verify] table, known keys, Boolean   *)
(* values) and declares, what it says of each stage: "true", "false", or   *)
(* "omitted".                                                              *)
(***************************************************************************)
EXTENDS Sequences, FiniteSets

VERIFICATION_EVIDENCE_STAGES ==
  {"check", "architecture", "openapi", "jobs", "tools", "evaluations"}

(* The stages whose composition module may be missing.                     *)
OptionalStages == {"jobs", "tools", "evaluations"}

Declarations == {"true", "false", "omitted"}
Requirements == {"required", "disabled", "not_configured"}
PolicyTexts ==
  [present : BOOLEAN, readable : BOOLEAN,
   declares : [VERIFICATION_EVIDENCE_STAGES -> Declarations]]

VerificationPolicies ==
  [source : {"repository", "default"},
   requirement : [VERIFICATION_EVIDENCE_STAGES -> Requirements]]

(* unconfigured_stages: the optional stages whose default module is absent *)
(* among modules.                                                          *)
unconfigured_stages(modules) == OptionalStages \ modules

_default_policy(modules) ==
  [source |-> "default",
   requirement |-> [s \in VERIFICATION_EVIDENCE_STAGES |->
     IF s \in unconfigured_stages(modules) THEN "not_configured" ELSE "required"]]

RequirementOf(declaration) ==
  CASE declaration = "true" -> "required"
    [] declaration = "false" -> "disabled"
    [] OTHER -> "not_configured"

_parse_policy(text) ==
  [source |-> "repository",
   requirement |-> [s \in VERIFICATION_EVIDENCE_STAGES |->
     RequirementOf(text.declares[s])]]

(* A present text that does not parse is an OperationError, not a policy.  *)
Loads(text) == text.present => text.readable

PolicyOf(text, modules) ==
  IF text.present THEN _parse_policy(text) ELSE _default_policy(modules)

(* The severities of _compare_policies.  Removing the file is breaking     *)
(* even when the default asks for as much.                                 *)
FileChange(historical, current) ==
  CASE historical.source = "repository" /\ current.source = "default" -> {"breaking"}
    [] historical.source = "default" /\ current.source = "repository" -> {"metadata"}
    [] OTHER -> {}

StageChange(historical, current, s) ==
  LET before == historical.requirement[s]
      after == current.requirement[s] IN
  CASE before = after -> {}
    [] before = "required" /\ after # "required" -> {"breaking"}
    [] before # "required" /\ after = "required" -> {"strengthening"}
    [] OTHER -> {"metadata"}

_compare_policies(historical, current) ==
  FileChange(historical, current)
    \cup UNION {StageChange(historical, current, s) : s \in VERIFICATION_EVIDENCE_STAGES}

Comparisons == [current : VerificationPolicies, historical : VerificationPolicies]

compatible(comparison) ==
  "breaking" \notin _compare_policies(comparison.historical, comparison.current)

(* A historical requirement stays active while its weakening is reviewed.  *)
Enforced(comparison, s) ==
  \/ comparison.current.requirement[s] = "required"
  \/ comparison.historical.requirement[s] = "required"

undeclared_composed_stages_None(comparison, modules) ==
  IF comparison.current.source = "repository" THEN {}
  ELSE {s \in OptionalStages : comparison.current.requirement[s] = "not_configured"}
        \cap modules

(* The stages a repository policy omits although their module exists: each *)
(* is an error of the receipt.                                             *)
undeclared_composed_stages(comparison, modules) ==
  IF comparison.current.source # "repository" THEN {}
  ELSE {s \in OptionalStages \cap modules :
          comparison.current.requirement[s] = "not_configured"}

(* _policy_result: the status of a stage whose evidence is outcome ("none" *)
(* when the stage produced nothing).                                       *)
StageStatus(comparison, s, outcome) ==
  IF Enforced(comparison, s)
  THEN CASE outcome = "none" -> "not_verifiable"
         [] outcome = "ok" -> "passed"
         [] OTHER -> "failed"
  ELSE IF comparison.current.requirement[s] = "disabled" THEN "skipped" ELSE "not_configured"

PolicyOk(comparison, outcomes) ==
  /\ compatible(comparison)
  /\ \A s \in VERIFICATION_EVIDENCE_STAGES :
       StageStatus(comparison, s, outcomes[s]) \notin {"failed", "not_verifiable"}
=============================================================================
