--------------------------- MODULE PytestEvidence ---------------------------
(***************************************************************************)
(* What the pytest plugin says of one planned test.                        *)
(*                                                                         *)
(* The planned test function may be collected several times (parameters)   *)
(* and a project's own plugins may deselect, repeat or reorder it.  An     *)
(* invocation is a record: deselected, line (where the function pytest     *)
(* called begins) and reports, a sequence of [when, outcome, xfail].       *)
(***************************************************************************)
EXTENDS Naturals, Sequences, FiniteSets, SequencesExt

Phases == {"setup", "call", "teardown"}
Reports == [when : Phases, outcome : {"passed", "failed", "skipped"}, xfail : BOOLEAN]
Invocations == [deselected : BOOLEAN, line : Nat, reports : Seq(Reports)]
ReportsOf(reports, phase) == {i \in DOMAIN reports : reports[i].when = phase}

Classify_IgnoresRepeats(reports) ==
  IF \A r \in ToSet(reports) : r.outcome = "passed" /\ ~r.xfail
  THEN "passed" ELSE "failed"

(* _classify_reports, in the order of its returns.                         *)
Classify(reports) ==
  LET all == ToSet(reports)
      failed == {r \in all : r.outcome = "failed"} IN
  IF \E p \in Phases : Cardinality(ReportsOf(reports, p)) > 1 THEN "ambiguous"
  ELSE IF \E r \in all : r.xfail /\ r.outcome = "skipped" THEN "xfailed"
  ELSE IF \E r \in all : r.xfail THEN "xpassed"
  ELSE IF \E r \in all : r.outcome = "skipped" THEN "skipped"
  ELSE IF failed # {} THEN (IF \A r \in failed : r.when = "call" THEN "failed" ELSE "errored")
  ELSE IF {r.when : r \in all} # Phases THEN "ambiguous"
  ELSE "passed"

(* An identity is the line of the one function the plan means, or None: no *)
(* identity, no mismatch.                                                  *)
CONSTANT None

pytest_collection_finish(invocations) == {v \in invocations : ~v.deselected}
pytest_deselected(invocations) == {v \in invocations : v.deselected}

CategoryOf(v, identity) ==
  IF identity # None /\ v.line # identity THEN "ambiguous" ELSE Classify(v.reports)

(* _execution_status over the counts of pytest_sessionfinish: the first    *)
(* category, in this order, that any collected invocation has.             *)
Severity == <<"ambiguous", "errored", "failed", "xpassed", "xfailed", "skipped">>

ExecutionStatus(invocations, identity) ==
  LET collected == pytest_collection_finish(invocations)
      has == {CategoryOf(v, identity) : v \in collected}
      worst == SelectInSeq(Severity, LAMBDA c : c \in has) IN
  IF collected = {}
  THEN IF pytest_deselected(invocations) # {} THEN "deselected" ELSE "not_collected"
  ELSE IF worst # 0 THEN Severity[worst]
  ELSE IF pytest_deselected(invocations) # {} THEN "deselected" ELSE "passed"

(* What becomes of the receipt file: pytest may die before it writes it,   *)
(* or project code may leave something else in its place.                  *)
ReceiptFates == {"written", "receipt_missing", "receipt_invalid"}

(* read_test_execution_evidence *)
TestStatus(fate, invocations, identity) ==
  IF fate = "written" THEN ExecutionStatus(invocations, identity) ELSE fate

(* The function binds the imported name neither as an argument nor in its  *)
(* body, and loads it.                                                     *)
FunctionReference(definition) == ~definition.shadowed /\ definition.loaded

(* _planned_test_identity: one function of the planned name, in a module   *)
(* that imports the planned use case once and binds its name nowhere else. *)
PlannedTestIdentity(definition) ==
  IF /\ definition.functions = 1
     /\ definition.imports = 1
     /\ definition.bindings = 1
     /\ FunctionReference(definition)
  THEN definition.line ELSE None
=============================================================================
