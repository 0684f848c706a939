---------------------------- MODULE Verification ----------------------------
(***************************************************************************)
(* tenchi verify: one receipt about one source tree.                       *)
(*                                                                         *)
(* verification_result captures the identity of the worktree, runs every   *)
(* stage the policy requires against the live files, captures the identity *)
(* again after each stage and, at the end, reads the policy and the change *)
(* plan once more.  Meanwhile an editor changes the files under it: a tree *)
(* is a tuple with the content of each Git-visible file, hashed one file   *)
(* at a time.  Facts says what the stages would find in each tree.         *)
(***************************************************************************)
EXTENDS PytestEvidence, VerificationPolicy, ChangePlan

CONSTANTS
  Trees,       \* tuples of file contents
  Committed,   \* the tree at HEAD: a file that differs from it is dirty
  Facts,       \* what a stage finds in each tree
  Baselines,   \* what --base may name
  Plans,       \* the change plans that may lie on disk, valid or not
  Commands,    \* run_check's commands, in order
  MaxEdits     \* a bound on the editor

(* What _verify_change_plan looks for in the files and the application map *)
Wiring == REQUIRED_CHANGE_PLAN_POSTCONDITIONS \ {"test_imports_use_case", "test_executes"}

ASSUME VerificationAssumption ==
  /\ Committed \in Trees
  /\ \A t \in Trees : t \in Seq({t[i] : i \in DOMAIN t}) /\ Len(t) = Len(Committed)
  /\ \A t \in Trees :
       /\ Facts[t].policy \in PolicyTexts /\ Facts[t].modules \subseteq OptionalStages
       /\ Facts[t].tests \subseteq Invocations
  /\ \A b \in Baselines : b.policy \in PolicyTexts /\ b.modules \subseteq OptionalStages
  /\ None \notin Trees \cup Comparisons \cup Plans \cup {"ok", "not ok", "cancelled", "passed"}
  /\ MaxEdits \in Nat

VARIABLES
  files, planFile,      \* what is on disk
  edits, past, undone,  \* the editor: its steps, what each file held, has a file gone back
  baseline, planned,    \* --base, and whether --change-plan was given
  at,                   \* the step verification_result is at
  capture,              \* the contents hashed so far, and the dirty files seen first
  local,                \* its local variables
  receipt               \* None, "ok", "not ok" or "cancelled"

world == <<files, planFile, edits, past, undone>>
asked == <<baseline, planned>>
vars == <<world, asked, at, capture, local, receipt>>

Stages == VERIFICATION_EVIDENCE_STAGES
NoEvidence == [ok |-> "none", read |-> {}]
Idle == [seen |-> <<>>, dirty |-> {}]
Fact == Facts[files]
Contents(tree) == {<<i, tree[i]>> : i \in DOMAIN tree}

Init ==
  /\ files \in Trees
  /\ planFile \in Plans
  /\ edits = 0 /\ past = Contents(files) /\ undone = FALSE
  /\ baseline \in Baselines
  /\ planned \in BOOLEAN
  /\ at = "baseline"
  /\ capture = Idle
  /\ local = [source |-> None, plan |-> None, identity |-> None, comparison |-> None,
              ready |-> FALSE, queue |-> <<>>, mapped |-> FALSE,
              evidence |-> [s \in Stages |-> NoEvidence],
              test |-> None, testRead |-> {}, planReport |-> "none",
              errors |-> {}, resume |-> "baseline"]
  /\ receipt = None

(***************************************************************************)
(* The editor.                                                             *)
(***************************************************************************)
Edit ==
  /\ edits < MaxEdits /\ receipt = None
  /\ \E i \in DOMAIN files, t \in Trees :
       /\ t[i] # files[i]
       /\ \A j \in DOMAIN files \ {i} : t[j] = files[j]
       /\ files' = t
       /\ undone' = (undone \/ <<i, t[i]>> \in past)
       /\ past' = past \cup {<<i, t[i]>>}
  /\ edits' = edits + 1
  /\ UNCHANGED <<planFile, asked, at, capture, local, receipt>>

EditPlan ==
  /\ edits < MaxEdits /\ planned /\ receipt = None
  /\ \E p \in Plans \ {planFile} : planFile' = p
  /\ edits' = edits + 1
  /\ UNCHANGED <<files, past, undone, asked, at, capture, local, receipt>>

(***************************************************************************)
(* source_identity, one file at a time; the status is read before the      *)
(* first file and again after the last.                                    *)
(***************************************************************************)
Dirty(tree) == {i \in DOMAIN tree : tree[i] # Committed[i]}
Captured == Len(capture.seen) = Len(files)
Torn == Dirty(files) # capture.dirty
Identity == [tree_digest |-> capture.seen, dirty |-> capture.dirty # {}]

HashFile ==
  /\ at \in {"capture", "verify"} /\ ~Captured
  /\ capture' = [seen |-> Append(capture.seen, files[Len(capture.seen) + 1]),
                 dirty |-> IF capture.seen = <<>> THEN Dirty(files) ELSE capture.dirty]
  /\ UNCHANGED <<world, asked, at, local, receipt>>

Error(stages) == [local EXCEPT !.errors = @ \cup stages]

FirstIdentity ==
  /\ at = "capture" /\ Captured
  /\ IF Torn
     THEN local' = Error({"source"}) /\ receipt' = "not ok" /\ at' = "end"
     ELSE local' = [local EXCEPT !.source = Identity] /\ at' = "plan" /\ UNCHANGED receipt
  /\ capture' = Idle
  /\ UNCHANGED <<world, asked>>

SourceErrors_TornOnly == IF Torn THEN {"source"} ELSE {}

SourceErrors == IF Torn \/ Identity # local.source THEN {"source"} ELSE {}

VerifySourceUnchanged ==
  /\ at = "verify" /\ Captured
  /\ local' = Error(SourceErrors)
  /\ at' = local.resume
  /\ capture' = Idle
  /\ UNCHANGED <<world, asked, receipt>>

(* The step that ends with verify_source_unchanged and goes on at next.    *)
ThenVerify(after, next) ==
  /\ local' = [after EXCEPT !.resume = next]
  /\ at' = "verify"
  /\ UNCHANGED <<world, asked, capture, receipt>>

Then(after, next) ==
  /\ local' = after
  /\ at' = next
  /\ UNCHANGED <<world, asked, capture, receipt>>

(***************************************************************************)
(* Before the stages.                                                      *)
(***************************************************************************)
Baseline ==
  /\ at = "baseline"
  /\ IF baseline.resolvable
     THEN at' = "capture" /\ UNCHANGED <<local, receipt>>
     ELSE at' = "end" /\ local' = Error({"baseline"}) /\ receipt' = "not ok"
  /\ UNCHANGED <<world, asked, capture>>

ReadPlan ==
  /\ at = "plan"
  /\ Then(IF ~planned THEN local
          ELSE IF Accepts(planFile)
          THEN [local EXCEPT !.plan = planFile,
                             !.identity = PlannedTestIdentity(Fact.definition)]
          ELSE Error({"change_plan"}), "policy")

(* verification_policy_comparison of the tree with the baseline.           *)
PolicyLoads == Loads(Fact.policy) /\ Loads(baseline.policy)
PolicyComparison ==
  [current |-> PolicyOf(Fact.policy, Fact.modules),
   historical |-> PolicyOf(baseline.policy, baseline.modules)]

ReadPolicy ==
  /\ at = "policy"
  /\ Then(IF PolicyLoads
          THEN [local EXCEPT
                 !.comparison = PolicyComparison,
                 !.errors = @ \cup undeclared_composed_stages(PolicyComparison, Fact.modules)]
          ELSE Error({"policy"}), "defaults")

(* While there is no comparison the fail-closed default policy applies.    *)
enforced(s) ==
  IF local.comparison = None
  THEN _default_policy(Fact.modules).requirement[s] = "required"
  ELSE Enforced(local.comparison, s)

OpenApiDefaults ==
  /\ at = "defaults"
  /\ LET wanted == {s \in {"check", "openapi"} : enforced(s)}
         refused == IF Fact.defaults THEN {} ELSE wanted IN
     Then([local EXCEPT !.ready = refused = {}, !.errors = @ \cup refused], "check")

(***************************************************************************)
(* The check stage and the planned test.                                   *)
(***************************************************************************)
(* A snapshot command is dropped when neither module nor snapshot exists.  *)
Configured(c) == c \in OptionalStages => c \in Fact.modules \cup Fact.snapshots

StartCheck ==
  /\ at = "check" /\ enforced("check") /\ local.ready
  /\ Then([local EXCEPT !.queue = SelectSeq(Commands, Configured),
                        !.evidence["check"].ok = "ok"], "commands")

SkipCheck ==
  /\ at = "check" /\ ~(enforced("check") /\ local.ready)
  /\ Then(local, "test")

(* One command: a subprocess that exits, or is stopped when it is late.    *)
Passes(c, late) == c \in Fact.ok /\ ~late

RunStep(late, fate) ==
  /\ at = "commands" /\ local.queue # <<>>
  /\ LET c == Head(local.queue)
         ran == [local EXCEPT
           !.queue = Tail(@),
           !.evidence["check"] = [ok |-> IF Passes(c, late) THEN @.ok ELSE "bad",
                                  read |-> @.read \cup {files}]] IN
     Then(IF c = "pytest" /\ local.plan # None
          THEN [ran EXCEPT !.test = TestStatus(fate, Fact.tests, local.identity),
                           !.testRead = {files}]
          ELSE ran, "commands")

EndCheck ==
  /\ at = "commands" /\ local.queue = <<>>
  /\ ThenVerify(local, "test")

(* With check disabled the planned test is run alone; a receipt that says  *)
(* passed when pytest itself failed is ambiguous.                          *)
RunTestExecution(late, fate) ==
  /\ at = "test" /\ local.plan # None /\ local.test = None
  /\ IF local.evidence["check"].ok # "none"
     THEN Then([local EXCEPT !.test = "receipt_missing"], "architecture")
     ELSE LET status == TestStatus(fate, Fact.tests, local.identity) IN
          ThenVerify([local EXCEPT
            !.test = IF status = "passed" /\ ~Passes("pytest", late) THEN "ambiguous" ELSE status,
            !.testRead = {files}], "architecture")

TestAlreadyRan ==
  /\ at = "test" /\ (local.plan = None \/ local.test # None)
  /\ Then(local, "architecture")

(***************************************************************************)
(* The application map and the change plan.                                *)
(***************************************************************************)
Verdict(s) == [ok |-> IF s \in Fact.ok THEN "ok" ELSE "bad", read |-> {files}]

Architecture ==
  /\ at = "architecture"
  /\ IF ~(enforced("architecture") \/ local.plan # None) THEN Then(local, "plan_checks")
     ELSE ThenVerify(
       IF "architecture" \in Fact.raises
       THEN Error((IF enforced("architecture") THEN {"architecture"} ELSE {})
                    \cup (IF local.plan # None THEN {"change_plan"} ELSE {}))
       ELSE [local EXCEPT !.mapped = TRUE,
                          !.evidence["architecture"] =
                             IF enforced("architecture") THEN Verdict("architecture") ELSE @],
       "plan_checks")

(* Every fixed postcondition of the plan must hold.                        *)
PlanChecksPass ==
  /\ local.plan.baseline = baseline.commit
  /\ Wiring \subseteq Fact.wiring
  /\ local.identity # None
  /\ local.test = "passed"

ChangePlanChecks ==
  /\ at = "plan_checks"
  /\ IF local.plan # None /\ local.mapped
     THEN ThenVerify([local EXCEPT !.planReport = IF PlanChecksPass THEN "ok" ELSE "bad"],
                     "openapi")
     ELSE Then(local, "openapi")

(***************************************************************************)
(* The historical comparisons, one boundary after the other.               *)
(***************************************************************************)
DiffStages == <<"openapi", "jobs", "tools", "evaluations", "final">>
AfterDiff(s) == DiffStages[CHOOSE i \in 2..5 : DiffStages[i - 1] = s]
Compared(s) == enforced(s) /\ (s = "openapi" => local.ready)

(* A snapshot missing from the baseline counts as empty, and everything is *)
(* compatible with it, if the caller allows it or the boundary's module is *)
(* new as well: a snapshot that was merely renamed still fails.            *)
AbsentAtBaseline == OptionalStages \ baseline.modules
MissingAllowed(s) == s \in baseline.allowed \cup AbsentAtBaseline
ReadsBaseline(s) == s \in baseline.snapshots \/ MissingAllowed(s)

DiffVerdict(s) ==
  IF s \in baseline.snapshots THEN Verdict(s) ELSE [ok |-> "ok", read |-> {files}]

DiffRaises(s) == s \in Fact.raises \/ ~ReadsBaseline(s)

Diff(s) ==
  /\ at = s
  /\ IF ~Compared(s) THEN Then(local, AfterDiff(s))
     ELSE ThenVerify(IF DiffRaises(s) THEN Error({s})
                     ELSE [local EXCEPT !.evidence[s] = DiffVerdict(s)], AfterDiff(s))

(***************************************************************************)
(* The policy and the plan once more, a last capture, and the receipt.     *)
(***************************************************************************)
PolicyMoved == local.comparison # None /\ PolicyComparison # local.comparison
PlanMoved == local.plan # None /\ planFile # local.plan

FinalChecks ==
  /\ at = "final"
  /\ LET moved == (IF ~PolicyLoads \/ PolicyMoved THEN {"policy"} ELSE {})
                    \cup (IF PlanMoved THEN {"change_plan"} ELSE {}) IN
     ThenVerify([local EXCEPT
       !.comparison = IF PolicyLoads THEN PolicyComparison ELSE None,
       !.errors = @ \cup moved], "receipt")

StageOutcomes == [s \in Stages |-> local.evidence[s].ok]

(* VerificationResult.ok; a receipt that reaches this point has a source.  *)
ReceiptOk ==
  /\ local.errors = {}
  /\ local.comparison # None
  /\ PolicyOk(local.comparison, StageOutcomes)
  /\ local.planReport # "bad"

Receipt ==
  /\ at = "receipt"
  /\ receipt' = IF ReceiptOk THEN "ok" ELSE "not ok"
  /\ at' = "end"
  /\ UNCHANGED <<world, asked, capture, local>>

(* Every checkpoint raises CheckCancelled once the caller has cancelled;   *)
(* past the last capture there is none.                                    *)
Cancel ==
  /\ at \notin {"baseline", "receipt", "end"}
  /\ receipt' = "cancelled" /\ at' = "end"
  /\ UNCHANGED <<world, asked, capture, local>>

Next ==
  \/ Edit \/ EditPlan
  \/ HashFile \/ FirstIdentity \/ VerifySourceUnchanged
  \/ Baseline \/ ReadPlan \/ ReadPolicy \/ OpenApiDefaults
  \/ StartCheck \/ SkipCheck \/ EndCheck \/ TestAlreadyRan
  \/ \E late \in BOOLEAN, fate \in ReceiptFates :
       RunStep(late, fate) \/ RunTestExecution(late, fate)
  \/ Architecture \/ ChangePlanChecks
  \/ \E s \in {"openapi", "jobs", "tools", "evaluations"} : Diff(s)
  \/ FinalChecks \/ Receipt \/ Cancel

Spec == Init /\ [][Next]_vars

-----------------------------------------------------------------------------
(* An ok receipt is evidence about one tree: unless the editor gave a file *)
(* back what it held before while verify ran, every stage and the planned  *)
(* test read exactly the tree whose digest the receipt holds, although     *)
(* each capture hashed its files one by one.                               *)
ReceiptIsOfOneTree ==
  receipt = "ok" /\ ~undone =>
    \A read \in {local.evidence[s].read : s \in Stages} \cup {local.testRead} :
      read \subseteq {local.source.tree_digest}

(* No edit of tenchi.toml or of the composition modules buys an ok receipt *)
(* with less evidence: what the baseline required is still required and    *)
(* passed, and a boundary that the identified tree composes passed too     *)
(* unless the tree's own policy declares it false.  What the baseline      *)
(* composed was compared with a snapshot of it, not with nothing.          *)
RequiredEvidencePassed ==
  receipt = "ok" =>
    /\ \A s \in Stages :
         PolicyOf(baseline.policy, baseline.modules).requirement[s] = "required" =>
           /\ local.evidence[s].ok = "ok"
           /\ ~undone /\ Facts[local.source.tree_digest].policy.present =>
                Facts[local.source.tree_digest].policy.declares[s] = "true"
    /\ ~undone =>
         \A s \in Facts[local.source.tree_digest].modules :
           \/ local.evidence[s].ok = "ok"
           \/ Facts[local.source.tree_digest].policy.declares[s] = "false"
    /\ \A s \in baseline.modules \ baseline.allowed :
         local.evidence[s].ok = "ok" => s \in baseline.snapshots

(* An ok receipt for a change plan means that the identified tree holds    *)
(* the planned function, and that pytest called that very function at      *)
(* least once, deselected none of its invocations, and saw one passed      *)
(* setup, call and teardown of each and nothing else.                      *)
CleanReports(reports) ==
  /\ Len(reports) = 3
  /\ \A p \in Phases : \E i \in 1..3 :
       reports[i] = [when |-> p, outcome |-> "passed", xfail |-> FALSE]

PlannedTestReallyRan ==
  receipt = "ok" /\ planned /\ ~undone =>
    LET fact == Facts[local.source.tree_digest] IN
    /\ Wiring \subseteq fact.wiring
    /\ fact.tests # {}
    /\ \A v \in fact.tests :
         ~v.deselected /\ v.line = fact.definition.line /\ CleanReports(v.reports)
=============================================================================
