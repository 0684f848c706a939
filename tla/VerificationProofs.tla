-------------------------- MODULE VerificationProofs --------------------------
(***************************************************************************)
(* Proofs about Verification: any tree and any contents of its files, any  *)
(* baselines, plans, stages and tests, and an editor that edits at any     *)
(* time.                                                                   *)
(***************************************************************************)
EXTENDS Verification, FiniteSetTheorems, TLAPS

(*****************************************************************************)
(* The invariant.                                                            *)
(*****************************************************************************)
Fields == {"source", "plan", "identity", "comparison", "ready", "queue", "mapped", "evidence",
           "test", "testRead", "planReport", "errors", "resume"}

Steps == {"plan", "policy", "defaults", "check", "commands", "test", "architecture", "plan_checks",
          "openapi", "jobs", "tools", "evaluations", "final"}

(* Where verify is, or goes on once the source was verified. *)
Where == IF at = "verify" THEN local.resume ELSE at

BeforePlan == {"baseline", "capture", "plan"}
BeforePolicy == BeforePlan \cup {"policy"}
BeforeMap == BeforePolicy \cup {"defaults", "check", "commands", "test", "architecture"}
BeforeReport == BeforeMap \cup {"plan_checks"}

Cells == UNION {{t[i] : i \in DOMAIN t} : t \in Trees}
Lines == 1..Len(Committed)
Digest == local.source.tree_digest
Named == Facts[Digest]

LocalShape ==
  /\ DOMAIN local = Fields
  /\ DOMAIN local.evidence = Stages
  /\ \A s \in Stages : DOMAIN local.evidence[s] = {"ok", "read"}

VerificationTypeOK ==
  /\ files \in Trees /\ planFile \in Plans
  /\ Contents(files) \subseteq past
  /\ undone \in BOOLEAN
  /\ at \in Steps \cup {"baseline", "capture", "verify", "receipt", "end"}
  /\ at = "verify" => local.resume \in {"test", "architecture", "plan_checks", "openapi", "jobs",
                                        "tools", "evaluations", "final", "receipt"}
  /\ LocalShape
  /\ local.planReport \in {"none", "ok", "bad"}
  /\ DOMAIN capture = {"seen", "dirty"}
  /\ capture.seen \in Seq(Cells) /\ Len(capture.seen) <= Len(Committed)
  /\ baseline \in Baselines

(* A capture hashes what files held at some time.                          *)
CapturesArePast ==
  /\ at \in Steps \cup {"baseline", "receipt"} => capture.seen = <<>>
  /\ \A i \in 1..Len(capture.seen) : <<i, capture.seen[i]>> \in past

(* Until verify has an identity it has nothing else either.                *)
NothingYet ==
  at \in {"baseline", "capture"} =>
    /\ local.errors = {} /\ local.plan = None /\ local.test = None /\ local.comparison = None
    /\ local.planReport = "none" /\ local.testRead = {}
    /\ \A s \in Stages : local.evidence[s] = NoEvidence

Lost == receipt \in {"not ok", "cancelled"}

(* A file no longer holds what the digest says, and the capture that runs, *)
(* if any, has not missed it.                                              *)
Diverged ==
  \E i \in Lines :
    /\ files[i] # Digest[i]
    /\ i <= Len(capture.seen) => capture.seen[i] # Digest[i]

(* There will be no ok receipt.                                            *)
Spoiled ==
  \/ local.errors # {}
  \/ Lost
  \/ at \notin {"receipt", "end"} /\ Diverged

DigestIsPast ==
  at \notin {"baseline", "capture"} /\ ~Lost =>
    /\ Digest \in Seq(Cells) /\ Len(Digest) = Len(Committed)
    /\ \A i \in Lines : <<i, Digest[i]>> \in past

(* What verify learns from the files holds of the tree it names.           *)
ReadsTheTree ==
  \A s \in Stages : \A r \in local.evidence[s].read \cup local.testRead : Spoiled \/ r = Digest

KnowsPlan ==
  at \notin BeforePlan /\ planned =>
    Spoiled \/ /\ local.plan # None
               /\ local.identity = PlannedTestIdentity(Named.definition)

ThePolicies ==
  [current |-> PolicyOf(Named.policy, Named.modules),
   historical |-> PolicyOf(baseline.policy, baseline.modules)]

KnowsPolicy ==
  at \notin BeforePolicy =>
    Spoiled \/ /\ Digest \in Trees
               /\ local.comparison = ThePolicies
               /\ undeclared_composed_stages(ThePolicies, Named.modules) = {}

KnowsTest ==
  local.test = "passed" =>
    Spoiled \/ \E fate \in ReceiptFates : TestStatus(fate, Named.tests, local.identity) = "passed"

KnowsWiring ==
  local.planReport = "ok" => Spoiled \/ Wiring \subseteq Named.wiring

(* What does not depend on the files. *)
History ==
  local.comparison # None =>
    local.comparison.historical = PolicyOf(baseline.policy, baseline.modules)

Untested == at \in BeforePolicy => local.test = None

Baselined ==
  \A s \in OptionalStages : local.evidence[s].ok = "ok" => ReadsBaseline(s)

Reported ==
  /\ local.planReport # "none" => Where \notin BeforeReport
  /\ local.planReport = "ok" => local.identity # None /\ local.test = "passed"
  /\ local.plan # None /\ Where \notin BeforeMap => local.mapped \/ Lost \/ local.errors # {}
  /\ local.plan # None /\ Where \notin BeforeReport =>
       local.planReport # "none" \/ Lost \/ local.errors # {}

ReceiptFits ==
  /\ at # "end" => receipt = None
  /\ receipt = "ok" => ReceiptOk

Static ==
  /\ VerificationTypeOK /\ CapturesArePast /\ NothingYet /\ DigestIsPast
  /\ History /\ Untested /\ Baselined /\ Reported /\ ReceiptFits

Knows ==
  /\ ReadsTheTree /\ KnowsPlan /\ KnowsPolicy /\ KnowsTest /\ KnowsWiring

VerificationInv == Static /\ (~undone => Knows)

(*****************************************************************************)
(* Files and their contents.                                                 *)
(*****************************************************************************)
LEMMA TreesAreSequences ==
  ASSUME NEW t \in Trees
  PROVE  /\ t \in Seq(Cells) /\ Len(t) = Len(Committed) /\ DOMAIN t = Lines
         /\ Len(Committed) \in Nat
         /\ \A i \in Lines : t[i] \in Cells
<1>1. t \in Seq({t[i] : i \in DOMAIN t}) /\ Len(t) = Len(Committed)
  BY VerificationAssumption
<1>2. {t[i] : i \in DOMAIN t} \subseteq Cells
  BY DEF Cells
<1>3. DOMAIN t = 1..Len(t) /\ Len(t) \in Nat /\ \A i \in 1..Len(t) : t[i] \in {t[j] : j \in DOMAIN t}
  BY <1>1
<1>4. t \in Seq(Cells)
  <2>1. \A i \in 1..Len(t) : t[i] \in Cells
    BY <1>2, <1>3
  <2>2. t = [i \in 1..Len(t) |-> t[i]]
    BY <1>1
  <2>q. QED
    BY <2>1, <2>2, <1>3
<1>q. QED
  BY <1>1, <1>2, <1>3, <1>4 DEF Lines

(*****************************************************************************)
(* verify's own steps.                                                       *)
(*****************************************************************************)
Keeps(changed) == \A f \in Fields \ changed : local'[f] = local[f]

(* What every step between two captures does and leaves alone. *)
LocalStep ==
  /\ at \in Steps
  /\ at' \in Steps \cup {"verify"}
  /\ at' = "verify" => local'.resume \in {"test", "architecture", "plan_checks", "openapi", "jobs",
                                          "tools", "evaluations", "final", "receipt"}
  /\ at \notin BeforePlan \cup {"policy"} => at' \notin BeforePolicy
  /\ at' \notin BeforePlan
  /\ UNCHANGED <<world, asked, capture, receipt>>
  /\ LocalShape'
  /\ local'.source = local.source
  /\ local.errors \subseteq local'.errors
  /\ \A s \in Stages : local'.evidence[s].read \subseteq local.evidence[s].read \cup {files}
  /\ local'.testRead \subseteq local.testRead \cup {files}
  /\ \A s \in OptionalStages :
       local'.evidence[s].ok = "ok" => local.evidence[s].ok = "ok" \/ ReadsBaseline(s)

LEMMA ReadPlanSteps ==
  ASSUME LocalShape, ReadPlan
  PROVE  LocalStep /\ Keeps({"plan", "identity", "errors"}) /\ at = "plan" /\ at' = "policy"
  BY DEF ReadPlan, LocalShape, Keeps, Fields, Then, Error, LocalStep, Steps, BeforePlan, BeforePolicy,
         OptionalStages, Stages, VERIFICATION_EVIDENCE_STAGES

LEMMA ReadPolicySteps ==
  ASSUME LocalShape, ReadPolicy
  PROVE  LocalStep /\ Keeps({"comparison", "errors"}) /\ at = "policy" /\ at' = "defaults"
  BY DEF ReadPolicy, LocalShape, Keeps, Fields, Then, Error, LocalStep, Steps, BeforePlan, BeforePolicy,
         OptionalStages, Stages, VERIFICATION_EVIDENCE_STAGES

LEMMA DefaultsSteps ==
  ASSUME LocalShape, OpenApiDefaults
  PROVE  LocalStep /\ Keeps({"ready", "errors"}) /\ at = "defaults" /\ at' = "check"
  BY DEF OpenApiDefaults, LocalShape, Keeps, Fields, Then, Error, LocalStep, Steps, BeforePlan, BeforePolicy,
         OptionalStages, Stages, VERIFICATION_EVIDENCE_STAGES

LEMMA StartCheckSteps ==
  ASSUME LocalShape, StartCheck
  PROVE  LocalStep /\ Keeps({"queue", "evidence"}) /\ at = "check" /\ at' = "commands"
  BY DEF StartCheck, LocalShape, Keeps, Fields, Then, Error, LocalStep, Steps, BeforePlan, BeforePolicy,
         OptionalStages, Stages, VERIFICATION_EVIDENCE_STAGES

LEMMA SkipCheckSteps ==
  ASSUME LocalShape, SkipCheck
  PROVE  LocalStep /\ Keeps({}) /\ at = "check" /\ at' = "test"
  BY DEF SkipCheck, LocalShape, Keeps, Fields, Then, Error, LocalStep, Steps, BeforePlan, BeforePolicy,
         OptionalStages, Stages, VERIFICATION_EVIDENCE_STAGES

LEMMA RunStepSteps ==
  ASSUME LocalShape, NEW late, NEW fate, RunStep(late, fate)
  PROVE  LocalStep /\ Keeps({"queue", "evidence", "test", "testRead"}) /\ at = "commands" /\ at' = "commands"
  BY DEF RunStep, LocalShape, Keeps, Fields, Then, Error, LocalStep, Steps, BeforePlan, BeforePolicy,
         OptionalStages, Stages, VERIFICATION_EVIDENCE_STAGES

LEMMA EndCheckSteps ==
  ASSUME LocalShape, EndCheck
  PROVE  LocalStep /\ Keeps({"resume"}) /\ at = "commands" /\ at' = "verify" /\ local'.resume = "test"
  BY DEF EndCheck, LocalShape, Keeps, Fields, ThenVerify, Error, LocalStep, Steps, BeforePlan, BeforePolicy,
         OptionalStages, Stages, VERIFICATION_EVIDENCE_STAGES

LEMMA RunTestSteps ==
  ASSUME LocalShape, NEW late, NEW fate, RunTestExecution(late, fate)
  PROVE  LocalStep /\ Keeps({"resume", "test", "testRead"}) /\ at = "test" /\ Where' = "architecture"
  BY DEF RunTestExecution, LocalShape, Keeps, Fields, Then, ThenVerify, Error, LocalStep, Steps, BeforePlan,
         BeforePolicy, OptionalStages, Stages, VERIFICATION_EVIDENCE_STAGES, Where

LEMMA TestAlreadySteps ==
  ASSUME LocalShape, TestAlreadyRan
  PROVE  LocalStep /\ Keeps({}) /\ at = "test" /\ at' = "architecture"
  BY DEF TestAlreadyRan, LocalShape, Keeps, Fields, Then, Error, LocalStep, Steps, BeforePlan, BeforePolicy,
         OptionalStages, Stages, VERIFICATION_EVIDENCE_STAGES

LEMMA ArchitectureSteps ==
  ASSUME LocalShape, Architecture
  PROVE  /\ LocalStep
         /\ Keeps({"resume", "errors", "mapped", "evidence"})
         /\ at = "architecture" /\ Where' = "plan_checks"
         /\ local.plan # None => local'.mapped \/ local'.errors # {}
<1> DEFINE none == ~(enforced("architecture") \/ local.plan # None)
           raised == Error((IF enforced("architecture") THEN {"architecture"} ELSE {})
                             \cup (IF local.plan # None THEN {"change_plan"} ELSE {}))
           found == [local EXCEPT
                       !.mapped = TRUE,
                       !.evidence["architecture"] =
                          IF enforced("architecture") THEN Verdict("architecture") ELSE @]
<1>0. at = "architecture" /\ at \in Steps
  BY DEF Architecture, Steps
<1>1. CASE none
  <2>1. local' = local /\ at' = "plan_checks" /\ UNCHANGED <<world, asked, capture, receipt>>
    BY <1>1 DEF Architecture, Then
  <2>q. QED
    BY <2>1, <1>0, <1>1 DEF LocalShape, Keeps, Fields, LocalStep, Steps, BeforePlan, BeforePolicy, Where
<1>2. CASE ~none /\ "architecture" \in Fact.raises
  <2>1. /\ local' = [raised EXCEPT !.resume = "plan_checks"] /\ at' = "verify"
        /\ UNCHANGED <<world, asked, capture, receipt>>
    BY <1>2 DEF Architecture, ThenVerify
  <2>2. LocalShape' /\ Keeps({"resume", "errors"}) /\ local'.resume = "plan_checks"
        /\ local'.errors = local.errors \cup (IF enforced("architecture") THEN {"architecture"} ELSE {})
                             \cup (IF local.plan # None THEN {"change_plan"} ELSE {})
    BY <2>1 DEF Error, LocalShape, Keeps, Fields
  <2>3. /\ local.plan # None => local'.errors # {}
        /\ local.errors \subseteq local'.errors
    BY <2>2
  <2>4. /\ local'.source = local.source /\ local'.evidence = local.evidence
        /\ local'.testRead = local.testRead
    BY <2>2 DEF Keeps, Fields
  <2>5. LocalStep
    BY <2>1, <2>2, <2>3, <2>4, <1>0 DEF LocalStep, Steps, BeforePlan, BeforePolicy
  <2>6. Keeps({"resume", "errors", "mapped", "evidence"}) /\ Where' = "plan_checks"
    BY <2>1, <2>2 DEF Keeps, Where
  <2>q. QED
    BY <2>3, <2>5, <2>6, <1>0
<1>3. CASE ~none /\ "architecture" \notin Fact.raises
  <2>1. /\ local' = [found EXCEPT !.resume = "plan_checks"] /\ at' = "verify"
        /\ UNCHANGED <<world, asked, capture, receipt>>
    BY <1>3 DEF Architecture, ThenVerify
  <2>2. local'.mapped = TRUE
    BY <2>1 DEF LocalShape, Fields
  <2>3. LocalShape' /\ Keeps({"resume", "mapped", "evidence"}) /\ local'.resume = "plan_checks"
    BY <2>1 DEF LocalShape, Keeps, Fields, Verdict
  <2>4. /\ \A s \in Stages : local'.evidence[s].read \subseteq local.evidence[s].read \cup {files}
        /\ \A s \in OptionalStages : local'.evidence[s].ok = local.evidence[s].ok
    BY <2>1 DEF LocalShape, Fields, Verdict, OptionalStages, Stages, VERIFICATION_EVIDENCE_STAGES
  <2>5. /\ local'.source = local.source /\ local'.errors = local.errors
        /\ local'.testRead = local.testRead
    BY <2>3 DEF Keeps, Fields
  <2>6. LocalStep
    BY <2>1, <2>3, <2>4, <2>5, <1>0 DEF LocalStep, Steps, BeforePlan, BeforePolicy
  <2>7. Keeps({"resume", "errors", "mapped", "evidence"}) /\ Where' = "plan_checks"
    BY <2>1, <2>3 DEF Keeps, Where
  <2>q. QED
    BY <2>2, <2>6, <2>7, <1>0
<1>q. QED
  BY <1>1, <1>2, <1>3

LEMMA PlanChecksSteps ==
  ASSUME LocalShape, ChangePlanChecks
  PROVE  LocalStep /\ Keeps({"resume", "planReport"}) /\ at = "plan_checks" /\ Where' = "openapi"
         /\ local'.planReport \in {local.planReport, "ok", "bad"}
  BY DEF ChangePlanChecks, LocalShape, Keeps, Fields, Then, ThenVerify, Error, LocalStep, Steps, BeforePlan,
         BeforePolicy, OptionalStages, Stages, VERIFICATION_EVIDENCE_STAGES, Where

LEMMA PlanChecksReport ==
  ASSUME LocalShape, ChangePlanChecks
  PROVE  /\ local.plan # None /\ local.mapped =>
              IF PlanChecksPass THEN local'.planReport = "ok" ELSE local'.planReport = "bad"
         /\ ~(local.plan # None /\ local.mapped) => local'.planReport = local.planReport
<1>1. CASE local.plan # None /\ local.mapped
  <2> DEFINE report == IF PlanChecksPass THEN "ok" ELSE "bad"
  <2>1. ThenVerify([local EXCEPT !.planReport = report], "openapi")
    BY <1>1 DEF ChangePlanChecks
  <2> HIDE DEF report
  <2>2. local'.planReport = report
    BY <2>1 DEF ThenVerify, LocalShape, Fields
  <2>q. QED
    BY <1>1, <2>2 DEF report
<1>2. CASE ~(local.plan # None /\ local.mapped)
  BY <1>2 DEF ChangePlanChecks, Then
<1>q. QED
  BY <1>1, <1>2

LEMMA DiffSteps ==
  ASSUME LocalShape, NEW s \in {"openapi", "jobs", "tools", "evaluations"}, Diff(s)
  PROVE  LocalStep /\ Keeps({"resume", "errors", "evidence"})
         /\ at = s /\ Where' \in {"jobs", "tools", "evaluations", "final"}
<1>1. AfterDiff(s) \in {"jobs", "tools", "evaluations", "final"}
  <2>1. \E i \in 2..5 : DiffStages[i - 1] = s
    <3>1. DiffStages[2 - 1] = "openapi" /\ DiffStages[3 - 1] = "jobs"
          /\ DiffStages[4 - 1] = "tools" /\ DiffStages[5 - 1] = "evaluations"
      BY DEF DiffStages
    <3>q. QED
      BY <3>1
  <2>2. PICK i \in 2..5 : i = (CHOOSE j \in 2..5 : DiffStages[j - 1] = s)
    BY <2>1
  <2>3. DiffStages[i] \in {"jobs", "tools", "evaluations", "final"}
    BY DEF DiffStages
  <2>q. QED
    BY <2>2, <2>3 DEF AfterDiff
<1>2. at = s /\ at \in Steps
  BY DEF Diff, Steps
<1>q. QED
  BY <1>1, <1>2 DEF Diff, LocalShape, Keeps, Fields, Then, ThenVerify, Error, Verdict, DiffVerdict, DiffRaises,
         LocalStep, Steps, BeforePlan, BeforePolicy, OptionalStages, Stages, VERIFICATION_EVIDENCE_STAGES, Where

LEMMA FinalSteps ==
  ASSUME LocalShape, FinalChecks
  PROVE  LocalStep /\ Keeps({"resume", "errors", "comparison"})
         /\ at = "final" /\ at' = "verify" /\ local'.resume = "receipt"
  BY DEF FinalChecks, LocalShape, Keeps, Fields, Then, ThenVerify, Error, LocalStep, Steps, BeforePlan,
         BeforePolicy, OptionalStages, Stages, VERIFICATION_EVIDENCE_STAGES, Where
(* What every other step after the first identity does. *)
QuietStep ==
  /\ Keeps({"errors"}) /\ LocalShape'
  /\ local.errors \subseteq local'.errors
  /\ UNCHANGED asked
  /\ at' \in {at, Where, "end"}
  /\ at' # at => at = "verify" \/ at = "receipt" \/ Lost'
  /\ at' = "end" => at = "end" \/ Lost' \/ at = "receipt"

LEMMA SameLocal ==
  ASSUME LocalShape, local' = local
  PROVE  Keeps({}) /\ Keeps({"errors"}) /\ LocalShape' /\ local.errors \subseteq local'.errors
  BY DEF Keeps, LocalShape

LEMMA VerifySteps ==
  ASSUME LocalShape, VerifySourceUnchanged
  PROVE  /\ Keeps({"errors"}) /\ LocalShape'
         /\ local'.errors = local.errors \cup SourceErrors
         /\ at = "verify" /\ at' = local.resume
         /\ UNCHANGED <<world, asked, receipt>>
  BY DEF VerifySourceUnchanged, Error, LocalShape, Keeps, Fields

LEMMA QuietSteps ==
  ASSUME VerificationTypeOK, at \notin {"baseline", "capture"},
         \/ Edit \/ EditPlan \/ HashFile \/ VerifySourceUnchanged \/ Receipt \/ Cancel \/ UNCHANGED vars
  PROVE  QuietStep
<1>0. LocalShape
  BY DEF VerificationTypeOK
<1>1. CASE Edit \/ EditPlan \/ HashFile \/ UNCHANGED vars
  <2>1. local' = local /\ at' = at /\ UNCHANGED asked
    BY <1>1 DEF Edit, EditPlan, HashFile, vars
  <2>q. QED
    BY <1>0, <2>1, SameLocal DEF QuietStep
<1>2. CASE VerifySourceUnchanged
  <2>1. /\ Keeps({"errors"}) /\ LocalShape' /\ local.errors \subseteq local'.errors
        /\ at = "verify" /\ at' = local.resume /\ UNCHANGED asked
    BY <1>0, <1>2, VerifySteps
  <2>2. at' # "end"
    BY <2>1 DEF VerificationTypeOK
  <2>q. QED
    BY <2>1, <2>2 DEF QuietStep, Where
<1>3. CASE Receipt
  <2>1. local' = local /\ at' = "end" /\ at = "receipt" /\ UNCHANGED asked
    BY <1>3 DEF Receipt
  <2>q. QED
    BY <1>0, <2>1, SameLocal DEF QuietStep
<1>4. CASE Cancel
  <2>1. local' = local /\ at' = "end" /\ receipt' = "cancelled" /\ UNCHANGED asked
    BY <1>4 DEF Cancel
  <2>q. QED
    BY <1>0, <2>1, SameLocal DEF QuietStep, Lost
<1>q. QED
  BY <1>1, <1>2, <1>3, <1>4

(* Every step is one of these. *)
LEMMA EveryStep ==
  ASSUME LocalShape, [Next]_vars
  PROVE  \/ LocalStep \/ Baseline \/ FirstIdentity
         \/ Edit \/ EditPlan \/ HashFile \/ VerifySourceUnchanged \/ Receipt \/ Cancel \/ UNCHANGED vars
  BY ReadPlanSteps, ReadPolicySteps, DefaultsSteps, StartCheckSteps, SkipCheckSteps, RunStepSteps,
     EndCheckSteps, RunTestSteps, TestAlreadySteps, ArchitectureSteps, PlanChecksSteps, DiffSteps,
     FinalSteps DEF Next

(* A file that moved away from the digest is gone for good, and the next   *)
(* capture says so.                                                        *)
LEMMA SpoiledStays ==
  ASSUME Static, [Next]_vars, ~undone', at \notin {"baseline", "capture"}, Spoiled
  PROVE  Spoiled'
<1>1. LocalShape /\ files \in Trees /\ undone \in BOOLEAN
  BY DEF Static, VerificationTypeOK
<1>2. CASE LocalStep
  <2>1. /\ local.errors \subseteq local'.errors /\ local'.source = local.source
        /\ files' = files /\ capture' = capture /\ receipt' = receipt
        /\ at' \notin {"receipt", "end"}
    BY <1>2 DEF LocalStep, Steps, world, asked
  <2>q. QED
    BY <2>1 DEF Spoiled, Lost, Diverged, Digest
<1>3. CASE Baseline \/ FirstIdentity
  BY <1>3 DEF Baseline, FirstIdentity
<1>4. CASE Edit
  <2>1. /\ UNCHANGED <<at, capture, local, receipt>>
        /\ receipt = None
    BY <1>4 DEF Edit
  <2>2. SUFFICES ASSUME at \notin {"receipt", "end"}, Diverged, ~Lost
                 PROVE  Diverged'
    BY <2>1 DEF Spoiled, Lost
  <2>3. PICK i \in Lines : files[i] # Digest[i] /\ (i <= Len(capture.seen) => capture.seen[i] # Digest[i])
    BY <2>2 DEF Diverged
  <2>4. <<i, Digest[i]>> \in past
    BY <2>2 DEF Static, DigestIsPast
  <2>5. files'[i] # Digest[i]
    <3>1. PICK j \in DOMAIN files, t \in Trees :
            /\ \A k \in DOMAIN files \ {j} : t[k] = files[k]
            /\ files' = t
            /\ undone' = (undone \/ <<j, t[j]>> \in past)
      BY <1>4 DEF Edit
    <3>2. <<j, t[j]>> \notin past
      BY <3>1
    <3>3. i \in DOMAIN files
      BY <1>1, TreesAreSequences
    <3>q. QED
      BY <2>3, <2>4, <3>1, <3>2, <3>3
  <2>q. QED
    BY <2>1, <2>3, <2>5 DEF Diverged, Digest
<1>5. CASE EditPlan \/ UNCHANGED vars
  <2>1. UNCHANGED <<files, at, capture, local, receipt>>
    BY <1>5 DEF EditPlan, vars, world
  <2>q. QED
    BY <2>1 DEF Spoiled, Lost, Diverged, Digest
<1>6. CASE HashFile
  <2>1. /\ UNCHANGED <<files, at, local, receipt>> /\ at = "verify"
        /\ capture'.seen = Append(capture.seen, files[Len(capture.seen) + 1])
    BY <1>6 DEF HashFile, world
  <2>2. SUFFICES ASSUME Diverged
                 PROVE  Diverged'
    BY <2>1 DEF Spoiled, Lost
  <2>3. PICK i \in Lines : files[i] # Digest[i] /\ (i <= Len(capture.seen) => capture.seen[i] # Digest[i])
    BY <2>2 DEF Diverged
  <2>4. capture.seen \in Seq(Cells) /\ Len(Committed) \in Nat /\ Len(files) = Len(Committed)
    BY <1>1, TreesAreSequences DEF Static, VerificationTypeOK
  <2>5. Len(capture.seen) \in Nat /\ Len(capture'.seen) = Len(capture.seen) + 1
        /\ i \in Nat /\ i >= 1
    BY <2>1, <2>4 DEF Lines
  <2>6. i <= Len(capture'.seen) => capture'.seen[i] # Digest[i]
    <3>1. CASE i <= Len(capture.seen)
      BY <3>1, <2>1, <2>3, <2>4, <2>5
    <3>2. CASE i = Len(capture.seen) + 1
      BY <3>2, <2>1, <2>3, <2>4, <2>5
    <3>q. QED
      BY <3>1, <3>2, <2>5
  <2>q. QED
    BY <2>1, <2>3, <2>6 DEF Diverged, Digest
<1>7. CASE VerifySourceUnchanged
  <2>1. /\ local'.errors = local.errors \cup SourceErrors
        /\ receipt' = receipt /\ at = "verify" /\ Captured
    BY <1>7, <1>1, VerifySteps DEF VerifySourceUnchanged
  <2>2. SUFFICES ASSUME Diverged
                 PROVE  SourceErrors # {}
    BY <2>1 DEF Spoiled, Lost
  <2>3. PICK i \in Lines : files[i] # Digest[i] /\ (i <= Len(capture.seen) => capture.seen[i] # Digest[i])
    BY <2>2 DEF Diverged
  <2>4. i <= Len(capture.seen)
    BY <2>1, <1>1, TreesAreSequences DEF Captured, Lines
  <2>5. Identity # local.source
    <3>1. Identity.tree_digest = capture.seen
      BY DEF Identity
    <3>q. QED
      BY <3>1, <2>3, <2>4 DEF Digest
  <2>q. QED
    BY <2>5 DEF SourceErrors
<1>8. CASE Receipt
  <2>1. at = "receipt" /\ local' = local /\ receipt' = IF ReceiptOk THEN "ok" ELSE "not ok"
    BY <1>8 DEF Receipt
  <2>2. local.errors # {} \/ Lost
    BY <2>1 DEF Spoiled
  <2>3. ~Lost
    BY <2>1, VerificationAssumption DEF Static, ReceiptFits, Lost
  <2>q. QED
    BY <2>1, <2>2, <2>3 DEF Spoiled, Lost, ReceiptOk
<1>9. CASE Cancel
  BY <1>9 DEF Cancel, Spoiled, Lost
<1>q. QED
  BY <1>1, <1>2, <1>3, <1>4, <1>5, <1>6, <1>7, <1>8, <1>9, EveryStep

(* A step that reads the files reads the tree that the digest names.       *)
LEMMA ReadsTheDigest ==
  ASSUME Static, at \in Steps
  PROVE  Spoiled \/ files = Digest
<1> SUFFICES ASSUME ~Spoiled PROVE files = Digest
  OBVIOUS
<1>1. at \notin {"baseline", "capture", "receipt", "end"} /\ ~Lost /\ ~Diverged
  BY DEF Spoiled, Steps
<1>2. Digest \in Seq(Cells) /\ Len(Digest) = Len(Committed)
  BY <1>1 DEF Static, DigestIsPast
<1>3. files \in Trees /\ capture.seen = <<>>
  BY DEF Static, VerificationTypeOK, CapturesArePast
<1>4. files \in Seq(Cells) /\ Len(files) = Len(Committed) /\ Len(Committed) \in Nat
  BY <1>3, TreesAreSequences
<1>5. \A i \in Lines : files[i] = Digest[i]
  <2>1. \A i \in Lines : ~(i <= Len(capture.seen))
    BY <1>3, <1>4 DEF Lines
  <2>q. QED
    BY <2>1, <1>1 DEF Diverged
<1>q. QED
  BY <1>2, <1>4, <1>5 DEF Lines
LEMMA EarlySteps ==
  ASSUME LocalShape, Baseline \/ FirstIdentity
  PROVE  /\ Keeps({"source", "errors"}) /\ LocalShape' /\ UNCHANGED <<world, asked>>
         /\ at' \in {"capture", "plan"} \/ (at' = "end" /\ receipt' = "not ok")
<1>1. CASE Baseline
  <2>1. local' = local \/ local' = Error({"baseline"})
    BY <1>1 DEF Baseline
  <2>2. Keeps({"source", "errors"}) /\ LocalShape'
    BY <2>1 DEF Error, LocalShape, Keeps, Fields
  <2>q. QED
    BY <1>1, <2>2 DEF Baseline
<1>2. CASE FirstIdentity
  <2>1. local' = Error({"source"}) \/ local' = [local EXCEPT !.source = Identity]
    BY <1>2 DEF FirstIdentity
  <2>2. Keeps({"source", "errors"}) /\ LocalShape'
    BY <2>1 DEF Error, LocalShape, Keeps, Fields
  <2>q. QED
    BY <1>2, <2>2 DEF FirstIdentity
<1>q. QED
  BY <1>1, <1>2

(* Which step writes which local variable. *)
LEMMA Writers ==
  ASSUME VerificationTypeOK, [Next]_vars
  PROVE  /\ ReadPlan \/ (local'.plan = local.plan /\ local'.identity = local.identity)
         /\ ReadPolicy \/ FinalChecks \/ local'.comparison = local.comparison
         /\ \/ \E late \in BOOLEAN, fate \in ReceiptFates : RunStep(late, fate) \/ RunTestExecution(late, fate)
            \/ local'.test = local.test
         /\ Architecture \/ local'.mapped = local.mapped
         /\ ChangePlanChecks \/ local'.planReport = local.planReport
<1> USE DEF Keeps, Fields
<1>0. LocalShape
  BY DEF VerificationTypeOK
<1>1. CASE ReadPlan
  BY <1>0, <1>1, ReadPlanSteps
<1>2. CASE ReadPolicy
  BY <1>0, <1>2, ReadPolicySteps
<1>3. CASE OpenApiDefaults
  BY <1>0, <1>3, DefaultsSteps
<1>4. CASE StartCheck
  BY <1>0, <1>4, StartCheckSteps
<1>5. CASE SkipCheck
  BY <1>0, <1>5, SkipCheckSteps
<1>6. ASSUME NEW late \in BOOLEAN, NEW fate \in ReceiptFates, RunStep(late, fate)
      PROVE  /\ local'.plan = local.plan /\ local'.identity = local.identity
             /\ local'.comparison = local.comparison
             /\ local'.mapped = local.mapped /\ local'.planReport = local.planReport
  BY <1>0, <1>6, RunStepSteps
<1>7. CASE EndCheck
  BY <1>0, <1>7, EndCheckSteps
<1>8. ASSUME NEW late \in BOOLEAN, NEW fate \in ReceiptFates, RunTestExecution(late, fate)
      PROVE  /\ local'.plan = local.plan /\ local'.identity = local.identity
             /\ local'.comparison = local.comparison
             /\ local'.mapped = local.mapped /\ local'.planReport = local.planReport
  BY <1>0, <1>8, RunTestSteps
<1>9. CASE TestAlreadyRan
  BY <1>0, <1>9, TestAlreadySteps
<1>10. CASE Architecture
  BY <1>0, <1>10, ArchitectureSteps
<1>11. CASE ChangePlanChecks
  BY <1>0, <1>11, PlanChecksSteps
<1>12. ASSUME NEW s \in {"openapi", "jobs", "tools", "evaluations"}, Diff(s)
       PROVE  /\ local'.plan = local.plan /\ local'.identity = local.identity
              /\ local'.comparison = local.comparison /\ local'.test = local.test
              /\ local'.mapped = local.mapped /\ local'.planReport = local.planReport
  BY <1>0, <1>12, DiffSteps
<1>13. CASE FinalChecks
  BY <1>0, <1>13, FinalSteps
<1>14. CASE Baseline \/ FirstIdentity
  BY <1>0, <1>14, EarlySteps
<1>15. CASE Edit \/ EditPlan \/ HashFile \/ Receipt \/ Cancel \/ UNCHANGED vars
  BY <1>15 DEF Edit, EditPlan, HashFile, Receipt, Cancel, vars
<1>16. CASE VerifySourceUnchanged
  BY <1>0, <1>16, VerifySteps
<1>q. QED
  BY <1>1, <1>2, <1>3, <1>4, <1>5, <1>6, <1>7, <1>8, <1>9, <1>10, <1>11, <1>12, <1>13, <1>14, <1>15, <1>16
     DEF Next

(* verify leaves these steps by the action that does them, or cancelled.   *)
LEMMA Sequence ==
  ASSUME VerificationTypeOK, [Next]_vars
  PROVE  /\ at = "plan" => ReadPlan \/ at' = at \/ Lost'
         /\ at = "policy" => ReadPolicy \/ at' = at \/ Lost'
         /\ at = "architecture" => Architecture \/ at' = at \/ Lost'
         /\ at = "plan_checks" => ChangePlanChecks \/ at' = at \/ Lost'
<1>0. LocalShape
  BY DEF VerificationTypeOK
<1>1. CASE Edit \/ EditPlan \/ HashFile \/ UNCHANGED vars
  BY <1>1 DEF Edit, EditPlan, HashFile, vars
<1>2. CASE Baseline \/ FirstIdentity \/ VerifySourceUnchanged \/ Receipt
  BY <1>2 DEF Baseline, FirstIdentity, VerifySourceUnchanged, Receipt
<1>3. CASE Cancel
  BY <1>3 DEF Cancel, Lost
<1>q. QED
  BY <1>0, <1>1, <1>2, <1>3, ReadPlanSteps, ReadPolicySteps, DefaultsSteps, StartCheckSteps, SkipCheckSteps,
     RunStepSteps, EndCheckSteps, RunTestSteps, TestAlreadySteps, ArchitectureSteps, PlanChecksSteps,
     DiffSteps, FinalSteps DEF Next

(* Policies of trees and baselines are policies. *)
LEMMA PoliciesArePolicies ==
  ASSUME NEW text \in PolicyTexts, NEW modules
  PROVE  /\ PolicyOf(text, modules) \in VerificationPolicies
         /\ text.present => PolicyOf(text, modules) = _parse_policy(text)
         /\ ~text.present => PolicyOf(text, modules) = _default_policy(modules)
<1>1. text.declares \in [VERIFICATION_EVIDENCE_STAGES -> Declarations] /\ text.present \in BOOLEAN
  BY DEF PolicyTexts
<1>2. \A d \in Declarations : RequirementOf(d) \in Requirements
  BY DEF Declarations, Requirements, RequirementOf
<1>3. _parse_policy(text) \in VerificationPolicies
  BY <1>1, <1>2 DEF _parse_policy, VerificationPolicies
<1>4. _default_policy(modules) \in VerificationPolicies
  BY DEF _default_policy, VerificationPolicies, Requirements
<1>q. QED
  BY <1>1, <1>3, <1>4 DEF PolicyOf

LEMMA ComparisonsCompare ==
  ASSUME files \in Trees, baseline \in Baselines
  PROVE  /\ PolicyComparison \in Comparisons /\ PolicyComparison # None
         /\ PolicyComparison.historical = PolicyOf(baseline.policy, baseline.modules)
<1>1. Fact.policy \in PolicyTexts /\ baseline.policy \in PolicyTexts
  BY VerificationAssumption DEF Fact
<1>2. PolicyComparison \in Comparisons
  BY <1>1, PoliciesArePolicies DEF PolicyComparison, Comparisons
<1>q. QED
  BY <1>2, VerificationAssumption DEF PolicyComparison

(*****************************************************************************)
(* What verify knows stays true of the tree its receipt names.               *)
(*****************************************************************************)
LEMMA KnowsInductive ==
  ASSUME Static, ~undone => Knows, [Next]_vars, ~undone'
  PROVE  Knows'
<1>1. VerificationTypeOK /\ LocalShape /\ undone \in BOOLEAN
  BY DEF Static, VerificationTypeOK
<1>2. ~undone
  <2>1. CASE Edit
    BY <2>1, <1>1 DEF Edit
  <2>2. CASE UNCHANGED undone
    BY <2>2
  <2>q. QED
    BY <2>1, <2>2, <1>1, EveryStep, EarlySteps, VerifySteps
       DEF LocalStep, world, EditPlan, HashFile, Receipt, Cancel, vars
<1>3. Knows
  BY <1>2
<1>4. CASE at \in {"baseline", "capture"}
  <2>1. /\ Keeps({"source", "errors"}) /\ UNCHANGED asked
        /\ at' \in BeforePlan \/ Lost'
    <3>1. CASE Baseline \/ FirstIdentity
      BY <3>1, <1>1, EarlySteps DEF BeforePlan, Lost
    <3>2. CASE Edit \/ EditPlan \/ HashFile \/ Cancel \/ UNCHANGED vars
      BY <3>2, <1>4 DEF Edit, EditPlan, HashFile, Cancel, vars, Keeps, BeforePlan, Lost
    <3>q. QED
      BY <3>1, <3>2, <1>1, <1>4, EveryStep DEF LocalStep, Steps, VerifySourceUnchanged, Receipt
  <2>2. /\ local'.testRead = {} /\ local'.test # "passed"
        /\ local'.planReport = "none" /\ \A s \in Stages : local'.evidence[s].read = {}
    <3>1. /\ local'.evidence = local.evidence /\ local'.testRead = local.testRead
          /\ local'.test = local.test /\ local'.planReport = local.planReport
      BY <2>1 DEF Keeps, Fields
    <3>2. /\ local.testRead = {} /\ local.test = None /\ local.planReport = "none"
          /\ \A s \in Stages : local.evidence[s].read = {}
      BY <1>4 DEF Static, NothingYet, NoEvidence
    <3>3. None # "passed"
      BY VerificationAssumption
    <3>q. QED
      BY <3>1, <3>2, <3>3
  <2>3. at' \notin BeforePlan => Spoiled'
    BY <2>1 DEF Spoiled
  <2>q. QED
    BY <2>2, <2>3 DEF Knows, ReadsTheTree, KnowsPlan, KnowsPolicy, KnowsTest, KnowsWiring, BeforePolicy
<1>5. CASE at \notin {"baseline", "capture"}
  <2>1. Spoiled => Spoiled'
    BY <1>5, SpoiledStays
  <2>2. /\ UNCHANGED asked /\ Digest' = Digest /\ Named' = Named /\ ThePolicies' = ThePolicies
    <3>1. local'.source = local.source /\ UNCHANGED asked
      <4>1. CASE LocalStep
        BY <4>1 DEF LocalStep
      <4>2. CASE QuietStep
        BY <4>2 DEF QuietStep, Keeps, Fields
      <4>q. QED
        BY <4>1, <4>2, <1>1, <1>5, EveryStep, QuietSteps DEF Baseline, FirstIdentity
    <3>q. QED
      BY <3>1 DEF Digest, Named, ThePolicies, asked
  <2>3. ReadsTheTree'
    <3>1. CASE LocalStep
      <4>1. Spoiled' \/ files = Digest
        BY <3>1, <2>1, ReadsTheDigest DEF LocalStep
      <4>2. ASSUME NEW s \in Stages, NEW r \in local'.evidence[s].read \cup local'.testRead
            PROVE  Spoiled' \/ r = Digest
        BY <3>1, <4>1, <4>2, <1>3, <2>1 DEF LocalStep, Knows, ReadsTheTree
      <4>q. QED
        BY <4>2, <2>2 DEF ReadsTheTree
    <3>2. CASE QuietStep
      BY <3>2, <1>3, <2>1, <2>2 DEF QuietStep, Keeps, Fields, Knows, ReadsTheTree
    <3>q. QED
      BY <3>1, <3>2, <1>1, <1>5, EveryStep, QuietSteps DEF Baseline, FirstIdentity
  <2>4. KnowsPlan'
    <3> SUFFICES ASSUME planned, ~Spoiled', at' \notin BeforePlan
                 PROVE  local'.plan # None /\ local'.identity = PlannedTestIdentity(Named.definition)
      BY <2>2 DEF KnowsPlan, asked
    <3>0. ~Spoiled
      BY <2>1
    <3>1. CASE ReadPlan
      <4>1. at \in Steps /\ files = Digest
        BY <3>1, <3>0, ReadsTheDigest DEF ReadPlan, Steps
      <4>2. local'.errors = {}
        BY DEF Spoiled
      <4>3. Accepts(planFile)
        BY <3>1, <4>2, <1>1 DEF ReadPlan, Then, Error, LocalShape, Fields
      <4>4. local'.plan = planFile /\ local'.identity = PlannedTestIdentity(Fact.definition)
        BY <3>1, <4>3, <1>1 DEF ReadPlan, Then, LocalShape, Fields
      <4>q. QED
        BY <4>1, <4>4, <1>1, VerificationAssumption DEF Fact, Named, VerificationTypeOK
    <3>2. CASE ~ReadPlan
      <4>1. at \notin BeforePlan
        BY <3>2, <1>1, <1>5, Sequence DEF BeforePlan, Spoiled
      <4>q. QED
        BY <4>1, <3>0, <3>2, <1>1, <1>3, Writers DEF Knows, KnowsPlan
    <3>q. QED
      BY <3>1, <3>2
  <2>5. KnowsPolicy'
    <3> SUFFICES ASSUME ~Spoiled', at' \notin BeforePolicy
                 PROVE  /\ Digest \in Trees
                        /\ local'.comparison = ThePolicies
                        /\ undeclared_composed_stages(ThePolicies, Named.modules) = {}
      BY <2>2 DEF KnowsPolicy
    <3>0. ~Spoiled /\ local'.errors = {}
      BY <2>1 DEF Spoiled
    <3>1. ASSUME at \in Steps
          PROVE  Digest \in Trees /\ PolicyComparison = ThePolicies /\ Fact = Named
      BY <3>0, <3>1, <1>1, ReadsTheDigest DEF PolicyComparison, ThePolicies, Fact, Named, VerificationTypeOK
    <3>2. CASE ReadPolicy
      <4>1. at \in Steps
        BY <3>2 DEF ReadPolicy, Steps
      <4>2. PolicyLoads
        BY <3>0, <3>2, <1>1 DEF ReadPolicy, Then, Error, LocalShape, Fields
      <4>3. /\ local'.comparison = PolicyComparison
            /\ local'.errors = local.errors \cup undeclared_composed_stages(PolicyComparison, Fact.modules)
        BY <3>2, <4>2, <1>1 DEF ReadPolicy, Then, LocalShape, Fields
      <4>q. QED
        BY <3>0, <3>1, <4>1, <4>3
    <3>3. CASE ~ReadPolicy
      <4>1. at \notin BeforePolicy
        <5>1. at # "policy"
          BY <3>3, <1>1, Sequence DEF BeforePolicy, Spoiled
        <5>2. CASE at = "plan"
          <6>1. ReadPlan \/ at' = at \/ Lost'
            BY <5>2, <1>1, Sequence
          <6>q. QED
            BY <6>1, <5>2, <1>1, ReadPlanSteps DEF BeforePolicy, BeforePlan, Spoiled
        <5>q. QED
          BY <5>1, <5>2, <1>5 DEF BeforePolicy, BeforePlan
      <4>2. /\ Digest \in Trees /\ local.comparison = ThePolicies
            /\ undeclared_composed_stages(ThePolicies, Named.modules) = {}
        BY <4>1, <3>0, <1>3 DEF Knows, KnowsPolicy
      <4>3. CASE FinalChecks
        <5>1. at \in Steps
          BY <4>3 DEF FinalChecks, Steps
        <5>2. PolicyLoads
          BY <3>0, <4>3, <1>1 DEF FinalChecks, ThenVerify, LocalShape, Fields
        <5>3. local'.comparison = PolicyComparison
          BY <5>2, <4>3, <1>1 DEF FinalChecks, ThenVerify, LocalShape, Fields
        <5>q. QED
          BY <5>1, <5>3, <3>1, <4>2
      <4>q. QED
        BY <4>2, <4>3, <3>3, <1>1, Writers
    <3>q. QED
      BY <3>2, <3>3
  <2>6. KnowsTest'
    <3> SUFFICES ASSUME ~Spoiled', local'.test = "passed"
                 PROVE  \E fate \in ReceiptFates : TestStatus(fate, Named.tests, local'.identity) = "passed"
      BY <2>2 DEF KnowsTest
    <3>0. ~Spoiled
      BY <2>1
    <3>1. CASE local'.test = local.test
      <4>1. CASE ~ReadPlan
        BY <3>0, <3>1, <4>1, <1>1, <1>3, Writers DEF Knows, KnowsTest
      <4>2. CASE ReadPlan
        BY <3>0, <3>1, <4>2, <1>1, VerificationAssumption DEF ReadPlan, Static, Untested, BeforePolicy, BeforePlan
      <4>q. QED
        BY <4>1, <4>2
    <3>2. ASSUME NEW late \in BOOLEAN, NEW fate \in ReceiptFates, RunStep(late, fate),
                 local'.test # local.test
          PROVE  TestStatus(fate, Named.tests, local'.identity) = "passed"
      <4>1. local'.test = TestStatus(fate, Fact.tests, local.identity)
        BY <3>2, <1>1 DEF RunStep, Then, LocalShape, Fields
      <4>2. files = Digest /\ local'.identity = local.identity
        BY <3>0, <3>2, <1>1, ReadsTheDigest, RunStepSteps DEF LocalStep, Keeps, Fields
      <4>q. QED
        BY <4>1, <4>2 DEF Fact, Named
    <3>3. ASSUME NEW late \in BOOLEAN, NEW fate \in ReceiptFates, RunTestExecution(late, fate),
                 local'.test # local.test
          PROVE  TestStatus(fate, Named.tests, local'.identity) = "passed"
      <4>1. local'.test = TestStatus(fate, Fact.tests, local.identity)
        BY <3>3, <1>1 DEF RunTestExecution, Then, ThenVerify, LocalShape, Fields
      <4>2. files = Digest /\ local'.identity = local.identity
        BY <3>0, <3>3, <1>1, ReadsTheDigest, RunTestSteps DEF LocalStep, Keeps, Fields
      <4>q. QED
        BY <4>1, <4>2 DEF Fact, Named
    <3>q. QED
      BY <3>1, <3>2, <3>3, <1>1, Writers
  <2>7. KnowsWiring'
    <3> SUFFICES ASSUME ~Spoiled', local'.planReport = "ok"
                 PROVE  Wiring \subseteq Named.wiring
      BY <2>2 DEF KnowsWiring
    <3>0. ~Spoiled
      BY <2>1
    <3>1. CASE local'.planReport = local.planReport
      BY <3>0, <3>1, <1>3 DEF Knows, KnowsWiring
    <3>2. CASE ChangePlanChecks /\ local'.planReport # local.planReport
      <4>1. PlanChecksPass
        <5>1. local'.planReport # "bad"
          OBVIOUS
        <5>q. QED
          BY <3>2, <1>1, <5>1, PlanChecksReport
      <4>2. files = Digest
        BY <3>0, <3>2, ReadsTheDigest DEF ChangePlanChecks, Steps
      <4>q. QED
        BY <4>1, <4>2 DEF PlanChecksPass, Fact, Named
    <3>q. QED
      BY <3>1, <3>2, <1>1, Writers
  <2>q. QED
    BY <2>3, <2>4, <2>5, <2>6, <2>7 DEF Knows
<1>q. QED
  BY <1>4, <1>5
(*****************************************************************************)
(* The rest of the invariant is inductive.                                   *)
(*****************************************************************************)
LEMMA TypesStay ==
  ASSUME Static, [Next]_vars
  PROVE  VerificationTypeOK'
<1>1. VerificationTypeOK /\ LocalShape
  BY DEF Static, VerificationTypeOK
<1>2. LocalShape'
  <2>1. CASE at \notin {"baseline", "capture"}
    BY <2>1, <1>1, EveryStep, QuietSteps, EarlySteps DEF LocalStep, QuietStep
  <2>2. CASE Edit \/ EditPlan \/ HashFile \/ Cancel \/ UNCHANGED vars
    BY <2>2, <1>1, SameLocal DEF Edit, EditPlan, HashFile, Cancel, vars
  <2>q. QED
    BY <2>1, <2>2, <1>1, EveryStep, EarlySteps DEF LocalStep, VerifySourceUnchanged, Receipt
<1>3. local'.planReport \in {"none", "ok", "bad"}
  BY <1>1, Writers, PlanChecksSteps DEF VerificationTypeOK
<1>4. /\ at' \in Steps \cup {"baseline", "capture", "verify", "receipt", "end"}
      /\ at' = "verify" => local'.resume \in {"test", "architecture", "plan_checks", "openapi", "jobs",
                                              "tools", "evaluations", "final", "receipt"}
  <2>1. CASE LocalStep
    BY <2>1 DEF LocalStep
  <2>2. CASE Baseline \/ FirstIdentity
    BY <2>2, <1>1, EarlySteps DEF Steps
  <2>3. CASE Edit \/ EditPlan \/ HashFile \/ UNCHANGED vars
    BY <2>3, <1>1 DEF Edit, EditPlan, HashFile, vars, VerificationTypeOK
  <2>4. CASE VerifySourceUnchanged
    BY <2>4, <1>1, VerifySteps DEF VerificationTypeOK, Steps
  <2>5. CASE Receipt \/ Cancel
    BY <2>5 DEF Receipt, Cancel
  <2>q. QED
    BY <2>1, <2>2, <2>3, <2>4, <2>5, <1>1, EveryStep
<1>5. baseline' \in Baselines
  BY <1>1, EveryStep, EarlySteps, VerifySteps
     DEF LocalStep, asked, Edit, EditPlan, HashFile, Receipt, Cancel, vars, VerificationTypeOK
<1>6. files' \in Trees /\ planFile' \in Plans /\ Contents(files') \subseteq past' /\ undone' \in BOOLEAN
  <2>1. CASE Edit
    <3>1. PICK i \in DOMAIN files, t \in Trees :
            /\ \A j \in DOMAIN files \ {i} : t[j] = files[j]
            /\ files' = t
            /\ undone' = (undone \/ <<i, t[i]>> \in past)
            /\ past' = past \cup {<<i, t[i]>>}
      BY <2>1 DEF Edit
    <3>2. Contents(t) \subseteq past'
      <4>1. DOMAIN t = DOMAIN files
        BY <1>1, TreesAreSequences DEF VerificationTypeOK
      <4>2. ASSUME NEW k \in DOMAIN t PROVE <<k, t[k]>> \in past'
        <5>1. CASE k = i
          BY <5>1, <3>1
        <5>2. CASE k # i
          BY <5>2, <3>1, <4>1, <1>1 DEF VerificationTypeOK, Contents
        <5>q. QED
          BY <5>1, <5>2
      <4>q. QED
        BY <4>2 DEF Contents
    <3>3. undone' \in BOOLEAN
      BY <3>1
    <3>4. planFile' \in Plans
      BY <2>1, <1>1 DEF Edit, VerificationTypeOK
    <3>q. QED
      BY <3>1, <3>2, <3>3, <3>4
  <2>2. CASE EditPlan
    BY <2>2, <1>1 DEF EditPlan, VerificationTypeOK
  <2>3. CASE UNCHANGED world
    BY <2>3, <1>1 DEF world, VerificationTypeOK, Contents
  <2>q. QED
    BY <2>1, <2>2, <2>3, <1>1, EveryStep, EarlySteps, VerifySteps DEF LocalStep, HashFile, Receipt, Cancel, vars
<1>7. DOMAIN capture' = {"seen", "dirty"} /\ capture'.seen \in Seq(Cells) /\ Len(capture'.seen) <= Len(Committed)
  <2>0. Len(Committed) \in Nat
    BY TreesAreSequences, VerificationAssumption
  <2>1. CASE capture' = Idle
    BY <2>1, <2>0 DEF Idle
  <2>2. CASE UNCHANGED capture
    BY <2>2, <1>1 DEF VerificationTypeOK
  <2>3. CASE HashFile
    <3>1. capture' = [seen |-> Append(capture.seen, files[Len(capture.seen) + 1]),
                      dirty |-> IF capture.seen = <<>> THEN Dirty(files) ELSE capture.dirty]
          /\ Len(capture.seen) # Len(files)
      BY <2>3 DEF HashFile, Captured
    <3>2. /\ capture.seen \in Seq(Cells) /\ Len(capture.seen) \in Nat
          /\ Len(capture.seen) < Len(Committed) /\ Len(files) = Len(Committed)
      BY <3>1, <1>1, <2>0, TreesAreSequences DEF VerificationTypeOK
    <3>3. files[Len(capture.seen) + 1] \in Cells
      BY <3>2, <2>0, <1>1, TreesAreSequences DEF VerificationTypeOK, Lines
    <3>q. QED
      BY <3>1, <3>2, <3>3, <2>0
  <2>q. QED
    BY <2>1, <2>2, <2>3, <1>1, EveryStep
       DEF LocalStep, Baseline, FirstIdentity, VerifySourceUnchanged, Edit, EditPlan, Receipt, Cancel, vars
<1>q. QED
  BY <1>2, <1>3, <1>4, <1>5, <1>6, <1>7 DEF VerificationTypeOK

LEMMA CapturesStay ==
  ASSUME Static, [Next]_vars
  PROVE  CapturesArePast'
<1>1. VerificationTypeOK /\ LocalShape /\ CapturesArePast
  BY DEF Static, VerificationTypeOK
<1>2. CASE HashFile
  <2>1. /\ capture'.seen = Append(capture.seen, files[Len(capture.seen) + 1])
        /\ past' = past /\ at' = at /\ at \in {"capture", "verify"} /\ Len(capture.seen) # Len(files)
    BY <1>2 DEF HashFile, Captured, world
  <2>2. /\ capture.seen \in Seq(Cells) /\ Len(capture.seen) \in Nat /\ Len(Committed) \in Nat
        /\ Len(capture.seen) < Len(Committed) /\ DOMAIN files = 1..Len(Committed)
    BY <2>1, <1>1, TreesAreSequences DEF VerificationTypeOK, Lines
  <2>3. <<Len(capture.seen) + 1, files[Len(capture.seen) + 1]>> \in past
    BY <2>2, <1>1 DEF VerificationTypeOK, Contents
  <2>4. ASSUME NEW i \in 1..Len(capture'.seen) PROVE <<i, capture'.seen[i]>> \in past
    <3>1. i \in 1..Len(capture.seen) \/ i = Len(capture.seen) + 1
      BY <2>1, <2>2
    <3>2. CASE i \in 1..Len(capture.seen)
      BY <3>2, <2>1, <2>2, <1>1 DEF CapturesArePast
    <3>3. CASE i = Len(capture.seen) + 1
      BY <3>3, <2>1, <2>2, <2>3
    <3>q. QED
      BY <3>1, <3>2, <3>3
  <2>q. QED
    BY <2>1, <2>4 DEF CapturesArePast, Steps
<1>3. CASE capture' = Idle
  BY <1>3 DEF CapturesArePast, Idle
<1>4. CASE capture' = capture /\ past \subseteq past' /\ (at' \in {at, "end"} \/ at \in Steps \cup {"baseline"})
  <2>1. at' \in Steps \cup {"baseline", "receipt"} => capture.seen = <<>>
    BY <1>1, <1>4 DEF CapturesArePast, Steps
  <2>q. QED
    BY <2>1, <1>1, <1>4 DEF CapturesArePast
<1>5. LocalStep => capture' = capture /\ past' = past /\ at \in Steps
  BY DEF LocalStep, world
<1>6. Baseline => capture' = capture /\ past' = past /\ at = "baseline"
  BY DEF Baseline, world
<1>7. Edit \/ EditPlan \/ Receipt \/ Cancel \/ UNCHANGED vars =>
        capture' = capture /\ past \subseteq past' /\ at' \in {at, "end"}
  BY DEF Edit, EditPlan, Receipt, Cancel, vars, world
<1>q. QED
  BY <1>1, <1>2, <1>3, <1>4, <1>5, <1>6, <1>7, EveryStep DEF FirstIdentity, VerifySourceUnchanged

LEMMA NothingYetStays ==
  ASSUME Static, [Next]_vars
  PROVE  NothingYet'
<1>1. VerificationTypeOK /\ LocalShape /\ NothingYet
  BY DEF Static, VerificationTypeOK
<1>2. SUFFICES ASSUME at' \in {"baseline", "capture"} PROVE NothingYet'
  BY DEF NothingYet
<1>3. local' = local /\ at \in {"baseline", "capture"}
  <2>1. ~LocalStep
    BY <1>2 DEF LocalStep, Steps
  <2>2. CASE Baseline \/ FirstIdentity
    BY <1>2, <2>2 DEF Baseline, FirstIdentity
  <2>3. ~VerifySourceUnchanged
    BY <1>1, <1>2 DEF VerifySourceUnchanged, VerificationTypeOK
  <2>q. QED
    BY <2>1, <2>2, <2>3, <1>1, <1>2, EveryStep DEF Edit, EditPlan, HashFile, Receipt, Cancel, vars
<1>q. QED
  BY <1>1, <1>3 DEF NothingYet

LEMMA DigestStays ==
  ASSUME Static, [Next]_vars
  PROVE  DigestIsPast'
<1>1. VerificationTypeOK /\ LocalShape /\ DigestIsPast /\ CapturesArePast
  BY DEF Static, VerificationTypeOK
<1>2. CASE FirstIdentity
  <2>1. SUFFICES ASSUME ~Lost'
                 PROVE  /\ Digest' \in Seq(Cells) /\ Len(Digest') = Len(Committed)
                        /\ \A i \in Lines : <<i, Digest'[i]>> \in past'
    BY DEF DigestIsPast
  <2>2. Captured /\ local' = [local EXCEPT !.source = Identity] /\ past' = past
    BY <1>2, <2>1 DEF FirstIdentity, Lost, world
  <2>3. Digest' = capture.seen
    BY <2>2, <1>1 DEF Digest, LocalShape, Fields, Identity
  <2>4. Len(capture.seen) = Len(Committed) /\ capture.seen \in Seq(Cells)
    BY <2>2, <1>1, TreesAreSequences DEF Captured, VerificationTypeOK
  <2>q. QED
    BY <2>2, <2>3, <2>4, <1>1 DEF CapturesArePast, Lines
<1>3. CASE Baseline
  BY <1>3 DEF Baseline, DigestIsPast, Lost
<1>4. CASE at \notin {"baseline", "capture"} /\ ~Lost /\ local'.source = local.source /\ past \subseteq past'
  BY <1>1, <1>4 DEF DigestIsPast, Digest
<1>5. CASE at \in {"baseline", "capture"} /\ at' \in {"baseline", "capture"}
  BY <1>5 DEF DigestIsPast
<1>6. CASE Edit \/ EditPlan \/ HashFile \/ UNCHANGED vars
  <2>1. local' = local /\ at' = at /\ receipt' = receipt /\ past \subseteq past'
    BY <1>6 DEF Edit, EditPlan, HashFile, vars, world
  <2>2. Lost' = Lost
    BY <2>1 DEF Lost
  <2>q. QED
    BY <2>1, <2>2, <1>1 DEF DigestIsPast, Digest
<1>7. CASE Cancel
  BY <1>7 DEF Cancel, DigestIsPast, Lost
<1>8. CASE LocalStep \/ VerifySourceUnchanged \/ Receipt
  <2>1. local'.source = local.source /\ past' = past /\ at \notin {"baseline", "capture"}
    BY <1>8, <1>1, VerifySteps
       DEF LocalStep, world, Steps, Receipt, Keeps, Fields
  <2>2. ~Lost
    <3>1. at # "end"
      BY <1>8, <1>1, VerifySteps DEF LocalStep, Steps, Receipt
    <3>q. QED
      BY <3>1, VerificationAssumption DEF Static, ReceiptFits, Lost
  <2>q. QED
    BY <2>1, <2>2, <1>4
<1>q. QED
  BY <1>1, <1>2, <1>3, <1>6, <1>7, <1>8, EveryStep

LEMMA UntestedStays ==
  ASSUME Static, [Next]_vars
  PROVE  Untested' /\ History' /\ Baselined'
<1>1. VerificationTypeOK /\ LocalShape /\ Untested /\ History /\ Baselined
  BY DEF Static, VerificationTypeOK
<1>a. UNCHANGED asked
  BY <1>1, EveryStep, EarlySteps, VerifySteps DEF LocalStep, Edit, EditPlan, HashFile, Receipt, Cancel, vars
<1>2. Untested'
  <2>1. ASSUME NEW late \in BOOLEAN, NEW fate \in ReceiptFates,
               RunStep(late, fate) \/ RunTestExecution(late, fate)
        PROVE  at' \notin BeforePolicy
    BY <2>1, <1>1, RunStepSteps, RunTestSteps
       DEF BeforePolicy, BeforePlan, LocalStep
  <2>2. at' \in BeforePolicy => at \in BeforePolicy
    <3>1. CASE LocalStep
      BY <3>1 DEF LocalStep, BeforePolicy
    <3>2. CASE Baseline \/ FirstIdentity
      BY <3>2 DEF Baseline, FirstIdentity, BeforePolicy, BeforePlan
    <3>3. CASE VerifySourceUnchanged
      BY <3>3, <1>1 DEF VerifySourceUnchanged, VerificationTypeOK, BeforePolicy, BeforePlan
    <3>q. QED
      BY <3>1, <3>2, <3>3, <1>1, EveryStep
         DEF Edit, EditPlan, HashFile, Receipt, Cancel, vars, BeforePolicy, BeforePlan
  <2>q. QED
    BY <2>1, <2>2, <1>1, Writers DEF Untested
<1>3. History'
  <2>1. CASE local'.comparison = local.comparison
    BY <2>1, <1>1, <1>a DEF History, asked
  <2>2. CASE ReadPolicy \/ FinalChecks
    <3>1. local'.comparison \in {local.comparison, PolicyComparison, None}
      BY <2>2, <1>1 DEF ReadPolicy, FinalChecks, Then, ThenVerify, Error, LocalShape, Fields
    <3>2. PolicyComparison.historical = PolicyOf(baseline.policy, baseline.modules)
      BY <1>1, ComparisonsCompare DEF VerificationTypeOK
    <3>q. QED
      BY <3>1, <3>2, <1>1, <1>a DEF History, asked
  <2>q. QED
    BY <2>1, <2>2, <1>1, Writers
<1>4. Baselined'
  <2>0. \A s \in OptionalStages : ReadsBaseline(s)' = ReadsBaseline(s)
    BY <1>a DEF ReadsBaseline, MissingAllowed, AbsentAtBaseline, asked
  <2>1. CASE LocalStep
    BY <2>0, <2>1, <1>1 DEF LocalStep, Baselined
  <2>2. CASE local'.evidence = local.evidence
    BY <2>0, <2>2, <1>1 DEF Baselined
  <2>q. QED
    BY <2>1, <2>2, <1>1, EveryStep, EarlySteps, VerifySteps
       DEF Edit, EditPlan, HashFile, Receipt, Cancel, vars, Keeps, Fields
<1>q. QED
  BY <1>2, <1>3, <1>4

LEMMA ReceiptStays ==
  ASSUME Static, [Next]_vars
  PROVE  ReceiptFits'
<1>1. VerificationTypeOK /\ LocalShape /\ ReceiptFits
  BY DEF Static, VerificationTypeOK
<1>2. CASE LocalStep \/ VerifySourceUnchanged
  <2>1. receipt' = receipt /\ at # "end"
    BY <1>1, <1>2, VerifySteps DEF LocalStep, Steps
  <2>q. QED
    BY <2>1, <1>1, VerificationAssumption DEF ReceiptFits
<1>3. CASE Baseline \/ FirstIdentity
  <2>1. at # "end" /\ (receipt' = receipt \/ (receipt' = "not ok" /\ at' = "end"))
    BY <1>3 DEF Baseline, FirstIdentity
  <2>q. QED
    BY <2>1, <1>1, VerificationAssumption DEF ReceiptFits
<1>4. CASE Receipt
  <2>1. at' = "end" /\ local' = local /\ receipt' = IF ReceiptOk THEN "ok" ELSE "not ok"
    BY <1>4 DEF Receipt
  <2>2. ReceiptOk' <=> ReceiptOk
    BY <2>1 DEF ReceiptOk, StageOutcomes
  <2>q. QED
    BY <2>1, <2>2 DEF ReceiptFits
<1>5. CASE Cancel
  BY <1>5 DEF Cancel, ReceiptFits
<1>6. CASE Edit \/ EditPlan \/ HashFile \/ UNCHANGED vars
  <2>1. local' = local /\ at' = at /\ receipt' = receipt
    BY <1>6 DEF Edit, EditPlan, HashFile, vars
  <2>2. ReceiptOk' <=> ReceiptOk
    BY <2>1 DEF ReceiptOk, StageOutcomes
  <2>q. QED
    BY <2>1, <2>2, <1>1 DEF ReceiptFits
<1>q. QED
  BY <1>1, <1>2, <1>3, <1>4, <1>5, <1>6, EveryStep

(* verify goes forward. *)
LEMMA Forward ==
  ASSUME VerificationTypeOK, [Next]_vars
  PROVE  /\ Where \notin BeforeMap => Where' \notin BeforeMap
         /\ Where \notin BeforeReport => Where' \notin BeforeReport
         /\ Where \in BeforeMap /\ Where' \notin BeforeMap => Architecture \/ Lost'
         /\ Where \in BeforeReport /\ Where' \notin BeforeReport => ChangePlanChecks \/ Lost'
<1> USE DEF BeforeMap, BeforeReport, BeforePolicy, BeforePlan
<1>0. LocalShape
  BY DEF VerificationTypeOK
<1>1. CASE Edit \/ EditPlan \/ HashFile \/ UNCHANGED vars
  BY <1>1 DEF Edit, EditPlan, HashFile, vars, Where
<1>2. CASE Baseline \/ FirstIdentity
  BY <1>2 DEF Baseline, FirstIdentity, Where, Lost
<1>3. CASE VerifySourceUnchanged
  <2>1. Where' = Where
    BY <1>0, <1>3, VerifySteps DEF Where, VerificationTypeOK
  <2>q. QED
    BY <2>1
<1>4. CASE Receipt \/ Cancel
  BY <1>4 DEF Receipt, Cancel, Where, Lost
<1>5. CASE ReadPlan
  BY <1>0, <1>5, ReadPlanSteps DEF Where
<1>6. CASE ReadPolicy
  BY <1>0, <1>6, ReadPolicySteps DEF Where
<1>7. CASE OpenApiDefaults
  BY <1>0, <1>7, DefaultsSteps DEF Where
<1>8. CASE StartCheck
  BY <1>0, <1>8, StartCheckSteps DEF Where
<1>9. CASE SkipCheck
  BY <1>0, <1>9, SkipCheckSteps DEF Where
<1>10. ASSUME NEW late \in BOOLEAN, NEW fate \in ReceiptFates, RunStep(late, fate)
       PROVE  Where = "commands" /\ Where' = "commands"
  BY <1>0, <1>10, RunStepSteps DEF Where
<1>11. CASE EndCheck
  BY <1>0, <1>11, EndCheckSteps DEF Where
<1>12. ASSUME NEW late \in BOOLEAN, NEW fate \in ReceiptFates, RunTestExecution(late, fate)
       PROVE  Where = "test" /\ Where' = "architecture"
  BY <1>0, <1>12, RunTestSteps DEF Where
<1>13. CASE TestAlreadyRan
  BY <1>0, <1>13, TestAlreadySteps DEF Where
<1>14. CASE Architecture
  <2>1. Where = "architecture" /\ Where' = "plan_checks"
    BY <1>0, <1>14, ArchitectureSteps DEF Where
  <2>q. QED
    BY <2>1, <1>14
<1>15. CASE ChangePlanChecks
  <2>1. Where = "plan_checks" /\ Where' = "openapi"
    BY <1>0, <1>15, PlanChecksSteps DEF Where
  <2>q. QED
    BY <2>1, <1>15
<1>16. ASSUME NEW s \in {"openapi", "jobs", "tools", "evaluations"}, Diff(s)
       PROVE  Where = s /\ Where' \in {"jobs", "tools", "evaluations", "final"}
  <2>1. at = s /\ Where' \in {"jobs", "tools", "evaluations", "final"}
    BY <1>0, <1>16, DiffSteps
  <2>q. QED
    BY <2>1 DEF Where
<1>17. CASE FinalChecks
  BY <1>0, <1>17, FinalSteps DEF Where
<1>q. QED
  BY <1>1, <1>2, <1>3, <1>4, <1>5, <1>6, <1>7, <1>8, <1>9, <1>10, <1>11, <1>12, <1>13, <1>14, <1>15, <1>16, <1>17
     DEF Next

LEMMA ErrorsStay ==
  ASSUME Static, [Next]_vars, at \notin {"baseline", "capture"}
  PROVE  /\ local.errors \subseteq local'.errors
         /\ Lost => Lost'
<1>1. VerificationTypeOK /\ LocalShape
  BY DEF Static, VerificationTypeOK
<1>2. LocalStep \/ QuietStep
  BY <1>1, EveryStep, QuietSteps DEF Baseline, FirstIdentity
<1>3. local.errors \subseteq local'.errors
  BY <1>2 DEF LocalStep, QuietStep
<1>4. ASSUME Lost PROVE Lost'
  <2>1. at = "end"
    BY <1>4, VerificationAssumption DEF Static, ReceiptFits, Lost
  <2>2. receipt' = receipt \/ Cancel
    BY <2>1, <1>1, EveryStep, VerifySteps
       DEF LocalStep, Steps, Baseline, FirstIdentity, Edit, EditPlan, HashFile, Receipt, vars
  <2>q. QED
    BY <1>4, <2>2 DEF Lost, Cancel
<1>q. QED
  BY <1>3, <1>4

LEMMA ReportedStays ==
  ASSUME Static, [Next]_vars
  PROVE  Reported'
<1>1. VerificationTypeOK /\ LocalShape /\ Reported
  BY DEF Static, VerificationTypeOK
<1>2. Where \notin BeforeMap => at \notin {"baseline", "capture"}
  BY DEF Where, BeforeMap, BeforePolicy, BeforePlan
<1>3. Where \notin BeforeMap => local'.plan = local.plan /\ local'.identity = local.identity /\ local'.test = local.test
                                /\ local'.mapped = local.mapped
  <2>1. ASSUME Where \notin BeforeMap PROVE at \notin {"plan", "commands", "test", "architecture"}
    BY <2>1 DEF Where, BeforeMap, BeforePolicy, BeforePlan
  <2>q. QED
    BY <2>1, <1>1, Writers DEF ReadPlan, RunStep, RunTestExecution, Architecture
<1>4. Where \notin BeforeReport => Where \notin BeforeMap /\ local'.planReport = local.planReport
  <2>1. ASSUME Where \notin BeforeReport PROVE at # "plan_checks" /\ Where \notin BeforeMap
    BY <2>1 DEF Where, BeforeReport
  <2>q. QED
    BY <2>1, <1>1, Writers DEF ChangePlanChecks
<1>5. CASE ChangePlanChecks
  <2>1. /\ Where = "plan_checks" /\ Where' = "openapi" /\ local'.plan = local.plan /\ local'.mapped = local.mapped
        /\ local'.identity = local.identity /\ local'.test = local.test
        /\ local'.planReport \in {local.planReport, "ok", "bad"}
    BY <1>1, <1>5, PlanChecksSteps DEF Where, Keeps, Fields
  <2>2. Where' \notin BeforeReport /\ Where \notin BeforeMap /\ Where \in BeforeReport
    BY <2>1 DEF BeforeReport, BeforeMap, BeforePolicy, BeforePlan
  <2>3. local.planReport = "none"
    BY <2>2, <1>1 DEF Reported
  <2>4. local'.planReport = "ok" => local'.identity # None /\ local'.test = "passed"
    <3>1. ASSUME local'.planReport = "ok" PROVE PlanChecksPass
      <4>1. local'.planReport # local.planReport /\ local'.planReport # "bad"
        BY <3>1, <2>3
      <4>q. QED
        BY <4>1, <1>1, <1>5, PlanChecksReport
    <3>q. QED
      BY <3>1, <2>1 DEF PlanChecksPass
  <2>5. local.plan # None => local.mapped \/ Lost \/ local.errors # {}
    BY <2>2, <1>1 DEF Reported
  <2>6. local.errors \subseteq local'.errors /\ (Lost => Lost')
    BY <1>2, <2>2, ErrorsStay
  <2>7. local.plan # None => local'.mapped \/ Lost' \/ local'.errors # {}
    BY <2>1, <2>5, <2>6
  <2>8. local.plan # None => local'.planReport # "none" \/ Lost' \/ local'.errors # {}
    <3>1. CASE local.plan # None /\ local.mapped
      <4>1. local'.planReport # "none"
        BY <3>1, <1>1, <1>5, PlanChecksReport
      <4>q. QED
        BY <4>1
    <3>q. QED
      BY <3>1, <2>5, <2>6
  <2>q. QED
    BY <2>1, <2>2, <2>4, <2>7, <2>8 DEF Reported
<1>6. CASE ~ChangePlanChecks
  <2>1. local'.planReport = local.planReport
    BY <1>1, <1>6, Writers
  <2>2. local'.planReport # "none" => Where \notin BeforeReport /\ Where' \notin BeforeReport
    BY <2>1, <1>1, Forward DEF Reported
  <2>3. local'.planReport = "ok" => local'.identity # None /\ local'.test = "passed"
    BY <2>1, <2>2, <1>1, <1>3, <1>4 DEF Reported
  <2>4. ASSUME local'.plan # None, Where' \notin BeforeMap
        PROVE  local'.mapped \/ Lost' \/ local'.errors # {}
    <3>1. CASE Where \notin BeforeMap
      BY <3>1, <2>4, <1>1, <1>2, <1>3, ErrorsStay DEF Reported
    <3>2. CASE Where \in BeforeMap
      <4>1. CASE Architecture
        <5>1. local'.plan = local.plan
          BY <4>1, <1>1, ArchitectureSteps DEF Keeps, Fields
        <5>q. QED
          BY <5>1, <4>1, <2>4, <1>1, ArchitectureSteps
      <4>q. QED
        BY <4>1, <3>2, <2>4, <1>1, Forward
    <3>q. QED
      BY <3>1, <3>2
  <2>5. ASSUME local'.plan # None, Where' \notin BeforeReport
        PROVE  local'.planReport # "none" \/ Lost' \/ local'.errors # {}
    <3>1. CASE Where \notin BeforeReport
      BY <3>1, <2>5, <1>1, <1>2, <1>3, <1>4, ErrorsStay DEF Reported
    <3>2. CASE Where \in BeforeReport
      BY <3>2, <2>5, <1>1, <1>6, Forward
    <3>q. QED
      BY <3>1, <3>2
  <2>q. QED
    BY <2>2, <2>3, <2>4, <2>5 DEF Reported
<1>q. QED
  BY <1>5, <1>6

LEMMA VerificationInitial == Init => VerificationInv
<1> SUFFICES ASSUME Init PROVE VerificationInv
  OBVIOUS
<1>1. LocalShape
  BY DEF Init, LocalShape, Fields, NoEvidence
<1>2. Len(Committed) \in Nat
  BY TreesAreSequences, VerificationAssumption
<1>3. VerificationTypeOK
  <2>1. files \in Trees /\ planFile \in Plans /\ Contents(files) \subseteq past /\ undone \in BOOLEAN
    BY DEF Init
  <2>2. at = "baseline" /\ local.planReport = "none" /\ baseline \in Baselines
    BY DEF Init
  <2>3. DOMAIN capture = {"seen", "dirty"} /\ capture.seen \in Seq(Cells) /\ Len(capture.seen) <= Len(Committed)
    BY <1>2 DEF Init, Idle
  <2>q. QED
    BY <1>1, <2>1, <2>2, <2>3 DEF VerificationTypeOK
<1>4. at = "baseline" /\ Where = "baseline" /\ receipt = None
  BY DEF Init, Where
<1>5. CapturesArePast /\ NothingYet /\ DigestIsPast
  BY <1>4 DEF Init, CapturesArePast, NothingYet, DigestIsPast, Idle, NoEvidence
<1>6. History /\ Untested /\ Baselined
  BY DEF Init, History, Untested, Baselined, NoEvidence, OptionalStages, Stages, VERIFICATION_EVIDENCE_STAGES
<1>7. Reported
  BY <1>4 DEF Init, Reported, BeforeReport, BeforeMap, BeforePolicy, BeforePlan
<1>8. ReceiptFits
  BY <1>4, VerificationAssumption DEF ReceiptFits
<1>9. Knows
  <2>1. local.testRead = {} /\ \A s \in Stages : local.evidence[s].read = {}
    BY DEF Init, NoEvidence
  <2>2. local.test = None /\ local.planReport = "none" /\ None # "passed"
    BY VerificationAssumption DEF Init
  <2>q. QED
    BY <1>4, <2>1, <2>2
       DEF Knows, ReadsTheTree, KnowsPlan, KnowsPolicy, KnowsTest, KnowsWiring, BeforePlan, BeforePolicy
<1>q. QED
  BY <1>3, <1>5, <1>6, <1>7, <1>8, <1>9 DEF VerificationInv, Static

LEMMA VerificationInductive == VerificationInv /\ [Next]_vars => VerificationInv'
<1> SUFFICES ASSUME VerificationInv, [Next]_vars PROVE VerificationInv'
  OBVIOUS
<1>1. Static'
  BY TypesStay, CapturesStay, NothingYetStays, DigestStays, UntestedStays, ReportedStays, ReceiptStays
     DEF VerificationInv, Static
<1>2. ~undone' => Knows'
  BY KnowsInductive DEF VerificationInv
<1>q. QED
  BY <1>1, <1>2 DEF VerificationInv
(*****************************************************************************)
(* An ok receipt.                                                            *)
(*****************************************************************************)
LEMMA OkReceipt ==
  ASSUME VerificationInv, receipt = "ok"
  PROVE  /\ at = "end" /\ ReceiptOk /\ ~Spoiled
         /\ Where = "end" /\ Static
<1>1. Static /\ receipt # None
  BY VerificationAssumption DEF VerificationInv
<1>2. at = "end" /\ ReceiptOk
  BY <1>1 DEF Static, ReceiptFits
<1>3. ~Spoiled
  BY <1>2 DEF Spoiled, Lost, ReceiptOk
<1>q. QED
  BY <1>1, <1>2, <1>3 DEF Where

(* Every stage and the planned test read exactly the tree whose digest an  *)
(* ok receipt holds, for any files, contents, stages and edits, unless a   *)
(* file was given back what it held before (verify_source_unchanged).      *)
THEOREM ReceiptOfOneTree == Spec => []ReceiptIsOfOneTree
<1>1. VerificationInv => ReceiptIsOfOneTree
  <2> SUFFICES ASSUME VerificationInv, receipt = "ok", ~undone,
                      NEW read \in {local.evidence[s].read : s \in Stages} \cup {local.testRead}
               PROVE  read \subseteq {local.source.tree_digest}
    BY DEF ReceiptIsOfOneTree
  <2>1. ~Spoiled /\ ReadsTheTree
    BY OkReceipt DEF VerificationInv, Knows
  <2>2. \E s \in Stages : read \subseteq local.evidence[s].read \cup local.testRead
    BY DEF Stages, VERIFICATION_EVIDENCE_STAGES
  <2>q. QED
    BY <2>1, <2>2 DEF ReadsTheTree, Digest
<1>q. QED
  BY <1>1, VerificationInitial, VerificationInductive, PTL DEF Spec

(* Enforced evidence of an ok receipt passed. *)
LEMMA EnforcedPassed ==
  ASSUME ReceiptOk, NEW s \in Stages, Enforced(local.comparison, s)
  PROVE  local.evidence[s].ok = "ok"
<1>1. StageStatus(local.comparison, s, StageOutcomes[s]) \notin {"failed", "not_verifiable"}
  BY DEF ReceiptOk, PolicyOk, Stages
<1>2. StageOutcomes[s] = local.evidence[s].ok
  BY DEF StageOutcomes
<1>q. QED
  BY <1>1, <1>2 DEF StageStatus

(* A stage the tree's own policy requires was declared, or is a default.   *)
LEMMA RequirementMeans ==
  ASSUME NEW text \in PolicyTexts, NEW modules, NEW s \in Stages
  PROVE  /\ text.present =>
              PolicyOf(text, modules).requirement[s] = RequirementOf(text.declares[s])
              /\ PolicyOf(text, modules).source = "repository"
         /\ ~text.present /\ s \in modules => PolicyOf(text, modules).requirement[s] = "required"
BY PoliciesArePolicies DEF _parse_policy, _default_policy, unconfigured_stages, Stages

(* What the baseline required is still required and passed, and what the   *)
(* identified tree composes passed or is declared false, for any policies, *)
(* modules and edits (_policy_result, _compare_policies).                  *)
THEOREM RequiredPassed == Spec => []RequiredEvidencePassed
<1>1. VerificationInv => RequiredEvidencePassed
  <2> SUFFICES ASSUME VerificationInv, receipt = "ok"
               PROVE  RequiredEvidencePassed
    BY DEF RequiredEvidencePassed
  <2> DEFINE historical == PolicyOf(baseline.policy, baseline.modules)
             text == Facts[local.source.tree_digest].policy
             modules == Facts[local.source.tree_digest].modules
  <2>1. ReceiptOk /\ Static /\ at = "end" /\ ~Spoiled
    BY OkReceipt
  <2>2. local.comparison # None /\ local.comparison.historical = historical
    BY <2>1 DEF ReceiptOk, Static, History
  <2>3. ASSUME ~undone
        PROVE  /\ Digest \in Trees /\ local.comparison = ThePolicies
               /\ local.comparison.current = PolicyOf(text, modules)
               /\ undeclared_composed_stages(local.comparison, modules) = {}
    BY <2>1, <2>3 DEF VerificationInv, Knows, KnowsPolicy, BeforePolicy, BeforePlan, ThePolicies, Named, Digest
  <2>4. ASSUME ~undone
        PROVE  text \in PolicyTexts /\ modules \subseteq OptionalStages
    BY <2>3, <2>4, VerificationAssumption DEF Digest
  <2>5. ASSUME NEW s \in Stages, historical.requirement[s] = "required"
        PROVE  /\ local.evidence[s].ok = "ok"
               /\ ~undone /\ text.present => text.declares[s] = "true"
    <3>1. Enforced(local.comparison, s)
      BY <2>2, <2>5 DEF Enforced
    <3>2. local.evidence[s].ok = "ok"
      BY <2>1, <3>1, EnforcedPassed
    <3>3. ASSUME ~undone, text.present
          PROVE  text.declares[s] = "true"
      <4>1. "breaking" \notin StageChange(historical, PolicyOf(text, modules), s)
        BY <2>1, <2>2, <2>3, <3>3 DEF ReceiptOk, PolicyOk, compatible, _compare_policies, Stages
      <4>2. PolicyOf(text, modules).requirement[s] = "required"
        BY <4>1, <2>5 DEF StageChange
      <4>q. QED
        BY <4>2, <2>4, <3>3, RequirementMeans DEF RequirementOf
    <3>q. QED
      BY <3>2, <3>3
  <2>6. ASSUME ~undone, NEW s \in modules
        PROVE  local.evidence[s].ok = "ok" \/ text.declares[s] = "false"
    <3>1. s \in OptionalStages /\ s \in Stages
      BY <2>4, <2>6 DEF OptionalStages, Stages, VERIFICATION_EVIDENCE_STAGES
    <3>2. local.comparison.current.requirement[s] = "required" => local.evidence[s].ok = "ok"
      BY <2>1, <3>1, EnforcedPassed DEF Enforced
    <3>3. CASE ~text.present
      BY <3>1, <3>2, <3>3, <2>3, <2>4, <2>6, RequirementMeans
    <3>4. CASE text.present
      <4>1. local.comparison.current.requirement[s] = RequirementOf(text.declares[s])
            /\ local.comparison.current.source = "repository"
        BY <3>1, <3>4, <2>3, <2>4, <2>6, RequirementMeans
      <4>2. local.comparison.current.requirement[s] # "not_configured"
        BY <4>1, <3>1, <2>3, <2>6 DEF undeclared_composed_stages
      <4>q. QED
        BY <4>1, <4>2, <3>2 DEF RequirementOf
    <3>q. QED
      BY <3>3, <3>4
  <2>7. ASSUME NEW s \in baseline.modules \ baseline.allowed, local.evidence[s].ok = "ok"
        PROVE  s \in baseline.snapshots
    <3>1. s \in OptionalStages
      BY <2>1, VerificationAssumption DEF Static, VerificationTypeOK
    <3>q. QED
      BY <3>1, <2>1, <2>7 DEF Static, Baselined, ReadsBaseline, MissingAllowed, AbsentAtBaseline
  <2>q. QED
    BY <2>5, <2>6, <2>7 DEF RequiredEvidencePassed
<1>q. QED
  BY <1>1, VerificationInitial, VerificationInductive, PTL DEF Spec
(*****************************************************************************)
(* The evidence of the planned test.                                         *)
(*****************************************************************************)
LEMMA AddedToFinite ==
  ASSUME NEW S, IsFiniteSet(S), NEW x, x \notin S
  PROVE  IsFiniteSet(S \cup {x}) /\ Cardinality(S \cup {x}) = Cardinality(S) + 1
<1>1. /\ IsFiniteSet(S \cup {x})
      /\ Cardinality(S \cup {x}) = IF x \in S THEN Cardinality(S) ELSE Cardinality(S) + 1
  BY FS_AddElement, Zenon
<1>q. QED
  BY <1>1

LEMMA ThreeAreThree ==
  ASSUME NEW a, NEW b, NEW c, a # b, b # c, a # c
  PROVE  Cardinality({a} \cup {b} \cup {c}) = 3
<1>1. IsFiniteSet({a}) /\ Cardinality({a}) = 1
  BY FS_Singleton
<1>2. b \notin {a} /\ c \notin {a} \cup {b}
  OBVIOUS
<1>3. IsFiniteSet({a} \cup {b}) /\ Cardinality({a} \cup {b}) = Cardinality({a}) + 1
  BY <1>1, <1>2, AddedToFinite
<1>4. Cardinality({a} \cup {b} \cup {c}) = Cardinality({a} \cup {b}) + 1
  BY <1>2, <1>3, AddedToFinite
<1>q. QED
  BY <1>1, <1>3, <1>4

LEMMA TwoAreMany ==
  ASSUME NEW S, IsFiniteSet(S), NEW x \in S, NEW y \in S, x # y
  PROVE  Cardinality(S) > 1
<1>1. IsFiniteSet({x}) /\ Cardinality({x}) = 1
  BY FS_Singleton
<1>2. IsFiniteSet({x} \cup {y}) /\ Cardinality({x} \cup {y}) = 2
  BY <1>1, AddedToFinite
<1>3. {x} \cup {y} \subseteq S
  OBVIOUS
<1>4. Cardinality({x} \cup {y}) <= Cardinality(S) /\ Cardinality(S) \in Nat
  BY <1>3, FS_Subset, FS_CardinalityType
<1>q. QED
  BY <1>2, <1>4

(* Reports that classify as passed: one of each phase, and nothing else.   *)
LEMMA PassedIsClean ==
  ASSUME NEW reports \in Seq(Reports), Classify(reports) = "passed"
  PROVE  CleanReports(reports)
<1> DEFINE n == Len(reports)
<1>1. /\ \A p \in Phases : ~(Cardinality(ReportsOf(reports, p)) > 1)
      /\ ~ \E r \in ToSet(reports) : r.xfail
      /\ ~ \E r \in ToSet(reports) : r.outcome = "skipped"
      /\ {r \in ToSet(reports) : r.outcome = "failed"} = {}
      /\ {r.when : r \in ToSet(reports)} = Phases
  <2>1. ~ \E p \in Phases : Cardinality(ReportsOf(reports, p)) > 1
    BY DEF Classify
  <2>2. ~ \E r \in ToSet(reports) : r.xfail
    BY <2>1 DEF Classify
  <2>3. ~ \E r \in ToSet(reports) : r.outcome = "skipped"
    BY <2>1, <2>2 DEF Classify
  <2>4. {r \in ToSet(reports) : r.outcome = "failed"} = {}
    BY <2>1, <2>2, <2>3 DEF Classify
  <2>5. {r.when : r \in ToSet(reports)} = Phases
    BY <2>1, <2>2, <2>3, <2>4 DEF Classify
  <2>q. QED
    BY <2>1, <2>2, <2>3, <2>4, <2>5
<1>2. n \in Nat /\ DOMAIN reports = 1..n /\ \A i \in 1..n : reports[i] \in Reports
  OBVIOUS
<1>3. \A i \in 1..n : reports[i] \in ToSet(reports)
  BY <1>2 DEF ToSet
<1>4. \A i \in 1..n : reports[i] = [when |-> reports[i].when, outcome |-> "passed", xfail |-> FALSE]
  BY <1>1, <1>2, <1>3 DEF Reports
<1>5. ASSUME NEW i \in 1..n, NEW j \in 1..n, reports[i].when = reports[j].when
      PROVE  i = j
  <2>1. reports[i].when \in Phases
    BY <1>2 DEF Reports
  <2>2. i \in ReportsOf(reports, reports[i].when) /\ j \in ReportsOf(reports, reports[i].when)
    BY <1>2, <1>5 DEF ReportsOf
  <2>3. IsFiniteSet(ReportsOf(reports, reports[i].when))
    <3>1. IsFiniteSet(1..n)
      BY <1>2, FS_Interval
    <3>2. ReportsOf(reports, reports[i].when) \subseteq 1..n
      BY <1>2 DEF ReportsOf
    <3>q. QED
      BY <3>1, <3>2, FS_Subset
  <2>q. QED
    BY <1>1, <2>1, <2>2, <2>3, TwoAreMany
<1>6. \A p \in Phases : \E i \in 1..n : reports[i].when = p
  BY <1>1, <1>2 DEF ToSet
<1>7. PICK a \in 1..n : reports[a].when = "setup"
  BY <1>6 DEF Phases
<1>8. PICK b \in 1..n : reports[b].when = "call"
  BY <1>6 DEF Phases
<1>9. PICK c \in 1..n : reports[c].when = "teardown"
  BY <1>6 DEF Phases
<1>10. 1..n = {a} \cup {b} \cup {c}
  <2>1. \A i \in 1..n : reports[i].when \in {"setup", "call", "teardown"}
    BY <1>2 DEF Reports, Phases
  <2>q. QED
    BY <2>1, <1>5, <1>7, <1>8, <1>9
<1>11. n = 3
  <2>1. a # b /\ b # c /\ a # c
    BY <1>7, <1>8, <1>9
  <2>2. Cardinality({a} \cup {b} \cup {c}) = 3
    BY <2>1, ThreeAreThree
  <2>5. Cardinality(1..n) = n
    <3>1. Cardinality(1..n) = IF 1 > n THEN 0 ELSE n - 1 + 1
      BY <1>2, FS_Interval
    <3>q. QED
      BY <3>1, <1>2
  <2>q. QED
    BY <2>2, <2>5, <1>10
<1>q. QED
  BY <1>4, <1>6, <1>11 DEF CleanReports

(* A run that passed: something was collected, nothing deselected, and     *)
(* every invocation was of the planned function and passed.                *)
LEMMA PassedRun ==
  ASSUME NEW invocations \in SUBSET Invocations, NEW identity, identity # None,
         ExecutionStatus(invocations, identity) = "passed"
  PROVE  /\ invocations # {}
         /\ \A v \in invocations : ~v.deselected /\ v.line = identity /\ Classify(v.reports) = "passed"
<1> DEFINE collected == pytest_collection_finish(invocations)
           has == {CategoryOf(v, identity) : v \in collected}
           worst == SelectInSeq(Severity, LAMBDA c : c \in has)
           I == {i \in 1..Len(Severity) : Severity[i] \in has}
<1>1. collected # {}
  BY DEF ExecutionStatus
<1>2. \A i \in 1..6 : Severity[i] # "passed"
  BY DEF Severity
<1>3. Len(Severity) = 6
  BY DEF Severity
<1>4. I = {}
  <2>1. SUFFICES ASSUME I # {} PROVE FALSE
    OBVIOUS
  <2>2. worst = Min(I)
    BY <2>1 DEF SelectInSeq
  <2>3. I \subseteq 1..6
    BY <1>3
  <2>4. \E m \in I : \A i \in I : m <= i
    <3> HIDE DEF I
    <3>1. \A i \in I : i \in {1, 2, 3, 4, 5, 6}
      BY <2>3
    <3>2. CASE 1 \in I
      BY <3>1, <3>2
    <3>3. CASE 1 \notin I /\ 2 \in I
      BY <3>1, <3>3
    <3>4. CASE 1 \notin I /\ 2 \notin I /\ 3 \in I
      BY <3>1, <3>4
    <3>5. CASE 1 \notin I /\ 2 \notin I /\ 3 \notin I /\ 4 \in I
      BY <3>1, <3>5
    <3>6. CASE 1 \notin I /\ 2 \notin I /\ 3 \notin I /\ 4 \notin I
      BY <2>1, <3>1, <3>6
    <3>q. QED
      BY <3>2, <3>3, <3>4, <3>5, <3>6
  <2>5. Min(I) \in I
    <3> HIDE DEF I
    <3>q. QED
      BY <2>4 DEF Min
  <2>6. worst # 0 /\ worst \in 1..6
    BY <2>2, <2>3, <2>5
  <2>7. ExecutionStatus(invocations, identity) = Severity[worst]
    BY <1>1, <2>6 DEF ExecutionStatus
  <2>q. QED
    BY <2>6, <2>7, <1>2
<1>5. worst = 0
  BY <1>4 DEF SelectInSeq
<1>6. pytest_deselected(invocations) = {}
  BY <1>1, <1>5 DEF ExecutionStatus
<1>7. ASSUME NEW v \in invocations
      PROVE  ~v.deselected /\ v.line = identity /\ Classify(v.reports) = "passed"
  <2>1. ~v.deselected /\ v \in collected
    BY <1>6 DEF pytest_deselected, pytest_collection_finish
  <2>2. CategoryOf(v, identity) \in has
    BY <2>1
  <2>3. CategoryOf(v, identity) \notin {"ambiguous", "errored", "failed", "xpassed", "xfailed", "skipped"}
    <3>1. \A i \in 1..6 : Severity[i] # CategoryOf(v, identity)
      BY <1>3, <1>4, <2>2
    <3>2. Severity[1] = "ambiguous" /\ Severity[2] = "errored" /\ Severity[3] = "failed"
          /\ Severity[4] = "xpassed" /\ Severity[5] = "xfailed" /\ Severity[6] = "skipped"
      BY DEF Severity
    <3>q. QED
      BY <3>1, <3>2
  <2>4. v.line = identity /\ CategoryOf(v, identity) = Classify(v.reports)
    BY <2>3 DEF CategoryOf
  <2>5. Classify(v.reports) \in {"passed", "ambiguous", "errored", "failed", "xpassed", "xfailed", "skipped"}
    BY DEF Classify
  <2>q. QED
    BY <2>1, <2>3, <2>4, <2>5
<1>8. invocations # {}
  BY <1>1 DEF pytest_collection_finish
<1>q. QED
  BY <1>7, <1>8

(* An ok receipt for a change plan: the identified tree holds the planned  *)
(* function, and pytest called that very function, deselected none of its  *)
(* invocations and saw each pass cleanly, for any tests, reports and       *)
(* plugins (_planned_test_identity, pytest_sessionfinish).                 *)
THEOREM PlannedTestRan == Spec => []PlannedTestReallyRan
<1>1. VerificationInv => PlannedTestReallyRan
  <2> SUFFICES ASSUME VerificationInv, receipt = "ok", planned, ~undone
               PROVE  /\ Wiring \subseteq Named.wiring
                      /\ Named.tests # {}
                      /\ \A v \in Named.tests :
                           ~v.deselected /\ v.line = Named.definition.line /\ CleanReports(v.reports)
    BY DEF PlannedTestReallyRan, Named, Digest
  <2>1. ReceiptOk /\ Static /\ at = "end" /\ Where = "end" /\ ~Spoiled /\ Knows
    BY OkReceipt DEF VerificationInv
  <2>2. local.plan # None /\ local.identity = PlannedTestIdentity(Named.definition)
    BY <2>1 DEF Knows, KnowsPlan, BeforePlan
  <2>3. local.planReport = "ok"
    <3>1. local.errors = {} /\ ~Lost /\ local.planReport # "bad"
      BY <2>1 DEF ReceiptOk, Spoiled
    <3>2. "end" \notin BeforeReport
      BY DEF BeforeReport, BeforeMap, BeforePolicy, BeforePlan
    <3>q. QED
      BY <2>1, <2>2, <3>1, <3>2 DEF Static, Reported, VerificationTypeOK
  <2>4. local.identity # None /\ local.test = "passed"
    BY <2>1, <2>3 DEF Static, Reported
  <2>5. Wiring \subseteq Named.wiring
    BY <2>1, <2>3 DEF Knows, KnowsWiring
  <2>6. PICK fate \in ReceiptFates : TestStatus(fate, Named.tests, local.identity) = "passed"
    BY <2>1, <2>4 DEF Knows, KnowsTest
  <2>7. ExecutionStatus(Named.tests, local.identity) = "passed"
    BY <2>6 DEF TestStatus, ReceiptFates
  <2>8. Named.tests \in SUBSET Invocations
    <3>1. Digest \in Trees
      BY <2>1 DEF Knows, KnowsPolicy, BeforePolicy, BeforePlan
    <3>q. QED
      BY <3>1, VerificationAssumption DEF Named
  <2>9. local.identity = Named.definition.line
    BY <2>2, <2>4 DEF PlannedTestIdentity
  <2>10. /\ Named.tests # {}
         /\ \A v \in Named.tests : ~v.deselected /\ v.line = local.identity /\ Classify(v.reports) = "passed"
    BY <2>4, <2>7, <2>8, PassedRun
  <2>11. \A v \in Named.tests : CleanReports(v.reports)
    <3> TAKE v \in Named.tests
    <3>1. v.reports \in Seq(Reports)
      BY <2>8 DEF Invocations
    <3>q. QED
      BY <3>1, <2>10, PassedIsClean
  <2>q. QED
    BY <2>5, <2>9, <2>10, <2>11
<1>q. QED
  BY <1>1, VerificationInitial, VerificationInductive, PTL DEF Spec
=============================================================================
