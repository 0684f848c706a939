--------------------------- MODULE ToolchainProofs ---------------------------
(***************************************************************************)
(* Proofs about the developer's tools: the evaluation runner and the       *)
(* generators.                                                             *)
(***************************************************************************)
EXTENDS Evaluations, Generation, FiniteSetTheorems, SequenceTheorems, TLAPS

-----------------------------------------------------------------------------
(* The evaluation runner, for any suites, measurements and concurrency.    *)

TaskFields == {"case", "pc", "held", "expired", "hit", "outer", "outcome"}

SomeCancelled == \E i \in DOMAIN tasks : tasks[i].pc = "cancelled"
NoneActive == \A i \in DOMAIN tasks : ~Active(tasks[i])

(* A batch is under way only between StartBatch and gather; when gather    *)
(* gave up on it, one of its tasks is cancelled for good.                  *)
RunInv ==
  /\ \A i \in DOMAIN tasks : DOMAIN tasks[i] = TaskFields
  /\ pc \in {"batch", "gather", "closing", "aborting"} => lifespan = "open"
  /\ pc \notin {"gather", "aborting", "cancelled", "failed"} => tasks = <<>>
  /\ pc \in {"aborting", "cancelled", "failed"} => NoneActive \/ SomeCancelled

LEMMA CaseSteps ==
  ASSUME RunInv, NEW i \in DOMAIN tasks, Case(i)
  PROVE  /\ pc' = pc /\ lifespan' = lifespan
         /\ DOMAIN tasks' = DOMAIN tasks
         /\ DOMAIN tasks'[i] = TaskFields
         /\ \A j \in DOMAIN tasks \ {i} : tasks'[j] = tasks[j]
         /\ ~Active(tasks[i]) => tasks'[i].pc = tasks[i].pc
<1>1. DOMAIN tasks[i] = TaskFields
  BY DEF RunInv
<1>2. ASSUME NEW t, DOMAIN t = TaskFields, Step(i, t), ~Active(tasks[i]) => t.pc = tasks[i].pc
      PROVE  /\ pc' = pc /\ lifespan' = lifespan
             /\ DOMAIN tasks' = DOMAIN tasks
             /\ DOMAIN tasks'[i] = TaskFields
             /\ \A j \in DOMAIN tasks \ {i} : tasks'[j] = tasks[j]
             /\ ~Active(tasks[i]) => tasks'[i].pc = tasks[i].pc
  BY <1>2 DEF Step
<1>3. ASSUME NEW t, DOMAIN t = TaskFields, NEW held
      PROVE  DOMAIN Ended(t, held) = TaskFields
  BY <1>3 DEF Ended
<1>4. CASE Enter(i)
  <2>1. tasks[i].pc = "entering"
    BY <1>4 DEF Enter
  <2>2. PICK t : Step(i, t) /\ DOMAIN t = TaskFields
    <3>1. CASE Step(i, [tasks[i] EXCEPT !.pc = "evaluating"])
      BY <1>1, <3>1
    <3>2. ASSUME NEW code, Step(i, Ended(tasks[i], Raises(code)))
          PROVE  \E t : Step(i, t) /\ DOMAIN t = TaskFields
      BY <1>1, <1>3, <3>2
    <3>q. QED
      BY <1>4, <3>1, <3>2 DEF Enter
  <2>q. QED
    BY <1>2, <2>1, <2>2 DEF Active
<1>5. CASE Evaluate(i)
  <2>1. tasks[i].pc = "evaluating"
    BY <1>5 DEF Evaluate
  <2>2. PICK t : Step(i, t) /\ DOMAIN t = TaskFields
    <3>1. ASSUME NEW held, Step(i, [tasks[i] EXCEPT !.pc = "exiting", !.held = held])
          PROVE  \E t : Step(i, t) /\ DOMAIN t = TaskFields
      <4> DEFINE t == [tasks[i] EXCEPT !.pc = "exiting", !.held = held]
      <4>1. DOMAIN t = TaskFields
        BY <1>1
      <4>2. Step(i, t)
        BY <3>1
      <4> HIDE DEF t
      <4>q. QED
        BY <4>1, <4>2
    <3>2. CASE \E m \in Measurements :
                 Step(i, [tasks[i] EXCEPT !.pc = "exiting",
                            !.held = IF _validated_measurement(Declared, m)
                                     THEN Value(m) ELSE Raises("result")])
      BY <3>1, <3>2
    <3>3. CASE \E held \in {Raises("case"), Raises("dependency_timeout"), Cancelling} :
                 Step(i, [tasks[i] EXCEPT !.pc = "exiting", !.held = held])
      BY <3>1, <3>3
    <3>q. QED
      BY <1>5, <3>2, <3>3 DEF Evaluate
  <2>q. QED
    BY <1>2, <2>1, <2>2 DEF Active
<1>6. CASE ExitContext(i)
  <2>1. tasks[i].pc = "exiting"
    BY <1>6 DEF ExitContext
  <2>2. PICK t : Step(i, t) /\ DOMAIN t = TaskFields
    <3>1. ASSUME NEW held, Step(i, Ended(tasks[i], held))
          PROVE  \E t : Step(i, t) /\ DOMAIN t = TaskFields
      BY <1>1, <1>3, <3>1
    <3>q. QED
      BY <1>6, <3>1 DEF ExitContext
  <2>q. QED
    BY <1>2, <2>1, <2>2 DEF Active
<1>7. CASE Expire(i)
  BY <1>1, <1>2, <1>7 DEF Expire, Active
<1>8. CASE Interrupt(i)
  <2> DEFINE t == [tasks[i] EXCEPT !.hit = FALSE]
  <2>0. DOMAIN t = TaskFields /\ t.pc = tasks[i].pc
    BY <1>1 DEF TaskFields
  <2> HIDE DEF t
  <2>1. CASE Step(i, t)
    BY <1>2, <2>0, <2>1
  <2>2. CASE t.pc = "evaluating" /\ Step(i, [t EXCEPT !.pc = "exiting", !.held = Cancelling])
    BY <1>2, <2>0, <2>2 DEF Active
  <2>3. CASE t.pc \in {"entering", "exiting"} /\ Step(i, Ended(t, Cancelling))
    <3>1. DOMAIN Ended(t, Cancelling) = TaskFields
      BY <1>3, <2>0
    <3>q. QED
      BY <1>2, <2>0, <2>3, <3>1 DEF Active
  <2>q. QED
    BY <1>8, <2>1, <2>2, <2>3 DEF Interrupt, t
<1>q. QED
  BY <1>4, <1>5, <1>6, <1>7, <1>8 DEF Case

LEMMA RunInvInductive ==
  ASSUME RunInv, Next
  PROVE  RunInv'
<1>1. ASSUME NEW i \in DOMAIN tasks, Case(i)
      PROVE  RunInv'
  <2>1. \A j \in DOMAIN tasks : DOMAIN tasks'[j] = TaskFields
    BY <1>1, CaseSteps DEF RunInv
  <2>2. pc' = pc /\ lifespan' = lifespan /\ DOMAIN tasks' = DOMAIN tasks
    BY <1>1, CaseSteps
  <2>3. tasks # <<>>
    BY <1>1
  <2>4. \A j \in DOMAIN tasks : ~Active(tasks[j]) => tasks'[j].pc = tasks[j].pc
    BY <1>1, CaseSteps
  <2>5. NoneActive => NoneActive'
    BY <2>2, <2>4 DEF NoneActive, Active
  <2>6. SomeCancelled => SomeCancelled'
    BY <2>2, <2>4 DEF SomeCancelled, Active
  <2>q. QED
    BY <2>1, <2>2, <2>3, <2>5, <2>6 DEF RunInv
<1>2. CASE run
  BY <1>2 DEF run, RunInv
<1>3. CASE _open_lifespan
  BY <1>3 DEF _open_lifespan, RunInv, NoneActive
<1>4. CASE StartBatch
  <2>1. lifespan' = lifespan /\ pc = "batch" /\ pc' \in {"batch", "gather"} /\ tasks = <<>>
    BY <1>4 DEF StartBatch, RunInv
  <2>2. CASE UNCHANGED <<pc, tasks>>
    BY <2>1, <2>2 DEF RunInv
  <2>3. CASE pc' = "gather"
    <3>1. PICK batch : tasks' = [i \in DOMAIN batch |-> NewTask(batch[i])]
      BY <1>4, <2>1, <2>3 DEF StartBatch
    <3>2. \A i \in DOMAIN tasks' : DOMAIN tasks'[i] = TaskFields
      BY <3>1 DEF NewTask, TaskFields
    <3>q. QED
      BY <2>1, <2>3, <3>2 DEF RunInv
  <2>q. QED
    BY <1>4, <2>2, <2>3 DEF StartBatch
<1>5. CASE gather
  <2>1. lifespan' = lifespan /\ pc = "gather"
    BY <1>5 DEF gather
  <2>2. CASE tasks' = <<>> /\ pc' = "batch"
    BY <2>1, <2>2 DEF RunInv
  <2>3. CASE pc' = "aborting" /\ UNCHANGED tasks /\ (AllDone \/ SomeCancelled)
    <3>1. AllDone => NoneActive
      BY DEF AllDone, NoneActive, Active, ToSet
    <3>q. QED
      BY <2>1, <2>3, <3>1 DEF RunInv, NoneActive, SomeCancelled, Active
  <2>q. QED
    BY <1>5, <2>2, <2>3 DEF gather, SomeCancelled
<1>6. CASE _run_evaluation
  BY <1>6 DEF _run_evaluation, RunInv
<1>7. CASE CloseLifespan
  BY <1>7 DEF CloseLifespan, RunInv, NoneActive, SomeCancelled, Active
<1>8. CASE Cancel
  <2>1. CASE pc = "opening" /\ pc' = "cancelled" /\ UNCHANGED tasks
    BY <1>8, <2>1 DEF Cancel, RunInv, NoneActive
  <2>2. CASE pc = "gather" /\ UNCHANGED pc
    <3>1. \A i \in DOMAIN tasks' : DOMAIN tasks'[i] = TaskFields
      BY <1>8, <2>2 DEF Cancel, RunInv
    <3>q. QED
      BY <1>8, <2>2, <3>1 DEF Cancel, RunInv
  <2>q. QED
    BY <1>8, <2>1, <2>2 DEF Cancel
<1>q. QED
  BY <1>1, <1>2, <1>3, <1>4, <1>5, <1>6, <1>7, <1>8 DEF Next, Runner

(* While the lifespan is closed no case uses its context any more, unless  *)
(* one of its batch was cancelled: a deadline, a failure or a cancelled    *)
(* run never closes it under a case that is still running                  *)
(* (EvaluationRunner.run).                                                 *)
THEOREM LifespanOutlastsCases == Spec => []LifespanSurroundsCases
<1>1. Init => RunInv
  BY DEF Init, RunInv
<1>2. RunInv /\ [Next]_vars => RunInv'
  <2>1. CASE UNCHANGED vars
    BY <2>1 DEF vars, RunInv, NoneActive, SomeCancelled, Active
  <2>q. QED
    BY <2>1, RunInvInductive
<1>3. RunInv => LifespanSurroundsCases
  BY DEF RunInv, LifespanSurroundsCases, NoneActive, SomeCancelled, ToSet
<1>q. QED
  BY <1>1, <1>2, <1>3, PTL DEF Spec

-----------------------------------------------------------------------------
(* What the reports of the evaluation runner say.  First the arithmetic of *)
(* batches and sums, the community modules' sum of nothing among it.       *)
LEMMA EmptySum == ASSUME NEW f, DOMAIN f = {} PROVE SumFunction(f) = 0
<1> DEFINE g == [s \in SUBSET {} |-> 0]
<1>1. \A s \in SUBSET {} : s = {}
  OBVIOUS
<1>2. SumFunction(f) = FoldFunctionOnSet(+, 0, f, {})
  BY DEF SumFunction, SumFunctionOnSet
<1>3. FoldFunctionOnSet(+, 0, f, {}) = 0
  <2> SUFFICES MapThenFoldSet(+, 0, LAMBDA i : f[i], LAMBDA s: CHOOSE x \in s : TRUE, {}) = 0
    BY DEF FoldFunctionOnSet
  <2> DEFINE iter == CHOOSE it : it = [s \in SUBSET {} |-> IF s = {} THEN 0
                                        ELSE f[CHOOSE x \in s : TRUE] + it[s \ {CHOOSE x \in s : TRUE}]]
  <2>1. g = [s \in SUBSET {} |-> IF s = {} THEN 0
                                        ELSE f[CHOOSE x \in s : TRUE] + g[s \ {CHOOSE x \in s : TRUE}]]
    BY <1>1
  <2>2. iter = [s \in SUBSET {} |-> IF s = {} THEN 0
                                        ELSE f[CHOOSE x \in s : TRUE] + iter[s \ {CHOOSE x \in s : TRUE}]]
    <3> HIDE DEF g
    <3>q. QED BY <2>1, Zenon
  <2>3. iter[{}] = 0
    <3> HIDE DEF iter
    <3>q. QED BY <2>2
  <2>q. QED
    BY <2>3 DEF MapThenFoldSet
<1>q. QED
  BY <1>2, <1>3

LEMMA DivMod ==
  ASSUME NEW c \in Nat \ {0}, NEW n \in Int
  PROVE  n % c \in 0..(c-1) /\ n = c * (n \div c) + (n % c) /\ n \div c \in Int
  BY Z3T(30)

(* Division has one remainder.                                             *)
LEMMA OneQuotient ==
  ASSUME NEW c \in Nat \ {0}, NEW p \in Int, NEW q \in Int, NEW d \in 0..(c-1), NEW r \in 0..(c-1),
         c * p + d = c * q + r
  PROVE d = r
<1>1. CASE p = q
  <2>1. c * p \in Int
    OBVIOUS
  <2>q. QED BY <1>1, <2>1
<1>2. CASE p < q
  <2>1. q = p + 1 + (q - p - 1)
    OBVIOUS
  <2>2. c * (q - p - 1) >= 0
    BY <1>2
  <2>3. c * q = c * p + c + c * (q - p - 1)
    OBVIOUS
  <2>4. c * p \in Int /\ c * q \in Int /\ c * (q - p - 1) \in Int
    OBVIOUS
  <2>q. QED BY <2>2, <2>3, <2>4
<1>3. CASE q < p
  <2>2. c * (p - q - 1) >= 0
    BY <1>3
  <2>3. c * p = c * q + c + c * (p - q - 1)
    OBVIOUS
  <2>4. c * p \in Int /\ c * q \in Int /\ c * (p - q - 1) \in Int
    OBVIOUS
  <2>q. QED BY <2>2, <2>3, <2>4
<1>q. QED BY <1>1, <1>2, <1>3

(* The batch a case is in, and the end of a full batch.                    *)
LEMMA RemainderOf ==
  ASSUME NEW c \in Nat \ {0}, NEW b \in Nat, b % c = 0, NEW d \in 0..(c-1)
  PROVE  (b + d) % c = d
<1>1. b = c * (b \div c) /\ b \div c \in Int
  BY DivMod
<1>2. b + d = c * ((b + d) \div c) + ((b + d) % c) /\ (b + d) \div c \in Int
      /\ (b + d) % c \in 0..(c-1)
  <2>1. b + d \in Int
    OBVIOUS
  <2> DEFINE n == b + d
  <2>2. n \in Int
    BY <2>1
  <2> HIDE DEF n
  <2>3. n = c * (n \div c) + (n % c) /\ n \div c \in Int /\ n % c \in 0..(c-1)
    BY <2>2, DivMod
  <2>q. QED
    BY <2>3 DEF n
<1>3. c * (b \div c) + d = c * ((b + d) \div c) + ((b + d) % c)
  BY <1>1, <1>2
<1>q. QED BY <1>1, <1>2, <1>3, OneQuotient

LEMMA NextMultiple ==
  ASSUME NEW c \in Nat \ {0}, NEW b \in Nat, b % c = 0
  PROVE  (b + c) % c = 0
<1>1. b = c * (b \div c) /\ b \div c \in Int
  BY DivMod
<1>2. b + c = c * ((b + c) \div c) + ((b + c) % c) /\ (b + c) \div c \in Int
      /\ (b + c) % c \in 0..(c-1)
  <2>1. b + c \in Int
    OBVIOUS
  <2> DEFINE n == b + c
  <2>2. n \in Int
    BY <2>1
  <2> HIDE DEF n
  <2>3. n = c * (n \div c) + (n % c) /\ n \div c \in Int /\ n % c \in 0..(c-1)
    BY <2>2, DivMod
  <2>q. QED
    BY <2>3 DEF n
<1>3. c * ((b \div c) + 1) + 0 = c * ((b + c) \div c) + ((b + c) % c)
  BY <1>1, <1>2
<1>4. 0 \in 0..(c-1) /\ (b \div c) + 1 \in Int
  BY <1>1
<1>q. QED BY <1>2, <1>3, <1>4, OneQuotient

-----------------------------------------------------------------------------
(* What the runner's variables hold.                                       *)
Codes == {None, "case", "result", "timeout", "budget_exceeded", "budget_unverified"}
CaseOutcomes ==
  [status : Statuses, code : Codes, score : Nat \cup {None}, tokens : Nat \cup {None},
   cost : Nat \cup {None}]

Helds ==
  {Nothing, Cancelling} \cup {Value(m) : m \in Measurements}
    \cup {Raises(code) : code \in {"case", "result", "dependency_timeout"}}

CaseTasks ==
  [case : Nat, pc : {"entering", "evaluating", "exiting", "done", "cancelled"}, held : Helds,
   expired : BOOLEAN, hit : BOOLEAN, outer : BOOLEAN, outcome : CaseOutcomes \cup {None}]

EvaluationOutcomes == {Report(s, seq) : s \in DOMAIN Suites, seq \in Seq(CaseOutcomes)}

RunTypeOK ==
  /\ pc \in {"idle", "opening", "not_found", "failed", "batch", "gather", "aborting", "closing",
             "reported", "cancelled"}
  /\ suite \in Nat \ {0} /\ last \in Nat
  /\ pc \notin {"idle", "not_found"} => last \in 0..Len(Suites)
  /\ outcomes \in Seq(CaseOutcomes)
  /\ tasks \in Seq(CaseTasks)
  /\ reports \in Seq(EvaluationOutcomes)

(* The cases before the last batch of k attempted ones. *)
Earlier(k) == 1..(k - ((k - 1) % concurrency) - 1)

(* What was attempted is a beginning of what there is; each batch but the  *)
(* last fits the limits with the batches before it; and what follows was   *)
(* left out because what was attempted does not.                           *)
Attempts(s, seq, k) ==
  /\ Attempted(seq) = 1..k
  /\ k = 0 => seq = <<>>
  /\ k < Len(seq) => _budget_outcome(Suites[s], seq).status # "passed"
  /\ \A usage \in {"tokens", "cost"} : Limit(Suites[s], usage) # None =>
       /\ \A c \in Earlier(k) : <<s, c>> \in punctual
       /\ Sum(usage, seq, Earlier(k)) <= Limit(Suites[s], usage)

OutcomesFit(s, seq) ==
  /\ Len(seq) <= Suites[s].cases
  /\ Len(seq) < Suites[s].cases => Len(seq) % concurrency = 0
  /\ \A c \in Completed(seq) : <<s, c>> \in punctual
  /\ \E k \in 0..Len(seq) : Attempts(s, seq, k)

(* A case of the batch that ended was attempted, and a result is in time.  *)
TaskFits(i) ==
  /\ tasks[i].case = Len(outcomes) + i
  /\ tasks[i].pc = "exiting" => tasks[i].held.kind \in {"value", "raise", "cancel"}
  /\ tasks[i].pc = "done" =>
       /\ tasks[i].outcome \in CaseOutcomes
       /\ IsAttempted(tasks[i].outcome)
       /\ IsCompleted(tasks[i].outcome) => <<suite, tasks[i].case>> \in punctual

(* The suite whose report is the next. *)
Upcoming == IF pc \in {"closing", "reported"} THEN last + 1 ELSE suite

ReportsFit ==
  \A i \in DOMAIN reports :
    /\ OutcomesFit(reports[i].suite, reports[i].cases)
    /\ Len(reports[i].cases) = Suites[reports[i].suite].cases

HonestInv ==
  /\ RunTypeOK
  /\ pc \in {"batch", "gather"} => suite <= last /\ OutcomesFit(suite, outcomes)
  /\ pc \in {"idle", "opening"} => reports = <<>> /\ outcomes = <<>>
  /\ pc = "gather" =>
       /\ Len(outcomes) < Declared.cases
       /\ DOMAIN tasks = DOMAIN Batch(Declared, Len(outcomes))
       /\ _budget_outcome(Declared, outcomes).status = "passed"
  /\ \A i \in DOMAIN tasks : TaskFits(i)
  /\ ReportsFit
  /\ pc \in {"batch", "gather", "closing", "reported"} =>
       \A i \in DOMAIN reports : reports[i].suite = Upcoming - Len(reports) + i - 1
-----------------------------------------------------------------------------
(* A suite as SuitesAssumption has it.                                     *)
LEMMA SuiteFacts ==
  ASSUME NEW s \in DOMAIN Suites
  PROVE  /\ s \in Nat \ {0} /\ s <= Len(Suites)
         /\ Suites[s].cases \in Nat \ {0} /\ Suites[s].threshold \in Nat
         /\ \A usage \in {"tokens", "cost"} : Limit(Suites[s], usage) \in Nat \cup {None}
<1> DEFINE Declarable == [cases : Nat \ {0}, max_tokens : Nat \cup {None},
                          max_cost : Nat \cup {None}, threshold : Nat]
<1>1. Suites \in Seq(Declarable)
  BY SuitesAssumption
<1> HIDE DEF Declarable
<1>2. s \in 1..Len(Suites) /\ Len(Suites) \in Nat /\ Suites[s] \in Declarable
  BY <1>1
<1>q. QED
  BY <1>2 DEF Limit, Declarable

(* Behind b cases in full batches, a batch of n has those b before it.     *)
LEMMA EarlierAre ==
  ASSUME NEW b \in Nat, b % concurrency = 0, NEW n \in 1..concurrency
  PROVE  Earlier(b + n) = 1..b
<1>1. concurrency \in Nat \ {0}
  BY ConcurrencyAssumption
<1>2. (b + (n - 1)) % concurrency = n - 1
  <2>1. n - 1 \in 0..(concurrency - 1)
    BY <1>1
  <2>q. QED
    BY <1>1, <2>1, RemainderOf
<1>3. (b + n) - 1 = b + (n - 1)
  OBVIOUS
<1>4. ((b + n) - 1) % concurrency = n - 1
  BY <1>2, <1>3
<1>5. (b + n) - (n - 1) - 1 = b
  BY <1>1
<1>q. QED
  BY <1>4, <1>5 DEF Earlier

(* A sum depends on the cases it sums up only.                             *)
LEMMA SameSum ==
  ASSUME NEW usage, NEW seq, NEW more, NEW cases, \A c \in cases : more[c] = seq[c]
  PROVE  Sum(usage, more, cases) = Sum(usage, seq, cases)
<1>1. [c \in cases |-> more[c][usage]] = [c \in cases |-> seq[c][usage]]
  OBVIOUS
<1>q. QED
  BY <1>1 DEF Sum

(* A budget is judged by the cases that were attempted.                    *)
LEMMA SameBudget ==
  ASSUME NEW declared, NEW seq, NEW more, Attempted(more) = Attempted(seq),
         \A c \in Attempted(seq) : more[c] = seq[c]
  PROVE  _budget_outcome(declared, more) = _budget_outcome(declared, seq)
<1>1. ASSUME NEW usage
      PROVE  Consumed(usage, more) = Consumed(usage, seq)
  <2>1. Sum(usage, more, Attempted(more)) = Sum(usage, seq, Attempted(seq))
    BY SameSum
  <2>2. (\A c \in Attempted(more) : IsCompleted(more[c]) /\ more[c][usage] # None)
          <=> \A c \in Attempted(seq) : IsCompleted(seq[c]) /\ seq[c][usage] # None
    OBVIOUS
  <2>q. QED
    BY <2>1, <2>2 DEF Consumed
<1>2. Consumed("tokens", more) = Consumed("tokens", seq)
      /\ Consumed("cost", more) = Consumed("cost", seq)
  BY <1>1
<1>q. QED
  BY <1>2 DEF _budget_outcome

(* Within the limits, everything attempted completed.                      *)
LEMMA PassedBudget ==
  ASSUME NEW declared, NEW seq, _budget_outcome(declared, seq).status = "passed",
         NEW usage \in {"tokens", "cost"}, Limit(declared, usage) # None
  PROVE  /\ Attempted(seq) \subseteq Completed(seq)
         /\ Sum(usage, seq, Attempted(seq)) <= Limit(declared, usage)
<1>1. _budget_dimension_status(Limit(declared, usage), Consumed(usage, seq)) = "passed"
  <2>1. {_budget_dimension_status(declared.max_tokens, Consumed("tokens", seq)),
         _budget_dimension_status(declared.max_cost, Consumed("cost", seq))}
          \cap {"exceeded", "unverified"} = {}
    BY DEF _budget_outcome
  <2>2. _budget_dimension_status(Limit(declared, usage), Consumed(usage, seq))
          \notin {"exceeded", "unverified"}
    BY <2>1 DEF Limit
  <2>q. QED
    BY <2>2 DEF _budget_dimension_status
<1>2. Consumed(usage, seq) # None /\ Consumed(usage, seq) <= Limit(declared, usage)
  BY <1>1 DEF _budget_dimension_status
<1>3. /\ \A c \in Attempted(seq) : IsCompleted(seq[c])
      /\ Consumed(usage, seq) = Sum(usage, seq, Attempted(seq))
  BY <1>2 DEF Consumed
<1>q. QED
  BY <1>2, <1>3 DEF Attempted, Completed

(* Before its first batch nothing of a suite is spent.                     *)
LEMMA NothingSpent ==
  ASSUME NEW s \in DOMAIN Suites
  PROVE  OutcomesFit(s, <<>>)
<1>1. concurrency \in Nat \ {0} /\ Suites[s].cases \in Nat \ {0}
  BY ConcurrencyAssumption, SuiteFacts
<1>2. 0 % concurrency = 0
  BY <1>1, Z3T(30)
<1>3. Attempted(<<>>) = {} /\ Completed(<<>>) = {} /\ Len(<<>>) = 0
  BY DEF Attempted, Completed
<1>4. Earlier(0) = {}
  <2>1. -1 \in Int
    OBVIOUS
  <2>2. (0 - 1) % concurrency \in 0..(concurrency - 1)
    BY <1>1, <2>1, DivMod
  <2>q. QED
    BY <2>2, <1>1 DEF Earlier
<1>5. ASSUME NEW usage \in {"tokens", "cost"}, Limit(Suites[s], usage) # None
      PROVE  Sum(usage, <<>>, Earlier(0)) <= Limit(Suites[s], usage)
  <2>1. Sum(usage, <<>>, {}) = 0
    BY EmptySum DEF Sum
  <2>2. Limit(Suites[s], usage) \in Nat
    BY <1>5, SuiteFacts
  <2>q. QED
    BY <2>1, <2>2, <1>4
<1>6. Attempts(s, <<>>, 0)
  BY <1>3, <1>4, <1>5 DEF Attempts
<1>q. QED
  BY <1>1, <1>2, <1>3, <1>6 DEF OutcomesFit

(* What fits goes on fitting while cases end in time.                      *)
LEMMA StillFits ==
  ASSUME punctual \subseteq punctual', NEW s, NEW seq, OutcomesFit(s, seq)
  PROVE  OutcomesFit(s, seq)'
<1>1. PICK k \in 0..Len(seq) : Attempts(s, seq, k)
  BY DEF OutcomesFit
<1>2. Attempts(s, seq, k)'
  BY <1>1 DEF Attempts
<1>q. QED
  BY <1>1, <1>2 DEF OutcomesFit

-----------------------------------------------------------------------------
(* How a case ends: completed only with a value, and before its deadline.  *)
LEMMA EndsFit ==
  ASSUME NEW t \in CaseTasks, NEW held \in Helds, held.kind \in {"value", "raise", "cancel"}
  PROVE  /\ Ended(t, held) \in CaseTasks
         /\ Ended(t, held).case = t.case
         /\ Ended(t, held).pc \in {"done", "cancelled"}
         /\ Ended(t, held).pc = "done" =>
              /\ Ended(t, held).outcome \in CaseOutcomes
              /\ IsAttempted(Ended(t, held).outcome)
              /\ IsCompleted(Ended(t, held).outcome) => held.kind = "value" /\ ~t.expired
<1> DEFINE outcome == Ended(t, held).outcome
<1>1. Outcome("timed_out", "timeout") \in CaseOutcomes
      /\ \A code \in {"result", "case"} : Outcome("failed", code) \in CaseOutcomes
  BY DEF Outcome, CaseOutcomes, Codes, Statuses
<1>2. CASE held.kind = "value"
  <2>1. PICK m \in Measurements : held = Value(m)
    BY <1>2 DEF Helds, Value, Raises, Cancelling, Nothing
  <2>2. held.of = m /\ m \in [score : Nat \cup {None}, tokens : Nat \cup {None}, cost : Nat \cup {None}]
    BY <2>1, SuitesAssumption DEF Value
  <2>3. CompletedCase(held.of) \in CaseOutcomes
    BY <2>2 DEF CompletedCase, CaseOutcomes, Codes, Statuses
  <2>4. Ended(t, held) = [t EXCEPT !.pc = "done", !.held = held,
                            !.outcome = IF t.expired THEN Outcome("timed_out", "timeout")
                                        ELSE CompletedCase(held.of)]
    BY <1>2 DEF Ended
  <2>5. PICK o \in CaseOutcomes :
          /\ Ended(t, held) = [t EXCEPT !.pc = "done", !.held = held, !.outcome = o]
          /\ IsAttempted(o)
          /\ IsCompleted(o) => ~t.expired
    <3>1. CASE t.expired
      BY <1>1, <2>4, <3>1 DEF IsAttempted, IsCompleted, Outcome
    <3>2. CASE ~t.expired
      BY <2>3, <2>4, <3>2 DEF IsAttempted, CompletedCase
    <3>q. QED
      BY <3>1, <3>2
  <2>q. QED
    BY <1>2, <2>5 DEF CaseTasks
<1>3. CASE held.kind = "raise"
  <2>1. PICK o \in {Outcome("timed_out", "timeout"), Outcome("failed", "result"),
                    Outcome("failed", "case")} :
          Ended(t, held) = [t EXCEPT !.pc = "done", !.held = held, !.outcome = o]
    BY <1>3 DEF Ended
  <2>2. o \in CaseOutcomes /\ IsAttempted(o) /\ ~IsCompleted(o)
    BY <1>1 DEF IsAttempted, IsCompleted, Outcome
  <2>q. QED
    BY <2>1, <2>2 DEF CaseTasks
<1>4. CASE held.kind = "cancel"
  <2>1. CASE t.expired /\ ~t.outer
    <3>1. Ended(t, held) = [t EXCEPT !.pc = "done", !.held = held,
                              !.outcome = Outcome("timed_out", "timeout")]
      BY <1>4, <2>1 DEF Ended
    <3>2. IsAttempted(Outcome("timed_out", "timeout")) /\ ~IsCompleted(Outcome("timed_out", "timeout"))
      BY DEF IsAttempted, IsCompleted, Outcome
    <3>q. QED
      BY <1>1, <3>1, <3>2 DEF CaseTasks
  <2>2. CASE ~(t.expired /\ ~t.outer)
    <3>1. Ended(t, held) = [t EXCEPT !.pc = "cancelled", !.held = held, !.outcome = None]
      BY <1>4, <2>2 DEF Ended
    <3>q. QED
      BY <3>1 DEF CaseTasks
  <2>q. QED
    BY <2>1, <2>2
<1>q. QED
  BY <1>2, <1>3, <1>4

(* What must be known of a case's locals for the invariant to go on.       *)
CaseFits(t) ==
  /\ t.pc = "exiting" => t.held.kind \in {"value", "raise", "cancel"}
  /\ t.pc = "done" =>
       /\ t.outcome \in CaseOutcomes
       /\ IsAttempted(t.outcome)
       /\ IsCompleted(t.outcome) => <<suite, t.case>> \in punctual

(* A step of one case changes its own locals only.                         *)
LEMMA OneCaseKeeps ==
  ASSUME HonestInv, NEW i \in DOMAIN tasks, NEW t \in CaseTasks, Step(i, t),
         punctual \subseteq punctual', t.case = tasks[i].case, CaseFits(t)'
  PROVE  HonestInv'
<1>1. /\ tasks' = [tasks EXCEPT ![i] = t]
      /\ UNCHANGED <<pc, suite, last, outcomes, reports>>
  BY DEF Step
<1>2. tasks' \in Seq(CaseTasks) /\ DOMAIN tasks' = DOMAIN tasks /\ tasks'[i] = t
      /\ \A j \in DOMAIN tasks \ {i} : tasks'[j] = tasks[j]
  <2>1. tasks \in Seq(CaseTasks)
    BY DEF HonestInv, RunTypeOK
  <2>q. QED
    BY <1>1, <2>1
<1>3. RunTypeOK'
  BY <1>1, <1>2 DEF HonestInv, RunTypeOK
<1>4. ASSUME NEW j \in DOMAIN tasks'
      PROVE  TaskFits(j)'
  <2>1. TaskFits(j)
    BY <1>2, <1>4 DEF HonestInv
  <2>2. CASE j = i
    BY <1>1, <1>2, <2>1, <2>2 DEF TaskFits, CaseFits
  <2>3. CASE j # i
    BY <1>1, <1>2, <1>4, <2>1, <2>3 DEF TaskFits
  <2>q. QED
    BY <2>2, <2>3
<1>5. pc' \in {"batch", "gather"} => suite' <= last' /\ OutcomesFit(suite, outcomes)'
  <2>1. PICK s, seq : s = suite /\ seq = outcomes
    OBVIOUS
  <2>2. pc \in {"batch", "gather"} => OutcomesFit(s, seq)'
    BY <2>1, StillFits DEF HonestInv
  <2>q. QED
    BY <1>1, <2>1, <2>2 DEF HonestInv
<1>6. ReportsFit'
  <2>1. ASSUME NEW r, OutcomesFit(r.suite, r.cases)
        PROVE  OutcomesFit(r.suite, r.cases)'
    BY <2>1, StillFits
  <2>q. QED
    BY <1>1, <2>1 DEF HonestInv, ReportsFit
<1>q. QED
  BY <1>1, <1>2, <1>3, <1>4, <1>5, <1>6 DEF HonestInv, Upcoming, Declared

(* A case that ends without a value of its context completes nothing.      *)
LEMMA EndKeeps ==
  ASSUME HonestInv, NEW i \in DOMAIN tasks, NEW t \in CaseTasks, t.case = tasks[i].case,
         NEW held \in Helds, held.kind \in {"value", "raise", "cancel"},
         Step(i, Ended(t, held)), punctual \subseteq punctual',
         held.kind = "value" /\ ~t.expired => <<suite, t.case>> \in punctual'
  PROVE  HonestInv'
<1>1. CaseFits(Ended(t, held))'
  <2>1. suite' = suite
    BY DEF Step
  <2>q. QED
    BY <2>1, EndsFit DEF CaseFits
<1>2. Ended(t, held) \in CaseTasks /\ Ended(t, held).case = tasks[i].case
  BY EndsFit
<1>q. QED
  BY <1>1, <1>2, OneCaseKeeps

(* How a context block ends is one of the ways a case knows of.            *)
LEMMA WhatIsHeld ==
  /\ \A code \in {"case", "result", "dependency_timeout"} :
       Raises(code) \in Helds /\ Raises(code).kind = "raise"
  /\ Cancelling \in Helds /\ Cancelling.kind = "cancel"
  /\ \A m \in Measurements : Value(m) \in Helds /\ Value(m).kind = "value"
BY DEF Helds, Raises, Cancelling, Value

(* Every step of a case preserves the invariant.                           *)
LEMMA CaseKeeps ==
  ASSUME HonestInv, NEW i \in DOMAIN tasks, Case(i)
  PROVE  HonestInv'
<1>1. tasks[i] \in CaseTasks /\ TaskFits(i) /\ suite \in Nat
  BY DEF HonestInv, RunTypeOK
<1>2. ASSUME NEW held \in Helds, held.kind \in {"value", "raise", "cancel"},
             Step(i, [tasks[i] EXCEPT !.pc = "exiting", !.held = held]), UNCHANGED punctual
      PROVE  HonestInv'
  <2>0. PICK t : t = [tasks[i] EXCEPT !.pc = "exiting", !.held = held]
    OBVIOUS
  <2>1. t \in CaseTasks /\ t.case = tasks[i].case /\ t.pc = "exiting" /\ t.held = held
    BY <1>1, <2>0 DEF CaseTasks
  <2>2. Step(i, t)
    BY <1>2, <2>0
  <2>3. CaseFits(t)'
    BY <1>2, <2>1 DEF CaseFits
  <2>q. QED
    BY <1>2, <2>1, <2>2, <2>3, OneCaseKeeps
<1>3. CASE Enter(i)
  <2>1. CASE Step(i, [tasks[i] EXCEPT !.pc = "evaluating"])
    <3>0. PICK t : t = [tasks[i] EXCEPT !.pc = "evaluating"]
      OBVIOUS
    <3>1. t \in CaseTasks /\ t.case = tasks[i].case /\ t.pc = "evaluating"
      BY <1>1, <3>0 DEF CaseTasks
    <3>2. Step(i, t)
      BY <2>1, <3>0
    <3>3. CaseFits(t)'
      BY <3>1 DEF CaseFits
    <3>q. QED
      BY <1>3, <3>1, <3>2, <3>3, OneCaseKeeps DEF Enter
  <2>2. ASSUME NEW code \in {"case", "result", "dependency_timeout"},
               Step(i, Ended(tasks[i], Raises(code)))
        PROVE  HonestInv'
    BY <1>1, <1>3, <2>2, WhatIsHeld, EndKeeps DEF Enter
  <2>q. QED
    BY <1>3, <2>1, <2>2 DEF Enter
<1>4. CASE Evaluate(i)
  <2>1. PICK held \in Helds : /\ held.kind \in {"value", "raise", "cancel"}
                              /\ Step(i, [tasks[i] EXCEPT !.pc = "exiting", !.held = held])
    <3>1. CASE \E m \in Measurements :
                 Step(i, [tasks[i] EXCEPT !.pc = "exiting",
                            !.held = IF _validated_measurement(Declared, m)
                                     THEN Value(m) ELSE Raises("result")])
      BY <3>1, WhatIsHeld
    <3>2. CASE \E held \in {Raises("case"), Raises("dependency_timeout"), Cancelling} :
                 Step(i, [tasks[i] EXCEPT !.pc = "exiting", !.held = held])
      BY <3>2, WhatIsHeld
    <3>q. QED
      BY <1>4, <3>1, <3>2 DEF Evaluate
  <2>q. QED
    BY <1>2, <1>4, <2>1 DEF Evaluate
<1>5. CASE ExitContext(i)
  <2>1. tasks[i].held \in Helds /\ tasks[i].held.kind \in {"value", "raise", "cancel"}
    BY <1>1, <1>5 DEF ExitContext, TaskFits, CaseTasks
  <2>2. CASE /\ Step(i, Ended(tasks[i], tasks[i].held))
             /\ punctual' = IF tasks[i].held.kind = "value" /\ ~tasks[i].expired
                            THEN punctual \cup {<<suite, tasks[i].case>>} ELSE punctual
    <3>1. punctual \subseteq punctual'
      BY <2>2
    <3>2. tasks[i].held.kind = "value" /\ ~tasks[i].expired =>
            <<suite, tasks[i].case>> \in punctual'
      BY <2>2
    <3>q. QED
      BY <1>1, <2>1, <2>2, <3>1, <3>2, EndKeeps
  <2>3. CASE Step(i, Ended(tasks[i], Raises("case"))) /\ UNCHANGED punctual
    BY <1>1, <2>3, WhatIsHeld, EndKeeps
  <2>q. QED
    BY <1>5, <2>2, <2>3 DEF ExitContext
<1>6. ASSUME NEW t \in CaseTasks, t.case = tasks[i].case, t.pc = tasks[i].pc,
             t.held = tasks[i].held, t.outcome = tasks[i].outcome,
             Step(i, t), UNCHANGED punctual
      PROVE  HonestInv'
  <2>1. CaseFits(t)'
    BY <1>1, <1>6 DEF CaseFits, TaskFits, Step
  <2>q. QED
    BY <1>6, <2>1, OneCaseKeeps
<1>7. CASE Expire(i)
  <2>0. PICK t : t = [tasks[i] EXCEPT !.expired = TRUE, !.hit = TRUE]
    OBVIOUS
  <2>1. /\ t \in CaseTasks /\ t.case = tasks[i].case /\ t.pc = tasks[i].pc
        /\ t.held = tasks[i].held /\ t.outcome = tasks[i].outcome
    BY <1>1, <2>0 DEF CaseTasks
  <2>2. Step(i, t) /\ UNCHANGED punctual
    BY <1>7, <2>0 DEF Expire
  <2>q. QED
    BY <1>6, <2>1, <2>2
<1>8. CASE Interrupt(i)
  <2>0. PICK t : t = [tasks[i] EXCEPT !.hit = FALSE]
    OBVIOUS
  <2>1. /\ t \in CaseTasks /\ t.case = tasks[i].case /\ t.pc = tasks[i].pc
        /\ t.held = tasks[i].held /\ t.outcome = tasks[i].outcome
    BY <1>1, <2>0 DEF CaseTasks
  <2>2. CASE Step(i, t)
    BY <1>6, <1>8, <2>1, <2>2 DEF Interrupt
  <2>3. CASE Step(i, [t EXCEPT !.pc = "exiting", !.held = Cancelling])
    <3>0. PICK u : u = [t EXCEPT !.pc = "exiting", !.held = Cancelling]
      OBVIOUS
    <3>1. u \in CaseTasks /\ u.case = tasks[i].case /\ u.pc = "exiting" /\ u.held = Cancelling
      BY <2>1, <3>0, WhatIsHeld DEF CaseTasks
    <3>2. Step(i, u)
      BY <2>3, <3>0
    <3>3. CaseFits(u)'
      BY <3>1, WhatIsHeld DEF CaseFits
    <3>q. QED
      BY <1>8, <3>1, <3>2, <3>3, OneCaseKeeps DEF Interrupt
  <2>4. CASE Step(i, Ended(t, Cancelling))
    BY <1>8, <2>1, <2>4, WhatIsHeld, EndKeeps DEF Interrupt
  <2>q. QED
    BY <1>8, <2>0, <2>2, <2>3, <2>4 DEF Interrupt
<1>q. QED
  BY <1>3, <1>4, <1>5, <1>7, <1>8 DEF Case

-----------------------------------------------------------------------------
(* The runner.  A batch is what is left, up to concurrency cases.          *)
LEMMA BatchesAre ==
  ASSUME NEW s \in DOMAIN Suites, NEW done \in Nat, done < Suites[s].cases
  PROVE  \E n \in 1..concurrency :
           /\ DOMAIN Batch(Suites[s], done) = 1..n
           /\ \A i \in 1..n : Batch(Suites[s], done)[i] = done + i
           /\ done + n <= Suites[s].cases
           /\ done + n < Suites[s].cases => n = concurrency
<1>1. Suites[s].cases \in Nat /\ concurrency \in Nat \ {0}
  BY SuiteFacts, ConcurrencyAssumption
<1> DEFINE n == IF Suites[s].cases - done < concurrency THEN Suites[s].cases - done ELSE concurrency
<1>2. n \in 1..concurrency /\ done + n <= Suites[s].cases
      /\ (done + n < Suites[s].cases => n = concurrency)
  BY <1>1
<1>3. Batch(Suites[s], done) = [i \in 1..n |-> done + i]
  BY DEF Batch
<1>q. QED
  BY <1>2, <1>3

(* Outcomes put behind outcomes.                                           *)
LEMMA Behind ==
  ASSUME NEW S, NEW seq \in Seq(S), NEW n \in Nat, NEW more, DOMAIN more = 1..n,
         \A i \in 1..n : more[i] \in S, more = [i \in 1..n |-> more[i]]
  PROVE  /\ seq \o more \in Seq(S) /\ Len(seq \o more) = Len(seq) + n
         /\ \A c \in 1..Len(seq) : (seq \o more)[c] = seq[c]
         /\ \A i \in 1..n : (seq \o more)[Len(seq) + i] = more[i]
         /\ \A c \in DOMAIN (seq \o more) :
              c \in 1..Len(seq) \/ \E i \in 1..n : c = Len(seq) + i
<1>1. more \in Seq(S)
  <2>1. more \in [1..n -> S]
    BY Zenon
  <2>q. QED
    BY <2>1
<1>2. Len(more) = n
  BY <1>1
<1>3. seq \o more \in Seq(S) /\ Len(seq \o more) = Len(seq) + n /\ Len(seq) \in Nat
  BY <1>1, <1>2
<1>4. /\ \A c \in 1..Len(seq) : (seq \o more)[c] = seq[c]
      /\ \A i \in 1..n : (seq \o more)[Len(seq) + i] = more[i]
  BY <1>1, <1>2
<1>5. DOMAIN (seq \o more) = 1..(Len(seq) + n)
  BY <1>3
<1>6. \A c \in 1..(Len(seq) + n) : c \in 1..Len(seq) \/ (c - Len(seq) \in 1..n /\ c = Len(seq) + (c - Len(seq)))
  BY <1>3
<1>q. QED
  BY <1>3, <1>4, <1>5, <1>6

(* The cases of earlier batches are cases.                                 *)
LEMMA EarlierIsBefore ==
  ASSUME NEW k \in Nat
  PROVE  Earlier(k) \subseteq 1..k
<1>1. (k - 1) % concurrency \in Nat
  <2>1. k - 1 \in Int /\ concurrency \in Nat \ {0}
    BY ConcurrencyAssumption
  <2>2. (k - 1) % concurrency \in 0..(concurrency - 1)
    BY <2>1, DivMod
  <2>q. QED
    BY <2>1, <2>2
<1>q. QED
  BY <1>1 DEF Earlier

(* Nothing attempted is within every limit.                                *)
LEMMA NothingPasses ==
  ASSUME NEW s \in DOMAIN Suites
  PROVE  _budget_outcome(Suites[s], <<>>).status = "passed"
<1>1. Attempted(<<>>) = {}
  BY DEF Attempted
<1>2. ASSUME NEW usage \in {"tokens", "cost"}
      PROVE  _budget_dimension_status(Limit(Suites[s], usage), Consumed(usage, <<>>)) = "passed"
  <2>1. Sum(usage, <<>>, {}) = 0
    BY EmptySum DEF Sum
  <2>0. None # 0
    BY SuitesAssumption
  <2>2. Consumed(usage, <<>>) = 0
    BY <1>1, <2>1 DEF Consumed
  <2>3. Limit(Suites[s], usage) \in Nat \cup {None}
    BY SuiteFacts
  <2>q. QED
    BY <2>0, <2>2, <2>3 DEF _budget_dimension_status
<1>3. /\ _budget_dimension_status(Suites[s].max_tokens, Consumed("tokens", <<>>)) = "passed"
      /\ _budget_dimension_status(Suites[s].max_cost, Consumed("cost", <<>>)) = "passed"
  BY <1>2 DEF Limit
<1>q. QED
  BY <1>3 DEF _budget_outcome

(* Cases that are left out leave the budget as it is.                      *)
LEMMA SkippedFit ==
  ASSUME NEW s \in DOMAIN Suites, NEW seq \in Seq(CaseOutcomes), OutcomesFit(s, seq),
         Len(seq) < Suites[s].cases, _budget_outcome(Suites[s], seq).status # "passed",
         NEW n \in 1..concurrency, Len(seq) + n <= Suites[s].cases,
         Len(seq) + n < Suites[s].cases => n = concurrency,
         NEW o \in CaseOutcomes, ~IsAttempted(o)
  PROVE  /\ seq \o [i \in 1..n |-> o] \in Seq(CaseOutcomes)
         /\ OutcomesFit(s, seq \o [i \in 1..n |-> o])
<1> DEFINE more == [i \in 1..n |-> o]
           all == seq \o more
<1>0. n \in Nat /\ n > 0 /\ Len(seq) \in Nat /\ DOMAIN seq = 1..Len(seq)
      /\ concurrency \in Nat \ {0}
  BY ConcurrencyAssumption
<1>1. /\ all \in Seq(CaseOutcomes) /\ Len(all) = Len(seq) + n
      /\ \A c \in 1..Len(seq) : all[c] = seq[c]
      /\ \A i \in 1..n : all[Len(seq) + i] = o
      /\ \A c \in DOMAIN all : c \in 1..Len(seq) \/ \E i \in 1..n : c = Len(seq) + i
  <2>1. DOMAIN more = 1..n /\ (\A i \in 1..n : more[i] = o) /\ more = [i \in 1..n |-> more[i]]
    OBVIOUS
  <2> HIDE DEF more
  <2>q. QED
    BY <1>0, <2>1, Behind
<1> HIDE DEF all
<1>2. DOMAIN all = 1..(Len(seq) + n)
  BY <1>1
<1>3. Attempted(all) = Attempted(seq) /\ Completed(all) = Completed(seq)
  <2>1. ~IsCompleted(o)
    BY DEF IsAttempted, IsCompleted
  <2>2. \A c \in DOMAIN all \ DOMAIN seq : all[c] = o
    BY <1>0, <1>1
  <2>3. DOMAIN seq \subseteq DOMAIN all
    BY <1>0, <1>2
  <2>4. \A c \in DOMAIN seq : all[c] = seq[c]
    BY <1>0, <1>1
  <2>q. QED
    BY <2>1, <2>2, <2>3, <2>4 DEF Attempted, Completed
<1>4. PICK k \in 0..Len(seq) : Attempts(s, seq, k)
  BY DEF OutcomesFit
<1>5. k \in Nat /\ k <= Len(seq) /\ k # 0
  <2>1. k = 0 => seq = <<>>
    BY <1>4 DEF Attempts
  <2>q. QED
    BY <1>0, <2>1, NothingPasses
<1>6. Attempts(s, all, k)
  <2>1. _budget_outcome(Suites[s], all) = _budget_outcome(Suites[s], seq)
    <3>1. \A c \in Attempted(seq) : all[c] = seq[c]
      BY <1>0, <1>1 DEF Attempted
    <3>q. QED
      BY <1>3, <3>1, SameBudget
  <2>2. ASSUME NEW usage
        PROVE  Sum(usage, all, Earlier(k)) = Sum(usage, seq, Earlier(k))
    <3>1. \A c \in Earlier(k) : all[c] = seq[c]
      BY <1>0, <1>1, <1>5, EarlierIsBefore
    <3>q. QED
      BY <3>1, SameSum
  <2>q. QED
    BY <1>3, <1>4, <1>5, <2>1, <2>2 DEF Attempts
<1>7. Len(all) < Suites[s].cases => Len(all) % concurrency = 0
  BY <1>0, <1>1, NextMultiple DEF OutcomesFit
<1>8. k \in 0..Len(all)
  BY <1>0, <1>1, <1>5
<1>9. OutcomesFit(s, all)
  BY <1>1, <1>3, <1>6, <1>7, <1>8 DEF OutcomesFit
<1>q. QED
  BY <1>1, <1>9 DEF all

(* A batch that was run is attempted, behind what fitted the limits.       *)
LEMMA BatchFits ==
  ASSUME NEW s \in DOMAIN Suites, NEW seq \in Seq(CaseOutcomes), OutcomesFit(s, seq),
         Len(seq) < Suites[s].cases, _budget_outcome(Suites[s], seq).status = "passed",
         NEW n \in 1..concurrency, Len(seq) + n <= Suites[s].cases,
         Len(seq) + n < Suites[s].cases => n = concurrency,
         NEW more, DOMAIN more = 1..n, more = [i \in 1..n |-> more[i]],
         \A i \in 1..n : /\ more[i] \in CaseOutcomes /\ IsAttempted(more[i])
                         /\ IsCompleted(more[i]) => <<s, Len(seq) + i>> \in punctual
  PROVE  /\ seq \o more \in Seq(CaseOutcomes)
         /\ OutcomesFit(s, seq \o more)
<1> DEFINE all == seq \o more
<1>0. n \in Nat /\ n > 0 /\ Len(seq) \in Nat /\ DOMAIN seq = 1..Len(seq)
      /\ concurrency \in Nat \ {0}
  BY ConcurrencyAssumption
<1>1. /\ all \in Seq(CaseOutcomes) /\ Len(all) = Len(seq) + n
      /\ \A c \in 1..Len(seq) : all[c] = seq[c]
      /\ \A i \in 1..n : all[Len(seq) + i] = more[i]
      /\ \A c \in DOMAIN all : c \in 1..Len(seq) \/ \E i \in 1..n : c = Len(seq) + i
  <2>1. \A i \in 1..n : more[i] \in CaseOutcomes
    OBVIOUS
  <2>q. QED
    BY <1>0, <2>1, Behind
<1> HIDE DEF all
<1>2. DOMAIN all = 1..(Len(seq) + n)
  BY <1>1
<1>3. PICK k \in 0..Len(seq) : Attempts(s, seq, k)
  BY DEF OutcomesFit
<1>4. Attempted(seq) = 1..Len(seq)
  BY <1>0, <1>3 DEF Attempts
<1>5. Attempted(all) = 1..(Len(seq) + n)
  <2>1. \A c \in 1..Len(seq) : IsAttempted(all[c])
    BY <1>1, <1>4 DEF Attempted
  <2>2. \A c \in DOMAIN all : IsAttempted(all[c])
    BY <1>1, <2>1
  <2>q. QED
    BY <1>2, <2>2 DEF Attempted
<1>6. \A c \in Completed(all) : <<s, c>> \in punctual
  <2> SUFFICES ASSUME NEW c \in DOMAIN all, IsCompleted(all[c])
               PROVE  <<s, c>> \in punctual
    BY DEF Completed
  <2>1. CASE c \in 1..Len(seq)
    BY <1>0, <1>1, <2>1 DEF OutcomesFit, Completed
  <2>2. CASE \E i \in 1..n : c = Len(seq) + i
    BY <1>1, <2>2
  <2>q. QED
    BY <1>1, <2>1, <2>2
<1>7. Earlier(Len(seq) + n) = 1..Len(seq)
  BY <1>0, EarlierAre DEF OutcomesFit
<1>8. ASSUME NEW usage \in {"tokens", "cost"}, Limit(Suites[s], usage) # None
      PROVE  /\ \A c \in 1..Len(seq) : <<s, c>> \in punctual
             /\ Sum(usage, all, 1..Len(seq)) <= Limit(Suites[s], usage)
  <2>1. /\ 1..Len(seq) \subseteq Completed(seq)
        /\ Sum(usage, seq, 1..Len(seq)) <= Limit(Suites[s], usage)
    BY <1>4, <1>8, PassedBudget
  <2>2. Sum(usage, all, 1..Len(seq)) = Sum(usage, seq, 1..Len(seq))
    <3>1. \A c \in 1..Len(seq) : all[c] = seq[c]
      BY <1>1
    <3>q. QED
      BY <3>1, SameSum
  <2>3. \A c \in Completed(seq) : <<s, c>> \in punctual
    BY DEF OutcomesFit
  <2>q. QED
    BY <2>1, <2>2, <2>3
<1>9. Attempts(s, all, Len(seq) + n)
  <2>1. Len(seq) + n # 0 /\ ~(Len(seq) + n < Len(all))
    BY <1>0, <1>1
  <2>q. QED
    BY <1>5, <1>7, <1>8, <2>1 DEF Attempts
<1>10. Len(all) < Suites[s].cases => Len(all) % concurrency = 0
  BY <1>0, <1>1, NextMultiple DEF OutcomesFit
<1>11. Len(seq) + n \in 0..Len(all)
  BY <1>0, <1>1
<1>12. OutcomesFit(s, all)
  BY <1>1, <1>6, <1>9, <1>10, <1>11 DEF OutcomesFit
<1>q. QED
  BY <1>1, <1>12 DEF all

(* Reports once given go on fitting.                                       *)
LEMMA ReportsStay ==
  ASSUME ReportsFit, punctual \subseteq punctual', UNCHANGED reports
  PROVE  ReportsFit'
<1>1. ASSUME NEW r, OutcomesFit(r.suite, r.cases)
      PROVE  OutcomesFit(r.suite, r.cases)'
  BY <1>1, StillFits
<1>q. QED
  BY <1>1 DEF ReportsFit

(* One lemma for each action of the runner.                                *)
LEMMA StartKeeps ==
  ASSUME RunInv, HonestInv, StartBatch
  PROVE  HonestInv'
<1>1. /\ pc = "batch" /\ tasks = <<>> /\ suite <= last
      /\ suite \in Nat \ {0} /\ last \in 0..Len(Suites)
      /\ outcomes \in Seq(CaseOutcomes) /\ Len(outcomes) \in Nat
      /\ OutcomesFit(suite, outcomes)
      /\ Len(outcomes) < Suites[suite].cases
      /\ UNCHANGED <<suite, last, reports, punctual>>
  BY DEF StartBatch, RunInv, HonestInv, RunTypeOK, Declared
<1>2. suite \in DOMAIN Suites
  BY <1>1, SuitesAssumption
<1>3. PICK s \in DOMAIN Suites, seq \in Seq(CaseOutcomes) : s = suite /\ seq = outcomes
  BY <1>1, <1>2
<1>4. PICK n \in 1..concurrency :
        /\ DOMAIN Batch(Suites[s], Len(seq)) = 1..n
        /\ \A i \in 1..n : Batch(Suites[s], Len(seq))[i] = Len(seq) + i
        /\ Len(seq) + n <= Suites[s].cases
        /\ Len(seq) + n < Suites[s].cases => n = concurrency
  BY <1>1, <1>3, BatchesAre
<1>5. ReportsFit'
  BY <1>1, ReportsStay DEF HonestInv
<1>6. CASE _budget_outcome(Suites[s], seq).status # "passed"
  <2>1. PICK o : /\ o \in CaseOutcomes /\ ~IsAttempted(o)
                 /\ outcomes' = seq \o [i \in 1..n |-> o]
                 /\ UNCHANGED <<pc, tasks>>
    <3>1. \A code \in Codes : Outcome("skipped", code) \in CaseOutcomes
                              /\ ~IsAttempted(Outcome("skipped", code))
      BY DEF Outcome, CaseOutcomes, IsAttempted, Statuses
    <3>2. PICK code \in Codes : /\ outcomes' = seq \o [i \in 1..n |-> Outcome("skipped", code)]
                                /\ UNCHANGED <<pc, tasks>>
      BY <1>3, <1>4, <1>6 DEF StartBatch, Declared, Codes
    <3>q. QED
      BY <3>1, <3>2
  <2>2. PICK all : all = seq \o [i \in 1..n |-> o]
    OBVIOUS
  <2>3. all \in Seq(CaseOutcomes) /\ OutcomesFit(s, all)
    <3>1. OutcomesFit(s, seq) /\ Len(seq) < Suites[s].cases
      BY <1>1, <1>3
    <3>2. /\ seq \o [i \in 1..n |-> o] \in Seq(CaseOutcomes)
          /\ OutcomesFit(s, seq \o [i \in 1..n |-> o])
      BY <1>4, <1>6, <2>1, <3>1, SkippedFit
    <3>q. QED
      BY <2>2, <3>2
  <2>4. OutcomesFit(s, all)'
    BY <1>1, <2>3, StillFits
  <2>5. OutcomesFit(suite, outcomes)'
    BY <1>1, <1>3, <2>1, <2>2, <2>4
  <2>6. RunTypeOK'
    BY <1>1, <2>1, <2>2, <2>3 DEF HonestInv, RunTypeOK
  <2>7. DOMAIN tasks' = {} /\ Upcoming' = Upcoming
    BY <1>1, <2>1 DEF Upcoming
  <2>8. \A i \in DOMAIN reports' : reports'[i].suite = Upcoming' - Len(reports') + i - 1
    BY <1>1, <2>1, <2>7 DEF HonestInv
  <2>q. QED
    BY <1>1, <1>5, <2>1, <2>5, <2>6, <2>7, <2>8 DEF HonestInv
<1>7. CASE _budget_outcome(Suites[s], seq).status = "passed"
  <2>1. /\ tasks' = [i \in 1..n |-> NewTask(Len(seq) + i)]
        /\ pc' = "gather" /\ outcomes' = seq
    BY <1>3, <1>4, <1>7 DEF StartBatch, Declared
  <2>2. \A c \in Nat : NewTask(c) \in CaseTasks
    BY DEF NewTask, CaseTasks, Helds
  <2>3. tasks' \in Seq(CaseTasks) /\ DOMAIN tasks' = 1..n
        /\ \A i \in 1..n : tasks'[i] = NewTask(Len(seq) + i)
    <3>1. \A i \in 1..n : NewTask(Len(seq) + i) \in CaseTasks
      BY <1>1, <1>3, <2>2
    <3>q. QED
      BY <2>1, <3>1
  <2>4. \A i \in DOMAIN tasks' : TaskFits(i)'
    BY <2>1, <2>3 DEF TaskFits, NewTask
  <2>5. OutcomesFit(s, seq)'
    BY <1>1, <1>3, StillFits
  <2>6. OutcomesFit(suite, outcomes)'
    BY <1>1, <1>3, <2>1, <2>5
  <2>7. RunTypeOK'
    BY <1>1, <1>3, <2>1, <2>3 DEF HonestInv, RunTypeOK
  <2>8. /\ Len(outcomes') < Declared'.cases
        /\ DOMAIN tasks' = DOMAIN Batch(Declared', Len(outcomes'))
        /\ _budget_outcome(Declared', outcomes').status = "passed"
    BY <1>1, <1>3, <1>4, <1>7, <2>1, <2>3 DEF Declared
  <2>9. \A i \in DOMAIN reports' : reports'[i].suite = Upcoming' - Len(reports') + i - 1
    BY <1>1, <2>1 DEF HonestInv, Upcoming
  <2>q. QED
    BY <1>1, <1>5, <2>1, <2>4, <2>6, <2>7, <2>8, <2>9 DEF HonestInv
<1>q. QED
  BY <1>6, <1>7

LEMMA GatherKeeps ==
  ASSUME RunInv, HonestInv, gather
  PROVE  HonestInv'
<1>1. /\ pc = "gather" /\ suite <= last
      /\ suite \in Nat \ {0} /\ last \in 0..Len(Suites)
      /\ outcomes \in Seq(CaseOutcomes) /\ Len(outcomes) \in Nat
      /\ OutcomesFit(suite, outcomes)
      /\ Len(outcomes) < Suites[suite].cases
      /\ _budget_outcome(Suites[suite], outcomes).status = "passed"
      /\ DOMAIN tasks = DOMAIN Batch(Suites[suite], Len(outcomes))
      /\ UNCHANGED <<suite, last, reports, punctual>>
  BY DEF gather, HonestInv, RunTypeOK, Declared
<1>2. suite \in DOMAIN Suites
  BY <1>1, SuitesAssumption
<1>3. PICK s \in DOMAIN Suites, seq \in Seq(CaseOutcomes) : s = suite /\ seq = outcomes
  BY <1>1, <1>2
<1>4. PICK n \in 1..concurrency :
        /\ DOMAIN tasks = 1..n
        /\ Len(seq) + n <= Suites[s].cases
        /\ Len(seq) + n < Suites[s].cases => n = concurrency
  BY <1>1, <1>3, BatchesAre
<1>5. ReportsFit'
  BY <1>1, ReportsStay DEF HonestInv
<1>6. CASE /\ AllDone
           /\ outcomes' = outcomes \o [i \in DOMAIN tasks |-> tasks[i].outcome]
           /\ tasks' = <<>> /\ pc' = "batch"
  <2>1. PICK more : more = [i \in 1..n |-> tasks[i].outcome]
    OBVIOUS
  <2>2. DOMAIN more = 1..n /\ more = [i \in 1..n |-> more[i]]
    BY <2>1
  <2>3. \A i \in 1..n : /\ more[i] \in CaseOutcomes /\ IsAttempted(more[i])
                        /\ IsCompleted(more[i]) => <<s, Len(seq) + i>> \in punctual
    <3>1. \A i \in 1..n : tasks[i].pc = "done" /\ TaskFits(i)
      BY <1>4, <1>6 DEF AllDone, ToSet, HonestInv
    <3>q. QED
      BY <1>3, <2>1, <3>1 DEF TaskFits
  <2>4. PICK all : all = seq \o more
    OBVIOUS
  <2>5. all \in Seq(CaseOutcomes) /\ OutcomesFit(s, all)
    BY <1>1, <1>3, <1>4, <2>2, <2>3, <2>4, BatchFits
  <2>6. OutcomesFit(s, all)'
    BY <1>1, <2>5, StillFits
  <2>7. outcomes' = all
    BY <1>3, <1>4, <1>6, <2>1, <2>4
  <2>8. OutcomesFit(suite, outcomes)'
    BY <1>1, <1>3, <2>6, <2>7
  <2>9. RunTypeOK'
    <3>1. tasks' \in Seq(CaseTasks)
      BY <1>6
    <3>2. RunTypeOK
      BY DEF HonestInv
    <3>q. QED
      BY <1>1, <1>6, <2>5, <2>7, <3>1, <3>2 DEF RunTypeOK
  <2>10. DOMAIN tasks' = {} /\ Upcoming' = Upcoming
    BY <1>1, <1>6 DEF Upcoming
  <2>11. \A i \in DOMAIN reports' : reports'[i].suite = Upcoming' - Len(reports') + i - 1
    BY <1>1, <2>10 DEF HonestInv
  <2>q. QED
    BY <1>1, <1>5, <1>6, <2>8, <2>9, <2>10, <2>11 DEF HonestInv
<1>7. CASE pc' = "aborting" /\ UNCHANGED <<outcomes, tasks>>
  <2>1. RunTypeOK'
    BY <1>1, <1>7 DEF HonestInv, RunTypeOK
  <2>2. \A i \in DOMAIN tasks' : TaskFits(i)'
    BY <1>1, <1>7 DEF HonestInv, TaskFits
  <2>q. QED
    BY <1>5, <1>7, <2>1, <2>2 DEF HonestInv
<1>q. QED
  BY <1>6, <1>7 DEF gather

LEMMA ReportKeeps ==
  ASSUME RunInv, HonestInv, _run_evaluation
  PROVE  HonestInv'
<1>1. /\ pc = "batch" /\ tasks = <<>> /\ suite <= last
      /\ suite \in Nat \ {0} /\ last \in 0..Len(Suites)
      /\ outcomes \in Seq(CaseOutcomes) /\ OutcomesFit(suite, outcomes)
      /\ Len(outcomes) = Suites[suite].cases
      /\ reports \in Seq(EvaluationOutcomes) /\ Len(reports) \in Nat
      /\ reports' = Append(reports, Report(suite, outcomes))
      /\ UNCHANGED <<last, tasks, punctual>>
      /\ \A i \in DOMAIN reports : reports[i].suite = suite - Len(reports) + i - 1
  BY DEF _run_evaluation, RunInv, HonestInv, RunTypeOK, Declared, Upcoming
<1>2. suite \in DOMAIN Suites
  BY <1>1, SuitesAssumption
<1>3. PICK r : r = Report(suite, outcomes)
  OBVIOUS
<1>4. r \in EvaluationOutcomes /\ r.suite = suite /\ r.cases = outcomes
  BY <1>1, <1>2, <1>3 DEF EvaluationOutcomes, Report
<1>5. /\ reports' \in Seq(EvaluationOutcomes) /\ Len(reports') = Len(reports) + 1
      /\ DOMAIN reports' = 1..(Len(reports) + 1) /\ DOMAIN reports = 1..Len(reports)
      /\ \A i \in 1..Len(reports) : reports'[i] = reports[i]
      /\ reports'[Len(reports) + 1] = r
  BY <1>1, <1>3, <1>4
<1>6. ASSUME NEW q, NEW all, OutcomesFit(q, all)
      PROVE  OutcomesFit(q, all)'
  BY <1>1, <1>6, StillFits
<1>7. ReportsFit'
  <2> SUFFICES ASSUME NEW i \in 1..(Len(reports) + 1)
               PROVE  /\ OutcomesFit(reports'[i].suite, reports'[i].cases)
                      /\ Len(reports'[i].cases) = Suites[reports'[i].suite].cases
    BY <1>5, <1>6 DEF ReportsFit
  <2>1. CASE i \in 1..Len(reports)
    BY <1>5, <2>1 DEF HonestInv, ReportsFit
  <2>2. CASE i = Len(reports) + 1
    BY <1>1, <1>4, <1>5, <2>2
  <2>q. QED
    BY <1>1, <2>1, <2>2
<1>8. \A i \in DOMAIN reports' : reports'[i].suite = (suite + 1) - Len(reports') + i - 1
  <2> SUFFICES ASSUME NEW i \in 1..(Len(reports) + 1)
               PROVE  reports'[i].suite = (suite + 1) - Len(reports') + i - 1
    BY <1>5
  <2>1. CASE i \in 1..Len(reports)
    BY <1>1, <1>5, <2>1
  <2>2. CASE i = Len(reports) + 1
    BY <1>1, <1>4, <1>5, <2>2
  <2>q. QED
    BY <1>1, <2>1, <2>2
<1>9. CASE suite = last /\ pc' = "closing" /\ UNCHANGED <<suite, outcomes>>
  <2>1. RunTypeOK'
    BY <1>1, <1>5, <1>9 DEF HonestInv, RunTypeOK
  <2>q. QED
    BY <1>1, <1>7, <1>8, <1>9, <2>1 DEF HonestInv, Upcoming
<1>10. CASE suite # last /\ suite' = suite + 1 /\ outcomes' = <<>> /\ UNCHANGED pc
  <2>1. suite + 1 \in DOMAIN Suites /\ suite' <= last'
    BY <1>1, <1>10, SuitesAssumption
  <2>2. PICK q \in DOMAIN Suites : q = suite + 1
    BY <2>1
  <2>3. OutcomesFit(suite, outcomes)'
    <3>1. OutcomesFit(q, <<>>)'
      BY <1>6, NothingSpent
    <3>q. QED
      BY <1>10, <2>2, <3>1
  <2>4. RunTypeOK'
    BY <1>1, <1>5, <1>10 DEF HonestInv, RunTypeOK
  <2>q. QED
    BY <1>1, <1>7, <1>8, <1>10, <2>1, <2>3, <2>4 DEF HonestInv, Upcoming
<1>q. QED
  BY <1>9, <1>10 DEF _run_evaluation

LEMMA CancelKeeps ==
  ASSUME RunInv, HonestInv, Cancel
  PROVE  HonestInv'
<1>1. UNCHANGED <<suite, last, outcomes, reports, punctual>>
  BY DEF Cancel
<1>2. ReportsFit'
  BY <1>1, ReportsStay DEF HonestInv
<1>3. CASE pc = "opening" /\ pc' = "cancelled" /\ UNCHANGED tasks
  <2>1. RunTypeOK'
    BY <1>1, <1>3 DEF HonestInv, RunTypeOK
  <2>2. \A i \in DOMAIN tasks' : TaskFits(i)'
    BY <1>1, <1>3 DEF HonestInv, TaskFits
  <2>q. QED
    BY <1>2, <1>3, <2>1, <2>2 DEF HonestInv
<1>4. CASE /\ pc = "gather" /\ UNCHANGED pc
           /\ tasks' = [i \in DOMAIN tasks |->
                IF tasks[i].pc \in {"done", "cancelled"} THEN tasks[i]
                ELSE [tasks[i] EXCEPT !.hit = TRUE, !.outer = TRUE]]
  <2>1. ASSUME NEW i \in DOMAIN tasks
        PROVE  /\ tasks'[i] \in CaseTasks
               /\ tasks'[i].case = tasks[i].case /\ tasks'[i].pc = tasks[i].pc
               /\ tasks'[i].held = tasks[i].held /\ tasks'[i].outcome = tasks[i].outcome
    <3>1. tasks[i] \in CaseTasks
      BY DEF HonestInv, RunTypeOK
    <3>2. tasks'[i] = tasks[i] \/ tasks'[i] = [tasks[i] EXCEPT !.hit = TRUE, !.outer = TRUE]
      BY <1>4
    <3>q. QED
      BY <3>1, <3>2 DEF CaseTasks
  <2>2. tasks' \in Seq(CaseTasks) /\ DOMAIN tasks' = DOMAIN tasks
    <3>1. tasks \in Seq(CaseTasks)
      BY DEF HonestInv, RunTypeOK
    <3>2. DOMAIN tasks = 1..Len(tasks) /\ Len(tasks) \in Nat
      BY <3>1
    <3>3. DOMAIN tasks' = DOMAIN tasks /\ tasks' = [i \in DOMAIN tasks |-> tasks'[i]]
      BY <1>4
    <3>4. tasks' \in [1..Len(tasks) -> CaseTasks]
      BY <2>1, <3>2, <3>3, Zenon
    <3>q. QED
      BY <3>2, <3>3, <3>4
  <2>3. RunTypeOK'
    BY <1>1, <1>4, <2>2 DEF HonestInv, RunTypeOK
  <2>4. \A i \in DOMAIN tasks' : TaskFits(i)'
    BY <1>1, <2>1, <2>2 DEF HonestInv, TaskFits
  <2>5. OutcomesFit(suite, outcomes)'
    BY <1>1, <1>4, StillFits DEF HonestInv
  <2>6. DOMAIN tasks' = DOMAIN Batch(Declared', Len(outcomes'))
        /\ Len(outcomes') < Declared'.cases
        /\ _budget_outcome(Declared', outcomes').status = "passed"
    BY <1>1, <1>4, <2>2 DEF HonestInv, Declared
  <2>7. Upcoming' = Upcoming
    BY <1>1, <1>4 DEF Upcoming
  <2>q. QED
    BY <1>1, <1>2, <1>4, <2>3, <2>4, <2>5, <2>6, <2>7 DEF HonestInv
<1>q. QED
  BY <1>3, <1>4 DEF Cancel

LEMMA EndsOfRunKeep ==
  ASSUME RunInv, HonestInv, run \/ _open_lifespan \/ CloseLifespan
  PROVE  HonestInv'
<1>1. UNCHANGED <<outcomes, tasks, reports, punctual>>
  BY DEF run, _open_lifespan, CloseLifespan
<1>2. ReportsFit'
  BY <1>1, ReportsStay DEF HonestInv
<1>3. CASE run
  <2>1. tasks = <<>> /\ reports = <<>> /\ outcomes = <<>>
    BY <1>3 DEF run, RunInv, HonestInv
  <2>2. RunTypeOK'
    BY <1>1, <1>3, SuitesAssumption DEF run, HonestInv, RunTypeOK
  <2>3. pc' \in {"opening", "not_found"}
    BY <1>3 DEF run
  <2>q. QED
    BY <1>1, <1>2, <2>1, <2>2, <2>3 DEF HonestInv
<1>4. CASE _open_lifespan
  <2>1. /\ reports = <<>> /\ outcomes = <<>> /\ tasks = <<>>
        /\ UNCHANGED <<suite, last>>
        /\ suite \in Nat \ {0} /\ last \in 0..Len(Suites)
        /\ pc' \in {"batch", "closing", "failed"}
        /\ pc' = "batch" => suite <= last
    BY <1>4 DEF _open_lifespan, RunInv, HonestInv, RunTypeOK
  <2>2. RunTypeOK'
    BY <1>1, <2>1 DEF HonestInv, RunTypeOK
  <2>3. CASE suite <= last
    <3>1. PICK q \in DOMAIN Suites : q = suite
      BY <2>1, <2>3, SuitesAssumption
    <3>2. OutcomesFit(q, <<>>)'
      BY <1>1, NothingSpent, StillFits
    <3>3. OutcomesFit(suite, outcomes)'
      BY <1>1, <2>1, <3>1, <3>2
    <3>q. QED
      BY <1>1, <1>2, <2>1, <2>2, <2>3, <3>3 DEF HonestInv
  <2>4. CASE ~(suite <= last)
    BY <1>1, <1>2, <2>1, <2>2, <2>4 DEF HonestInv
  <2>q. QED
    BY <2>3, <2>4
<1>5. CASE CloseLifespan
  <2>1. /\ UNCHANGED <<suite, last>> /\ pc' \in {"reported", "cancelled", "failed"}
        /\ pc' = "reported" => pc = "closing"
        /\ pc \in {"closing", "aborting"}
    BY <1>5 DEF CloseLifespan
  <2>2. RunTypeOK'
    BY <1>1, <2>1 DEF HonestInv, RunTypeOK
  <2>3. \A i \in DOMAIN tasks' : TaskFits(i)'
    BY <1>1, <2>1 DEF HonestInv, TaskFits
  <2>q. QED
    BY <1>1, <1>2, <2>1, <2>2, <2>3 DEF HonestInv, Upcoming
<1>q. QED
  BY <1>3, <1>4, <1>5

(* HonestInv is inductive, beside RunInv.                                  *)
LEMMA HonestInvInductive ==
  ASSUME RunInv, HonestInv, [Next]_vars
  PROVE  HonestInv'
<1>1. CASE UNCHANGED vars
  <2>1. UNCHANGED <<pc, suite, last, outcomes, tasks, reports, punctual>>
    BY <1>1 DEF vars
  <2>2. ReportsFit'
    BY <2>1, ReportsStay DEF HonestInv
  <2>3. RunTypeOK'
    BY <2>1 DEF HonestInv, RunTypeOK
  <2>4. \A i \in DOMAIN tasks' : TaskFits(i)'
    BY <2>1 DEF HonestInv, TaskFits
  <2>5. OutcomesFit(suite, outcomes) => OutcomesFit(suite, outcomes)'
    BY <2>1, StillFits
  <2>q. QED
    BY <2>1, <2>2, <2>3, <2>4, <2>5 DEF HonestInv, Upcoming, Declared
<1>2. CASE Runner
  BY <1>2, EndsOfRunKeep, StartKeeps, GatherKeeps, ReportKeeps DEF Runner
<1>3. CASE \E i \in DOMAIN tasks : Case(i)
  BY <1>3, CaseKeeps
<1>4. CASE Cancel
  BY <1>4, CancelKeeps
<1>q. QED
  BY <1>1, <1>2, <1>3, <1>4 DEF Next

(* What the invariant says of the reports is what they are to be.          *)
LEMMA HonestInvHonest ==
  ASSUME HonestInv
  PROVE  ReportsAreHonest
<1>1. ASSUME NEW i \in DOMAIN reports
      PROVE  /\ reports[i].suite \in DOMAIN Suites
             /\ reports[i].cases \in Seq(CaseOutcomes)
             /\ reports[i] = Report(reports[i].suite, reports[i].cases)
             /\ OutcomesFit(reports[i].suite, reports[i].cases)
             /\ Len(reports[i].cases) = Suites[reports[i].suite].cases
  <2>1. reports[i] \in EvaluationOutcomes
    BY <1>1 DEF HonestInv, RunTypeOK
  <2>2. PICK s \in DOMAIN Suites, seq \in Seq(CaseOutcomes) : reports[i] = Report(s, seq)
    BY <2>1 DEF EvaluationOutcomes
  <2>3. reports[i].suite = s /\ reports[i].cases = seq
    BY <2>2 DEF Report
  <2>q. QED
    BY <1>1, <2>2, <2>3 DEF HonestInv, ReportsFit
<1>2. OverspendIsOneBatch
  <2> SUFFICES ASSUME NEW i \in DOMAIN reports, NEW attempted,
                      attempted = Cardinality(Attempted(reports[i].cases))
               PROVE  /\ \A usage \in {"tokens", "cost"} :
                           Limit(Suites[reports[i].suite], usage) # None =>
                             /\ \A c \in Earlier(attempted) : <<reports[i].suite, c>> \in punctual
                             /\ Sum(usage, reports[i].cases, Earlier(attempted))
                                  <= Limit(Suites[reports[i].suite], usage)
                      /\ Attempted(reports[i].cases) = 1..attempted
                      /\ attempted < Len(reports[i].cases) => reports[i].budget.status # "passed"
    BY Zenon DEF OverspendIsOneBatch, Earlier
  <2>1. PICK s \in DOMAIN Suites, seq \in Seq(CaseOutcomes) :
          s = reports[i].suite /\ seq = reports[i].cases
    BY <1>1
  <2>2. PICK k \in 0..Len(seq) : Attempts(s, seq, k)
    BY <1>1, <2>1 DEF OutcomesFit
  <2>3. Cardinality(Attempted(seq)) = k /\ Attempted(seq) = 1..k
    <3>1. Attempted(seq) = 1..k
      BY <2>2 DEF Attempts
    <3>2. k \in Nat
      OBVIOUS
    <3>3. Cardinality(1..k) = k
      BY <3>2, FS_Interval
    <3>q. QED
      BY <3>1, <3>3
  <2>4. reports[i].budget.status = _budget_outcome(Suites[s], seq).status
    <3>1. reports[i] = Report(s, seq)
      BY <1>1, <2>1
    <3>q. QED
      BY <3>1 DEF Report
  <2>q. QED
    BY <2>1, <2>2, <2>3, <2>4 DEF Attempts
<1>3. PassedIsProven
  <2> SUFFICES ASSUME pc = "reported", EvaluationReportOk, NEW i \in DOMAIN reports
               PROVE  LET declared == Suites[reports[i].suite]
                          cases    == reports[i].cases
                          all      == 1..declared.cases IN
                      /\ reports[i].suite = last - Len(reports) + i
                      /\ Len(cases) = declared.cases
                      /\ \A c \in all : <<reports[i].suite, c>> \in punctual
                      /\ Sum("score", cases, all) >= declared.threshold * declared.cases
                      /\ \A usage \in {"tokens", "cost"} :
                           Limit(declared, usage) # None =>
                             Sum(usage, cases, all) <= Limit(declared, usage)
    BY Zenon DEF PassedIsProven
  <2>1. PICK s \in DOMAIN Suites, seq \in Seq(CaseOutcomes) :
          s = reports[i].suite /\ seq = reports[i].cases
    BY <1>1
  <2>2. /\ reports[i] = Report(s, seq) /\ OutcomesFit(s, seq)
        /\ Len(seq) = Suites[s].cases /\ Len(seq) \in Nat /\ DOMAIN seq = 1..Len(seq)
    BY <1>1, <2>1
  <2>3. EvaluationOk(reports[i])
    BY DEF EvaluationReportOk, ToSet
  <2>4. \A c \in DOMAIN seq : IsCompleted(seq[c])
    BY <2>1, <2>3 DEF EvaluationOk, ToSet
  <2>5. Completed(seq) = 1..Len(seq) /\ Attempted(seq) = 1..Len(seq)
    <3>1. \A c \in DOMAIN seq : IsAttempted(seq[c])
      BY <2>4 DEF IsAttempted, IsCompleted
    <3>q. QED
      BY <2>2, <2>4, <3>1 DEF Completed, Attempted
  <2>6. Cardinality(Completed(seq)) = Len(seq)
    BY <2>2, <2>5, FS_Interval
  <2>7. reports[i].suite = last - Len(reports) + i
    <3>1. reports[i].suite = Upcoming - Len(reports) + i - 1 /\ Upcoming = last + 1
      BY DEF HonestInv, Upcoming
    <3>2. last \in Int /\ Len(reports) \in Int /\ i \in Int
      BY DEF HonestInv, RunTypeOK
    <3>q. QED
      BY <3>1, <3>2
  <2>8. \A c \in 1..Len(seq) : <<s, c>> \in punctual
    BY <2>2, <2>5 DEF OutcomesFit
  <2>9. Sum("score", seq, 1..Len(seq)) >= Suites[s].threshold * Len(seq)
    <3>1. _metric_outcome(Suites[s], seq).passed
      BY <2>2, <2>3 DEF EvaluationOk, Report
    <3>q. QED
      BY <2>5, <2>6, <3>1 DEF _metric_outcome
  <2>10. ASSUME NEW usage \in {"tokens", "cost"}, Limit(Suites[s], usage) # None
         PROVE  Sum(usage, seq, 1..Len(seq)) <= Limit(Suites[s], usage)
    <3>1. _budget_outcome(Suites[s], seq).status = "passed"
      BY <2>2, <2>3 DEF EvaluationOk, Report
    <3>q. QED
      BY <2>5, <2>10, <3>1, PassedBudget
  <2>q. QED
    BY <2>1, <2>2, <2>7, <2>8, <2>9, <2>10
<1>q. QED
  BY <1>2, <1>3 DEF ReportsAreHonest

(* What a report of EvaluationRunner.run says, it has seen: a run that     *)
(* passes has every case of every suite it was to run returned before its  *)
(* deadline with its context ended, the thresholds reached on all of them  *)
(* and no declared limit crossed (_run_case, _metric_outcome); and in any  *)
(* run each batch but a suite's last fitted the limits, so that a budget   *)
(* overspends by one batch at most (_run_evaluation, _budget_outcome).     *)
THEOREM ReportsHonest == Spec => []ReportsAreHonest
<1>1. Init => RunInv /\ HonestInv
  <2>1. Init => RunInv
    BY DEF Init, RunInv
  <2>2. Init => RunTypeOK
    BY SuitesAssumption DEF Init, RunTypeOK
  <2>q. QED
    BY <2>1, <2>2 DEF Init, HonestInv, ReportsFit
<1>2. RunInv /\ [Next]_vars => RunInv'
  <2>1. CASE UNCHANGED vars
    BY <2>1 DEF vars, RunInv, NoneActive, SomeCancelled, Active
  <2>q. QED
    BY <2>1, RunInvInductive
<1>3. RunInv /\ HonestInv /\ [Next]_vars => HonestInv'
  BY HonestInvInductive
<1>4. HonestInv => ReportsAreHonest
  BY HonestInvHonest
<1>q. QED
  BY <1>1, <1>2, <1>3, <1>4, PTL DEF Spec

-----------------------------------------------------------------------------
(* The generators, for any commands, any number of processes and faults.   *)

Running == {"mkdir", "parents", "open", "write"}
Stages == {"idle", "load", "sample", "unlink", "rmdir", "done", "killed"} \cup Running
Ends == {"none", "ok", "refused", "failed", "unclean"}

Contents == [by : Generators \cup {Project, Other}, whole : BOOLEAN]

Locals ==
  [pc : Stages, command : Commands \cup {Absent}, result : Ends, unsampled : SUBSET Dirs,
   at : Nat, existing : SUBSET Dirs, pending : SUBSET Dirs, created : Seq(Files),
   leaving : SUBSET Dirs, clean : BOOLEAN]

TreeOK ==
  /\ gen \in [Generators -> Locals]
  /\ files \in [Files -> Contents \cup {Absent}]
  /\ dirs \in [Dirs -> Generators \cup {Project, Absent}]

(* What the project had at first is never removed.                         *)
ProjectStays == \A d \in ProjectDirs \cap Dirs : dirs[d] = Project

Mine(g, p) == files[p] # Absent /\ files[p].by = g
Made(g, d) == dirs[d] = g

(* What a generator created is a beginning of what it writes, it is there, *)
(* it is the generator's own, and until a rollback fails to remove a file  *)
(* it is all there is of the generator's own.                              *)
FilesFit(g, me) ==
  /\ \A i \in DOMAIN me.created :
       /\ i \in DOMAIN WritesOf(me.command) /\ me.created[i] = WritesOf(me.command)[i]
       /\ Mine(g, me.created[i])
       /\ i < me.at => files[me.created[i]].whole
       /\ \A j \in DOMAIN me.created : me.created[i] = me.created[j] => i = j
  /\ me.clean => \A p \in Files : Mine(g, p) => \E i \in DOMAIN me.created : me.created[i] = p
  /\ Len(me.created) <= me.at

(* The directories a generator made are its destinations; those it removes *)
(* in the end are the ones it had not found, so never the project's own.   *)
DirsFit(g, me) ==
  /\ \A d \in Dirs : Made(g, d) =>
       me.pc \notin {"idle", "load", "sample"} /\ d \in _destination_directories(me.command)
  /\ me.pc \in {"sample"} \cup Running =>
       ProjectDirs \cap _destination_directories(me.command) \subseteq me.unsampled \cup me.existing
  /\ me.pc \in Running => me.unsampled = {}
  /\ ProjectDirs \cap me.leaving = {}
  /\ (me.pc \in {"unlink", "rmdir"} \/ me.result = "failed") /\ me.clean =>
       \A d \in Dirs : Made(g, d) => d \in me.existing \cup me.leaving
  /\ me.result = "refused" => \A d \in Dirs : ~ Made(g, d)

StageFits(me) ==
  /\ me.pc # "idle" => me.command \in Commands
  /\ me.pc \in {"idle", "load", "sample"} => me.at = 1 /\ me.created = <<>> /\ me.clean
  /\ me.pc \in {"sample"} \cup Running => me.at \in DOMAIN WritesOf(me.command) /\ me.clean
  /\ me.pc \in {"mkdir", "parents", "open"} => Len(me.created) = me.at - 1
  /\ me.pc = "write" => Len(me.created) = me.at
  /\ me.pc = "parents" => me.pending \subseteq Above(WritesOf(me.command)[me.at])
  /\ me.pc = "unlink" => me.created # <<>>
  /\ me.pc = "rmdir" => me.created = <<>>
  /\ me.pc # "done" <=> me.result = "none"
  /\ me.result = "failed" => me.clean /\ me.created = <<>> /\ me.leaving = {}
  /\ me.result = "refused" => me.clean /\ me.created = <<>>

(* A generator that succeeded created all it writes, and all of it whole.  *)
SuccessFits(me) ==
  me.result = "ok" =>
    /\ Len(me.created) = Len(WritesOf(me.command))
    /\ \A i \in DOMAIN me.created : files[me.created[i]].whole

GeneratorFits(g, me) == FilesFit(g, me) /\ DirsFit(g, me) /\ StageFits(me) /\ SuccessFits(me)

GenerationInv == TreeOK /\ ProjectStays /\ \A g \in Generators : GeneratorFits(g, gen[g])

-----------------------------------------------------------------------------
(* What a command writes is a sequence of paths.                           *)

Words == {"app", "features", "server", "tools", "tools.json", "tests", "tool_snapshot", "contracts",
          "use_cases", "__init__", ".tenchi"}
           \cup {c.feature : c \in Commands} \cup {c.name : c \in Commands}
Paths == Seq(Words)
(* Sequences of one, two and three. *)
LEMMA Single ==
  ASSUME NEW S, NEW x \in S
  PROVE  <<x>> \in Seq(S) /\ Len(<<x>>) = 1
<1>1. <<x>> \in Seq(S)
  OBVIOUS
<1>2. Len(<<x>>) = 1
  OBVIOUS
<1>q. QED
  BY <1>1, <1>2

LEMMA Pair ==
  ASSUME NEW S, NEW x \in S, NEW y \in S
  PROVE  <<x, y>> \in Seq(S) /\ Len(<<x, y>>) = 2 /\ <<x, y>>[1] = x /\ <<x, y>>[2] = y
<1>1. <<x, y>> \in Seq(S)
  OBVIOUS
<1>2. Len(<<x, y>>) = 2
  OBVIOUS
<1>q. QED
  BY <1>1, <1>2

LEMMA Triple ==
  ASSUME NEW S, NEW x \in S, NEW y \in S, NEW z \in S
  PROVE  /\ <<x, y, z>> \in Seq(S) /\ DOMAIN <<x, y, z>> = 1..3
         /\ <<x, y, z>>[1] = x /\ <<x, y, z>>[2] = y /\ <<x, y, z>>[3] = z
<1>1. <<x, y, z>> \in Seq(S)
  OBVIOUS
<1>2. DOMAIN <<x, y, z>> = 1..3
  OBVIOUS
<1>q. QED
  BY <1>1, <1>2

LEMMA AppendedTo ==
  ASSUME NEW S, NEW s \in Seq(S), NEW x \in S
  PROVE  /\ Append(s, x) \in Seq(S) /\ Len(s) \in Nat /\ Len(Append(s, x)) = Len(s) + 1
         /\ DOMAIN s = 1..Len(s) /\ DOMAIN Append(s, x) = 1..Len(s) + 1
         /\ \A i \in 1..Len(s) : Append(s, x)[i] = s[i]
         /\ Append(s, x)[Len(s) + 1] = x
<1>1. Append(s, x) \in Seq(S) /\ Len(Append(s, x)) = Len(s) + 1 /\ Append(s, x)[Len(s) + 1] = x
  BY AppendProperties
<1>2. \A i \in 1..Len(s) : Append(s, x)[i] = s[i]
  BY AppendProperties
<1>3. Len(s) \in Nat /\ DOMAIN s = 1..Len(s) /\ DOMAIN Append(s, x) = 1..Len(Append(s, x))
  BY <1>1, LenProperties
<1>q. QED
  BY <1>1, <1>2, <1>3

LEMMA AppendedToPair ==
  ASSUME NEW S, NEW s \in Seq(S), NEW x \in S
  PROVE  Len(s) = 2 =>
         /\ Append(s, x) \in Seq(S) /\ Len(Append(s, x)) = 3
         /\ Append(s, x)[1] = s[1] /\ Append(s, x)[2] = s[2] /\ Append(s, x)[3] = x
<1>1. Append(s, x) \in Seq(S) /\ Len(Append(s, x)) = Len(s) + 1 /\ Append(s, x)[Len(s) + 1] = x
  BY AppendProperties
<1>2. \A i \in 1..Len(s) : Append(s, x)[i] = s[i]
  BY AppendProperties
<1>3. PICK n : n = Len(s)
  OBVIOUS
<1>4. PICK t : t = Append(s, x)
  OBVIOUS
<1>5. t \in Seq(S) /\ Len(t) = n + 1 /\ t[n + 1] = x /\ \A i \in 1..n : t[i] = s[i]
  BY <1>1, <1>2, <1>3, <1>4, Zenon
<1>6. n = 2 => n + 1 = 3 /\ 1 \in 1..n /\ 2 \in 1..n
  OBVIOUS
<1>7. n = 2 => t \in Seq(S) /\ Len(t) = 3 /\ t[1] = s[1] /\ t[2] = s[2] /\ t[3] = x
  BY <1>5, <1>6
<1>q. QED
  BY <1>3, <1>4, <1>7

LEMMA CommandFacts ==
  ASSUME NEW c \in Commands
  PROVE  /\ c.artifact \in Artifacts /\ c.feature \in Words /\ c.name \in Words
         /\ c.plan \in BOOLEAN /\ c.dry_run \in BOOLEAN
         /\ c.plan => c.artifact = "use-case"
BY GenerationAssumption DEF Words

LEMMA Joined ==
  ASSUME NEW s \in Paths, NEW t \in Paths
  PROVE  /\ s \o t \in Paths /\ Len(s \o t) = Len(s) + Len(t)
         /\ \A i \in 1..Len(s) : (s \o t)[i] = s[i]
BY ConcatProperties DEF Paths

LEMMA FeatureRootIs ==
  ASSUME NEW f \in Words
  PROVE  /\ FeatureRoot(f) \in Paths /\ Len(FeatureRoot(f)) = 3
         /\ FeatureRoot(f)[1] = "app" /\ FeatureRoot(f)[2] = "features"
         /\ FeatureRoot(f)[3] = f
<1>1. "app" \in Words /\ "features" \in Words
  BY DEF Words
<1> DEFINE r == features_root
<1>2. /\ r \in Seq(Words) /\ Len(r) = 2
      /\ r[1] = "app" /\ r[2] = "features"
  BY <1>1, Pair DEF features_root
<1>3. FeatureRoot(f) = Append(r, f)
  BY DEF FeatureRoot
<1> HIDE DEF r
<1>q. QED
  BY <1>2, <1>3, AppendedToPair DEF Paths

Below(f, p) == p \in Paths /\ Len(p) >= 4 /\ \A k \in 1..3 : p[k] = FeatureRoot(f)[k]

LEMMA BelowFeature ==
  ASSUME NEW f \in Words, NEW w \in Paths, Len(w) >= 1
  PROVE  Below(f, FeatureRoot(f) \o w) /\ Len(FeatureRoot(f) \o w) = 3 + Len(w)
<1>1. FeatureRoot(f) \in Paths /\ Len(FeatureRoot(f)) = 3
  BY FeatureRootIs
<1>2. Len(w) \in Nat
  BY DEF Paths
<1>q. QED
  <2> DEFINE r == FeatureRoot(f)
  <2>1. r \in Paths /\ Len(r) = 3
    BY <1>1
  <2> HIDE DEF r
  <2>2. /\ r \o w \in Paths /\ Len(r \o w) = 3 + Len(w)
        /\ \A k \in 1..3 : (r \o w)[k] = r[k]
    <3>1. /\ r \o w \in Paths /\ Len(r \o w) = Len(r) + Len(w)
          /\ \A k \in 1..Len(r) : (r \o w)[k] = r[k]
      BY <2>1, Joined
    <3>q. QED
      BY <3>1, <2>1
  <2>3. Len(r \o w) >= 4
    BY <2>2, <1>2
  <2>q. QED
    BY <2>2, <2>3 DEF Below, r

LEMMA BelowOne ==
  ASSUME NEW f \in Words, NEW x \in Words
  PROVE  Below(f, FeatureRoot(f) \o <<x>>)
<1> DEFINE w == <<x>>
<1>1. w \in Paths /\ Len(w) = 1
  BY Single DEF Paths
<1> HIDE DEF w
<1>2. Below(f, FeatureRoot(f) \o w)
  BY <1>1, BelowFeature
<1>q. QED
  BY <1>2 DEF w

LEMMA BelowTwo ==
  ASSUME NEW f \in Words, NEW x \in Words, NEW y \in Words
  PROVE  Below(f, FeatureRoot(f) \o <<x, y>>) /\ Len(FeatureRoot(f) \o <<x, y>>) = 5
<1> DEFINE w == <<x, y>>
<1>1. w \in Paths /\ Len(w) = 2
  BY Pair DEF Paths
<1> HIDE DEF w
<1>0. Len(w) >= 1
  BY <1>1
<1>2. Below(f, FeatureRoot(f) \o w) /\ Len(FeatureRoot(f) \o w) = 3 + Len(w)
  BY <1>0, <1>1, BelowFeature
<1> DEFINE n == Len(FeatureRoot(f) \o w)
<1>n. n = 3 + Len(w)
  BY <1>2
<1> HIDE DEF n
<1>3. n = 5
  BY <1>1, <1>n
<1>q. QED
  BY <1>2, <1>3 DEF w, n

LEMMA FeaturePaths ==
  ASSUME NEW f \in Words, NEW name \in Words
  PROVE  /\ feature_files(f) \in Seq(Paths)
         /\ \A i \in DOMAIN feature_files(f) : Below(f, feature_files(f)[i])
         /\ use_case_files(f, name) \in Seq(Paths) /\ Len(use_case_files(f, name)) = 2
         /\ \A i \in 1..2 : Len(use_case_files(f, name)[i]) = 5
<1>0. {"contracts", "use_cases", "tests", "__init__"} \subseteq Words
  BY DEF Words
<1>1. /\ Below(f, FeatureRoot(f) \o <<"contracts">>)
      /\ Below(f, FeatureRoot(f) \o <<"use_cases", "__init__">>)
      /\ Below(f, FeatureRoot(f) \o <<"tests", "__init__">>)
  BY <1>0, BelowOne, BelowTwo
<1>2. /\ Below(f, FeatureRoot(f) \o <<"use_cases", name>>)
      /\ Below(f, FeatureRoot(f) \o <<"tests", name>>)
      /\ Len(FeatureRoot(f) \o <<"use_cases", name>>) = 5
      /\ Len(FeatureRoot(f) \o <<"tests", name>>) = 5
  BY <1>0, BelowTwo
<1>q1. feature_files(f) \in Seq(Paths) /\ \A i \in DOMAIN feature_files(f) : Below(f, feature_files(f)[i])
  <2> DEFINE a == FeatureRoot(f) \o <<"contracts">>
             b == FeatureRoot(f) \o <<"use_cases", "__init__">>
             d == FeatureRoot(f) \o <<"tests", "__init__">>
  <2>1. feature_files(f) = <<a, b, d>>
    BY DEF feature_files
  <2>2. Below(f, a) /\ Below(f, b) /\ Below(f, d) /\ a \in Paths /\ b \in Paths /\ d \in Paths
    BY <1>1 DEF Below
  <2> HIDE DEF a, b, d
  <2>q. QED
    BY <2>1, <2>2, Triple
<1>q2. use_case_files(f, name) \in Seq(Paths) /\ Len(use_case_files(f, name)) = 2
         /\ \A i \in 1..2 : Len(use_case_files(f, name)[i]) = 5
  <2> DEFINE a == FeatureRoot(f) \o <<"use_cases", name>>
             b == FeatureRoot(f) \o <<"tests", name>>
  <2>1. use_case_files(f, name) = <<a, b>>
    BY DEF use_case_files
  <2>2. Len(a) = 5 /\ Len(b) = 5 /\ a \in Paths /\ b \in Paths
    BY <1>2 DEF Below
  <2> HIDE DEF a, b
  <2>q. QED
    BY <2>1, <2>2, Pair
<1>q. QED
  BY <1>q1, <1>q2

LEMMA OtherPaths ==
  ASSUME NEW name \in Words
  PROVE  /\ capability_files \in Seq(Paths)
         /\ PlanPath(name) \in Paths /\ Len(PlanPath(name)) = 2
<1>0. {"app", "server", "tools", "tools.json", "tests", "tool_snapshot", ".tenchi"} \subseteq Words
  BY DEF Words
<1>1. <<"app", "server", "tools">> \in Paths /\ <<"tools.json">> \in Paths
      /\ <<"tests", "tool_snapshot">> \in Paths
  BY <1>0, Single, Pair, Triple DEF Paths
<1>2. PlanPath(name) \in Paths /\ Len(PlanPath(name)) = 2
  BY <1>0, Pair DEF PlanPath, Paths
<1>3. capability_files \in Seq(Paths)
  BY <1>1, Triple DEF capability_files
<1>q. QED
  BY <1>2, <1>3

LEMMA WritesArePaths ==
  ASSUME NEW c \in Commands
  PROVE  WritesOf(c) \in Seq(Paths)
<1>1. use_case_files(c.feature, c.name) \o (IF c.plan THEN <<PlanPath(c.name)>> ELSE <<>>)
        \in Seq(Paths)
  <2>1. <<PlanPath(c.name)>> \in Seq(Paths) /\ <<>> \in Seq(Paths)
    BY CommandFacts, OtherPaths, Single, EmptySeq
  <2>2. use_case_files(c.feature, c.name) \in Seq(Paths)
    BY CommandFacts, FeaturePaths
  <2> DEFINE u == use_case_files(c.feature, c.name)
             v == <<PlanPath(c.name)>>
  <2> HIDE DEF u, v
  <2>3. u \o v \in Seq(Paths) /\ u \o <<>> \in Seq(Paths)
    BY <2>1, <2>2, ConcatProperties DEF u, v
  <2>q. QED
    BY <2>3 DEF u, v
<1>2. <<>> \in Seq(Paths)
  BY EmptySeq
<1>q. QED
  BY <1>1, <1>2, CommandFacts, FeaturePaths, OtherPaths DEF WritesOf, Artifacts

LEMMA WritesAreFiles ==
  ASSUME NEW c \in Commands
  PROVE  /\ DOMAIN WritesOf(c) = 1..Len(WritesOf(c)) /\ Len(WritesOf(c)) \in Nat
         /\ \A i \in DOMAIN WritesOf(c) : WritesOf(c)[i] \in Files
         /\ ToSet(WritesOf(c)) = {WritesOf(c)[i] : i \in DOMAIN WritesOf(c)}
<1>1. ToSet(WritesOf(c)) = {WritesOf(c)[i] : i \in DOMAIN WritesOf(c)}
  BY DEF ToSet
<1>2. ToSet(WritesOf(c)) \subseteq Files
  BY DEF Files
<1>q. QED
  BY <1>1, <1>2, WritesArePaths

(* A directory above a file that a command writes is the command's own, or *)
(* one the project had at first.                                           *)
LEMMA AboveFits ==
  ASSUME NEW c \in Commands, NEW i \in DOMAIN WritesOf(c), NEW d \in Above(WritesOf(c)[i])
  PROVE  d \in Dirs /\ (d \in _destination_directories(c) \/ d \in ProjectDirs)
<1> DEFINE path == WritesOf(c)[i]
<1>1. path \in Files /\ path \in ToSet(WritesOf(c))
  BY WritesAreFiles
<1>2. d \in Dirs
  BY <1>1 DEF Dirs
<1>3. IsPrefix(RootOf(c), d) => d \in _destination_directories(c)
  BY <1>1 DEF _destination_directories
<1>4. path \in Paths /\ Len(path) \in Nat
  BY WritesArePaths DEF Paths
<1>5. PICK n \in 0..Len(path) - 1 : d = SubSeq(path, 1, n)
  BY DEF Above
<1>w. (c.artifact = "feature") => Below(c.feature, path)
  BY CommandFacts, FeaturePaths DEF WritesOf
<1> HIDE DEF path
<1>8. /\ d \in Paths /\ Len(d) = n /\ n \in Nat /\ \A k \in 1..n : d[k] = path[k]
  BY <1>4, <1>5, SubSeqProperties DEF Paths
<1>6. CASE c.artifact # "feature"
  <2>1. RootOf(c) = <<>>
    BY <1>6 DEF RootOf
  <2>2. IsPrefix(<<>>, d)
    BY <1>8 DEF IsPrefix, Paths
  <2>q. QED
    BY <1>2, <1>3, <2>1, <2>2
<1>7. CASE c.artifact = "feature"
  <2> DEFINE f == c.feature
  <2>1. RootOf(c) = FeatureRoot(f) /\ f \in Words
    BY <1>7, CommandFacts DEF RootOf
  <2> HIDE DEF f
  <2>r. /\ FeatureRoot(f) \in Paths /\ Len(FeatureRoot(f)) = 3
         /\ FeatureRoot(f)[1] = "app" /\ FeatureRoot(f)[2] = "features"
    BY FeatureRootIs, <2>1
  <2>2. \A k \in 1..3 : path[k] = FeatureRoot(f)[k]
    BY <1>w, <1>7 DEF Below, f
  <2>3. CASE n = 0
    <3>1. d = <<>>
      BY <1>8, <2>3 DEF Paths
    <3>q. QED
      BY <1>2, <3>1 DEF ProjectDirs
  <2>4. CASE n = 1
    <3>1. d = app
      BY <1>8, <2>4, <2>2, <2>r DEF Paths, app
    <3>q. QED
      BY <1>2, <3>1 DEF ProjectDirs
  <2>5. CASE n = 2
    <3>1. d[1] = "app" /\ d[2] = "features"
      BY <1>8, <2>5, <2>2, <2>r
    <3>2. d = features_root
      BY <1>8, <2>5, <3>1 DEF Paths, features_root
    <3>q. QED
      BY <1>2, <3>2 DEF ProjectDirs
  <2>6. CASE n >= 3
    <3>1. IsPrefix(FeatureRoot(f), d)
      <4>1. \A k \in 1..Len(FeatureRoot(f)) : FeatureRoot(f)[k] = d[k]
        BY <1>8, <2>2, <2>r, <2>6
      <4>q. QED
        BY <1>8, <2>r, <2>6, <4>1 DEF IsPrefix, Paths
    <3>q. QED
      BY <1>2, <1>3, <2>1, <3>1
  <2>q. QED
    BY <2>3, <2>4, <2>5, <2>6, <1>8
<1>q. QED
  BY <1>6, <1>7

LEMMA DestinationsAreDirs ==
  ASSUME NEW c \in Commands
  PROVE  _destination_directories(c) \subseteq Dirs
BY WritesAreFiles DEF _destination_directories, Dirs

(* A change plan is written after the two files it describes.              *)
LEMMA PlanIsLast ==
  ASSUME NEW c \in Commands, c.plan, ~ c.dry_run
  PROVE  /\ DOMAIN WritesOf(c) = 1..3
         /\ WritesOf(c)[3] = PlanPath(c.name)
         /\ WritesOf(c)[1] # PlanPath(c.name) /\ WritesOf(c)[2] # PlanPath(c.name)
         /\ ToSet(use_case_files(c.feature, c.name)) = {WritesOf(c)[1], WritesOf(c)[2]}
<1> DEFINE u == use_case_files(c.feature, c.name)
           v == PlanPath(c.name)
<1>1. WritesOf(c) = u \o <<v>>
  BY CommandFacts DEF WritesOf
<1>2. /\ u \in Seq(Paths) /\ Len(u) = 2
      /\ Len(u[1]) = 5 /\ Len(u[2]) = 5 /\ Len(v) = 2
      /\ v \in Paths
  <2>1. c.feature \in Words /\ c.name \in Words
    BY CommandFacts
  <2>2. v \in Paths /\ Len(v) = 2
    BY <2>1, OtherPaths
  <2>3. u \in Seq(Paths) /\ Len(u) = 2 /\ \A i \in 1..2 : Len(u[i]) = 5
    BY <2>1, FeaturePaths
  <2> HIDE DEF u, v
  <2>q. QED
    BY <2>2, <2>3
<1> HIDE DEF u, v
<1>3. /\ DOMAIN WritesOf(c) = 1..3 /\ WritesOf(c)[1] = u[1] /\ WritesOf(c)[2] = u[2]
      /\ WritesOf(c)[3] = v
  <2>1. <<v>> \in Seq(Paths) /\ Len(<<v>>) = 1 /\ <<v>>[1] = v
    BY <1>2, Single
  <2> DEFINE w == <<v>>
  <2>2. w \in Seq(Paths) /\ Len(w) = 1 /\ w[1] = v /\ WritesOf(c) = u \o w
    BY <1>1, <2>1
  <2> HIDE DEF w
  <2>3. /\ u \o w \in Seq(Paths) /\ Len(u \o w) = 3
        /\ \A i \in 1..3 : (u \o w)[i] = IF i <= 2 THEN u[i] ELSE w[i - 2]
    BY <1>2, <2>2, ConcatProperties
  <2>q. QED
    BY <2>2, <2>3, LenProperties
<1>4. ToSet(u) = {u[1], u[2]}
  <2>1. DOMAIN u = {1, 2}
    BY <1>2
  <2>q. QED
    BY <2>1 DEF ToSet
<1>5. u[1] # v /\ u[2] # v
  <2>1. Len(u[1]) # Len(v) /\ Len(u[2]) # Len(v)
    BY <1>2
  <2>q. QED
    BY <2>1
<1>6. /\ DOMAIN WritesOf(c) = 1..3 /\ WritesOf(c)[3] = v
      /\ WritesOf(c)[1] # v /\ WritesOf(c)[2] # v
      /\ ToSet(u) = {WritesOf(c)[1], WritesOf(c)[2]}
  BY <1>3, <1>4, <1>5
<1>q. QED
  BY <1>6 DEF u, v

-----------------------------------------------------------------------------
LEMMA Makers ==
  /\ Absent \notin Generators /\ Project \notin Generators /\ Other \notin Generators
  /\ Absent # Project /\ Absent # Other /\ Project # Other /\ Absent \notin Contents
BY GenerationAssumption DEF Project, Other, Contents

(* A step that touches no file and no directory of a generator's own, and  *)
(* makes it none, disturbs nothing that is known of it.                    *)
LEMMA OthersFit ==
  ASSUME TreeOK, NEW h \in Generators, GeneratorFits(h, gen[h]), gen'[h] = gen[h],
         \A p \in Files : Mine(h, p) \/ Mine(h, p)' => files'[p] = files[p],
         \A d \in Dirs : Made(h, d)' => Made(h, d)
  PROVE  GeneratorFits(h, gen[h])'
<1> DEFINE me == gen[h]
<1>1. me \in Locals
  BY DEF TreeOK
<1>2. \A i \in DOMAIN me.created : me.created[i] \in Files
  BY <1>1 DEF Locals
<1>3. FilesFit(h, gen[h])'
  <2>1. \A i \in DOMAIN me.created : files'[me.created[i]] = files[me.created[i]]
    BY <1>2 DEF GeneratorFits, FilesFit
  <2>q. QED
    BY <2>1 DEF GeneratorFits, FilesFit, Mine
<1>4. DirsFit(h, gen[h])'
  BY DEF GeneratorFits, DirsFit
<1>5. StageFits(gen[h])'
  BY DEF GeneratorFits, StageFits
<1>6. SuccessFits(gen[h])'
  BY <1>2 DEF GeneratorFits, SuccessFits, FilesFit
<1>q. QED
  BY <1>3, <1>4, <1>5, <1>6 DEF GeneratorFits

(* A step of one generator, which takes only absent paths and its own, and *)
(* removes no directory of the project's, need only keep that generator's  *)
(* part of the invariant.                                                  *)
LEMMA OwnStep ==
  ASSUME GenerationInv, NEW g \in Generators, NEW me \in Locals,
         gen' = [gen EXCEPT ![g] = me],
         files' \in [Files -> Contents \cup {Absent}],
         dirs' \in [Dirs -> Generators \cup {Project, Absent}],
         \A p \in Files : files'[p] # files[p] =>
           /\ files[p] = Absent \/ Mine(g, p)
           /\ files'[p] = Absent \/ files'[p].by = g,
         \A d \in Dirs : dirs'[d] # dirs[d] => d \notin ProjectDirs /\ dirs'[d] \in {g, Absent},
         FilesFit(g, me)', DirsFit(g, me)', StageFits(me), SuccessFits(me)'
  PROVE  GenerationInv'
<1>1. gen'[g] = me /\ gen' \in [Generators -> Locals]
  BY DEF GenerationInv, TreeOK
<1>2. TreeOK'
  BY <1>1 DEF TreeOK
<1>3. ProjectStays'
  BY DEF GenerationInv, ProjectStays
<1>4. GeneratorFits(g, gen[g])'
  <2>1. FilesFit(g, gen[g])'
    BY <1>1 DEF FilesFit
  <2>2. DirsFit(g, gen[g])'
    BY <1>1 DEF DirsFit
  <2>3. StageFits(gen[g])'
    BY <1>1 DEF StageFits
  <2>4. SuccessFits(gen[g])'
    BY <1>1 DEF SuccessFits
  <2>q. QED
    BY <2>1, <2>2, <2>3, <2>4 DEF GeneratorFits
<1>5. ASSUME NEW h \in Generators, h # g
      PROVE  GeneratorFits(h, gen[h])'
  <2>1. gen'[h] = gen[h]
    BY <1>5 DEF GenerationInv, TreeOK
  <2>2. \A p \in Files : Mine(h, p) \/ Mine(h, p)' => files'[p] = files[p]
    BY <1>5 DEF Mine
  <2>3. \A d \in Dirs : Made(h, d)' => Made(h, d)
    BY <1>5, Makers DEF Made
  <2>q. QED
    BY <2>1, <2>2, <2>3, OthersFit DEF GenerationInv
<1>q. QED
  BY <1>2, <1>3, <1>4, <1>5 DEF GenerationInv

(* The same for a step that leaves the tree alone.                         *)
LEMMA OwnThought ==
  ASSUME GenerationInv, NEW g \in Generators, NEW me \in Locals,
         gen' = [gen EXCEPT ![g] = me], UNCHANGED <<files, dirs>>, GeneratorFits(g, me)
  PROVE  GenerationInv'
<1>1. FilesFit(g, me)' /\ DirsFit(g, me)' /\ SuccessFits(me)'
  <2>1. FilesFit(g, me)'
    BY DEF GeneratorFits, FilesFit, Mine
  <2>2. DirsFit(g, me)'
    BY DEF GeneratorFits, DirsFit, Made
  <2>3. SuccessFits(me)'
    BY DEF GeneratorFits, SuccessFits
  <2>q. QED
    BY <2>1, <2>2, <2>3
<1>2. /\ files' \in [Files -> Contents \cup {Absent}]
      /\ dirs' \in [Dirs -> Generators \cup {Project, Absent}]
  BY DEF GenerationInv, TreeOK
<1>3. StageFits(me)
  BY DEF GeneratorFits
<1>q. QED
  BY <1>1, <1>2, <1>3, OwnStep

-----------------------------------------------------------------------------
(* The rollback.                                                           *)
Removing(g, me) ==
  /\ FilesFit(g, me)
  /\ me.command \in Commands /\ me.result = "none"
  /\ \A d \in Dirs : Made(g, d) => d \in _destination_directories(me.command)
  /\ ProjectDirs \cap me.leaving = {}
  /\ me.clean => \A d \in Dirs : Made(g, d) => d \in me.existing \cup me.leaving

LEMMA NextRemovalFits ==
  ASSUME NEW g \in Generators, NEW me \in Locals, Removing(g, me)'
  PROVE  /\ NextRemoval(me) \in Locals
         /\ FilesFit(g, NextRemoval(me))' /\ DirsFit(g, NextRemoval(me))'
         /\ StageFits(NextRemoval(me)) /\ SuccessFits(NextRemoval(me))'
<1> DEFINE next == NextRemoval(me)
<1>1. next \in Locals
  BY DEF NextRemoval, Locals, Stages, Ends
<1>2. /\ next.command = me.command /\ next.created = me.created /\ next.at = me.at
      /\ next.leaving = me.leaving /\ next.existing = me.existing /\ next.clean = me.clean
      /\ next.unsampled = me.unsampled /\ next.pending = me.pending
  BY DEF NextRemoval, Locals
<1>3. \/ me.created # <<>> /\ next.pc = "unlink" /\ next.result = "none"
      \/ me.created = <<>> /\ me.leaving # {} /\ next.pc = "rmdir" /\ next.result = "none"
      \/ /\ me.created = <<>> /\ me.leaving = {} /\ next.pc = "done"
         /\ next.result = IF me.clean THEN "failed" ELSE "unclean"
  BY DEF NextRemoval, Locals, Removing
<1> HIDE DEF next
<1>4. FilesFit(g, next)'
  BY <1>2 DEF Removing, FilesFit
<1>5. DirsFit(g, next)'
  BY <1>2, <1>3 DEF Removing, DirsFit, Running
<1>6. StageFits(next)
  BY <1>2, <1>3 DEF Removing, StageFits, Running
<1>7. SuccessFits(next)'
  BY <1>3 DEF SuccessFits
<1>q. QED
  BY <1>1, <1>4, <1>5, <1>6, <1>7 DEF next

(* A failed step that leaves the tree alone begins the rollback.           *)
LEMMA RollBackStep ==
  ASSUME GenerationInv, NEW g \in Generators, gen[g].pc \in Running,
         gen' = [gen EXCEPT ![g] = RollBack(@)], UNCHANGED <<files, dirs>>
  PROVE  GenerationInv'
<1> DEFINE old == gen[g]
           me == [old EXCEPT !.leaving = _destination_directories(old.command) \ old.existing]
<1>1. old \in Locals /\ GeneratorFits(g, old)
  BY DEF GenerationInv, TreeOK
<1>2. gen' = [gen EXCEPT ![g] = NextRemoval(me)]
  BY DEF RollBack, GenerationInv, TreeOK
<1>0. PICK was : was = old
  OBVIOUS
<1> DEFINE left == _destination_directories(was.command) \ was.existing
<1>3. was \in Locals /\ GeneratorFits(g, was) /\ was.pc \in Running
  BY <1>0, <1>1
<1>4. PICK new : new = [was EXCEPT !.leaving = left]
  OBVIOUS
<1>5. left \subseteq Dirs /\ was.command \in Commands
  BY <1>3, DestinationsAreDirs DEF GeneratorFits, StageFits, Running
<1>6. new \in Locals
  BY <1>3, <1>4, <1>5 DEF Locals
<1>7. /\ new.command = was.command /\ new.created = was.created /\ new.at = was.at
      /\ new.existing = was.existing /\ new.clean = was.clean /\ new.leaving = left
      /\ new.result = was.result
  BY <1>3, <1>4 DEF Locals
<1>8. Removing(g, new)'
  <2>1. FilesFit(g, new)'
    BY <1>3, <1>7 DEF GeneratorFits, FilesFit, Mine
  <2>2. /\ \A d \in Dirs : Made(g, d) => d \in _destination_directories(was.command)
        /\ ProjectDirs \cap _destination_directories(was.command) \subseteq was.existing
    BY <1>3 DEF GeneratorFits, DirsFit, Running
  <2>3. was.result = "none"
    BY <1>3 DEF GeneratorFits, StageFits, Running
  <2>q. QED
    BY <1>5, <1>7, <2>1, <2>2, <2>3 DEF Removing, Made
<1>9. gen' = [gen EXCEPT ![g] = NextRemoval(new)]
  BY <1>0, <1>2, <1>4
<1>10. PICK next : next = NextRemoval(new)
  OBVIOUS
<1>11. /\ next \in Locals
       /\ FilesFit(g, next)' /\ DirsFit(g, next)' /\ StageFits(next) /\ SuccessFits(next)'
  BY <1>6, <1>8, <1>10, NextRemovalFits
<1>12. gen' = [gen EXCEPT ![g] = next]
  BY <1>9, <1>10
<1>13. /\ files' \in [Files -> Contents \cup {Absent}]
       /\ dirs' \in [Dirs -> Generators \cup {Project, Absent}]
  BY DEF GenerationInv, TreeOK
<1>q. QED
  BY <1>11, <1>12, <1>13, OwnStep

(* The looks before anything is made.                                      *)
LEMMA BeginFits ==
  ASSUME GenerationInv, NEW g \in Generators, gen[g].pc \in {"idle", "load"},
         NEW me \in Locals, NEW c \in Commands, me = [gen[g] EXCEPT !.command = c]
  PROVE  /\ Refused(me) \in Locals /\ GeneratorFits(g, Refused(me))
         /\ Begin(me) \in Locals /\ GeneratorFits(g, Begin(me))
         /\ [me EXCEPT !.pc = "load"] \in Locals /\ GeneratorFits(g, [me EXCEPT !.pc = "load"])
<1>1. /\ me.command = c /\ me.at = 1 /\ me.created = <<>> /\ me.clean /\ me.result = "none"
      /\ ProjectDirs \cap me.leaving = {}
      /\ \A d \in Dirs : ~ Made(g, d)
      /\ \A p \in Files : ~ Mine(g, p)
  <2>1. gen[g] \in Locals /\ GeneratorFits(g, gen[g])
    BY DEF GenerationInv, TreeOK
  <2>2. /\ me.command = c /\ me.at = gen[g].at /\ me.created = gen[g].created
        /\ me.clean = gen[g].clean /\ me.result = gen[g].result /\ me.leaving = gen[g].leaving
    BY <2>1 DEF Locals
  <2>q. QED
    BY <2>1, <2>2 DEF GeneratorFits, StageFits, DirsFit, FilesFit
<1>2. ASSUME NEW new \in Locals, new.command = c, new.at = 1, new.created = <<>>, new.clean,
             new.leaving = me.leaving,
             \/ new.pc = "load" /\ new.result = "none"
             \/ new.pc = "done" /\ new.result = "refused"
             \/ new.pc = "done" /\ new.result = "ok" /\ WritesOf(c) = <<>>
             \/ /\ new.pc = "sample" /\ new.result = "none" /\ WritesOf(c) # <<>>
                /\ new.unsampled = _destination_directories(c)
      PROVE  GeneratorFits(g, new)
  <2>1. FilesFit(g, new)
    BY <1>1, <1>2 DEF FilesFit
  <2>2. DirsFit(g, new)
    BY <1>1, <1>2 DEF DirsFit, Running
  <2>3. StageFits(new)
    <3>1. WritesOf(c) # <<>> => 1 \in DOMAIN WritesOf(c)
      BY WritesArePaths
    <3>q. QED
      BY <1>2, <3>1 DEF StageFits, Running
  <2>4. SuccessFits(new)
    BY <1>2 DEF SuccessFits
  <2>q. QED
    BY <2>1, <2>2, <2>3, <2>4 DEF GeneratorFits
<1>3. Refused(me) \in Locals /\ GeneratorFits(g, Refused(me))
  <2>1. PICK new : new = Refused(me)
    OBVIOUS
  <2>2. /\ new \in Locals /\ new.command = me.command /\ new.at = me.at
        /\ new.created = me.created /\ new.clean = me.clean /\ new.leaving = me.leaving
        /\ new.pc = "done" /\ new.result = "refused"
    BY <2>1 DEF Refused, Locals, Stages, Ends
  <2>q. QED
    BY <1>1, <1>2, <2>1, <2>2
<1>4. Begin(me) \in Locals /\ GeneratorFits(g, Begin(me))
  <2>1. PICK new : new = Begin(me)
    OBVIOUS
  <2>2. CASE WritesOf(c) = <<>>
    <3>2. /\ new \in Locals /\ new.command = me.command /\ new.at = me.at
          /\ new.created = me.created /\ new.clean = me.clean /\ new.leaving = me.leaving
          /\ new.pc = "done" /\ new.result = "ok"
      BY <1>1, <2>1, <2>2 DEF Begin, Locals, Stages, Ends
    <3>q. QED
      BY <1>1, <1>2, <2>1, <2>2, <3>2
  <2>3. CASE WritesOf(c) # <<>>
    <3>1. _destination_directories(c) \in SUBSET Dirs
      BY DestinationsAreDirs
    <3>0. new = [me EXCEPT !.pc = "sample", !.unsampled = _destination_directories(c)]
      BY <1>1, <2>1, <2>3 DEF Begin
    <3>2. /\ new \in Locals /\ new.command = me.command /\ new.at = me.at
          /\ new.created = me.created /\ new.clean = me.clean /\ new.leaving = me.leaving
          /\ new.pc = "sample" /\ new.result = me.result
          /\ new.unsampled = _destination_directories(c)
      BY <3>0, <3>1 DEF Locals, Stages, Ends
    <3>q. QED
      BY <1>1, <1>2, <2>1, <2>3, <3>2
  <2>q. QED
    BY <2>2, <2>3
<1>5. [me EXCEPT !.pc = "load"] \in Locals /\ GeneratorFits(g, [me EXCEPT !.pc = "load"])
  <2>1. PICK new : new = [me EXCEPT !.pc = "load"]
    OBVIOUS
  <2>2. /\ new \in Locals /\ new.command = me.command /\ new.at = me.at
        /\ new.created = me.created /\ new.clean = me.clean /\ new.leaving = me.leaving
        /\ new.pc = "load" /\ new.result = me.result
    BY <2>1 DEF Locals, Stages, Ends
  <2>q. QED
    BY <1>1, <1>2, <2>1, <2>2
<1>q. QED
  BY <1>3, <1>4, <1>5

LEMMA MakeResultStep ==
  ASSUME GenerationInv, NEW g \in Generators, NEW c \in Commands, make_result(g, c)
  PROVE  GenerationInv'
<1>0. gen[g] \in Locals /\ gen[g].pc = "idle"
  BY DEF GenerationInv, TreeOK, make_result
<1>1. PICK me : me = [gen[g] EXCEPT !.command = c]
  OBVIOUS
<1>2. me \in Locals
  BY <1>0, <1>1 DEF Locals
<1>3. \/ gen' = [gen EXCEPT ![g] = Refused(me)]
      \/ gen' = [gen EXCEPT ![g] = [me EXCEPT !.pc = "load"]]
      \/ gen' = [gen EXCEPT ![g] = Begin(me)]
  BY <1>1 DEF make_result
<1>4. PICK new : /\ new \in Locals /\ GeneratorFits(g, new)
                 /\ gen' = [gen EXCEPT ![g] = new]
  BY <1>0, <1>1, <1>2, <1>3, BeginFits
<1>5. UNCHANGED <<files, dirs>>
  BY DEF make_result
<1>q. QED
  BY <1>4, <1>5, OwnThought

LEMMA LoadContractStep ==
  ASSUME GenerationInv, NEW g \in Generators, load_contract(g)
  PROVE  GenerationInv'
<1>0. gen[g] \in Locals /\ gen[g].pc = "load" /\ gen[g].command \in Commands
  BY DEF GenerationInv, TreeOK, load_contract, GeneratorFits, StageFits
<1>1. PICK me : me = gen[g]
  OBVIOUS
<1>2. me \in Locals /\ me = [gen[g] EXCEPT !.command = me.command] /\ me.command \in Commands
  BY <1>0, <1>1 DEF Locals
<1>3. \/ gen' = [gen EXCEPT ![g] = Refused(me)]
      \/ gen' = [gen EXCEPT ![g] = Begin(me)]
  BY <1>1 DEF load_contract
<1>4. PICK new : /\ new \in Locals /\ GeneratorFits(g, new)
                 /\ gen' = [gen EXCEPT ![g] = new]
  BY <1>0, <1>2, <1>3, BeginFits
<1>5. UNCHANGED <<files, dirs>>
  BY DEF load_contract
<1>q. QED
  BY <1>4, <1>5, OwnThought

LEMMA SampleStep ==
  ASSUME GenerationInv, NEW g \in Generators, Sample(g)
  PROVE  GenerationInv'
<1>1. PICK me : me = gen[g]
  OBVIOUS
<1>2. me \in Locals /\ GeneratorFits(g, me) /\ me.pc = "sample"
  BY <1>1 DEF GenerationInv, TreeOK, Sample
<1>3. PICK d \in me.unsampled :
        gen' = [gen EXCEPT ![g].unsampled = @ \ {d},
                           ![g].existing = IF IsDir(d) THEN @ \cup {d} ELSE @,
                           ![g].pc = IF me.unsampled = {d} THEN "mkdir" ELSE @]
  BY <1>1 DEF Sample
<1>4. d \in Dirs
  BY <1>2 DEF Locals
<1>5. PICK found : found = IF IsDir(d) THEN me.existing \cup {d} ELSE me.existing
  OBVIOUS
<1>6. PICK after : after = IF me.unsampled = {d} THEN "mkdir" ELSE "sample"
  OBVIOUS
<1>7. PICK new : new = [me EXCEPT !.unsampled = me.unsampled \ {d}, !.existing = found, !.pc = after]
  OBVIOUS
<1>8. gen' = [gen EXCEPT ![g] = new]
  BY <1>1, <1>2, <1>3, <1>5, <1>6, <1>7 DEF GenerationInv, TreeOK
<1>9. found \in SUBSET Dirs /\ me.unsampled \ {d} \in SUBSET Dirs
  BY <1>2, <1>4, <1>5 DEF Locals
<1>10. /\ new \in Locals
       /\ new.pc = after /\ new.command = me.command /\ new.result = me.result
       /\ new.unsampled = me.unsampled \ {d} /\ new.at = me.at /\ new.existing = found
       /\ new.pending = me.pending /\ new.created = me.created /\ new.leaving = me.leaving
       /\ new.clean = me.clean
  BY <1>2, <1>6, <1>7, <1>9 DEF Locals, Stages, Running
<1>11. FilesFit(g, new)
  BY <1>2, <1>10 DEF GeneratorFits, FilesFit
<1>12. DirsFit(g, new)
  <2>1. d \in ProjectDirs => IsDir(d)
    BY <1>4, Makers DEF GenerationInv, ProjectStays, IsDir
  <2>2. ProjectDirs \cap _destination_directories(new.command) \subseteq new.unsampled \cup new.existing
    BY <1>2, <1>5, <1>10, <2>1 DEF GeneratorFits, DirsFit
  <2>3. new.pc \in Running => new.unsampled = {}
    BY <1>6, <1>10 DEF Running
  <2>4. new.pc \in {"sample", "mkdir"} /\ new.result = "none" /\ \A e \in Dirs : ~ Made(g, e)
    BY <1>2, <1>6, <1>10 DEF GeneratorFits, DirsFit, StageFits
  <2>q. QED
    BY <1>2, <1>10, <2>2, <2>3, <2>4 DEF GeneratorFits, DirsFit
<1>13. StageFits(new)
  <2>1. me.created = <<>> /\ me.at = 1 /\ Len(me.created) = me.at - 1
    BY <1>2 DEF GeneratorFits, StageFits
  <2>q. QED
    BY <1>2, <1>6, <1>10, <2>1 DEF GeneratorFits, StageFits, Running
<1>14. SuccessFits(new)
  BY <1>2, <1>10 DEF GeneratorFits, SuccessFits, StageFits
<1>15. UNCHANGED <<files, dirs>>
  BY DEF Sample
<1>q. QED
  BY <1>8, <1>10, <1>11, <1>12, <1>13, <1>14, <1>15, OwnThought DEF GeneratorFits

-----------------------------------------------------------------------------
(* Making.                                                                 *)
LEMMA DestinationFits ==
  ASSUME GenerationInv, NEW g \in Generators, gen[g].pc \in Running
  PROVE  /\ gen[g].command \in Commands /\ gen[g].at \in DOMAIN Writes(g)
         /\ Destination(g) = WritesOf(gen[g].command)[gen[g].at]
         /\ Destination(g) \in Files
<1>1. gen[g].command \in Commands /\ gen[g].at \in DOMAIN Writes(g)
  BY DEF GenerationInv, GeneratorFits, StageFits, Running, Writes
<1>q. QED
  BY <1>1, WritesAreFiles DEF Destination, Writes

LEMMA MkdirStep ==
  ASSUME GenerationInv, NEW g \in Generators, mkdir(g)
  PROVE  GenerationInv'
<1>1. PICK me : me = gen[g]
  OBVIOUS
<1>2. me \in Locals /\ GeneratorFits(g, me) /\ me.pc = "mkdir"
  BY <1>1 DEF GenerationInv, TreeOK, mkdir
<1>3. /\ me.command \in Commands /\ me.at \in DOMAIN WritesOf(me.command)
      /\ Destination(g) = WritesOf(me.command)[me.at]
  BY <1>1, <1>2, DestinationFits DEF Running, Writes
<1>4. PICK missing : missing = MissingAbove(Destination(g))
  OBVIOUS
<1>5. missing \subseteq Above(WritesOf(me.command)[me.at]) /\ missing \in SUBSET Dirs
  BY <1>3, <1>4, AboveFits DEF MissingAbove
<1>6. PICK after : after = IF missing = {} THEN "open" ELSE "parents"
  OBVIOUS
<1>7. PICK new : new = [me EXCEPT !.pending = missing, !.pc = after]
  OBVIOUS
<1>8. gen' = [gen EXCEPT ![g] = new]
  BY <1>1, <1>2, <1>4, <1>6, <1>7 DEF mkdir, GenerationInv, TreeOK
<1>10. /\ new \in Locals
       /\ new.pc = after /\ new.command = me.command /\ new.result = me.result
       /\ new.unsampled = me.unsampled /\ new.at = me.at /\ new.existing = me.existing
       /\ new.pending = missing /\ new.created = me.created /\ new.leaving = me.leaving
       /\ new.clean = me.clean
  BY <1>2, <1>5, <1>6, <1>7 DEF Locals, Stages, Running
<1>11. FilesFit(g, new)
  BY <1>2, <1>10 DEF GeneratorFits, FilesFit
<1>12. DirsFit(g, new)
  BY <1>2, <1>6, <1>10 DEF GeneratorFits, DirsFit, Running
<1>13. StageFits(new)
  BY <1>2, <1>5, <1>6, <1>10 DEF GeneratorFits, StageFits, Running
<1>14. SuccessFits(new)
  BY <1>2, <1>10 DEF GeneratorFits, SuccessFits, StageFits
<1>15. UNCHANGED <<files, dirs>>
  BY DEF mkdir
<1>q. QED
  BY <1>8, <1>10, <1>11, <1>12, <1>13, <1>14, <1>15, OwnThought DEF GeneratorFits

LEMMA MakeParentStep ==
  ASSUME GenerationInv, NEW g \in Generators, MakeParent(g)
  PROVE  GenerationInv'
<1>1. PICK me : me = gen[g]
  OBVIOUS
<1>2. me \in Locals /\ GeneratorFits(g, me) /\ me.pc = "parents" /\ files' = files
  BY <1>1 DEF GenerationInv, TreeOK, MakeParent
<1>3. /\ me.command \in Commands /\ me.at \in DOMAIN WritesOf(me.command)
  BY <1>1, <1>2, DestinationFits DEF Running, Writes
<1>4. PICK d \in me.pending :
        \/ /\ dirs' = [dirs EXCEPT ![d] = IF @ = Absent THEN g ELSE @]
           /\ gen' = [gen EXCEPT ![g].pending = @ \ {d},
                                 ![g].pc = IF me.pending = {d} THEN "open" ELSE @]
        \/ /\ gen' = [gen EXCEPT ![g] = RollBack(@)]
           /\ UNCHANGED dirs
  BY <1>1 DEF MakeParent
<1>5. CASE gen' = [gen EXCEPT ![g] = RollBack(@)] /\ UNCHANGED dirs
  BY <1>1, <1>2, <1>5, RollBackStep DEF Running
<1>6. CASE /\ dirs' = [dirs EXCEPT ![d] = IF @ = Absent THEN g ELSE @]
           /\ gen' = [gen EXCEPT ![g].pending = @ \ {d},
                                 ![g].pc = IF me.pending = {d} THEN "open" ELSE @]
  <2>1. d \in Above(WritesOf(me.command)[me.at]) /\ d \in Dirs
    BY <1>2, <1>4 DEF GeneratorFits, StageFits, Locals
  <2>2. d \in _destination_directories(me.command) \/ d \in ProjectDirs
    BY <1>3, <2>1, AboveFits
  <2>3. d \in ProjectDirs => dirs[d] = Project
    BY <2>1 DEF GenerationInv, ProjectStays
  <2>4. /\ dirs' \in [Dirs -> Generators \cup {Project, Absent}]
        /\ \A e \in Dirs : dirs'[e] # dirs[e] => e = d /\ dirs[d] = Absent /\ dirs'[d] = g
    BY <1>6, <2>1 DEF GenerationInv, TreeOK
  <2>5. \A e \in Dirs : dirs'[e] # dirs[e] =>
          /\ e \notin ProjectDirs /\ dirs'[e] \in {g, Absent}
          /\ e \in _destination_directories(me.command)
    BY <2>2, <2>3, <2>4, Makers
  <2>6. PICK after : after = IF me.pending = {d} THEN "open" ELSE "parents"
    OBVIOUS
  <2>7. PICK new : new = [me EXCEPT !.pending = me.pending \ {d}, !.pc = after]
    OBVIOUS
  <2>8. gen' = [gen EXCEPT ![g] = new]
    BY <1>1, <1>2, <1>6, <2>6, <2>7 DEF GenerationInv, TreeOK
  <2>9. me.pending \ {d} \in SUBSET Dirs
    BY <1>2 DEF Locals
  <2>10. /\ new \in Locals
         /\ new.pc = after /\ new.command = me.command /\ new.result = me.result
         /\ new.unsampled = me.unsampled /\ new.at = me.at /\ new.existing = me.existing
         /\ new.pending = me.pending \ {d} /\ new.created = me.created
         /\ new.leaving = me.leaving /\ new.clean = me.clean
    BY <1>2, <2>6, <2>7, <2>9 DEF Locals, Stages, Running
  <2>11. FilesFit(g, new)'
    BY <1>2, <2>10 DEF GeneratorFits, FilesFit, Mine
  <2>12. DirsFit(g, new)'
    <3>1. \A e \in Dirs : Made(g, e)' => e \in _destination_directories(me.command)
      BY <1>2, <2>5 DEF GeneratorFits, DirsFit, Made
    <3>2. new.pc \in {"open", "parents"} /\ new.result = "none"
      BY <1>2, <2>6, <2>10 DEF GeneratorFits, StageFits
    <3>q. QED
      BY <1>2, <2>10, <3>1, <3>2 DEF GeneratorFits, DirsFit, Running
  <2>13. StageFits(new)
    BY <1>2, <2>6, <2>10 DEF GeneratorFits, StageFits, Running
  <2>14. SuccessFits(new)'
    BY <1>2, <2>10 DEF GeneratorFits, SuccessFits, StageFits
  <2>15. files' \in [Files -> Contents \cup {Absent}]
    BY <1>2 DEF GenerationInv, TreeOK
  <2>q. QED
    BY <1>2, <2>4, <2>5, <2>8, <2>10, <2>11, <2>12, <2>13, <2>14, <2>15, OwnStep
<1>q. QED
  BY <1>4, <1>5, <1>6

LEMMA FrontOf ==
  ASSUME NEW S, NEW s \in Seq(S), s # <<>>
  PROVE  /\ Front(s) \in Seq(S) /\ Len(Front(s)) = Len(s) - 1 /\ Len(s) \in Nat /\ Len(s) >= 1
         /\ DOMAIN s = 1..Len(s) /\ DOMAIN Front(s) = 1..Len(s) - 1
         /\ \A i \in 1..Len(s) - 1 : Front(s)[i] = s[i]
         /\ Last(s) = s[Len(s)]
<1>1. Len(s) \in Nat /\ Len(s) >= 1 /\ DOMAIN s = 1..Len(s) /\ s \in [1..Len(s) -> S]
  BY LenProperties, EmptySeq
<1> DEFINE n == Len(s) - 1
<1>2. n \in Nat /\ \A i \in 1..n : s[i] \in S
  BY <1>1
<1> HIDE DEF n
<1>3. /\ SubSeq(s, 1, n) \in Seq(S) /\ Len(SubSeq(s, 1, n)) = n
      /\ \A i \in 1..n : SubSeq(s, 1, n)[i] = s[i]
  <2>1. /\ SubSeq(s, 1, n) \in Seq(S)
        /\ Len(SubSeq(s, 1, n)) = IF 1 <= n THEN n - 1 + 1 ELSE 0
        /\ \A i \in 1..n - 1 + 1 : SubSeq(s, 1, n)[i] = s[1 + i - 1]
    BY <1>2, SubSeqProperties
  <2>q. QED
    BY <1>2, <2>1
<1>4. DOMAIN SubSeq(s, 1, n) = 1..n
  BY <1>2, <1>3, LenProperties
<1>q. QED
  BY <1>1, <1>3, <1>4 DEF Front, Last, n

LEMMA OpenStep ==
  ASSUME GenerationInv, NEW g \in Generators, Open(g)
  PROVE  GenerationInv'
<1>1. PICK me : me = gen[g]
  OBVIOUS
<1>2. me \in Locals /\ GeneratorFits(g, me) /\ me.pc = "open" /\ dirs' = dirs
  BY <1>1 DEF GenerationInv, TreeOK, Open
<1>3. PICK p : p = Destination(g)
  OBVIOUS
<1>4. /\ me.command \in Commands /\ me.at \in DOMAIN WritesOf(me.command)
      /\ p = WritesOf(me.command)[me.at] /\ p \in Files
  BY <1>1, <1>2, <1>3, DestinationFits DEF Running, Writes
<1>5. \/ /\ ~ Exists(p)
         /\ files' = [files EXCEPT ![p] = [by |-> g, whole |-> FALSE]]
         /\ gen' = [gen EXCEPT ![g].created = Append(@, p), ![g].pc = "write"]
      \/ /\ gen' = [gen EXCEPT ![g] = RollBack(@)]
         /\ UNCHANGED files
  BY <1>3 DEF Open
<1>6. CASE gen' = [gen EXCEPT ![g] = RollBack(@)] /\ UNCHANGED files
  BY <1>1, <1>2, <1>6, RollBackStep DEF Running
<1>7. CASE /\ ~ Exists(p)
           /\ files' = [files EXCEPT ![p] = [by |-> g, whole |-> FALSE]]
           /\ gen' = [gen EXCEPT ![g].created = Append(@, p), ![g].pc = "write"]
  <2>1. files[p] = Absent
    BY <1>4, <1>7 DEF Exists
  <2>2. PICK new : new = [me EXCEPT !.created = Append(me.created, p), !.pc = "write"]
    OBVIOUS
  <2>3. gen' = [gen EXCEPT ![g] = new]
    BY <1>1, <1>2, <1>7, <2>2 DEF GenerationInv, TreeOK
  <2>4. PICK s : s = me.created
    OBVIOUS
  <2>5. PICK t : t = Append(s, p)
    OBVIOUS
  <2>6. /\ s \in Seq(Files) /\ Len(s) = me.at - 1 /\ me.at \in Nat /\ me.clean
        /\ me.result = "none"
    BY <1>2, <2>4 DEF GeneratorFits, StageFits, Locals, Running
  <2>7. /\ t \in Seq(Files) /\ DOMAIN s = 1..me.at - 1 /\ DOMAIN t = 1..me.at /\ Len(t) = me.at
        /\ \A i \in 1..me.at - 1 : t[i] = s[i]
        /\ t[me.at] = p
    <3>1. /\ t \in Seq(Files) /\ Len(s) \in Nat /\ Len(t) = Len(s) + 1
          /\ DOMAIN s = 1..Len(s) /\ DOMAIN t = 1..Len(s) + 1
          /\ \A i \in 1..Len(s) : t[i] = s[i]
          /\ t[Len(s) + 1] = p
      BY <1>4, <2>5, <2>6, AppendedTo
    <3>2. Len(s) + 1 = me.at
      BY <2>6
    <3>q. QED
      BY <2>6, <3>1, <3>2
  <2>10. /\ new \in Locals
         /\ new.pc = "write" /\ new.command = me.command /\ new.result = me.result
         /\ new.unsampled = me.unsampled /\ new.at = me.at /\ new.existing = me.existing
         /\ new.pending = me.pending /\ new.created = t
         /\ new.leaving = me.leaving /\ new.clean = me.clean
    BY <1>2, <2>2, <2>4, <2>5, <2>7 DEF Locals, Stages, Running
  <2>11. FilesFit(g, new)'
    <3>1. \A i \in 1..me.at - 1 :
            /\ i \in DOMAIN WritesOf(me.command) /\ s[i] = WritesOf(me.command)[i]
            /\ Mine(g, s[i]) /\ s[i] \in Files
            /\ files[s[i]].whole
            /\ \A j \in 1..me.at - 1 : s[i] = s[j] => i = j
      <4>1. \A i \in DOMAIN s :
              /\ i \in DOMAIN WritesOf(me.command) /\ s[i] = WritesOf(me.command)[i]
              /\ Mine(g, s[i])
              /\ i < me.at => files[s[i]].whole
              /\ \A j \in DOMAIN s : s[i] = s[j] => i = j
        BY <1>2, <2>4 DEF GeneratorFits, FilesFit
      <4>2. \A i \in 1..me.at - 1 : i < me.at /\ s[i] \in Files
        BY <2>6, <2>7
      <4>q. QED
        BY <2>7, <4>1, <4>2
    <3>2. \A i \in 1..me.at - 1 : s[i] # p /\ files'[s[i]] = files[s[i]]
      BY <1>7, <2>1, <3>1 DEF Mine, GenerationInv, TreeOK
    <3>3. files'[p] = [by |-> g, whole |-> FALSE] /\ files'[p] # Absent
      <4>1. [by |-> g, whole |-> FALSE] \in Contents
        BY DEF Contents
      <4>2. files'[p] = [by |-> g, whole |-> FALSE]
        BY <1>4, <1>7 DEF GenerationInv, TreeOK
      <4>q. QED
        BY <4>1, <4>2, Makers
    <3>4. ASSUME NEW i \in 1..me.at
          PROVE  /\ i \in DOMAIN WritesOf(me.command) /\ t[i] = WritesOf(me.command)[i]
                 /\ Mine(g, t[i])'
                 /\ i < me.at => files'[t[i]].whole
                 /\ \A j \in 1..me.at : t[i] = t[j] => i = j
      <4>1. CASE i = me.at
        BY <1>4, <2>7, <3>2, <3>3, <4>1 DEF Mine
      <4>2. CASE i # me.at
        <5>1. i \in 1..me.at - 1 /\ t[i] = s[i]
          BY <2>6, <2>7, <4>2
        <5>2. \A j \in 1..me.at : t[i] = t[j] => i = j
          BY <2>6, <2>7, <3>1, <3>2, <5>1
        <5>3. Mine(g, t[i])' /\ files'[t[i]].whole
          BY <3>1, <3>2, <5>1 DEF Mine
        <5>q. QED
          BY <3>1, <5>1, <5>2, <5>3
      <4>q. QED
        BY <4>1, <4>2
    <3>5. ASSUME NEW q \in Files, Mine(g, q)'
          PROVE  \E i \in 1..me.at : t[i] = q
      <4>1. CASE q = p
        BY <2>6, <2>7, <4>1
      <4>2. CASE q # p
        <5>1. Mine(g, q)
          BY <1>7, <3>5, <4>2 DEF Mine, GenerationInv, TreeOK
        <5>2. PICK i \in 1..me.at - 1 : s[i] = q
          BY <1>2, <2>4, <2>6, <2>7, <5>1 DEF GeneratorFits, FilesFit
        <5>q. QED
          BY <2>6, <2>7, <5>2
      <4>q. QED
        BY <4>1, <4>2
    <3>q. QED
      BY <2>6, <2>7, <2>10, <3>4, <3>5 DEF FilesFit
  <2>12. DirsFit(g, new)'
    BY <1>2, <2>6, <2>10 DEF GeneratorFits, DirsFit, Running, Made
  <2>13. StageFits(new)
    BY <1>2, <2>7, <2>10 DEF GeneratorFits, StageFits, Running
  <2>14. SuccessFits(new)'
    BY <2>6, <2>10 DEF SuccessFits
  <2>15. /\ files' \in [Files -> Contents \cup {Absent}]
         /\ dirs' \in [Dirs -> Generators \cup {Project, Absent}]
    BY <1>2, <1>7 DEF GenerationInv, TreeOK, Contents
  <2>16. \A q \in Files : files'[q] # files[q] => files[q] = Absent /\ files'[q].by = g
    BY <1>4, <1>7, <2>1 DEF GenerationInv, TreeOK
  <2>q. QED
    BY <1>2, <2>3, <2>10, <2>11, <2>12, <2>13, <2>14, <2>15, <2>16, OwnStep
<1>q. QED
  BY <1>5, <1>6, <1>7

LEMMA WriteStep ==
  ASSUME GenerationInv, NEW g \in Generators, Write(g)
  PROVE  GenerationInv'
<1>1. PICK me : me = gen[g]
  OBVIOUS
<1>2. me \in Locals /\ GeneratorFits(g, me) /\ me.pc = "write" /\ dirs' = dirs
  BY <1>1 DEF GenerationInv, TreeOK, Write
<1>3. PICK p : p = Destination(g)
  OBVIOUS
<1>4. /\ me.command \in Commands /\ me.at \in DOMAIN WritesOf(me.command)
      /\ p = WritesOf(me.command)[me.at] /\ p \in Files
  BY <1>1, <1>2, <1>3, DestinationFits DEF Running, Writes
<1>a. PICK n : n = Len(WritesOf(me.command))
  OBVIOUS
<1>5. PICK new : new = IF me.at = n
                       THEN [me EXCEPT !.pc = "done", !.result = "ok"]
                       ELSE [me EXCEPT !.at = me.at + 1, !.pc = "mkdir"]
  OBVIOUS
<1>6. \/ /\ files' = [files EXCEPT ![p].whole = TRUE]
         /\ gen' = [gen EXCEPT ![g] = new]
      \/ /\ gen' = [gen EXCEPT ![g] = RollBack(@)]
         /\ UNCHANGED files
  <2>1. Len(Writes(g)) = n
    BY <1>1, <1>a DEF Writes
  <2>2. new = IF gen[g].at = Len(Writes(g))
              THEN [gen[g] EXCEPT !.pc = "done", !.result = "ok"]
              ELSE [gen[g] EXCEPT !.at = @ + 1, !.pc = "mkdir"]
    BY <1>1, <1>2, <1>5, <2>1 DEF Locals
  <2>q. QED
    BY <1>3, <2>2 DEF Write
<1>7. CASE gen' = [gen EXCEPT ![g] = RollBack(@)] /\ UNCHANGED files
  BY <1>1, <1>2, <1>7, RollBackStep DEF Running
<1>8. CASE files' = [files EXCEPT ![p].whole = TRUE] /\ gen' = [gen EXCEPT ![g] = new]
  <2>1. PICK s : s = me.created
    OBVIOUS
  <2>2. /\ s \in Seq(Files) /\ Len(s) = me.at /\ me.at \in Nat /\ me.clean
        /\ me.result = "none" /\ DOMAIN s = 1..me.at
    BY <1>2, <2>1 DEF GeneratorFits, StageFits, Locals, Running
  <2>3. Len(WritesOf(me.command)) \in Nat /\ DOMAIN WritesOf(me.command) = 1..Len(WritesOf(me.command))
    BY <1>4, WritesAreFiles
  <2>4. /\ new \in Locals
        /\ new.command = me.command /\ new.unsampled = me.unsampled /\ new.existing = me.existing
        /\ new.pending = me.pending /\ new.created = s
        /\ new.leaving = me.leaving /\ new.clean = me.clean
        /\ \/ /\ me.at = Len(WritesOf(me.command)) /\ new.pc = "done" /\ new.result = "ok"
              /\ new.at = me.at
           \/ /\ me.at # Len(WritesOf(me.command)) /\ new.pc = "mkdir" /\ new.result = me.result
              /\ new.at = me.at + 1
    <3>1. CASE me.at = Len(WritesOf(me.command))
      BY <1>2, <1>5, <1>a, <2>1, <3>1 DEF Locals, Stages, Ends
    <3>2. CASE me.at # Len(WritesOf(me.command))
      <4>1. me.at + 1 \in Nat
        BY <2>2
      <4>2. new = [me EXCEPT !.at = me.at + 1, !.pc = "mkdir"]
        BY <1>5, <1>a, <3>2
      <4>q. QED
        BY <1>2, <2>1, <3>2, <4>1, <4>2 DEF Locals, Stages, Running
    <3>q. QED
      BY <3>1, <3>2
  <2>5. \A i \in 1..me.at :
          /\ i \in DOMAIN WritesOf(me.command) /\ s[i] = WritesOf(me.command)[i]
          /\ Mine(g, s[i]) /\ s[i] \in Files
          /\ i < me.at => files[s[i]].whole
          /\ \A j \in 1..me.at : s[i] = s[j] => i = j
    BY <1>2, <2>1, <2>2 DEF GeneratorFits, FilesFit
  <2>6. me.at \in 1..me.at /\ s[me.at] = p /\ Mine(g, p)
    BY <1>4, <2>2, <2>3, <2>5
  <2>7. files[p] \in Contents /\ files[p].by = g
    BY <1>4, <2>6 DEF Mine, GenerationInv, TreeOK
  <2>8. /\ files' \in [Files -> Contents \cup {Absent}]
        /\ \A q \in Files : q # p => files'[q] = files[q]
        /\ files'[p] = [files[p] EXCEPT !.whole = TRUE]
    BY <1>4, <1>8, <2>7 DEF GenerationInv, TreeOK, Contents
  <2>9. files'[p] \in Contents /\ files'[p].by = g /\ files'[p].whole
    BY <2>7, <2>8 DEF Contents
  <2>10. \A i \in 1..me.at : Mine(g, s[i])' /\ files'[s[i]].whole
    <3>1. TAKE i \in 1..me.at
    <3>2. CASE i = me.at
      BY <2>6, <2>9, <3>2, Makers DEF Mine
    <3>3. CASE i # me.at
      <4>1. s[i] # p /\ files'[s[i]] = files[s[i]]
        BY <2>5, <2>6, <2>8, <3>3
      <4>2. i < me.at
        BY <2>2, <3>3
      <4>q. QED
        BY <2>5, <4>1, <4>2 DEF Mine
    <3>q. QED
      BY <3>2, <3>3
  <2>11. FilesFit(g, new)'
    <3>1. \A q \in Files : Mine(g, q)' => Mine(g, q)
      BY <2>6, <2>8 DEF Mine
    <3>2. \A q \in Files : Mine(g, q)' => \E i \in DOMAIN s : s[i] = q
      BY <1>2, <2>1, <2>2, <3>1 DEF GeneratorFits, FilesFit
    <3>3. Len(s) <= new.at
      BY <2>2, <2>4
    <3>q. QED
      BY <2>2, <2>4, <2>5, <2>10, <3>2, <3>3 DEF FilesFit
  <2>12. DirsFit(g, new)'
    BY <1>2, <2>2, <2>4 DEF GeneratorFits, DirsFit, Running, Made
  <2>13. StageFits(new)
    <3>1. me.at # Len(WritesOf(me.command)) => me.at + 1 \in DOMAIN WritesOf(me.command)
      BY <1>4, <2>2, <2>3
    <3>2. me.at + 1 - 1 = me.at
      BY <2>2
    <3>q. QED
      BY <1>2, <2>2, <2>4, <3>1, <3>2 DEF GeneratorFits, StageFits, Running
  <2>14. SuccessFits(new)'
    BY <2>2, <2>4, <2>10 DEF SuccessFits
  <2>15. dirs' \in [Dirs -> Generators \cup {Project, Absent}]
    BY <1>2 DEF GenerationInv, TreeOK
  <2>16. \A q \in Files : files'[q] # files[q] => Mine(g, q) /\ files'[q].by = g
    BY <2>6, <2>8, <2>9
  <2>q. QED
    BY <1>2, <1>8, <2>4, <2>8, <2>11, <2>12, <2>13, <2>14, <2>15, <2>16, OwnStep
<1>q. QED
  BY <1>6, <1>7, <1>8

(* Removing.                                                               *)
LEMMA UnlinkStep ==
  ASSUME GenerationInv, NEW g \in Generators, unlink(g)
  PROVE  GenerationInv' /\ Mine(g, Last(gen[g].created)) /\ gen'[g] # gen[g]
<1>1. PICK was : was = gen[g]
  OBVIOUS
<1>2. was \in Locals /\ GeneratorFits(g, was) /\ was.pc = "unlink" /\ dirs' = dirs
  BY <1>1 DEF GenerationInv, TreeOK, unlink
<1>3. PICK s : s = was.created
  OBVIOUS
<1>4. PICK n : n = Len(s)
  OBVIOUS
<1>5. PICK t : t = Front(s)
  OBVIOUS
<1>6. PICK p : p = Last(s)
  OBVIOUS
<1>7. /\ s \in Seq(Files) /\ t \in Seq(Files) /\ n \in Nat /\ n >= 1
      /\ DOMAIN s = 1..n /\ DOMAIN t = 1..n - 1 /\ Len(t) = n - 1
      /\ \A i \in 1..n - 1 : t[i] = s[i]
      /\ p = s[n]
  <2>1. s \in Seq(Files) /\ s # <<>>
    BY <1>2, <1>3 DEF Locals, GeneratorFits, StageFits
  <2>q. QED
    BY <2>1, <1>4, <1>5, <1>6, FrontOf
<1>8. PICK clean \in BOOLEAN :
        /\ clean => was.clean
        /\ \/ files' = [files EXCEPT ![p] = Absent]
           \/ files' = files /\ ~ clean
        /\ gen' = [gen EXCEPT ![g] = NextRemoval([was EXCEPT !.created = t, !.clean = clean])]
  <2>1. was.clean \in BOOLEAN
    BY <1>2 DEF Locals
  <2>2. CASE /\ files' = [files EXCEPT ![p] = Absent]
             /\ gen' = [gen EXCEPT ![g] = NextRemoval([was EXCEPT !.created = t])]
    <3>1. [was EXCEPT !.created = t] = [was EXCEPT !.created = t, !.clean = was.clean]
      BY <1>2 DEF Locals
    <3>q. QED
      BY <2>1, <2>2, <3>1
  <2>3. CASE /\ files' = files
             /\ gen' = [gen EXCEPT ![g] = NextRemoval([[was EXCEPT !.created = t] EXCEPT !.clean = FALSE])]
    <3>1. [[was EXCEPT !.created = t] EXCEPT !.clean = FALSE] = [was EXCEPT !.created = t, !.clean = FALSE]
      BY <1>2 DEF Locals
    <3>q. QED
      BY <2>3, <3>1
  <2>q. QED
    BY <1>1, <1>3, <1>5, <1>6, <2>2, <2>3 DEF unlink
<1>9. PICK me : me = [was EXCEPT !.created = t, !.clean = clean]
  OBVIOUS
<1>10. /\ me \in Locals
       /\ me.command = was.command /\ me.result = was.result /\ me.at = was.at
       /\ me.existing = was.existing /\ me.leaving = was.leaving
       /\ me.created = t /\ me.clean = clean /\ clean \in BOOLEAN
  BY <1>2, <1>7, <1>8, <1>9 DEF Locals
<1>11. \A i \in 1..n :
         /\ i \in DOMAIN WritesOf(was.command) /\ s[i] = WritesOf(was.command)[i]
         /\ Mine(g, s[i]) /\ s[i] \in Files
         /\ i < was.at => files[s[i]].whole
         /\ \A j \in 1..n : s[i] = s[j] => i = j
  BY <1>2, <1>3, <1>7 DEF GeneratorFits, FilesFit
<1>12. p \in Files /\ Mine(g, p)
  BY <1>7, <1>11
<1>13. /\ files' \in [Files -> Contents \cup {Absent}]
       /\ \A q \in Files : q # p => files'[q] = files[q]
       /\ files'[p] # files[p] => files'[p] = Absent
       /\ clean => files'[p] = Absent
  BY <1>8, <1>12 DEF GenerationInv, TreeOK
<1>14. Removing(g, me)'
  <2>1. \A i \in 1..n - 1 :
          /\ i \in DOMAIN WritesOf(was.command) /\ t[i] = WritesOf(was.command)[i]
          /\ Mine(g, t[i])'
          /\ i < was.at => files'[t[i]].whole
          /\ \A j \in 1..n - 1 : t[i] = t[j] => i = j
    <3>1. TAKE i \in 1..n - 1
    <3>2. i \in 1..n /\ i # n /\ n \in 1..n /\ t[i] = s[i]
      BY <1>7
    <3>3. s[i] # p /\ files'[s[i]] = files[s[i]]
      BY <1>7, <1>11, <1>13, <3>2
    <3>4. \A j \in 1..n - 1 : t[i] = t[j] => i = j
      BY <1>7, <1>11, <3>2
    <3>q. QED
      BY <1>11, <3>2, <3>3, <3>4 DEF Mine
  <2>2. clean => \A q \in Files : Mine(g, q)' => \E i \in 1..n - 1 : t[i] = q
    <3>1. SUFFICES ASSUME clean, NEW q \in Files, Mine(g, q)'
                   PROVE  \E i \in 1..n - 1 : t[i] = q
      OBVIOUS
    <3>2. q # p /\ Mine(g, q)
      BY <1>13, <3>1 DEF Mine
    <3>3. PICK i \in 1..n : s[i] = q
      BY <1>2, <1>3, <1>7, <1>8, <3>1, <3>2 DEF GeneratorFits, FilesFit
    <3>4. i \in 1..n - 1
      BY <1>7, <3>2, <3>3
    <3>q. QED
      BY <1>7, <3>3, <3>4
  <2>3. Len(t) <= was.at
    <3>1. n <= was.at /\ was.at \in Nat
      BY <1>2, <1>3, <1>4 DEF GeneratorFits, FilesFit, Locals
    <3>q. QED
      BY <1>7, <3>1
  <2>4. FilesFit(g, me)'
    BY <1>7, <1>10, <2>1, <2>2, <2>3 DEF FilesFit
  <2>5. /\ was.command \in Commands /\ was.result = "none"
        /\ ProjectDirs \cap was.leaving = {}
    BY <1>2 DEF GeneratorFits, StageFits, DirsFit
  <2>6. \A d \in Dirs : Made(g, d)' => d \in _destination_directories(was.command)
    BY <1>2 DEF GeneratorFits, DirsFit, Made
  <2>7. clean => \A d \in Dirs : Made(g, d)' => d \in was.existing \cup was.leaving
    BY <1>2, <1>8 DEF GeneratorFits, DirsFit, Made
  <2>q. QED
    BY <1>10, <2>4, <2>5, <2>6, <2>7 DEF Removing
<1>15. PICK next : next = NextRemoval(me)
  OBVIOUS
<1>16. /\ next \in Locals
       /\ FilesFit(g, next)' /\ DirsFit(g, next)' /\ StageFits(next) /\ SuccessFits(next)'
  BY <1>10, <1>14, <1>15, NextRemovalFits
<1>17. gen' = [gen EXCEPT ![g] = next]
  BY <1>8, <1>9, <1>15
<1>18. /\ dirs' \in [Dirs -> Generators \cup {Project, Absent}]
       /\ \A d \in Dirs : dirs'[d] = dirs[d]
  BY <1>2 DEF GenerationInv, TreeOK
<1>19. \A q \in Files : files'[q] # files[q] => Mine(g, q) /\ files'[q] = Absent
  BY <1>12, <1>13
<1>20. gen'[g] # gen[g]
  <2>1. next.created = t
    BY <1>10, <1>15 DEF NextRemoval, Locals
  <2>2. t # s
    BY <1>4, <1>7
  <2>3. gen'[g] = next
    BY <1>17 DEF GenerationInv, TreeOK
  <2>q. QED
    BY <1>1, <1>3, <2>1, <2>2, <2>3
<1>21. GenerationInv'
  BY <1>13, <1>16, <1>17, <1>18, <1>19, OwnStep
<1>q. QED
  BY <1>1, <1>3, <1>6, <1>12, <1>20, <1>21

LEMMA RmdirStep ==
  ASSUME GenerationInv, NEW g \in Generators, rmdir(g)
  PROVE  GenerationInv'
<1>1. PICK was : was = gen[g]
  OBVIOUS
<1>2. was \in Locals /\ GeneratorFits(g, was) /\ was.pc = "rmdir" /\ files' = files
  BY <1>1 DEF GenerationInv, TreeOK, rmdir
<1>3. PICK d \in was.leaving :
        \/ /\ dirs' = [dirs EXCEPT ![d] = Absent]
           /\ gen' = [gen EXCEPT ![g] = NextRemoval([was EXCEPT !.leaving = @ \ {d}])]
        \/ /\ dirs' = dirs
           /\ gen' = [gen EXCEPT ![g] = NextRemoval([[was EXCEPT !.leaving = @ \ {d}] EXCEPT !.clean = FALSE])]
  BY <1>1 DEF rmdir
<1>4. d \in Dirs /\ d \notin ProjectDirs /\ was.leaving \ {d} \in SUBSET Dirs
  BY <1>2, <1>3 DEF Locals, GeneratorFits, DirsFit
<1>5. PICK left : left = was.leaving \ {d}
  OBVIOUS
<1>6. PICK clean \in BOOLEAN :
        /\ clean => was.clean
        /\ \/ dirs' = [dirs EXCEPT ![d] = Absent]
           \/ dirs' = dirs /\ ~ clean
        /\ gen' = [gen EXCEPT ![g] = NextRemoval([was EXCEPT !.leaving = left, !.clean = clean])]
  <2>1. was.clean \in BOOLEAN
    BY <1>2 DEF Locals
  <2>2. [was EXCEPT !.leaving = @ \ {d}] = [was EXCEPT !.leaving = left, !.clean = was.clean]
    BY <1>2, <1>5 DEF Locals
  <2>3. [[was EXCEPT !.leaving = @ \ {d}] EXCEPT !.clean = FALSE]
          = [was EXCEPT !.leaving = left, !.clean = FALSE]
    BY <1>2, <1>5 DEF Locals
  <2>q. QED
    BY <1>3, <2>1, <2>2, <2>3
<1>7. PICK me : me = [was EXCEPT !.leaving = left, !.clean = clean]
  OBVIOUS
<1>8. /\ me \in Locals
      /\ me.command = was.command /\ me.result = was.result /\ me.at = was.at
      /\ me.existing = was.existing /\ me.leaving = left
      /\ me.created = was.created /\ me.clean = clean /\ clean \in BOOLEAN
  BY <1>2, <1>4, <1>5, <1>6, <1>7 DEF Locals
<1>9. /\ dirs' \in [Dirs -> Generators \cup {Project, Absent}]
      /\ \A e \in Dirs : e # d => dirs'[e] = dirs[e]
      /\ dirs'[d] # dirs[d] => dirs'[d] = Absent
      /\ clean => dirs'[d] = Absent
  BY <1>4, <1>6 DEF GenerationInv, TreeOK
<1>10. Removing(g, me)'
  <2>1. FilesFit(g, me)'
    BY <1>2, <1>6, <1>8 DEF GeneratorFits, FilesFit, Mine
  <2>2. was.command \in Commands /\ was.result = "none" /\ ProjectDirs \cap left = {}
    BY <1>2, <1>5 DEF GeneratorFits, StageFits, DirsFit
  <2>3. \A e \in Dirs : Made(g, e)' => Made(g, e)
    BY <1>9, Makers DEF Made
  <2>4. \A e \in Dirs : Made(g, e)' => e \in _destination_directories(was.command)
    BY <1>2, <2>3 DEF GeneratorFits, DirsFit
  <2>5. clean => \A e \in Dirs : Made(g, e)' => e \in was.existing \cup left
    <3>1. SUFFICES ASSUME clean, NEW e \in Dirs, Made(g, e)'
                   PROVE  e \in was.existing \cup left
      OBVIOUS
    <3>2. e # d
      BY <1>9, <3>1, Makers DEF Made
    <3>3. e \in was.existing \cup was.leaving
      BY <1>2, <1>6, <2>3, <3>1 DEF GeneratorFits, DirsFit
    <3>q. QED
      BY <1>5, <3>2, <3>3
  <2>q. QED
    BY <1>8, <2>1, <2>2, <2>4, <2>5 DEF Removing
<1>11. PICK next : next = NextRemoval(me)
  OBVIOUS
<1>12. /\ next \in Locals
       /\ FilesFit(g, next)' /\ DirsFit(g, next)' /\ StageFits(next) /\ SuccessFits(next)'
  BY <1>8, <1>10, <1>11, NextRemovalFits
<1>13. gen' = [gen EXCEPT ![g] = next]
  BY <1>6, <1>7, <1>11
<1>14. \A e \in Dirs : dirs'[e] # dirs[e] => e \notin ProjectDirs /\ dirs'[e] \in {g, Absent}
  BY <1>4, <1>9
<1>15. files' \in [Files -> Contents \cup {Absent}] /\ \A p \in Files : files'[p] = files[p]
  BY <1>2 DEF GenerationInv, TreeOK
<1>q. QED
  BY <1>9, <1>12, <1>13, <1>14, <1>15, OwnStep

LEMMA KillStep ==
  ASSUME GenerationInv, NEW g \in Generators, Kill(g)
  PROVE  GenerationInv'
<1>1. PICK me : me = gen[g]
  OBVIOUS
<1>2. me \in Locals /\ GeneratorFits(g, me) /\ me.pc \notin {"idle", "done", "killed"}
  BY <1>1 DEF GenerationInv, TreeOK, Kill
<1>3. PICK new : new = [me EXCEPT !.pc = "killed"]
  OBVIOUS
<1>4. gen' = [gen EXCEPT ![g] = new]
  BY <1>1, <1>3 DEF Kill, GenerationInv, TreeOK
<1>5. /\ new \in Locals
      /\ new.pc = "killed" /\ new.command = me.command /\ new.result = me.result
      /\ new.at = me.at /\ new.created = me.created /\ new.leaving = me.leaving
      /\ new.clean = me.clean /\ new.existing = me.existing
  BY <1>2, <1>3 DEF Locals, Stages
<1>6. me.result = "none" /\ me.command \in Commands
  BY <1>2 DEF GeneratorFits, StageFits
<1>7. FilesFit(g, new)
  BY <1>2, <1>5 DEF GeneratorFits, FilesFit
<1>8. DirsFit(g, new)
  BY <1>2, <1>5, <1>6 DEF GeneratorFits, DirsFit, Running
<1>9. StageFits(new)
  BY <1>5, <1>6 DEF StageFits, Running
<1>10. SuccessFits(new)
  BY <1>5, <1>6 DEF SuccessFits
<1>11. UNCHANGED <<files, dirs>>
  BY DEF Kill
<1>q. QED
  BY <1>4, <1>5, <1>7, <1>8, <1>9, <1>10, <1>11, OwnThought DEF GeneratorFits

(* The process that is no generator takes absent paths and its own.        *)
LEMMA OtherSteps ==
  ASSUME GenerationInv, NEW p \in Files, Stray(p) \/ RemoveStray(p)
  PROVE  GenerationInv' /\ (files[p] = Absent \/ files[p].by = Other)
<1>1. gen' = gen /\ dirs' = dirs
  BY DEF Stray, RemoveStray
<1>2. /\ files[p] = Absent \/ files[p].by = Other
      /\ files'[p] = Absent \/ files'[p].by = Other
      /\ files' \in [Files -> Contents \cup {Absent}]
      /\ \A q \in Files : q # p => files'[q] = files[q]
  <2>1. CASE Stray(p)
    BY <2>1 DEF Stray, Exists, GenerationInv, TreeOK, Contents
  <2>2. CASE RemoveStray(p)
    BY <2>2 DEF RemoveStray, GenerationInv, TreeOK
  <2>q. QED
    BY <2>1, <2>2
<1>3. ASSUME NEW h \in Generators
      PROVE  GeneratorFits(h, gen[h])'
  <2>1. \A q \in Files : Mine(h, q) \/ Mine(h, q)' => files'[q] = files[q]
    BY <1>2, Makers DEF Mine
  <2>2. \A d \in Dirs : Made(h, d)' => Made(h, d)
    BY <1>1 DEF Made
  <2>q. QED
    BY <1>1, <2>1, <2>2, OthersFit DEF GenerationInv
<1>4. TreeOK' /\ ProjectStays'
  BY <1>1, <1>2 DEF GenerationInv, TreeOK, ProjectStays
<1>q. QED
  BY <1>2, <1>3, <1>4 DEF GenerationInv

-----------------------------------------------------------------------------
LEMMA GenerationInvAtFirst == GenerationInit => GenerationInv
<1>1. SUFFICES ASSUME GenerationInit PROVE GenerationInv
  OBVIOUS
<1>2. Idle \in Locals
  <2>1. <<>> \in Seq(Files)
    BY EmptySeq
  <2>q. QED
    BY <2>1 DEF Idle, Locals, Stages, Ends
<1>3. TreeOK
  <2>1. [by |-> Project, whole |-> TRUE] \in Contents
    BY DEF Contents
  <2>q. QED
    BY <1>1, <1>2, <2>1 DEF GenerationInit, TreeOK
<1>4. ProjectStays
  BY <1>1 DEF GenerationInit, ProjectStays
<1>5. ASSUME NEW g \in Generators
      PROVE  GeneratorFits(g, gen[g])
  <2>1. gen[g] = Idle
    BY <1>1 DEF GenerationInit
  <2>2. \A p \in Files : ~ Mine(g, p)
    BY <1>1, Makers DEF GenerationInit, Mine
  <2>3. \A d \in Dirs : ~ Made(g, d)
    BY <1>1, Makers DEF GenerationInit, Made
  <2>4. FilesFit(g, gen[g])
    BY <2>1, <2>2 DEF Idle, FilesFit
  <2>5. DirsFit(g, gen[g])
    BY <2>1, <2>3 DEF Idle, DirsFit, Running
  <2>6. StageFits(gen[g]) /\ SuccessFits(gen[g])
    BY <2>1 DEF Idle, StageFits, SuccessFits, Running
  <2>q. QED
    BY <2>4, <2>5, <2>6 DEF GeneratorFits
<1>q. QED
  BY <1>3, <1>4, <1>5 DEF GenerationInv

LEMMA GenerationInvInductive ==
  ASSUME GenerationInv, [GenerationNext]_generationVars
  PROVE  GenerationInv'
<1>1. CASE UNCHANGED generationVars
  <2>1. UNCHANGED <<gen, files, dirs>>
    BY <1>1 DEF generationVars
  <2>2. ASSUME NEW h \in Generators
        PROVE  GeneratorFits(h, gen[h])'
    BY <2>1, OthersFit DEF GenerationInv, Made
  <2>3. TreeOK' /\ ProjectStays'
    BY <2>1 DEF GenerationInv, TreeOK, ProjectStays
  <2>q. QED
    BY <2>2, <2>3 DEF GenerationInv
<1>2. CASE GenerationNext
  <2>1. ASSUME NEW g \in Generators,
               \/ \E c \in Commands : make_result(g, c)
               \/ load_contract(g) \/ Sample(g)
               \/ mkdir(g) \/ MakeParent(g) \/ Open(g) \/ Write(g)
               \/ unlink(g) \/ rmdir(g)
               \/ Kill(g)
        PROVE  GenerationInv'
    BY <2>1, MakeResultStep, LoadContractStep, SampleStep, MkdirStep, MakeParentStep, OpenStep,
       WriteStep, UnlinkStep, RmdirStep, KillStep
  <2>q. QED
    BY <1>2, <2>1, OtherSteps DEF GenerationNext
<1>q. QED
  BY <1>1, <1>2

LEMMA GenerationInvariant == GenerationSpec => []GenerationInv
BY GenerationInvAtFirst, GenerationInvInductive, PTL DEF GenerationSpec

(* A generator that reports success has written the whole artifact, each   *)
(* file its own and complete, and keeps it; one that reports a clean       *)
(* failure, or refused, leaves nothing behind                              *)
(* (_write_files_transactionally and its rollback).                        *)
THEOREM ArtifactIsAllOrNothing == GenerationSpec => []AllOrNothing
<1>1. GenerationInv => SuccessIsWhole
  <2>1. SUFFICES ASSUME GenerationInv, NEW g \in Generators, gen[g].result = "ok",
                        NEW p \in ToSet(Writes(g))
                 PROVE  files[p] = [by |-> g, whole |-> TRUE]
    BY DEF SuccessIsWhole
  <2>2. PICK me : me = gen[g]
    OBVIOUS
  <2>3. me \in Locals /\ GeneratorFits(g, me) /\ me.result = "ok"
    BY <2>1, <2>2 DEF GenerationInv, TreeOK
  <2>4. me.command \in Commands
    BY <2>3 DEF GeneratorFits, StageFits
  <2>5. PICK i \in DOMAIN WritesOf(me.command) : p = WritesOf(me.command)[i]
    BY <2>1, <2>2, <2>4, WritesAreFiles DEF Writes
  <2>6. p \in Files /\ i \in 1..Len(WritesOf(me.command))
    BY <2>4, <2>5, WritesAreFiles
  <2>7. i \in DOMAIN me.created
    BY <2>3, <2>6 DEF GeneratorFits, SuccessFits, Locals
  <2>8. Mine(g, p) /\ files[p].whole
    BY <2>3, <2>5, <2>7 DEF GeneratorFits, FilesFit, SuccessFits
  <2>9. files[p] \in Contents
    BY <2>1, <2>6, <2>8 DEF GenerationInv, TreeOK, Mine
  <2>q. QED
    BY <2>8, <2>9 DEF Mine, Contents
<1>2. GenerationInv => CleanFailureLeavesNothing
  <2>1. SUFFICES ASSUME GenerationInv, NEW g \in Generators, gen[g].result \in {"failed", "refused"}
                 PROVE  /\ \A p \in Files : files[p] # Absent => files[p].by # g
                        /\ \A d \in Dirs : dirs[d] = g => d \in gen[g].existing
    BY DEF CleanFailureLeavesNothing
  <2>2. PICK me : me = gen[g]
    OBVIOUS
  <2>3. GeneratorFits(g, me) /\ me.result \in {"failed", "refused"}
    BY <2>1, <2>2 DEF GenerationInv
  <2>4. me.clean /\ me.created = <<>> /\ (me.result = "failed" => me.leaving = {})
    BY <2>3 DEF GeneratorFits, StageFits
  <2>5. \A p \in Files : ~ Mine(g, p)
    BY <2>3, <2>4 DEF GeneratorFits, FilesFit
  <2>6. \A d \in Dirs : Made(g, d) => d \in me.existing
    BY <2>3, <2>4 DEF GeneratorFits, DirsFit
  <2>q. QED
    BY <2>2, <2>5, <2>6 DEF Mine, Made
<1>q. QED
  BY <1>1, <1>2, GenerationInvariant, PTL DEF AllOrNothing

(* No change plan is on disk without the two complete files it describes,  *)
(* whatever was killed or failed, until its generator says its rollback is *)
(* incomplete.                                                             *)
THEOREM PlanImpliesFiles == GenerationSpec => []PlanFollowsFiles
<1>1. GenerationInv => PlanFollowsFiles
  <2>1. SUFFICES ASSUME GenerationInv, NEW g \in Generators, NEW c \in Commands,
                        gen[g].command = c, c.plan, ~ c.dry_run,
                        Mine(g, PlanPath(c.name)), gen[g].clean,
                        NEW p \in ToSet(use_case_files(c.feature, c.name))
                 PROVE  files[p] = [by |-> g, whole |-> TRUE]
    BY DEF PlanFollowsFiles, Mine
  <2>2. PICK me : me = gen[g]
    OBVIOUS
  <2>3. me \in Locals /\ GeneratorFits(g, me) /\ me.command = c /\ me.clean
    BY <2>1, <2>2 DEF GenerationInv, TreeOK
  <2>4. PICK s : s = me.created
    OBVIOUS
  <2>5. s \in Seq(Files) /\ DOMAIN s = 1..Len(s) /\ Len(s) \in Nat /\ me.at \in Nat
    BY <2>3, <2>4 DEF Locals
  <2>6. PICK w : w = WritesOf(c)
    OBVIOUS
  <2>7. /\ DOMAIN w = 1..3 /\ w[3] = PlanPath(c.name)
        /\ w[1] # PlanPath(c.name) /\ w[2] # PlanPath(c.name)
        /\ p \in {w[1], w[2]} /\ \A i \in DOMAIN w : w[i] \in Files
    BY <2>1, <2>6, PlanIsLast, WritesAreFiles
  <2>8. PICK i \in DOMAIN s : s[i] = PlanPath(c.name)
    BY <2>1, <2>3, <2>4, <2>7 DEF GeneratorFits, FilesFit
  <2>9. /\ \A j \in DOMAIN s :
             /\ j \in DOMAIN w /\ s[j] = w[j] /\ Mine(g, s[j])
             /\ j < me.at => files[s[j]].whole
        /\ Len(s) <= me.at
    BY <2>3, <2>4, <2>6 DEF GeneratorFits, FilesFit
  <2>10. i = 3
    BY <2>7, <2>8, <2>9
  <2>11. 1 \in DOMAIN s /\ 2 \in DOMAIN s /\ 1 < me.at /\ 2 < me.at
    BY <2>5, <2>8, <2>9, <2>10
  <2>12. Mine(g, p) /\ files[p].whole /\ p \in Files
    BY <2>7, <2>9, <2>11
  <2>13. files[p] \in Contents
    BY <2>1, <2>12 DEF GenerationInv, TreeOK, Mine
  <2>q. QED
    BY <2>12, <2>13 DEF Mine, Contents
<1>q. QED
  BY <1>1, GenerationInvariant, PTL

(* No step of a generator changes or removes a file that somebody else     *)
(* made (the exclusive open, and a rollback that unlinks what was created).*)
THEOREM RollbackSparesOthers == GenerationSpec => OthersArePreserved
<1>1. ASSUME GenerationInv, [GenerationNext]_generationVars,
             NEW p \in Files, files[p] # Absent, files'[p] # files[p]
      PROVE  \/ files[p].by = Other /\ gen' = gen
             \/ \E g \in Generators : files[p].by = g /\ gen'[g] # gen[g]
  <2>0. files' # files
    BY <1>1
  <2>1. CASE \E q \in StrayPaths \cap Files : Stray(q) \/ RemoveStray(q)
    <3>1. PICK q \in Files : Stray(q) \/ RemoveStray(q)
      BY <2>1
    <3>2. gen' = gen /\ (files[q] = Absent \/ files[q].by = Other)
      BY <1>1, <3>1, OtherSteps DEF Stray, RemoveStray
    <3>3. p = q
      BY <1>1, <3>1 DEF Stray, RemoveStray, GenerationInv, TreeOK
    <3>q. QED
      BY <1>1, <3>2, <3>3
  <2>2. ASSUME NEW g \in Generators, Open(g)
        PROVE  FALSE
    <3>1. ~ Exists(Destination(g)) /\ files' = [files EXCEPT ![Destination(g)] = [by |-> g, whole |-> FALSE]]
      BY <2>0, <2>2 DEF Open
    <3>2. p = Destination(g)
      BY <1>1, <3>1 DEF GenerationInv, TreeOK
    <3>q. QED
      BY <1>1, <3>1, <3>2 DEF Exists
  <2>3. ASSUME NEW g \in Generators, Write(g)
        PROVE  files[p].by = g /\ gen'[g] # gen[g]
    <3>1. PICK me : me = gen[g]
      OBVIOUS
    <3>2. me \in Locals /\ GeneratorFits(g, me) /\ me.pc = "write"
      BY <1>1, <2>3, <3>1 DEF GenerationInv, TreeOK, Write
    <3>3. PICK q : q = Destination(g)
      OBVIOUS
    <3>4. files' = [files EXCEPT ![q].whole = TRUE]
      BY <2>0, <2>3, <3>3 DEF Write
    <3>5. p = q
      BY <1>1, <3>4 DEF GenerationInv, TreeOK
    <3>6. /\ me.at \in DOMAIN WritesOf(me.command) /\ q = WritesOf(me.command)[me.at]
          /\ me.command \in Commands
      BY <1>1, <3>1, <3>2, <3>3, DestinationFits DEF Running, Writes
    <3>7. me.at \in DOMAIN me.created
      <4>1. me.at \in 1..Len(WritesOf(me.command)) /\ Len(me.created) = me.at
        BY <3>2, <3>6, WritesAreFiles DEF GeneratorFits, StageFits
      <4>2. DOMAIN me.created = 1..Len(me.created)
        BY <3>2 DEF Locals
      <4>q. QED
        BY <4>1, <4>2
    <3>8. Mine(g, q)
      BY <3>2, <3>6, <3>7 DEF GeneratorFits, FilesFit
    <3>9. gen'[g] # gen[g]
      <4>1. gen'[g].pc \in {"done", "mkdir"}
        <5>1. \/ gen' = [gen EXCEPT ![g] = [gen[g] EXCEPT !.pc = "done", !.result = "ok"]]
              \/ gen' = [gen EXCEPT ![g] = [gen[g] EXCEPT !.at = @ + 1, !.pc = "mkdir"]]
          BY <2>0, <2>3 DEF Write
        <5>2. gen \in [Generators -> Locals]
          BY <1>1 DEF GenerationInv, TreeOK
        <5>3. CASE gen' = [gen EXCEPT ![g] = [gen[g] EXCEPT !.pc = "done", !.result = "ok"]]
          BY <5>2, <5>3 DEF Locals
        <5>4. CASE gen' = [gen EXCEPT ![g] = [gen[g] EXCEPT !.at = @ + 1, !.pc = "mkdir"]]
          BY <5>2, <5>4 DEF Locals
        <5>q. QED
          BY <5>1, <5>3, <5>4
      <4>q. QED
        BY <3>1, <3>2, <4>1
    <3>q. QED
      BY <3>5, <3>8, <3>9 DEF Mine
  <2>4. ASSUME NEW g \in Generators, unlink(g)
        PROVE  files[p].by = g /\ gen'[g] # gen[g]
    <3>1. PICK q : q = Last(gen[g].created)
      OBVIOUS
    <3>2. Mine(g, q) /\ gen'[g] # gen[g]
      BY <1>1, <2>4, <3>1, UnlinkStep
    <3>3. files' = [files EXCEPT ![q] = Absent]
      BY <2>0, <2>4, <3>1 DEF unlink
    <3>4. p = q
      BY <1>1, <3>3 DEF GenerationInv, TreeOK
    <3>q. QED
      BY <3>2, <3>4 DEF Mine
  <2>5. ASSUME NEW g \in Generators, NEW c \in Commands,
               make_result(g, c) \/ load_contract(g) \/ Sample(g) \/ mkdir(g) \/ MakeParent(g)
                 \/ rmdir(g) \/ Kill(g)
        PROVE  FALSE
    BY <2>0, <2>5 DEF make_result, load_contract, Sample, mkdir, MakeParent, rmdir, Kill
  <2>6. ASSUME NEW g \in Generators,
               load_contract(g) \/ Sample(g) \/ mkdir(g) \/ MakeParent(g) \/ rmdir(g) \/ Kill(g)
        PROVE  FALSE
    BY <2>0, <2>6 DEF load_contract, Sample, mkdir, MakeParent, rmdir, Kill
  <2>7. GenerationNext
    BY <1>1, <2>0 DEF generationVars
  <2>q. QED
    BY <2>1, <2>2, <2>3, <2>4, <2>5, <2>6, <2>7 DEF GenerationNext
<1>2. GenerationInv /\ [GenerationNext]_generationVars =>
        [\A p \in Files : files[p] # Absent /\ files'[p] # files[p] =>
           \/ files[p].by = Other /\ gen' = gen
           \/ \E g \in Generators : files[p].by = g /\ gen'[g] # gen[g]]_generationVars
  BY <1>1
<1>q. QED
  BY <1>2, GenerationInvariant, PTL DEF GenerationSpec, OthersArePreserved
=============================================================================
