----------------------------- MODULE Evaluations -----------------------------
(***************************************************************************)
(* A run of evaluations: one lifespan around all of them, the suites one   *)
(* after another, the cases of a suite in batches of tasks that asyncio    *)
(* gathers, each with a deadline and a context of its own, and gates on    *)
(* scores, tokens and cost.  Evaluators, contexts and lifespans are the    *)
(* application's: they fail, hang, swallow a cancellation, or raise one.   *)
(* A cost is counted in the smallest unit of the decimals the code adds    *)
(* exactly, a score in percent.                                            *)
(***************************************************************************)
EXTENDS Integers, Sequences, SequencesExt, FiniteSets

CONSTANTS
  Suites,                  \* EvaluationGroup: <<[cases, max_tokens, max_cost, threshold], ...>>
  Measurements,            \* what evaluators return: [score, tokens, cost], score None when invalid
  concurrency,
  MAX_EVALUATION_TOKENS,
  None

VARIABLES
  pc,           \* EvaluationRunner.run: where it is
  suite,        \* the suite under way, an index into Suites
  last,         \* the last suite of the run
  outcomes,     \* of the suite under way, in the order of its cases
  tasks,        \* the batch: a case's locals
  reports,      \* EvaluationOutcome of the suites finished
  lifespan,     \* "closed" | "open"
  cancelled,    \* someone cancelled the run
  punctual      \* cases whose context ended normally before the deadline (a ghost)

vars == <<pc, suite, last, outcomes, tasks, reports, lifespan, cancelled, punctual>>

ASSUME ConcurrencyAssumption == concurrency \in Nat \ {0}
ASSUME SuitesAssumption ==
  /\ Suites \in Seq([cases : Nat \ {0}, max_tokens : Nat \cup {None},
                     max_cost : Nat \cup {None}, threshold : Nat])
  /\ Measurements \subseteq [score : Nat \cup {None}, tokens : Nat \cup {None}, cost : Nat \cup {None}]
  /\ None \notin Nat

Declared == Suites[suite]
Limit(declared, usage) == IF usage = "tokens" THEN declared.max_tokens ELSE declared.max_cost
Sum(field, seq, cases) == SumFunction([c \in cases |-> seq[c][field]])

-----------------------------------------------------------------------------
(* Outcomes of cases, and the gates.                                       *)
Outcome(status, code) == [status |-> status, code |-> code, score |-> None, tokens |-> None, cost |-> None]
CompletedCase(m) == [status |-> "completed", code |-> None, score |-> m.score, tokens |-> m.tokens, cost |-> m.cost]
IsCompleted(o) == o.status = "completed"
IsAttempted(o) == o.status # "skipped"
Completed(seq) == {c \in DOMAIN seq : IsCompleted(seq[c])}
Attempted(seq) == {c \in DOMAIN seq : IsAttempted(seq[c])}

(* A measurement that misses a declared score, or usage that a declared    *)
(* budget needs, is no result.                                             *)
_validated_measurement(declared, m) ==
  /\ m.score # None
  /\ declared.max_tokens # None => m.tokens # None
  /\ declared.max_cost # None => m.cost # None

_metric_outcome(declared, seq) ==
  LET values == Completed(seq) IN
  [samples |-> Cardinality(values),
   passed |-> /\ values # {}
              /\ Sum("score", seq, values) >= declared.threshold * Cardinality(values)]

_budget_dimension_status(limit, consumed) ==
  IF limit = None THEN "passed"
  ELSE IF consumed = None THEN "unverified"
  ELSE IF consumed <= limit THEN "passed" ELSE "exceeded"

(* Usage is known when every attempted case completed and reported it.     *)
Consumed(usage, seq) ==
  IF \A c \in Attempted(seq) : IsCompleted(seq[c]) /\ seq[c][usage] # None
  THEN Sum(usage, seq, Attempted(seq)) ELSE None

_budget_outcome(declared, seq) ==
  LET tokens   == Consumed("tokens", seq)
      cost     == Consumed("cost", seq)
      statuses == {_budget_dimension_status(declared.max_tokens, tokens),
                   _budget_dimension_status(declared.max_cost, cost)} IN
  [consumed_tokens |-> IF tokens # None /\ tokens <= MAX_EVALUATION_TOKENS THEN tokens ELSE None,
   consumed_cost |-> cost,
   status |-> IF "exceeded" \in statuses THEN "exceeded"
              ELSE IF "unverified" \in statuses THEN "unverified" ELSE "passed"]

Report(s, seq) ==
  [suite |-> s, cases |-> seq, metric |-> _metric_outcome(Suites[s], seq),
   budget |-> _budget_outcome(Suites[s], seq)]

EvaluationOk(report) ==
  /\ report.cases # <<>>
  /\ \A o \in ToSet(report.cases) : IsCompleted(o)
  /\ report.metric.passed
  /\ report.budget.status = "passed"

EvaluationReportOk == \A report \in ToSet(reports) : EvaluationOk(report)

-----------------------------------------------------------------------------
(* One case.  "held" is how its context block ends: with a value, with an  *)
(* exception, or with a CancelledError.                                    *)
Value(m)     == [kind |-> "value", of |-> m]
Raises(code) == [kind |-> "raise", of |-> code]
Cancelling   == [kind |-> "cancel", of |-> None]
Nothing      == [kind |-> "none", of |-> None]

NewTask(c) == [case |-> c, pc |-> "entering", held |-> Nothing, expired |-> FALSE,
               hit |-> FALSE, outer |-> FALSE, outcome |-> None]

(* How _run_case ends once its context is left: the deadline is asked, for *)
(* a cancellation it caused may have been swallowed.  A cancellation from  *)
(* outside goes through, also when the deadline has expired as well.       *)
Ended_UnaskedDeadline(t, held) ==
  [t EXCEPT !.pc = IF held.kind = "cancel" /\ ~ (t.expired /\ ~ t.outer) THEN "cancelled" ELSE "done",
            !.held = held,
            !.outcome =
              CASE held.kind = "cancel" -> IF t.expired /\ ~ t.outer THEN Outcome("timed_out", "timeout") ELSE None
                [] held.kind = "value"  -> CompletedCase(held.of)
                [] held.kind = "raise"  -> Outcome("failed", IF held.of = "result" THEN "result" ELSE "case")]

Ended(t, held) ==
  [t EXCEPT !.pc = IF held.kind = "cancel" /\ ~ (t.expired /\ ~ t.outer) THEN "cancelled" ELSE "done",
            !.held = held,
            !.outcome =
              CASE held.kind = "cancel" -> IF t.expired /\ ~ t.outer THEN Outcome("timed_out", "timeout") ELSE None
                [] held.kind = "value"  -> IF t.expired THEN Outcome("timed_out", "timeout")
                                           ELSE CompletedCase(held.of)
                [] held.kind = "raise"  -> IF held.of = "dependency_timeout" /\ t.expired
                                           THEN Outcome("timed_out", "timeout")
                                           ELSE Outcome("failed", IF held.of = "result" THEN "result" ELSE "case")]

Step(i, t) ==
  /\ tasks' = [tasks EXCEPT ![i] = t]
  /\ UNCHANGED <<pc, suite, last, outcomes, reports, lifespan, cancelled>>

(* The input is validated and copied, the context opened.                  *)
Enter(i) ==
  /\ tasks[i].pc = "entering"
  /\ \/ Step(i, [tasks[i] EXCEPT !.pc = "evaluating"])
     \/ \E code \in {"case", "result", "dependency_timeout"} : Step(i, Ended(tasks[i], Raises(code)))
  /\ UNCHANGED punctual

(* The evaluator returns or raises: CancelledError too, when a task of its *)
(* own that it awaits was cancelled.                                       *)
Evaluate(i) ==
  /\ tasks[i].pc = "evaluating"
  /\ \/ \E m \in Measurements :
          Step(i, [tasks[i] EXCEPT !.pc = "exiting",
                     !.held = IF _validated_measurement(Declared, m) THEN Value(m) ELSE Raises("result")])
     \/ \E held \in {Raises("case"), Raises("dependency_timeout"), Cancelling} :
          Step(i, [tasks[i] EXCEPT !.pc = "exiting", !.held = held])
  /\ UNCHANGED punctual

(* The context ends its unit of work: commits a value or fails to, rolls   *)
(* anything else back.                                                     *)
ExitContext(i) ==
  /\ tasks[i].pc = "exiting"
  /\ \/ /\ Step(i, Ended(tasks[i], tasks[i].held))
        /\ punctual' = IF tasks[i].held.kind = "value" /\ ~ tasks[i].expired
                       THEN punctual \cup {<<suite, tasks[i].case>>} ELSE punctual
     \/ /\ Step(i, Ended(tasks[i], Raises("case")))
        /\ UNCHANGED punctual

Expire_EvaluatorOnly(i) ==
  /\ tasks[i].pc = "evaluating" /\ ~ tasks[i].expired
  /\ Step(i, [tasks[i] EXCEPT !.expired = TRUE, !.hit = TRUE])
  /\ UNCHANGED punctual

(* asyncio.timeout fires: it cancels its task once.                        *)
Expire(i) ==
  /\ tasks[i].pc \in {"entering", "evaluating", "exiting"} /\ ~ tasks[i].expired
  /\ Step(i, [tasks[i] EXCEPT !.expired = TRUE, !.hit = TRUE])
  /\ UNCHANGED punctual

(* A cancellation reaches the await it interrupts; application code lets   *)
(* it through or swallows it.                                              *)
Interrupt(i) ==
  /\ tasks[i].hit
  /\ LET t == [tasks[i] EXCEPT !.hit = FALSE] IN
       \/ Step(i, t)
       \/ /\ t.pc = "evaluating"
          /\ Step(i, [t EXCEPT !.pc = "exiting", !.held = Cancelling])
       \/ /\ t.pc \in {"entering", "exiting"}
          /\ Step(i, Ended(t, Cancelling))
  /\ UNCHANGED punctual

Case(i) == Enter(i) \/ Evaluate(i) \/ ExitContext(i) \/ Expire(i) \/ Interrupt(i)

-----------------------------------------------------------------------------
Init ==
  /\ pc = "idle" /\ suite = 1 /\ last = 1
  /\ outcomes = <<>> /\ tasks = <<>> /\ reports = <<>>
  /\ lifespan = "closed" /\ cancelled = FALSE /\ punctual = {}

(* EvaluationRunner.run(name): one suite, all of them, or an unknown name. *)
run ==
  /\ pc = "idle"
  /\ \/ \E s \in DOMAIN Suites : suite' = s /\ last' = s /\ pc' = "opening"
     \/ suite' = 1 /\ last' = Len(Suites) /\ pc' = "opening"
     \/ pc' = "not_found" /\ UNCHANGED <<suite, last>>
  /\ UNCHANGED <<outcomes, tasks, reports, lifespan, cancelled, punctual>>

_open_lifespan ==
  /\ pc = "opening"
  /\ \/ lifespan' = "open" /\ pc' = IF suite <= last THEN "batch" ELSE "closing"
     \/ lifespan' = "closed" /\ pc' = "failed"
  /\ UNCHANGED <<suite, last, outcomes, tasks, reports, cancelled, punctual>>

Batch(declared, done) == [i \in 1..(IF declared.cases - done < concurrency
                                    THEN declared.cases - done ELSE concurrency) |-> done + i]

(* The next batch of a suite: run while the budget is passed, else left    *)
(* out with the reason.                                                    *)

StartBatch ==
  /\ pc = "batch" /\ Len(outcomes) < Declared.cases
  /\ LET batch  == Batch(Declared, Len(outcomes))
         status == _budget_outcome(Declared, outcomes).status IN
       IF status # "passed"
       THEN /\ outcomes' = outcomes \o [i \in DOMAIN batch |->
                             Outcome("skipped", IF status = "exceeded" THEN "budget_exceeded" ELSE "budget_unverified")]
            /\ UNCHANGED <<pc, tasks>>
       ELSE /\ tasks' = [i \in DOMAIN batch |-> NewTask(batch[i])]
            /\ pc' = "gather"
            /\ UNCHANGED outcomes
  /\ UNCHANGED <<suite, last, reports, lifespan, cancelled, punctual>>

(* gather returns when every task is done, in the order of the tasks, and  *)
(* raises as soon as one of them is cancelled: the others go on.           *)
AllDone == \A t \in ToSet(tasks) : t.pc = "done"

gather_FirstFailure ==
  /\ pc = "gather"
  /\ \/ /\ AllDone /\ ~ cancelled
        /\ outcomes' = outcomes \o [i \in DOMAIN tasks |-> tasks[i].outcome]
        /\ tasks' = <<>> /\ pc' = "batch"
     \/ /\ (AllDone /\ cancelled)
           \/ \E i \in DOMAIN tasks :
                tasks[i].pc = "cancelled" \/ (tasks[i].pc = "done" /\ ~ IsCompleted(tasks[i].outcome))
        /\ pc' = "aborting"
        /\ UNCHANGED <<outcomes, tasks>>
  /\ UNCHANGED <<suite, last, reports, lifespan, cancelled, punctual>>

gather ==
  /\ pc = "gather"
  /\ \/ /\ AllDone /\ ~ cancelled
        /\ outcomes' = outcomes \o [i \in DOMAIN tasks |-> tasks[i].outcome]
        /\ tasks' = <<>> /\ pc' = "batch"
     \/ /\ (AllDone /\ cancelled) \/ \E i \in DOMAIN tasks : tasks[i].pc = "cancelled"
        /\ pc' = "aborting"
        /\ UNCHANGED <<outcomes, tasks>>
  /\ UNCHANGED <<suite, last, reports, lifespan, cancelled, punctual>>

(* The end of a suite; the next one has a budget of its own.               *)
_run_evaluation ==
  /\ pc = "batch" /\ Len(outcomes) = Declared.cases
  /\ reports' = Append(reports, Report(suite, outcomes))
  /\ IF suite = last THEN pc' = "closing" /\ UNCHANGED <<suite, outcomes>>
     ELSE suite' = suite + 1 /\ outcomes' = <<>> /\ UNCHANGED pc
  /\ UNCHANGED <<last, tasks, lifespan, cancelled, punctual>>

(* The lifespan ends; when its own cleanup raises there is no report.      *)
CloseLifespan ==
  /\ pc \in {"closing", "aborting"}
  /\ lifespan' = "closed"
  /\ pc' \in {IF pc = "closing" THEN "reported" ELSE "cancelled", "failed"}
  /\ UNCHANGED <<suite, last, outcomes, tasks, reports, cancelled, punctual>>

(* The run's task is cancelled, by Ctrl-C, an agent or a server, while it  *)
(* opens the lifespan or waits for a batch.                                *)
Cancel ==
  /\ ~ cancelled /\ cancelled' = TRUE
  /\ \/ pc = "opening" /\ pc' = "cancelled" /\ UNCHANGED tasks
     \/ /\ pc = "gather" /\ UNCHANGED pc
        /\ tasks' = [i \in DOMAIN tasks |->
             IF tasks[i].pc \in {"done", "cancelled"} THEN tasks[i]
             ELSE [tasks[i] EXCEPT !.hit = TRUE, !.outer = TRUE]]
  /\ UNCHANGED <<suite, last, outcomes, reports, lifespan, punctual>>

Runner == run \/ _open_lifespan \/ StartBatch \/ gather \/ _run_evaluation \/ CloseLifespan
Next == Runner \/ (\E i \in DOMAIN tasks : Case(i)) \/ Cancel

Spec == Init /\ [][Next]_vars

(* The event loop runs what is ready and fires the timers.  Application    *)
(* code may hang, but once its deadline cancelled it, it ends by itself    *)
(* even if it swallowed the cancellation.                                  *)
Overdue(i) == i \in DOMAIN tasks /\ tasks[i].expired /\ (Enter(i) \/ Evaluate(i) \/ ExitContext(i))

Fairness ==
  /\ WF_vars(Runner)
  /\ \A i \in 1..concurrency :
       /\ WF_vars(i \in DOMAIN tasks /\ (Expire(i) \/ Interrupt(i)))
       /\ WF_vars(Overdue(i))

LiveSpec == Spec /\ Fairness

-----------------------------------------------------------------------------
Statuses == {"completed", "failed", "timed_out", "skipped"}
Active(t) == t.pc \in {"entering", "evaluating", "exiting"}

(* A passed run is proven: its reports are of the suites it was to run,    *)
(* up to the last, and each case of each of them returned before its       *)
(* deadline and its context committed, the scores reach the threshold on   *)
(* all of the cases, and no declared limit is crossed.                     *)
PassedIsProven ==
  pc = "reported" /\ EvaluationReportOk =>
    \A i \in DOMAIN reports :
      LET declared == Suites[reports[i].suite]
          cases    == reports[i].cases
          all      == 1..declared.cases IN
      /\ reports[i].suite = last - Len(reports) + i
      /\ Len(cases) = declared.cases
      /\ \A c \in all : <<reports[i].suite, c>> \in punctual
      /\ Sum("score", cases, all) >= declared.threshold * declared.cases
      /\ \A usage \in {"tokens", "cost"} :
           Limit(declared, usage) # None => Sum(usage, cases, all) <= Limit(declared, usage)

(* A budget overspends by one batch at most: when a batch started, every   *)
(* earlier case of its suite had ended in time with its usage known and    *)
(* within the limits; and a case is left out only behind a case that spent *)
(* too much or spent an unknown amount.                                    *)
OverspendIsOneBatch ==
  \A i \in DOMAIN reports :
    LET declared  == Suites[reports[i].suite]
        cases     == reports[i].cases
        attempted == Cardinality(Attempted(cases))
        earlier   == 1..(attempted - ((attempted - 1) % concurrency) - 1) IN
    /\ \A usage \in {"tokens", "cost"} : Limit(declared, usage) # None =>
         /\ \A c \in earlier : <<reports[i].suite, c>> \in punctual
         /\ Sum(usage, cases, earlier) <= Limit(declared, usage)
    /\ Attempted(cases) = 1..attempted
    /\ attempted < Len(cases) => reports[i].budget.status # "passed"

(* What a report says, it has seen.                                        *)
ReportsAreHonest == PassedIsProven /\ OverspendIsOneBatch

(* The lifespan surrounds the cases: when it is closed none of them uses   *)
(* its context any more, unless a case of the same batch was cancelled.    *)
LifespanSurroundsCases ==
  (\E t \in ToSet(tasks) : Active(t)) /\ lifespan = "closed" =>
    \E t \in ToSet(tasks) : t.pc = "cancelled"

(* Every run ends, whatever hangs inside a case: its context's exit too is *)
(* under the deadline.                                                     *)
RunEnds == pc = "opening" ~> pc \in {"reported", "cancelled", "failed"}
=============================================================================
