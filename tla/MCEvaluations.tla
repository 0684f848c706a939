---------------------------- MODULE MCEvaluations ----------------------------
EXTENDS Evaluations

(* Three batches with a token limit, then a suite with a cost limit.         *)
MCSuites ==
  <<[cases |-> 5, max_tokens |-> 2, max_cost |-> None, threshold |-> 50],
    [cases |-> 1, max_tokens |-> None, max_cost |-> 1, threshold |-> 0]>>

(* A good result, a poor and expensive one, one without usage, no result.  *)
MCMeasurements ==
  {[score |-> 100, tokens |-> 0, cost |-> 1], [score |-> 0, tokens |-> 3, cost |-> 2],
   [score |-> 100, tokens |-> None, cost |-> None], [score |-> None, tokens |-> 0, cost |-> 0]}
=============================================================================
