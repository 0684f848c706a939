-------------------------- MODULE IdempotentResult --------------------------
(***************************************************************************)
(* What a caller of tenchi.idempotency.run_idempotently is promised,       *)
(* without reservations, leases or clocks: while a key keeps an answer,    *)
(* every call that succeeds with that key gets that answer and was made    *)
(* with the input that produced it; an answer kept for ever is never       *)
(* replaced.  Idempotency (one process, MemoryIdempotencyStore) is shown   *)
(* to implement this module.                                               *)
(***************************************************************************)
CONSTANTS Calls, Keys, Fingerprints, None

VARIABLES
  answer,   \* answer[k]: what the key replays, or None
  outcome   \* outcome[c]: what the caller of c has been told so far

vars == <<answer, outcome>>

Pending == [got |-> "pending", value |-> None]
Refused == [got |-> "refused", value |-> None]
Result(d) == [got |-> "result", value |-> d]

Init ==
  /\ answer = [k \in Keys |-> None]
  /\ outcome = [c \in Calls |-> Pending]

(* An answer that is not kept for ever may be dropped. *)
Forget(k) ==
  /\ answer[k] # None
  /\ ~answer[k].forever
  /\ answer' = [answer EXCEPT ![k] = None]

(* The call's own run answers a key that has no answer. *)
Settle(c, k, f, forever) ==
  /\ outcome[c] = Pending
  /\ answer[k] = None
  /\ answer' = [answer EXCEPT ![k] = [fp |-> f, value |-> c, forever |-> forever]]
  /\ outcome' = [outcome EXCEPT ![c] = Result(c)]

(* The call gets the answer the key already has for the same input. *)
Replay(c, k, f) ==
  /\ outcome[c] = Pending
  /\ answer[k] # None
  /\ answer[k].fp = f
  /\ outcome' = [outcome EXCEPT ![c] = Result(answer[k].value)]
  /\ UNCHANGED answer

(* The call fails: conflict, in progress, or any error of the run. *)
Refuse(c) ==
  /\ outcome[c] = Pending
  /\ outcome' = [outcome EXCEPT ![c] = Refused]
  /\ UNCHANGED answer \/ \E k \in Keys : Forget(k)

Next ==
  \/ \E k \in Keys : Forget(k) /\ UNCHANGED outcome
  \/ \E c \in Calls :
       \/ Refuse(c)
       \/ \E k \in Keys, f \in Fingerprints :
            \/ Replay(c, k, f)
            \/ \E forever \in BOOLEAN : Settle(c, k, f, forever)

Spec == Init /\ [][Next]_vars
=============================================================================
