---------------------------- MODULE DurableResult ----------------------------
(***************************************************************************)
(* What a client of taskboard is promised that repeats a request with one  *)
(* idempotency key until it gets an answer, over lost answers and crashes: *)
(* the key settles on one result of one input, for ever, and nobody is     *)
(* ever told anything else for that key.                                   *)
(***************************************************************************)
CONSTANTS
  Requests,     \* everything clients send
  Keys,         \* their idempotency keys
  KeyOf(_),     \* the key of a request
  InputOf(_),   \* its input
  None

VARIABLES
  settled,   \* settled[k]: the input and result of the key, or None
  told       \* told[r]: the result the sender of r was told, or None

vars == <<settled, told>>

Init ==
  /\ settled = [k \in Keys |-> None]
  /\ told = [r \in Requests |-> None]

(* A request settles its key; whether its sender hears of it is open. *)
Settle(r) ==
  LET k == KeyOf(r) IN
  /\ settled[k] = None
  /\ settled'[k] # None
  /\ settled'[k].input = InputOf(r)
  /\ settled' = [settled EXCEPT ![k] = settled'[k]]
  /\ \/ UNCHANGED told
     \/ told[r] = None /\ told' = [told EXCEPT ![r] = settled'[k].result]

(* A request is told what its key has settled on for the same input. *)
Tell(r) ==
  LET k == KeyOf(r) IN
  /\ settled[k] # None
  /\ settled[k].input = InputOf(r)
  /\ told[r] = None
  /\ told' = [told EXCEPT ![r] = settled[k].result]
  /\ UNCHANGED settled

Next == \E r \in Requests : Settle(r) \/ Tell(r)

Spec == Init /\ [][Next]_vars
=============================================================================
