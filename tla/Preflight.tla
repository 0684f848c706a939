------------------------------ MODULE Preflight ------------------------------
(***************************************************************************)
(* run_preflight: the checks of a group run concurrently, each under an    *)
(* asyncio deadline.  A check is the application's: it returns None or a   *)
(* value, raises, overruns, swallows the deadline's cancellation and goes  *)
(* on, or raises a cancellation of its own.  Timers fire on time: the      *)
(* clock does not pass a deadline that has not been noticed.               *)
(***************************************************************************)
EXTENDS Integers, FiniteSets

CONSTANTS
  Probes,          \* the checks of the group
  DeclaredTimeout, \* [Probes -> Nat]
  TimeoutCap,      \* run_preflight's timeout, or Uncapped
  Uncapped,
  LastTick         \* bound of the clock

VARIABLES
  gate,     \* run_preflight: "running" | "ok" | "not_ok" | "cancelled"
  clock,
  probe,    \* a check's code: "running" | "ended"
  expired,  \* deadline.expired(), from when the deadline interrupts the check
  status,   \* None | "passed" | "failed" | "timed_out" | "cancelled"
  proof     \* checks that returned None, and when (a ghost)

preflightVars == <<gate, clock, probe, expired, status, proof>>

ASSUME PreflightAssumption ==
  /\ DeclaredTimeout \in [Probes -> Nat \ {0}]
  /\ TimeoutCap \in (Nat \ {0}) \cup {Uncapped}
  /\ LastTick \in Nat

PreflightInit ==
  /\ gate = "running"
  /\ clock = 0
  /\ probe = [k \in Probes |-> "running"]
  /\ expired = [k \in Probes |-> FALSE]
  /\ status = [k \in Probes |-> "none"]
  /\ proof = [k \in Probes |-> LastTick + 1]

(* "it can make a deployment gate stricter but never weaker"               *)
Deadline(k) ==
  IF TimeoutCap = Uncapped \/ DeclaredTimeout[k] <= TimeoutCap THEN DeclaredTimeout[k] ELSE TimeoutCap

Tick ==
  /\ clock < LastTick
  /\ \A k \in Probes : probe[k] = "running" /\ ~expired[k] => clock < Deadline(k)
  /\ clock' = clock + 1
  /\ UNCHANGED <<gate, probe, expired, status, proof>>

Expire(k) ==
  /\ probe[k] = "running" /\ ~expired[k] /\ clock >= Deadline(k)
  /\ expired' = [expired EXCEPT ![k] = TRUE]
  /\ UNCHANGED <<gate, clock, probe, status, proof>>

(* How the check ended, and what _run_check makes of that.                 *)
_run_check_ByResult(k, how) == IF how = "none" THEN "passed" ELSE IF expired[k] THEN "timed_out" ELSE "failed"
_run_check(k, how) ==
  IF expired[k] THEN "timed_out" ELSE IF how = "none" THEN "passed" ELSE "failed"

ProbeEnds(k, how) ==
  /\ probe[k] = "running"
  /\ probe' = [probe EXCEPT ![k] = "ended"]
  /\ status' = [status EXCEPT ![k] = _run_check(k, how)]
  /\ proof' = IF how = "none" THEN [proof EXCEPT ![k] = clock] ELSE proof
  /\ UNCHANGED <<gate, clock, expired>>

(* The check propagates the cancellation of its deadline.                  *)
ObeysDeadline(k) == expired[k] /\ ProbeEnds(k, "interrupted")

(* A CancelledError that no deadline asked for passes through _run_check   *)
(* and gather.                                                             *)
RaisesCancelled(k) ==
  /\ probe[k] = "running" /\ ~expired[k]
  /\ probe' = [probe EXCEPT ![k] = "ended"]
  /\ status' = [status EXCEPT ![k] = "cancelled"]
  /\ UNCHANGED <<gate, clock, expired, proof>>

Report ==
  /\ gate = "running" /\ \A k \in Probes : status[k] # "none"
  /\ gate' = IF \E k \in Probes : status[k] = "cancelled" THEN "cancelled"
             ELSE IF \A k \in Probes : status[k] = "passed" THEN "ok" ELSE "not_ok"
  /\ UNCHANGED <<clock, probe, expired, status, proof>>

(* gather does not wait for the others once one was cancelled; and the     *)
(* caller may cancel the run.                                              *)
GateCancelled ==
  /\ gate = "running"
  /\ gate' = "cancelled"
  /\ UNCHANGED <<clock, probe, expired, status, proof>>

PreflightNext ==
  \/ Tick \/ Report \/ GateCancelled
  \/ \E k \in Probes :
       \/ Expire(k) \/ ObeysDeadline(k) \/ RaisesCancelled(k)
       \/ \E how \in {"none", "value", "raised"} : ProbeEnds(k, how)

(* The gate opens only if every check returned None within its own timeout *)
(* and within the cap, also when a check swallows the cancellation of its  *)
(* deadline and returns None late.                                         *)
GateIsProven ==
  gate = "ok" => \A k \in Probes :
    /\ proof[k] <= DeclaredTimeout[k]
    /\ TimeoutCap # Uncapped => proof[k] <= TimeoutCap
=============================================================================
