----------------------------- MODULE ClientRetry -----------------------------
(***************************************************************************)
(* One logical call of tenchi.client.Client with a retry policy, attempt   *)
(* observers and call observers (Client.call_with_response).               *)
(*                                                                         *)
(* The call alternates between an attempt, the attempt's observers and a   *)
(* backoff sleep.  One deadline covers attempts and sleeps; the time the   *)
(* observers take is added to it.  A cancellation by the caller may arrive *)
(* at every await.  Time is counted in ticks of the event loop's clock,    *)
(* whose timers fire when they are due.                                    *)
(***************************************************************************)
EXTENDS Integers, FiniteSetsExt

CONSTANTS
  RetryPolicies, \* the retry policies a call may be made with
  Waits,         \* the Retry-After values a response may carry
  ObserverTime,  \* how long the observers of an attempt take at most
  Patience,      \* how long an attempt without deadline is watched
  Cancels,       \* how often the caller cancels at most
  Nothing

(* RetryPolicy's validation; a call without a policy makes one attempt.    *)
Policy(p) ==
  /\ p.attempts \in Nat \ {0}
  /\ p.base \in Nat /\ p.max \in Nat /\ p.base <= p.max
  /\ p.jitter \in 0..10
  /\ p.total # Nothing => p.total \in Nat \ {0}
  /\ p.attempts = 1 => p.total = Nothing

Statuses == {"succeeded", "app_error", "unexpected_response",
             "transport_error", "timed_out", "failed", "cancelled"}

(* What attempt observers are given, with the Retry-After of the response  *)
(* and the wait the client goes by.                                        *)
Heard ==
  [attempt : Nat, status : Statuses, willRetry : BOOLEAN, delay : Int \cup {Nothing},
   at : Nat, asked : Waits \cup {Nothing}, wait : Waits \cup {Nothing}]

ASSUME ClientRetryAssumption ==
  /\ \A p \in RetryPolicies : Policy(p)
  /\ Waits \subseteq Nat
  /\ {ObserverTime, Patience, Cancels} \subseteq Nat
  /\ Nothing \notin Int /\ Nothing \notin Statuses /\ Nothing \notin Heard

VARIABLES
  policy,     \* the policy of this call
  stage,      \* what the call is awaiting
  attempt,    \* the number of the current or last attempt
  now,        \* the event loop's clock
  since,      \* when the stage was entered
  deadline,   \* when the total timeout expires, or Nothing
  wake,       \* when the backoff sleep ends
  last,       \* the last ClientAttemptOutcome given to the attempt observers
  observed,   \* _ClientCall.observer_seconds
  raised,     \* what the call will end with, or Nothing to try again
  callOutcome,    \* _ClientCall.outcome, or Nothing
  told,       \* the call observers have all received the outcome
  result,     \* what the caller got, or Nothing
  cancels     \* how often the caller has cancelled

clientVars == <<policy, stage, attempt, now, since, deadline, wake, last, observed,
          raised, callOutcome, told, result, cancels>>

Replies ==
  [status : {"app_error", "unexpected_response"}, byCode : BOOLEAN,
   byStatus : BOOLEAN, after : Waits \cup {Nothing}, declared : BOOLEAN]

ClientInit ==
  /\ policy \in RetryPolicies
  /\ stage = "calling"
  /\ attempt = 1
  /\ now = 0 /\ since = 0 /\ wake = 0 /\ observed = 0
  /\ deadline = policy.total
  /\ last = Nothing
  /\ raised = Nothing /\ callOutcome = Nothing /\ result = Nothing
  /\ told = FALSE
  /\ cancels = 0

-----------------------------------------------------------------------------
(* The delay before the next attempt. *)

(* Exponential backoff, spread by the jitter in tenths, then capped. *)
Backoffs(n) ==
  LET step == policy.base * 2 ^ (n - 1)
      spread == (step * policy.jitter) \div 10
  IN {Min({policy.max, d}) : d \in (step - spread)..(step + spread)}

(* The Retry-After the client goes by: of a status-selected response the   *)
(* header itself, of an error selected by code what its definition         *)
(* declares.                                                               *)
Heeded(r) == IF r.byStatus \/ r.declared THEN r.after ELSE Nothing

(* A wait beyond the cap or the remaining time ends the retrying. *)
Fits(w) ==
  w # Nothing => w <= policy.max /\ (deadline # Nothing => w < deadline - now)

Delays(w) ==
  IF Fits(w)
  THEN {Max({b, IF w = Nothing THEN 0 ELSE w}) : b \in Backoffs(attempt)}
  ELSE {Nothing}

Enter(to) == stage' = to /\ since' = now

(* _ClientAttempt.finish *)
Hear(status, selected, delay, asked, wait) ==
  last' = [attempt |-> attempt, status |-> status,
           willRetry |-> selected /\ delay # Nothing,
           delay |-> delay, at |-> now, asked |-> asked, wait |-> wait]

(* The attempt is over; its observers come next. *)
Finish(status, selected, delay, asked, wait) ==
  /\ stage = "calling"
  /\ Enter("observing")
  /\ Hear(status, selected, delay, asked, wait)
  /\ raised' = IF delay = Nothing THEN status ELSE Nothing
  /\ UNCHANGED <<policy, attempt, now, deadline, wake, observed, callOutcome,
                 told, result>>

-----------------------------------------------------------------------------
(* How an attempt ends. *)

Succeed ==
  /\ Finish("succeeded", FALSE, Nothing, Nothing, Nothing)
  /\ UNCHANGED cancels

Selected(r) ==
  /\ r.byStatus \/ (r.status = "app_error" /\ r.byCode)
  /\ attempt < policy.attempts

(* A declared application error, or a response outside the contract. *)
Reject ==
  /\ \E r \in Replies :
       \E delay \in IF Selected(r) THEN Delays(Heeded(r)) ELSE {Nothing} :
         Finish(r.status, Selected(r), delay, r.after, Heeded(r))
  /\ UNCHANGED cancels

(* httpx.TransportError, retried if the policy says so. *)
BreakOff ==
  /\ \E retry \in BOOLEAN :
       LET selected == retry /\ attempt < policy.attempts
       IN \E delay \in IF selected THEN Backoffs(attempt) ELSE {Nothing} :
            Finish("transport_error", selected, delay, Nothing, Nothing)
  /\ UNCHANGED cancels

(* A local failure, or a TimeoutError that is not the deadline's. *)
Fail ==
  /\ Finish("failed", FALSE, Nothing, Nothing, Nothing)
  /\ UNCHANGED cancels

Expired == deadline # Nothing /\ now >= deadline

AttemptExpires ==
  /\ Expired
  /\ Finish("timed_out", FALSE, Nothing, Nothing, Nothing)
  /\ UNCHANGED cancels

-----------------------------------------------------------------------------
(* Between the attempts. *)

TryAgain_BareDeadline ==
  /\ stage = "observing"
  /\ raised = Nothing
  /\ Enter("sleeping")
  /\ wake' = now + last.delay
  /\ observed' = observed + (now - since)
  /\ UNCHANGED <<policy, attempt, now, deadline, last, raised, callOutcome,
                 told, result, cancels>>

TryAgain_FreshDeadline ==
  /\ stage = "observing"
  /\ raised = Nothing
  /\ Enter("sleeping")
  /\ wake' = now + last.delay
  /\ observed' = observed + (now - since)
  /\ deadline' = IF deadline = Nothing THEN Nothing ELSE now + policy.total
  /\ UNCHANGED <<policy, attempt, now, last, raised, callOutcome, told, result,
                 cancels>>

(* The observers have returned and another attempt was announced. *)
TryAgain ==
  /\ stage = "observing"
  /\ raised = Nothing
  /\ Enter("sleeping")
  /\ wake' = now + last.delay
  /\ observed' = observed + (now - since)
  /\ deadline' = IF deadline = Nothing THEN Nothing ELSE deadline + (now - since)
  /\ UNCHANGED <<policy, attempt, now, last, raised, callOutcome, told, result,
                 cancels>>

Wake ==
  /\ stage = "sleeping"
  /\ now >= wake
  /\ Enter("calling")
  /\ attempt' = attempt + 1
  /\ UNCHANGED <<policy, now, deadline, wake, last, observed, raised, callOutcome,
                 told, result, cancels>>

(* call.finish, and on to the call observers. *)
End(status) ==
  /\ Enter("telling")
  /\ callOutcome' = status
  /\ raised' = status
  /\ UNCHANGED <<policy, attempt, now, deadline, wake, last, told, result>>

SleepExpires_Silently ==
  /\ stage = "sleeping"
  /\ Expired
  /\ Enter("telling")
  /\ raised' = "timed_out"
  /\ UNCHANGED <<policy, attempt, now, deadline, wake, last, observed, callOutcome,
                 told, result, cancels>>

SleepExpires ==
  /\ stage = "sleeping"
  /\ Expired
  /\ End("timed_out")
  /\ UNCHANGED <<observed, cancels>>

(* The observers of the last attempt have returned. *)
Conclude ==
  /\ stage = "observing"
  /\ raised # Nothing
  /\ End(raised)
  /\ observed' = observed + (now - since)
  /\ UNCHANGED cancels

(* The call observers have returned; the call returns or raises. *)
Return ==
  /\ stage = "telling"
  /\ Enter("done")
  /\ result' = raised
  /\ told' = (callOutcome # Nothing)
  /\ UNCHANGED <<policy, attempt, now, deadline, wake, last, observed, raised,
                 callOutcome, cancels>>

-----------------------------------------------------------------------------
(* Cancellation by the caller, which includes any timeout around the call. *)

AttemptCancelled == Finish("cancelled", FALSE, Nothing, Nothing, Nothing)

(* While the observers of an expired or cancelled attempt run, a handler   *)
(* of call_with_response is active already: its siblings do not see the    *)
(* cancellation, and no outcome is made.                                   *)
Handling == raised \in {"timed_out", "cancelled"}

ObserversCancelled ==
  /\ stage = "observing"
  /\ ~Handling
  /\ End("cancelled")
  /\ UNCHANGED observed

HandlerCancelled ==
  /\ (stage = "observing" /\ Handling) \/ stage = "telling"
  /\ Enter("done")
  /\ raised' = "cancelled"
  /\ result' = "cancelled"
  /\ UNCHANGED <<policy, attempt, now, deadline, wake, last, observed, callOutcome,
                 told>>

SleepCancelled ==
  /\ stage = "sleeping"
  /\ End("cancelled")
  /\ UNCHANGED observed

CallerCancels ==
  /\ cancels < Cancels
  /\ cancels' = cancels + 1
  /\ \/ AttemptCancelled
     \/ ObserversCancelled
     \/ SleepCancelled
     \/ HandlerCancelled

-----------------------------------------------------------------------------
(* Time passes while the call awaits something that is not due. *)
ClientTick ==
  /\ \/ stage = "calling" /\ deadline = Nothing /\ now < since + Patience
     \/ stage = "calling" /\ deadline # Nothing /\ ~Expired
     \/ stage = "sleeping" /\ now < wake /\ ~Expired
     \/ stage = "observing" /\ now < since + ObserverTime
  /\ now' = now + 1
  /\ UNCHANGED <<policy, stage, attempt, since, deadline, wake, last, observed,
                 raised, callOutcome, told, result, cancels>>

(* What the event loop and the framework do by themselves.  Observers are  *)
(* outside the deadline and are assumed to return.                         *)
Loop ==
  AttemptExpires \/ TryAgain \/ Wake \/ SleepExpires \/ Conclude \/ Return

Remote == Succeed \/ Reject \/ BreakOff \/ Fail

ClientNext == Loop \/ Remote \/ CallerCancels \/ ClientTick

-----------------------------------------------------------------------------
(* A Retry-After the client goes by is honoured: the next attempt starts   *)
(* no earlier, whatever the backoff and the jitter, and a wait that was    *)
(* found to fit is slept to its end, however long the observers took       *)
(* (_retry_delay; deadline += observer_seconds).                           *)
HonoursRetryAfter ==
  /\ stage = "calling" /\ attempt > 1 /\ last.wait # Nothing => since >= last.at + last.wait
  /\ stage = "sleeping" /\ deadline # Nothing /\ last.delay = last.wait => wake < deadline

(* Attempts and backoff together never exceed the total timeout; only      *)
(* observers' time comes on top (total_timeout_seconds).                   *)
BudgetKept ==
  stage \in {"calling", "sleeping"} /\ policy.total # Nothing
    => now - observed <= policy.total

(* The call observers hear of every call, and hear what the caller gets,   *)
(* unless the caller cancels once more while observers are being told of   *)
(* its end (_notify_client_observers).                                     *)
EndsAreTold ==
  stage = "done" =>
    \/ told /\ callOutcome = result
    \/ /\ ~told
       /\ result = "cancelled"
       /\ callOutcome = Nothing => last.status \in {"timed_out", "cancelled"}
=============================================================================
