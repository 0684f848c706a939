----------------------------- MODULE Entrypoint -----------------------------
(***************************************************************************)
(* One call of a use case through one of Tenchi's entrypoints: an HTTP     *)
(* endpoint (server._make_endpoint), execute(), a job dispatcher, a task   *)
(* runner or a tool runner.                                                *)
(*                                                                         *)
(* Each opens a context scope, runs the use case in it, closes the scope,  *)
(* and tells the observers; they differ in what comes before the scope and *)
(* in how a failure reaches the caller.  The scope is the unit of work of  *)
(* open_request_ports: commit on a clean exit, otherwise roll back.  A     *)
(* cancellation may arrive at every await, from the caller or from the     *)
(* deadline of an HTTP contract.                                           *)
(***************************************************************************)
EXTENDS Naturals

CONSTANTS
  Kinds,      \* the entrypoints: a subset of AllKinds
  Observers   \* how many use-case and how many request observers there are

AllKinds == {"http", "execute", "job", "task", "tool"}

ASSUME EntrypointAssumption == Kinds \subseteq AllKinds /\ Observers \in Nat

VARIABLES
  call,       \* which entrypoint, and for HTTP whether timed and signed
  stage,      \* where the call is
  scope,      \* the context scope and its transaction
  run,        \* the use case: UseCaseOutcome.status, or "not_run", "running"
  verified,   \* the webhook verifier accepted the request
  flight,     \* the result or exception on its way out, or "none"
  deadline,   \* the contract's timeout: "none", "armed", "expired"
  cancelled,  \* the caller has cancelled the call
  answer,     \* what the caller gets, or "none"
  told        \* how many observers of each kind have been told

vars == <<call, stage, scope, run, verified, flight, deadline, cancelled,
          answer, told>>

Call == [kind : Kinds, timed : BOOLEAN, signed : BOOLEAN]

(* A result, a refusal returned inside the scope, or an exception. *)
Refusals == {"unsupported", "too_large", "invalid"}
Exceptions == {"declared", "undeclared", "violation", "timeout_error",
               "error", "disconnect", "cancelled"}
Flights == {"result"} \cup Refusals \cup Exceptions

Answers == Flights \cup {"none", "timed_out"}

Stages == {"called", "opening", "hooks", "verifying", "validating", "running",
           "presenting", "committing", "rolling_back", "closing", "boundary",
           "telling_use_case", "telling_request", "ending", "done"}

(* Every variable has its type, and a transaction is open exactly while    *)
(* the call is inside its scope.                                           *)
TypeOK ==
  /\ call \in Call
  /\ stage \in Stages
  /\ scope \in {"none", "open", "committed", "rolled_back"}
  /\ run \in {"not_run", "running", "succeeded", "app_error", "failed", "cancelled"}
  /\ verified \in BOOLEAN
  /\ flight \in Flights \cup {"none"}
  /\ deadline \in {"none", "armed", "expired"}
  /\ cancelled \in BOOLEAN
  /\ answer \in Answers
  /\ told \in [{"use_case", "request"} -> 0..Observers]
  /\ scope = "open" =>
       stage \in {"hooks", "verifying", "validating", "running",
                  "presenting", "committing", "rolling_back"}

Http == call.kind = "http"

(* tasks and tools run inside a lifespan of their own. *)
OwnsLifespan == call.kind \in {"task", "tool"}

Init ==
  /\ call \in Call
  /\ call.kind # "http" => ~call.timed /\ ~call.signed
  /\ stage = "called"
  /\ scope = "none"
  /\ run = "not_run"
  /\ verified = FALSE
  /\ flight = "none"
  /\ deadline = "none"
  /\ cancelled = FALSE
  /\ answer = "none"
  /\ told = [which \in {"use_case", "request"} |-> 0]

-----------------------------------------------------------------------------
(* Leaving the scope: a returned value commits, an exception rolls back.   *)

Exit(f) == IF f \in Exceptions THEN "rolling_back" ELSE "committing"

Leave(f) ==
  /\ flight' = f
  /\ stage' = Exit(f)
  /\ UNCHANGED <<call, scope, verified, deadline, cancelled, answer, told>>

Go(from, to) ==
  /\ stage = from
  /\ stage' = to
  /\ UNCHANGED <<call, deadline, cancelled, answer, told>>

Begin_Untimed ==
  /\ stage = "called"
  /\ stage' = IF Http THEN "opening" ELSE "validating"
  /\ UNCHANGED <<call, scope, run, verified, flight, deadline, cancelled,
                 answer, told>>

(* HTTP opens the scope first, because hooks need a context; the others    *)
(* validate their input before anything is opened.                         *)
Begin ==
  /\ stage = "called"
  /\ stage' = IF Http THEN "opening" ELSE "validating"
  /\ deadline' = IF call.timed THEN "armed" ELSE "none"
  /\ UNCHANGED <<call, scope, run, verified, flight, cancelled, answer, told>>

(* open_context: the factory returned a scope and it was entered. *)
Open ==
  /\ Go("opening", IF Http THEN "hooks" ELSE "running")
  /\ scope' = "open"
  /\ run' = IF Http THEN run ELSE "running"
  /\ UNCHANGED <<verified, flight>>

(* The factory, its lifespan or the scope's entry raised. *)
OpenFails ==
  /\ Go("opening", "boundary")
  /\ flight' \in {"declared", "undeclared", "error", "timeout_error"}
  /\ UNCHANGED <<scope, run, verified>>

HooksPass ==
  /\ Go("hooks", IF call.signed THEN "verifying" ELSE "validating")
  /\ UNCHANGED <<scope, run, verified, flight>>

(* A hook, or the verifier of a webhook, raised. *)
HookRaises ==
  /\ stage \in {"hooks", "verifying"}
  /\ \E f \in {"declared", "undeclared", "error", "timeout_error"} : Leave(f)
  /\ UNCHANGED run

(* The media type and size guards in front of the verifier. *)
GuardRefuses ==
  /\ stage = "verifying"
  /\ \E f \in {"unsupported", "too_large"} : Leave(f)
  /\ UNCHANGED run

Verify ==
  /\ Go("verifying", "validating")
  /\ verified' = TRUE
  /\ UNCHANGED <<scope, run, flight>>

-----------------------------------------------------------------------------
(* Validation. *)

Accept ==
  /\ Go("validating", IF Http THEN "running" ELSE "opening")
  /\ run' = IF Http THEN "running" ELSE run
  /\ UNCHANGED <<scope, verified, flight>>

(* HTTP returns the refusal inside the scope, which exits cleanly. *)

RefuseHttp ==
  /\ stage = "validating"
  /\ Http
  /\ \E f \in IF call.signed THEN {"invalid"} ELSE Refusals : Leave(f)
  /\ UNCHANGED run

(* The client went away while the body was read. *)
Disconnect ==
  /\ stage \in {"verifying", "validating"}
  /\ Http
  /\ Leave("disconnect")
  /\ UNCHANGED run

(* Unknown names, usage errors and invalid input of the other entrypoints. *)
Refuse ==
  /\ Go("validating", "boundary")
  /\ ~Http
  /\ flight' \in {"invalid", "error"}
  /\ UNCHANGED <<scope, run, verified>>

-----------------------------------------------------------------------------
(* The use case (_UseCaseCall.invoke). *)

Return ==
  /\ Go("running", "presenting")
  /\ run' = "succeeded"
  /\ UNCHANGED <<scope, verified, flight>>

Status(f) == IF f \in {"declared", "undeclared"} THEN "app_error" ELSE "failed"

Raise ==
  /\ stage = "running"
  /\ \E f \in {"declared", "undeclared", "error", "timeout_error"} :
       Leave(f) /\ run' = Status(f)

(* Presenter, response validation, or a runner's result validation.  A     *)
(* failure is raised, so that it passes through the scope; execute()       *)
(* validates nothing.                                                      *)
Present_Answering ==
  /\ stage = "presenting"
  /\ \/ Leave("result")
     \/ /\ call.kind # "execute"
        /\ flight' = "violation"
        /\ stage' = "committing"
        /\ UNCHANGED <<call, scope, verified, deadline, cancelled, answer, told>>
  /\ UNCHANGED run

Present ==
  /\ stage = "presenting"
  /\ \/ Leave("result")
     \/ call.kind # "execute" /\ Leave("violation")
     \/ Http /\ \E f \in {"declared", "undeclared"} : Leave(f)
  /\ UNCHANGED run

-----------------------------------------------------------------------------
(* The end of the scope. *)

Commit ==
  /\ Go("committing", "closing")
  /\ scope' = "committed"
  /\ UNCHANGED <<run, verified, flight>>

CommitFails_Unnoticed ==
  /\ Go("committing", "boundary")
  /\ scope' = "rolled_back"
  /\ UNCHANGED <<run, verified, flight>>

(* The commit failed, or the connection failed to close behind it. *)
CommitFails ==
  /\ Go("committing", "boundary")
  /\ scope' \in {"committed", "rolled_back"}
  /\ flight' = "error"
  /\ UNCHANGED <<run, verified>>

RollBack ==
  /\ Go("rolling_back", "closing")
  /\ scope' = "rolled_back"
  /\ UNCHANGED <<run, verified, flight>>

Close ==
  /\ Go("closing", "boundary")
  /\ UNCHANGED <<scope, run, verified, flight>>

-----------------------------------------------------------------------------
(* Cancellation: what the awaiting code makes of a CancelledError. *)

Awaiting == {"opening", "hooks", "verifying", "validating", "running",
             "committing", "rolling_back", "closing"}

(* Hooks, verifiers and use cases may suppress it. *)
Suppressed ==
  /\ stage \in {"hooks", "verifying", "running"}
  /\ UNCHANGED <<stage, scope, run, flight>>

CutInScope ==
  /\ \/ stage \in {"hooks", "verifying", "running"}
     \/ stage = "validating" /\ Http
  /\ flight' = "cancelled"
  /\ stage' = "rolling_back"
  /\ run' = IF stage = "running" THEN "cancelled" ELSE run
  /\ UNCHANGED scope

(* aiosqlite finishes in its thread what the cancelled task was awaiting,  *)
(* so a cancelled commit may or may not have been applied.                 *)
CutOutside ==
  /\ flight' = "cancelled"
  /\ \/ stage = "opening" /\ stage' = "boundary" /\ UNCHANGED scope
     \/ stage = "committing" /\ stage' = "closing" /\ scope' \in {"committed", "rolled_back"}
     \/ stage = "rolling_back" /\ stage' = "closing" /\ scope' = "rolled_back"
     \/ stage = "closing" /\ stage' = "boundary" /\ UNCHANGED scope
  /\ UNCHANGED run

Cut == Suppressed \/ CutInScope \/ CutOutside

DeadlineExpires ==
  /\ deadline = "armed"
  /\ stage \in Awaiting
  /\ deadline' = "expired"
  /\ Cut
  /\ UNCHANGED <<call, verified, cancelled, answer, told>>

CallerCancels ==
  /\ ~cancelled
  /\ stage \in Awaiting
  /\ cancelled' = TRUE
  /\ Cut
  /\ UNCHANGED <<call, verified, deadline, answer, told>>

-----------------------------------------------------------------------------
(* What the caller gets. *)

(* The timeout scope turns the cancellation into a TimeoutError only when  *)
(* the deadline's own cancel is the only one.                              *)

TimesOut ==
  /\ deadline = "expired"
  /\ \/ flight = "cancelled" /\ ~cancelled
     \/ flight \in {"timeout_error", "result"} \cup Refusals

Outward == IF TimesOut THEN "timed_out" ELSE flight

ToldFirst_OnSuccess ==
  IF run # "not_run" /\ Outward = "result" THEN "telling_use_case"
  ELSE IF Http /\ Outward # "cancelled" THEN "telling_request"
  ELSE IF OwnsLifespan /\ scope # "none" THEN "ending" ELSE "done"

(* Where the use case's observers come next, then the request's. *)
ToldFirst ==
  IF run # "not_run" THEN "telling_use_case"
  ELSE IF Http /\ Outward # "cancelled" THEN "telling_request"
  ELSE IF OwnsLifespan /\ scope # "none" THEN "ending" ELSE "done"

Boundary ==
  /\ stage = "boundary"
  /\ answer' = Outward
  /\ stage' = ToldFirst
  /\ UNCHANGED <<call, scope, run, verified, flight, deadline, cancelled, told>>

Tell(which) == told' = [told EXCEPT ![which] = @ + 1]

TellUseCase ==
  /\ stage = "telling_use_case"
  /\ told["use_case"] < Observers
  /\ Tell("use_case")
  /\ UNCHANGED <<call, stage, scope, run, verified, flight, deadline,
                 cancelled, answer>>

UseCaseTold ==
  /\ stage = "telling_use_case"
  /\ told["use_case"] = Observers
  /\ stage' = IF Http /\ answer # "cancelled" THEN "telling_request"
              ELSE IF OwnsLifespan THEN "ending" ELSE "done"
  /\ UNCHANGED <<call, scope, run, verified, flight, deadline, cancelled,
                 answer, told>>

TellRequest ==
  /\ stage = "telling_request"
  /\ told["request"] < Observers
  /\ Tell("request")
  /\ UNCHANGED <<call, stage, scope, run, verified, flight, deadline,
                 cancelled, answer>>

RequestTold ==
  /\ stage = "telling_request"
  /\ told["request"] = Observers
  /\ stage' = "done"
  /\ UNCHANGED <<call, scope, run, verified, flight, deadline, cancelled,
                 answer, told>>

(* Observers raise nothing but a cancellation of the task itself. *)
CancelledWhileTelling ==
  /\ stage \in {"telling_use_case", "telling_request"}
  /\ ~cancelled
  /\ cancelled' = TRUE
  /\ answer' = "cancelled"
  /\ stage' = IF OwnsLifespan THEN "ending" ELSE "done"
  /\ UNCHANGED <<call, scope, run, verified, flight, deadline, told>>

(* The runner's lifespan ends last; its failure replaces the answer. *)
EndLifespan ==
  /\ stage = "ending"
  /\ stage' = "done"
  /\ answer' \in {answer, "error"}
  /\ UNCHANGED <<call, scope, run, verified, flight, deadline, cancelled, told>>

Done == stage = "done" /\ UNCHANGED vars

-----------------------------------------------------------------------------
UserCode ==
  \/ Open \/ OpenFails \/ HooksPass \/ HookRaises \/ GuardRefuses \/ Verify
  \/ Accept \/ RefuseHttp \/ Disconnect \/ Refuse \/ Return \/ Raise

Framework ==
  \/ Begin \/ Present \/ Commit \/ CommitFails \/ RollBack \/ Close
  \/ Boundary \/ TellUseCase \/ UseCaseTold \/ TellRequest \/ RequestTold
  \/ EndLifespan

Next ==
  UserCode \/ Framework \/ DeadlineExpires \/ CallerCancels
  \/ CancelledWhileTelling \/ Done

Spec == Init /\ [][Next]_vars

(* The framework's own steps, SQLite and the observers go on.  A use case, *)
(* a hook or a client may hang, except that the event loop fires an armed  *)
(* deadline, and code that swallowed its cancellation returns afterwards.  *)
Fairness ==
  /\ WF_vars(Framework)
  /\ WF_vars(DeadlineExpires)
  /\ WF_vars(deadline = "expired" /\ UserCode)

FairSpec == Spec /\ Fairness

-----------------------------------------------------------------------------
(* Who is answered with a result can rely on the commit, and so can the    *)
(* request observers, who are told of the response (open_context).  The    *)
(* outcome that use-case observers hear is the use case's own, and says    *)
(* less: "succeeded" although the commit then failed; but a use case they  *)
(* hear of otherwise has had nothing committed (_UseCaseCall.invoke).      *)
SuccessIsCommitted ==
  /\ answer = "result" => scope = "committed"
  /\ told["use_case"] > 0 /\ scope = "committed" => run = "succeeded"

(* An application error or a response that breaks its contract leaves no   *)
(* write behind (dispatch raises them through the scope).                  *)
FailuresRollBack ==
  answer \in {"declared", "undeclared", "violation"} /\ scope # "none"
    => scope = "rolled_back"

(* A deadline that expired inside the boundary never ends as a success or  *)
(* a refusal, even when user code swallowed the cancellation (respond).    *)
NoLateSuccess == answer \in {"result"} \cup Refusals => deadline # "expired"

(* Observers see a call whose scope is over, one after the other, and when *)
(* nobody cancels meanwhile each hears of it exactly once: of the use case *)
(* if it ran, of the request if there is a response.                       *)
EachObserverToldOnce ==
  /\ told["use_case"] + told["request"] > 0 => scope # "open" /\ answer # "none"
  /\ stage = "done" /\ ~cancelled =>
       /\ told["use_case"] = IF run = "not_run" THEN 0 ELSE Observers
       /\ told["request"] = IF Http THEN Observers ELSE 0

(* Input that fails validation never reaches the use case, and a webhook's *)
(* field errors are shown only to a sender whose signature was verified.   *)
InvalidInputGoesNowhere ==
  answer = "invalid" =>
    /\ run = "not_run"
    /\ ~Http => scope = "none"
    /\ call.signed => verified

(* A refused request leaves its scope cleanly: what hooks wrote is kept,   *)
(* and nothing stays open.                                                 *)
RefusalsCloseTheScope ==
  Http /\ answer \in Refusals => scope = "committed"

(* A request with a deadline is answered, whatever its use case does.      *)
TimedRequestsEnd == call.timed ~> stage = "done"

=============================================================================
