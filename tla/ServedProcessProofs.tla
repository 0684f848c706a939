-------------------------- MODULE ServedProcessProofs --------------------------
(***************************************************************************)
(* Proofs about what a deployed process runs beside its routes: Preflight, *)
(* Health, ToolMcp, ClientRetry and RateLimit; and about AgentServer, the  *)
(* process a coding agent has.  Each is a specification of its own; they   *)
(* share no variable.                                                      *)
(***************************************************************************)
EXTENDS Preflight, Health, ToolMcp, RateLimit, ClientRetry, AgentServer, TLAPS

-----------------------------------------------------------------------------
(*****************************************************************************)
(* Preflight: any set of checks, timeouts and cap.                           *)
(*****************************************************************************)
PreflightSpec == PreflightInit /\ [][PreflightNext]_preflightVars

ProbeStatuses == {"none", "passed", "failed", "timed_out", "cancelled"}

PreflightTypeOK ==
  /\ gate \in {"running", "ok", "not_ok", "cancelled"}
  /\ clock \in Nat
  /\ probe \in [Probes -> {"running", "ended"}]
  /\ expired \in [Probes -> BOOLEAN]
  /\ status \in [Probes -> ProbeStatuses]
  /\ proof \in [Probes -> Nat]

(* The clock has not passed a deadline that has yet to interrupt.          *)
TimersAreOnTime == \A k \in Probes : probe[k] = "running" /\ ~expired[k] => clock <= Deadline(k)

(* A verdict is final, and a pass is as old as its proof.                  *)
VerdictsAreFinal == \A k \in Probes : status[k] # "none" => probe[k] = "ended"
PassesAreProven  == \A k \in Probes : status[k] = "passed" => proof[k] <= Deadline(k)
GateFits         == gate = "ok" => \A k \in Probes : status[k] = "passed"

PreflightInv == PreflightTypeOK /\ TimersAreOnTime /\ VerdictsAreFinal /\ PassesAreProven /\ GateFits

(* The cap only shortens: a deadline is within the check's own timeout and *)
(* within the cap.                                                         *)
LEMMA DeadlinesFit ==
  ASSUME NEW k \in Probes
  PROVE  /\ Deadline(k) \in Nat
         /\ Deadline(k) <= DeclaredTimeout[k]
         /\ TimeoutCap # Uncapped => Deadline(k) <= TimeoutCap
<1>1. DeclaredTimeout[k] \in Nat
  BY PreflightAssumption
<1>2. TimeoutCap # Uncapped => TimeoutCap \in Nat
  BY PreflightAssumption
<1>q. QED
  BY <1>1, <1>2 DEF Deadline

LEMMA PreflightInitial == PreflightInit => PreflightInv
<1> SUFFICES ASSUME PreflightInit PROVE PreflightInv
  OBVIOUS
<1>1. PreflightTypeOK
  BY PreflightAssumption DEF PreflightInit, PreflightTypeOK, ProbeStatuses
<1>2. TimersAreOnTime
  BY DeadlinesFit DEF PreflightInit, TimersAreOnTime
<1>q. QED
  BY <1>1, <1>2 DEF PreflightInit, PreflightInv, VerdictsAreFinal, PassesAreProven, GateFits

LEMMA TickKeeps == PreflightInv /\ Tick => PreflightInv'
<1> SUFFICES ASSUME PreflightInv, Tick PROVE PreflightInv'
  OBVIOUS
<1>1. PreflightTypeOK'
  BY DEF PreflightInv, PreflightTypeOK, Tick
<1>2. TimersAreOnTime'
  <2> SUFFICES ASSUME NEW k \in Probes, probe[k] = "running", ~expired[k]
               PROVE  clock + 1 <= Deadline(k)
    BY DEF Tick, TimersAreOnTime, Deadline
  <2>1. clock < Deadline(k)
    BY DEF Tick
  <2>q. QED
    BY <2>1, DeadlinesFit DEF PreflightInv, PreflightTypeOK
<1>q. QED
  BY <1>1, <1>2 DEF PreflightInv, Tick, VerdictsAreFinal, PassesAreProven, GateFits, Deadline

LEMMA ExpireKeeps == ASSUME PreflightInv, NEW k \in Probes, Expire(k) PROVE PreflightInv'
<1>1. PreflightTypeOK'
  BY DEF PreflightInv, PreflightTypeOK, Expire
<1>2. TimersAreOnTime'
  BY DEF PreflightInv, PreflightTypeOK, TimersAreOnTime, Expire, Deadline
<1>q. QED
  BY <1>1, <1>2 DEF PreflightInv, Expire, VerdictsAreFinal, PassesAreProven, GateFits, Deadline

(* The end of a check decides by the deadline, not by what it returned.    *)
LEMMA ProbeEndsKeeps ==
  ASSUME PreflightInv, NEW k \in Probes, NEW how, ProbeEnds(k, how)
  PROVE  PreflightInv'
<1> USE DEF PreflightInv
<1>1. _run_check(k, how) \in ProbeStatuses /\ _run_check(k, how) # "none"
  BY DEF _run_check, ProbeStatuses
<1>2. PreflightTypeOK'
  BY <1>1 DEF PreflightTypeOK, ProbeEnds
<1>3. TimersAreOnTime' /\ VerdictsAreFinal'
  BY DEF PreflightTypeOK, TimersAreOnTime, VerdictsAreFinal, ProbeEnds, Deadline
<1>4. PassesAreProven'
  <2> SUFFICES ASSUME NEW l \in Probes, status'[l] = "passed" PROVE proof'[l] <= Deadline(l)
    BY DEF PassesAreProven, Deadline
  <2>1. CASE l = k
    <3>1. ~expired[k] /\ how = "none"
      BY <2>1 DEF ProbeEnds, PreflightTypeOK, _run_check
    <3>2. proof'[k] = clock
      BY <3>1 DEF ProbeEnds, PreflightTypeOK
    <3>q. QED
      BY <2>1, <3>1, <3>2 DEF ProbeEnds, TimersAreOnTime
  <2>2. CASE l # k
    BY <2>2 DEF ProbeEnds, PreflightTypeOK, PassesAreProven
  <2>q. QED
    BY <2>1, <2>2
<1>5. GateFits'
  BY DEF ProbeEnds, PreflightTypeOK, VerdictsAreFinal, GateFits
<1>q. QED
  BY <1>2, <1>3, <1>4, <1>5

LEMMA RaisesCancelledKeeps ==
  ASSUME PreflightInv, NEW k \in Probes, RaisesCancelled(k) PROVE PreflightInv'
<1> USE DEF PreflightInv, RaisesCancelled
<1>1. PreflightTypeOK'
  BY DEF PreflightTypeOK, ProbeStatuses
<1>2. TimersAreOnTime' /\ VerdictsAreFinal'
  BY DEF PreflightTypeOK, TimersAreOnTime, VerdictsAreFinal, Deadline
<1>3. PassesAreProven' /\ GateFits'
  BY DEF PreflightTypeOK, VerdictsAreFinal, PassesAreProven, GateFits, Deadline
<1>q. QED
  BY <1>1, <1>2, <1>3

LEMMA GateKeeps == PreflightInv /\ (Report \/ GateCancelled) => PreflightInv'
<1> SUFFICES ASSUME PreflightInv, Report \/ GateCancelled PROVE PreflightInv'
  OBVIOUS
<1> USE DEF PreflightInv, Report, GateCancelled
<1>1. PreflightTypeOK' /\ GateFits'
  BY DEF PreflightTypeOK, GateFits
<1>2. TimersAreOnTime' /\ VerdictsAreFinal' /\ PassesAreProven'
  BY DEF TimersAreOnTime, VerdictsAreFinal, PassesAreProven, Deadline
<1>q. QED
  BY <1>1, <1>2

LEMMA PreflightInductive == PreflightInv /\ [PreflightNext]_preflightVars => PreflightInv'
<1> SUFFICES ASSUME PreflightInv, [PreflightNext]_preflightVars PROVE PreflightInv'
  OBVIOUS
<1>1. CASE Tick
  BY <1>1, TickKeeps
<1>2. CASE Report \/ GateCancelled
  BY <1>2, GateKeeps
<1>3. ASSUME NEW k \in Probes, Expire(k) PROVE PreflightInv'
  BY <1>3, ExpireKeeps
<1>4. ASSUME NEW k \in Probes, NEW how, ProbeEnds(k, how) PROVE PreflightInv'
  BY <1>4, ProbeEndsKeeps
<1>5. ASSUME NEW k \in Probes, RaisesCancelled(k) PROVE PreflightInv'
  BY <1>5, RaisesCancelledKeeps
<1>6. CASE UNCHANGED preflightVars
  BY <1>6 DEF preflightVars, PreflightInv, PreflightTypeOK, TimersAreOnTime, VerdictsAreFinal,
     PassesAreProven, GateFits, Deadline
<1>q. QED
  BY <1>1, <1>2, <1>3, <1>4, <1>5, <1>6 DEF PreflightNext, ObeysDeadline

(* The gate opens only on proofs that came in time, for any number of      *)
(* checks, whatever their timeouts and the cap, also when checks swallow   *)
(* the cancellation of their deadline (_run_check, run_preflight).         *)
THEOREM GateProven == PreflightSpec => []GateIsProven
<1>1. PreflightInv => GateIsProven
  <2> SUFFICES ASSUME PreflightInv, gate = "ok", NEW k \in Probes
               PROVE  /\ proof[k] <= DeclaredTimeout[k]
                      /\ TimeoutCap # Uncapped => proof[k] <= TimeoutCap
    BY DEF GateIsProven
  <2>1. proof[k] <= Deadline(k) /\ proof[k] \in Nat
    BY DEF PreflightInv, PreflightTypeOK, GateFits, PassesAreProven
  <2>2. DeclaredTimeout[k] \in Nat /\ (TimeoutCap # Uncapped => TimeoutCap \in Nat)
    BY PreflightAssumption
  <2>q. QED
    BY <2>1, <2>2, DeadlinesFit
<1>q. QED
  BY <1>1, PreflightInitial, PreflightInductive, PTL DEF PreflightSpec

-----------------------------------------------------------------------------
(*****************************************************************************)
(* Health: any number of requests, checks and threads.                       *)
(*****************************************************************************)
HealthSpec == HealthInit /\ [][HealthNext]_healthVars

TaskStates == {"none", "queued", "running", "ok", "failed", "cancelled"}
Outcomes == {"none", "waiting", "ok", "failed", "cancelled"}

HealthTypeOK ==
  /\ request \in [Requests -> {"new", "running", "healthy", "unhealthy", "gone"}]
  /\ task \in [Jobs -> TaskStates]
  /\ outcome \in [Jobs -> Outcomes]

(* Before a request comes nothing of it exists.                            *)
Fresh == \A j \in Jobs : request[j[1]] = "new" => task[j] = "none" /\ outcome[j] = "none"

(* A run_check reports the end of its own task, and a timeout for good.    *)
OutcomesAreEarned ==
  \A j \in Jobs : /\ outcome[j] = "ok" => task[j] = "ok"
                  /\ j \in overdue => outcome[j] = "failed"

Answers == \A r \in Requests : request[r] = "healthy" => \A k \in Checks : outcome[<<r, k>>] = "ok"

HealthInv == HealthTypeOK /\ Fresh /\ OutcomesAreEarned /\ Answers /\ RunawaysAreHeld

LEMMA HealthInitial == HealthInit => HealthInv
  BY DEF HealthInit, HealthInv, HealthTypeOK, TaskStates, Outcomes, Fresh, OutcomesAreEarned,
     Answers, RunawaysAreHeld, Unfinished, Jobs

LEMMA ArrivalKeeps == ASSUME HealthInv, NEW r \in Requests, get_health(r) PROVE HealthInv'
<1> USE DEF HealthInv, get_health, HealthTypeOK
<1>1. HealthTypeOK'
  BY DEF TaskStates, Outcomes
<1>2. Fresh'
  BY DEF Fresh, Jobs
<1>3. OutcomesAreEarned'
  BY DEF Fresh, OutcomesAreEarned
<1>4. Answers'
  BY DEF Answers, Jobs
<1>5. RunawaysAreHeld'
  BY DEF Fresh, RunawaysAreHeld, Unfinished
<1>q. QED
  BY <1>1, <1>2, <1>3, <1>4, <1>5

(* A task ends once: what has ended stays as it is.                        *)
LEMMA EndKeeps ==
  ASSUME HealthInv, NEW j \in Jobs, Unfinished(j),
         NEW how \in {"ok", "failed", "cancelled"}, Ended(j, how)
  PROVE  HealthInv'
<1> USE DEF HealthInv, Ended, HealthTypeOK, Unfinished
<1>1. HealthTypeOK'
  BY DEF TaskStates
<1>2. Fresh' /\ OutcomesAreEarned' /\ Answers'
  BY DEF Fresh, OutcomesAreEarned, Answers
<1>3. RunawaysAreHeld'
  BY DEF RunawaysAreHeld
<1>q. QED
  BY <1>1, <1>2, <1>3

LEMMA ThreadKeeps ==
  ASSUME HealthInv, NEW j \in Jobs, ThreadStarts(j) \/ ThreadEnds(j) \/ AsyncEnds(j) \/ SyncCancelled(j)
  PROVE  HealthInv'
<1>1. CASE ThreadStarts(j)
  <2> USE <1>1 DEF HealthInv, ThreadStarts, HealthTypeOK
  <2>1. HealthTypeOK'
    BY DEF TaskStates
  <2>2. Fresh' /\ OutcomesAreEarned' /\ Answers'
    BY DEF Fresh, OutcomesAreEarned, Answers
  <2>3. RunawaysAreHeld'
    BY DEF RunawaysAreHeld, Unfinished
  <2>q. QED
    BY <2>1, <2>2, <2>3
<1>2. CASE ThreadEnds(j)
  <2>1. CASE task[j] = "running"
    BY <1>2, <2>1, EndKeeps DEF ThreadEnds, Unfinished
  <2>2. CASE task[j] # "running"
    BY <1>2, <2>2 DEF ThreadEnds, HealthInv, HealthTypeOK, Fresh, OutcomesAreEarned, Answers,
       RunawaysAreHeld, Unfinished
  <2>q. QED
    BY <2>1, <2>2
<1>3. CASE AsyncEnds(j)
  BY <1>3, EndKeeps DEF AsyncEnds, Unfinished
<1>4. CASE SyncCancelled(j)
  BY <1>4, EndKeeps DEF SyncCancelled, Unfinished
<1>q. QED
  BY <1>1, <1>2, <1>3, <1>4

LEMMA CheckKeeps == ASSUME HealthInv, NEW j \in Jobs, run_check(j) \/ Timeout(j) PROVE HealthInv'
<1> USE DEF HealthInv, HealthTypeOK, run_check, Timeout, CancelAndDetach
<1>1. HealthTypeOK'
  BY DEF Outcomes
<1>2. Fresh' /\ OutcomesAreEarned'
  BY DEF Fresh, OutcomesAreEarned, Unfinished
<1>3. Answers'
  <2> SUFFICES ASSUME NEW r \in Requests, request[r] = "healthy", NEW k \in Checks
               PROVE  outcome'[<<r, k>>] = "ok"
    BY DEF Answers
  <2>1. <<r, k>> \in Jobs /\ outcome[<<r, k>>] = "ok"
    BY DEF Answers, Jobs
  <2>2. <<r, k>> # j
    BY <2>1
  <2>q. QED
    BY <2>1, <2>2
<1>4. RunawaysAreHeld'
  BY DEF RunawaysAreHeld, Unfinished
<1>q. QED
  BY <1>1, <1>2, <1>3, <1>4

LEMMA AnswerKeeps ==
  ASSUME HealthInv, NEW r \in Requests, Respond(r) \/ RaisesCancelledError(r)
  PROVE  HealthInv'
<1> USE DEF HealthInv, HealthTypeOK, Respond, RaisesCancelledError
<1>1. HealthTypeOK'
  OBVIOUS
<1>2. Fresh'
  BY DEF Fresh, Jobs
<1>3. Answers'
  <2> SUFFICES ASSUME NEW q \in Requests, request'[q] = "healthy", NEW k \in Checks
               PROVE  outcome[<<q, k>>] = "ok"
    BY DEF Answers
  <2>1. CASE q = r
    BY <2>1
  <2>2. CASE q # r
    BY <2>2 DEF Answers
  <2>q. QED
    BY <2>1, <2>2
<1>4. OutcomesAreEarned' /\ RunawaysAreHeld'
  BY DEF OutcomesAreEarned, RunawaysAreHeld, Unfinished
<1>q. QED
  BY <1>1, <1>2, <1>3, <1>4

LEMMA DisconnectKeeps == ASSUME HealthInv, NEW r \in Requests, Disconnect(r) PROVE HealthInv'
<1> USE DEF HealthInv, HealthTypeOK, Disconnect, CancelAndDetach
<1>1. HealthTypeOK'
  BY DEF Outcomes
<1>2. Fresh' /\ OutcomesAreEarned' /\ Answers'
  BY DEF Fresh, OutcomesAreEarned, Answers, Jobs
<1>3. RunawaysAreHeld'
  BY DEF RunawaysAreHeld, Unfinished
<1>q. QED
  BY <1>1, <1>2, <1>3

LEMMA HealthInductive == HealthInv /\ [HealthNext]_healthVars => HealthInv'
<1> SUFFICES ASSUME HealthInv, [HealthNext]_healthVars PROVE HealthInv'
  OBVIOUS
<1>1. CASE HealthNext
  BY <1>1, ArrivalKeeps, ThreadKeeps, CheckKeeps, AnswerKeeps, DisconnectKeeps
     DEF HealthNext, HealthProgress
<1>2. CASE UNCHANGED healthVars
  BY <1>2 DEF healthVars, HealthInv, HealthTypeOK, Fresh, OutcomesAreEarned, Answers,
     RunawaysAreHeld, Unfinished
<1>q. QED
  BY <1>1, <1>2

(* However many probes come at once, however many checks hang and hold     *)
(* threads: "healthy" is said of a request's own checks that ended in      *)
(* time, and every task that runs on is held (health_route, run_check).    *)
THEOREM HealthHonest == HealthSpec => []HealthIsHonest
<1>1. HealthInv => HealthIsHonest
  <2> SUFFICES ASSUME HealthInv PROVE HealthyIsProven
    BY DEF HealthInv, HealthIsHonest
  <2>1. ASSUME NEW r \in Requests, NEW k \in Checks, request[r] = "healthy"
        PROVE  task[<<r, k>>] = "ok" /\ <<r, k>> \notin overdue
    <3>1. <<r, k>> \in Jobs /\ outcome[<<r, k>>] = "ok"
      BY <2>1 DEF HealthInv, Answers, Jobs
    <3>q. QED
      BY <3>1 DEF HealthInv, OutcomesAreEarned
  <2>q. QED
    BY <2>1 DEF HealthyIsProven
<1>q. QED
  BY <1>1, HealthInitial, HealthInductive, PTL DEF HealthSpec

-----------------------------------------------------------------------------
(*****************************************************************************)
(* ToolMcp: any number of callers, tools and changes of the policy.          *)
(*****************************************************************************)
ToolSpec == ToolInit /\ [][ToolNext]_toolVars

(* The stages after authentication, after validation and after approval.   *)
Leaving == {"returned", "closed"}
Bound == {"ready"} \cup Leaving
Validated == {"preparing", "approving"} \cup Bound
Authenticated == {"authenticated", "allowed"} \cup Validated
Stages == {"arriving", "authenticating", "done"} \cup Authenticated

ToolTypeOK ==
  /\ at \in [Callers -> Stages]
  /\ asking = [c \in Callers |-> asking[c]]
  /\ principal = [c \in Callers |-> principal[c]]
  /\ kwargs = [c \in Callers |-> kwargs[c]]
  /\ flight = [c \in Callers |-> flight[c]]
  /\ verdict = [c \in Callers |-> verdict[c]]
  /\ answer = [c \in Callers |-> answer[c]]

(* A call's locals are its own: who its headers name, what it asked for.   *)
LocalsFit ==
  \A c \in Callers :
    /\ at[c] \in Authenticated => principal[c] = Credentials[c]
    /\ at[c] \in Validated => kwargs[c] = Normal[asking[c].arguments]
    /\ at[c] \in Bound /\ asking[c].tool \in Destructive =>
         <<principal[c], asking[c].tool, kwargs[c]>> \in granted

(* Nothing is committed before the context is closed, and nothing of a     *)
(* use case without a valid result; nothing is said before the end.        *)
EffectsFit ==
  \A e \in effects :
    e.caller \in Callers /\ at[e.caller] \in {"closed", "done"} /\ verdict[e.caller] = "ok"
AnswersFit == \A c \in Callers : at[c] # "done" => answer[c] = "none"

(* What is on its way out: the verdict, until the context is closed; then  *)
(* a result only if it was committed, and never of another's making.       *)
FlightFits ==
  \A c \in Callers :
    /\ at[c] = "returned" =>
         flight[c] = verdict[c] /\ verdict[c] \in Raised \cup {"ok", "invalid_result"}
    /\ at[c] = "closed" =>
         /\ flight[c] \in Raised \cup {"ok", "invalid_result"}
         /\ flight[c] = "ok" => \E e \in effects : e.caller = c
         /\ flight[c] = "invalid_result" => verdict[c] = "invalid_result"

ToolInv ==
  /\ ToolTypeOK /\ LocalsFit /\ EffectsFit /\ AnswersFit /\ FlightFits
  /\ ApprovedIsRun /\ AnswersTell

LEMMA ToolInitial == ToolInit => ToolInv
<1> SUFFICES ASSUME ToolInit PROVE ToolInv
  OBVIOUS
<1> USE DEF ToolInit
<1>1. ToolTypeOK
  BY DEF ToolTypeOK, Stages
<1>2. LocalsFit /\ FlightFits
  BY DEF LocalsFit, FlightFits, Authenticated, Validated, Bound, Leaving
<1>3. EffectsFit /\ AnswersFit /\ ApprovedIsRun /\ AnswersTell
  BY DEF EffectsFit, AnswersFit, ApprovedIsRun, AnswersTell, Refusals
<1>q. QED
  BY <1>1, <1>2, <1>3 DEF ToolInv

(* A call that ends before its context was opened may tell any failure.    *)
LEMMA EndsInFailure ==
  ASSUME ToolInv, NEW c \in Callers, at[c] \notin Leaving \cup {"done"},
         NEW kind \in Raised \cup Refusals,
         at' = [at EXCEPT ![c] = "done"],
         answer' = [answer EXCEPT ![c] = kind],
         UNCHANGED <<asking, flight, verdict, effects>>,
         principal' = [d \in Callers |-> principal'[d]],
         kwargs' = [d \in Callers |-> kwargs'[d]],
         \A d \in Callers \ {c} : principal'[d] = principal[d] /\ kwargs'[d] = kwargs[d],
         granted \subseteq granted'
  PROVE  ToolInv'
<1> USE DEF ToolInv
<1>1. ToolTypeOK'
  BY DEF ToolTypeOK, Stages
<1>2. LocalsFit'
  <2> SUFFICES ASSUME NEW d \in Callers, d # c
               PROVE  /\ at[d] \in Authenticated => principal[d] = Credentials[d]
                      /\ at[d] \in Validated => kwargs[d] = Normal[asking[d].arguments]
                      /\ at[d] \in Bound /\ asking[d].tool \in Destructive =>
                           <<principal[d], asking[d].tool, kwargs[d]>> \in granted
    BY DEF ToolTypeOK, LocalsFit, Authenticated, Validated, Bound, Leaving
  <2>q. QED
    BY DEF LocalsFit
<1>3. EffectsFit' /\ AnswersFit' /\ FlightFits'
  BY DEF ToolTypeOK, EffectsFit, AnswersFit, FlightFits
<1>4. ApprovedIsRun'
  BY DEF ApprovedIsRun
<1>5. AnswersTell'
  <2>1. \A e \in effects : e.caller # c
    BY DEF EffectsFit, Leaving
  <2>q. QED
    BY <2>1 DEF ToolTypeOK, AnswersTell, Raised, Refusals
<1>q. QED
  BY <1>1, <1>2, <1>3, <1>4, <1>5

(* A step of a call that goes on, and keeps its locals as they must be.    *)
LEMMA GoesOn ==
  ASSUME ToolInv, NEW c \in Callers, at[c] \notin Leaving \cup {"done"},
         NEW to \in Stages \ (Leaving \cup {"done"}),
         at' = [at EXCEPT ![c] = to],
         UNCHANGED <<flight, verdict, effects, answer>>,
         asking' = [d \in Callers |-> asking'[d]],
         principal' = [d \in Callers |-> principal'[d]],
         kwargs' = [d \in Callers |-> kwargs'[d]],
         \A d \in Callers \ {c} :
           asking'[d] = asking[d] /\ principal'[d] = principal[d] /\ kwargs'[d] = kwargs[d],
         granted \subseteq granted',
         to \in Authenticated => principal'[c] = Credentials[c],
         to \in Validated => kwargs'[c] = Normal[asking'[c].arguments],
         to \in Bound /\ asking'[c].tool \in Destructive =>
           <<principal'[c], asking'[c].tool, kwargs'[c]>> \in granted'
  PROVE  ToolInv'
<1> USE DEF ToolInv
<1>1. ToolTypeOK'
  BY DEF ToolTypeOK
<1>2. LocalsFit'
  <2> SUFFICES ASSUME NEW d \in Callers
               PROVE  /\ at'[d] \in Authenticated => principal'[d] = Credentials[d]
                      /\ at'[d] \in Validated => kwargs'[d] = Normal[asking'[d].arguments]
                      /\ at'[d] \in Bound /\ asking'[d].tool \in Destructive =>
                           <<principal'[d], asking'[d].tool, kwargs'[d]>> \in granted'
    BY DEF LocalsFit
  <2>1. CASE d = c
    BY <2>1 DEF ToolTypeOK
  <2>2. CASE d # c
    BY <2>2 DEF ToolTypeOK, LocalsFit
  <2>q. QED
    BY <2>1, <2>2
<1>3. EffectsFit' /\ AnswersFit' /\ FlightFits'
  BY DEF ToolTypeOK, EffectsFit, AnswersFit, FlightFits, Leaving
<1>4. ApprovedIsRun'
  <2>1. \A e \in effects : e.caller \in Callers /\ e.caller # c
    BY DEF EffectsFit, Leaving
  <2>q. QED
    BY <2>1 DEF ApprovedIsRun
<1>5. AnswersTell'
  BY DEF AnswersTell
<1>q. QED
  BY <1>1, <1>2, <1>3, <1>4, <1>5

(* The commit of what the call holds, and what is then told or on its way. *)
LEMMA CommitKeeps ==
  ASSUME ToolInv, NEW c \in Callers, at[c] = "returned", flight[c] = "ok",
         effects' = Committed(c),
         \/ /\ at' = [at EXCEPT ![c] = "closed"] /\ UNCHANGED answer
            /\ flight' = [flight EXCEPT ![c] = flight'[c]]
            /\ flight'[c] \in Raised \cup {"ok"}
         \/ /\ at' = [at EXCEPT ![c] = "done"] /\ answer' = [answer EXCEPT ![c] = "dropped"]
            /\ flight' = [flight EXCEPT ![c] = "none"],
         UNCHANGED <<asking, principal, kwargs, granted, verdict>>
  PROVE  ToolInv'
<1> USE DEF ToolInv
<1> DEFINE new == [caller |-> c, principal |-> principal[c], tool |-> asking[c].tool, value |-> kwargs[c]]
<1>0. effects' = effects \cup {new}
  BY DEF Committed
<1> HIDE DEF new
<1>a. /\ new.caller = c /\ new.principal = principal[c]
      /\ new.tool = asking[c].tool /\ new.value = kwargs[c]
  BY DEF new
<1>b. verdict[c] = "ok"
  BY DEF FlightFits
<1>1. ToolTypeOK'
  BY DEF ToolTypeOK, Stages, Authenticated, Validated, Bound, Leaving
<1>2. LocalsFit'
  BY DEF ToolTypeOK, LocalsFit, Authenticated, Validated, Bound, Leaving
<1>3. EffectsFit' /\ AnswersFit'
  BY <1>0, <1>a, <1>b DEF ToolTypeOK, EffectsFit, AnswersFit
<1>4. ApprovedIsRun'
  <2>1. /\ principal[c] = Credentials[c]
        /\ kwargs[c] = Normal[asking[c].arguments]
        /\ asking[c].tool \in Destructive => <<principal[c], asking[c].tool, kwargs[c]>> \in granted
    BY DEF LocalsFit, Authenticated, Validated, Bound, Leaving
  <2>q. QED
    BY <1>0, <1>a, <2>1 DEF ApprovedIsRun
<1>5. FlightFits'
  <2>1. \E e \in effects' : e.caller = c
    BY <1>0, <1>a
  <2>2. effects \subseteq effects'
    BY <1>0
  <2>3. flight'[c] # "invalid_result"
    BY DEF ToolTypeOK, Raised
  <2>q. QED
    BY <2>1, <2>2, <2>3 DEF ToolTypeOK, FlightFits
<1>6. AnswersTell'
  <2>1. answer'[c] \notin Refusals \cup {"invalid_result"}
    BY DEF ToolTypeOK, AnswersFit, Refusals
  <2>2. ASSUME NEW d \in Callers
        PROVE  /\ answer'[d] = "ok" => \E e \in effects' : e.caller = d
               /\ answer'[d] \in Refusals \cup {"invalid_result"} => \A e \in effects' : e.caller # d
    <3>1. CASE d = c
      BY <1>0, <1>a, <2>1, <3>1
    <3>2. CASE d # c
      BY <1>0, <1>a, <3>2 DEF ToolTypeOK, AnswersTell
    <3>q. QED
      BY <3>1, <3>2
  <2>3. \A e \in effects' : verdict'[e.caller] = "ok"
    BY <1>0, <1>a, <1>b DEF AnswersTell
  <2>q. QED
    BY <2>2, <2>3 DEF AnswersTell
<1>q. QED
  BY <1>1, <1>2, <1>3, <1>4, <1>5, <1>6

(* A step on the way out that commits nothing, to the closed context or to *)
(* the end, where what is told is nothing, or what is on its way.          *)
Leaves(c, to) ==
  /\ at[c] \in {"ready"} \cup Leaving
  /\ at' = [at EXCEPT ![c] = to]
  /\ UNCHANGED <<asking, principal, kwargs, granted, effects>>
  /\ flight' = [flight EXCEPT ![c] = flight'[c]]
  /\ verdict' = [verdict EXCEPT ![c] = verdict'[c]]
  /\ answer' = [answer EXCEPT ![c] = answer'[c]]
  /\ at[c] # "ready" => verdict'[c] = verdict[c]
  /\ to = "returned" =>
       at[c] = "ready" /\ flight'[c] = verdict'[c] /\ verdict'[c] \in Raised \cup {"ok", "invalid_result"}
  /\ to = "closed" =>
       /\ at[c] # "closed" /\ flight'[c] \in Raised \cup {"invalid_result"}
       /\ flight'[c] = "invalid_result" => at[c] = "returned" /\ flight[c] = "invalid_result"
  /\ to # "done" => answer'[c] = answer[c]
  /\ to = "done" => \/ answer'[c] \in Raised \cup {"dropped"}
                    \/ at[c] = "closed" /\ answer'[c] = flight[c]

LEMMA LeavingKeeps ==
  ASSUME ToolInv, NEW c \in Callers, NEW to \in {"returned", "closed", "done"}, Leaves(c, to)
  PROVE  ToolInv'
<1> USE DEF ToolInv, Leaves
<1>1. ToolTypeOK'
  BY DEF ToolTypeOK, Stages, Authenticated, Validated, Bound, Leaving
<1>2. LocalsFit'
  BY DEF ToolTypeOK, LocalsFit, Authenticated, Validated, Bound, Leaving
<1>3. EffectsFit'
  <2>1. at[c] = "ready" => \A e \in effects : e.caller # c
    BY DEF EffectsFit
  <2>2. at[c] = "returned" => verdict[c] = verdict'[c]
    OBVIOUS
  <2>3. ASSUME NEW e \in effects
        PROVE  e.caller \in Callers /\ at'[e.caller] \in {"closed", "done"} /\ verdict'[e.caller] = "ok"
    <3>1. CASE e.caller = c
      <4>1. at[c] = "closed" /\ verdict[c] = "ok"
        BY <3>1 DEF EffectsFit, Leaving
      <4>q. QED
        BY <3>1, <4>1 DEF ToolTypeOK
    <3>2. CASE e.caller # c
      BY <3>2 DEF EffectsFit, ToolTypeOK
    <3>q. QED
      BY <3>1, <3>2
  <2>q. QED
    BY <2>3 DEF EffectsFit
<1>4. AnswersFit'
  BY DEF ToolTypeOK, AnswersFit, Leaving
<1>5. FlightFits'
  <2>1. to = "closed" /\ flight'[c] = "invalid_result" => verdict'[c] = "invalid_result"
    BY DEF FlightFits
  <2>2. to = "closed" => flight'[c] # "ok"
    BY DEF Raised
  <2>3. at'[c] = to /\ \A d \in Callers \ {c} :
          at'[d] = at[d] /\ flight'[d] = flight[d] /\ verdict'[d] = verdict[d]
    BY DEF ToolTypeOK
  <2>4. ASSUME NEW d \in Callers
        PROVE  /\ at'[d] = "returned" =>
                    flight'[d] = verdict'[d] /\ verdict'[d] \in Raised \cup {"ok", "invalid_result"}
               /\ at'[d] = "closed" =>
                    /\ flight'[d] \in Raised \cup {"ok", "invalid_result"}
                    /\ flight'[d] = "ok" => \E e \in effects : e.caller = d
                    /\ flight'[d] = "invalid_result" => verdict'[d] = "invalid_result"
    <3>1. CASE d = c
      BY <2>1, <2>2, <2>3, <3>1
    <3>2. CASE d # c
      BY <2>3, <3>2 DEF FlightFits
    <3>q. QED
      BY <3>1, <3>2
  <2>q. QED
    BY <2>4 DEF FlightFits
<1>6. ApprovedIsRun'
  BY DEF ApprovedIsRun
<1>7. AnswersTell'
  <2>1. /\ answer'[c] = "ok" => \E e \in effects : e.caller = c
        /\ answer'[c] \in Refusals \cup {"invalid_result"} => \A e \in effects : e.caller # c
    <3>1. CASE to = "done" /\ answer'[c] \in Raised \cup {"dropped"}
      BY <3>1 DEF Raised, Refusals
    <3>2. CASE to = "done" /\ at[c] = "closed" /\ answer'[c] = flight[c]
      <4>1. /\ flight[c] \in Raised \cup {"ok", "invalid_result"}
            /\ flight[c] = "ok" => \E e \in effects : e.caller = c
            /\ flight[c] = "invalid_result" => verdict[c] = "invalid_result"
        BY <3>2 DEF FlightFits
      <4>2. verdict[c] = "invalid_result" => \A e \in effects : e.caller # c
        BY DEF EffectsFit
      <4>q. QED
        BY <3>2, <4>1, <4>2 DEF Raised, Refusals
    <3>3. CASE to # "done"
      BY <3>3 DEF AnswersFit, Leaving, Refusals
    <3>q. QED
      BY <3>1, <3>2, <3>3
  <2>2. \A e \in effects' : verdict'[e.caller] = "ok"
    BY <1>3 DEF EffectsFit
  <2>3. ASSUME NEW d \in Callers
        PROVE  /\ answer'[d] = "ok" => \E e \in effects' : e.caller = d
               /\ answer'[d] \in Refusals \cup {"invalid_result"} => \A e \in effects' : e.caller # d
    <3>1. CASE d = c
      BY <2>1, <3>1
    <3>2. CASE d # c
      BY <3>2 DEF AnswersTell, ToolTypeOK
    <3>q. QED
      BY <3>1, <3>2
  <2>q. QED
    BY <2>2, <2>3 DEF AnswersTell
<1>q. QED
  BY <1>1, <1>2, <1>3, <1>4, <1>5, <1>6, <1>7

LEMMA AdmissionKeeps ==
  ASSUME ToolInv, NEW c \in Callers, CallTool(c) \/ _principal(c) \/ _is_allowed(c)
  PROVE  ToolInv'
<1> USE DEF Goes, Ends, Authenticated, Validated, Bound, Leaving
<1>0. ToolTypeOK /\ LocalsFit
  BY DEF ToolInv
<1>1. CASE CallTool(c)
  BY <1>0, <1>1, GoesOn DEF CallTool, ToolTypeOK, Stages
<1>2. CASE _principal(c)
  <2>1. CASE Credentials[c] # Nobody
    <3>1. /\ at[c] = "authenticating" /\ at' = [at EXCEPT ![c] = "authenticated"]
          /\ principal' = [principal EXCEPT ![c] = Credentials[c]]
          /\ UNCHANGED <<asking, kwargs, granted, flight, verdict, effects, answer>>
      BY <1>2, <2>1 DEF _principal
    <3>2. /\ principal' = [d \in Callers |-> principal'[d]]
          /\ principal'[c] = Credentials[c]
          /\ \A d \in Callers \ {c} : principal'[d] = principal[d]
      BY <1>0, <3>1 DEF ToolTypeOK
    <3>q. QED
      BY <1>0, <3>1, <3>2, GoesOn DEF ToolTypeOK, Stages
  <2>2. CASE Credentials[c] = Nobody
    <3>1. /\ at[c] = "authenticating" /\ at' = [at EXCEPT ![c] = "done"]
          /\ answer' = [answer EXCEPT ![c] = "error"]
          /\ UNCHANGED <<asking, principal, kwargs, granted, flight, verdict, effects>>
      BY <1>2, <2>2 DEF _principal
    <3>q. QED
      BY <1>0, <3>1, EndsInFailure DEF ToolTypeOK, Refusals
  <2>q. QED
    BY <2>1, <2>2
<1>3. CASE _is_allowed(c)
  <2>1. CASE <<principal[c], asking[c].tool>> \in visible
    BY <1>0, <1>3, <2>1, GoesOn DEF _is_allowed, ToolTypeOK, LocalsFit, Stages
  <2>2. CASE <<principal[c], asking[c].tool>> \notin visible
    BY <1>0, <1>3, <2>2, EndsInFailure DEF _is_allowed, ToolTypeOK, Refusals
  <2>q. QED
    BY <2>1, <2>2
<1>q. QED
  BY <1>1, <1>2, <1>3

LEMMA ValidationKeeps == ASSUME ToolInv, NEW c \in Callers, Validate(c) PROVE ToolInv'
<1>0. ToolTypeOK /\ LocalsFit
  BY DEF ToolInv
<1>1. /\ kwargs' = [kwargs EXCEPT ![c] = Normal[asking[c].arguments]]
      /\ UNCHANGED <<asking, principal, granted, flight, verdict, effects>>
  BY DEF Validate
<1>2. \/ /\ Goes(c, "allowed", "preparing") /\ UNCHANGED answer
      \/ \E kind \in {"invalid_input", "approval_required", "failed"} : Ends(c, "allowed", kind)
  BY DEF Validate
<1>3. CASE Goes(c, "allowed", "preparing") /\ UNCHANGED answer
  BY <1>0, <1>1, <1>3, GoesOn
     DEF Goes, ToolTypeOK, LocalsFit, Stages, Authenticated, Validated, Bound, Leaving
<1>4. ASSUME NEW kind \in {"invalid_input", "approval_required", "failed"}, Ends(c, "allowed", kind)
      PROVE  ToolInv'
  BY <1>0, <1>1, <1>4, EndsInFailure DEF Goes, Ends, ToolTypeOK, Raised, Refusals, Leaving
<1>q. QED
  BY <1>2, <1>3, <1>4

(* The approver sees what the call holds, and the call goes on holding it. *)
LEMMA ApprovalKeeps ==
  ASSUME ToolInv, NEW c \in Callers, _runner(c) \/ _approved(c) PROVE ToolInv'
<1> USE DEF Goes, Ends, Stages, Authenticated, Validated, Bound, Leaving
<1>0. ToolTypeOK /\ LocalsFit
  BY DEF ToolInv
<1>1. CASE _runner(c)
  <2>1. CASE Goes(c, "preparing", "approving") /\ UNCHANGED answer
    BY <1>0, <1>1, <2>1, GoesOn DEF _runner, ToolTypeOK, LocalsFit
  <2>2. CASE /\ Goes(c, "preparing", "ready") /\ UNCHANGED answer
             /\ asking[c].tool \notin Destructive
    BY <1>0, <1>1, <2>2, GoesOn DEF _runner, ToolTypeOK, LocalsFit
  <2>3. CASE Ends(c, "preparing", "error")
    BY <1>0, <1>1, <2>3, EndsInFailure DEF _runner, ToolTypeOK, Refusals
  <2>q. QED
    BY <1>1, <2>1, <2>2, <2>3 DEF _runner
<1>2. CASE _approved(c)
  <2>1. CASE /\ Goes(c, "approving", "ready") /\ UNCHANGED answer
             /\ granted' = granted \cup {<<principal[c], asking[c].tool, kwargs[c]>>}
    BY <1>0, <1>2, <2>1, GoesOn DEF _approved, ToolTypeOK, LocalsFit
  <2>2. ASSUME NEW kind \in {"approval_denied", "error"}, Ends(c, "approving", kind), UNCHANGED granted
        PROVE  ToolInv'
    BY <1>0, <1>2, <2>2, EndsInFailure DEF _approved, ToolTypeOK, Refusals
  <2>q. QED
    BY <1>2, <2>1, <2>2 DEF _approved
<1>q. QED
  BY <1>1, <1>2

(* A call that is given up without a commit, wherever it is, says nothing. *)
LEMMA CancelKeeps ==
  ASSUME ToolInv, NEW c \in Callers, at[c] # "done",
         at' = [at EXCEPT ![c] = "done"], answer' = [answer EXCEPT ![c] = "dropped"],
         flight' = [flight EXCEPT ![c] = "none"],
         UNCHANGED <<asking, principal, kwargs, granted, verdict, effects>>
  PROVE  ToolInv'
<1> USE DEF ToolInv
<1>1. ToolTypeOK'
  BY DEF ToolTypeOK, Stages
<1>2. LocalsFit'
  BY DEF ToolTypeOK, LocalsFit, Authenticated, Validated, Bound, Leaving
<1>3. EffectsFit' /\ AnswersFit' /\ FlightFits'
  BY DEF ToolTypeOK, EffectsFit, AnswersFit, FlightFits
<1>4. ApprovedIsRun' /\ AnswersTell'
  BY DEF ToolTypeOK, ApprovedIsRun, AnswersTell, Refusals
<1>q. QED
  BY <1>1, <1>2, <1>3, <1>4

LEMMA RunKeeps ==
  ASSUME ToolInv, NEW c \in Callers,
         RunUseCase(c) \/ CloseContext(c) \/ _invoke(c) \/ CancelCall(c)
  PROVE  ToolInv'
<1>0. ToolTypeOK /\ FlightFits
  BY DEF ToolInv
<1> USE DEF Goes, Ends
<1>1. CASE RunUseCase(c)
  <2>1. ASSUME NEW came \in Raised \cup {"ok", "invalid_result"},
               Goes(c, "ready", "returned"),
               flight' = [flight EXCEPT ![c] = came],
               verdict' = [verdict EXCEPT ![c] = came], UNCHANGED answer
        PROVE  ToolInv'
    <3>1. Leaves(c, "returned")
      BY <1>0, <1>1, <2>1 DEF RunUseCase, ToolTypeOK, Leaves
    <3>q. QED
      BY <3>1, LeavingKeeps
  <2>2. ASSUME NEW error \in Raised, Goes(c, "ready", "closed"),
               flight' = [flight EXCEPT ![c] = error], UNCHANGED <<verdict, answer>>
        PROVE  ToolInv'
    <3>1. Leaves(c, "closed")
      BY <1>0, <1>1, <2>2 DEF RunUseCase, ToolTypeOK, Leaves, Raised
    <3>q. QED
      BY <3>1, LeavingKeeps
  <2>3. ASSUME NEW error \in Raised, Ends(c, "ready", error), UNCHANGED <<flight, verdict>>
        PROVE  ToolInv'
    <3>1. Leaves(c, "done")
      BY <1>0, <1>1, <2>3 DEF RunUseCase, ToolTypeOK, Leaves
    <3>q. QED
      BY <3>1, LeavingKeeps
  <2>q. QED
    BY <1>1, <2>1, <2>2, <2>3 DEF RunUseCase
<1>2. CASE CloseContext(c)
  <2>0. /\ at[c] = "returned" /\ at' = [at EXCEPT ![c] = "closed"]
        /\ flight' = [flight EXCEPT ![c] = flight'[c]]
        /\ flight'[c] \in Raised \cup {flight[c]}
        /\ UNCHANGED <<asking, principal, kwargs, granted, verdict, answer>>
    BY <1>0, <1>2 DEF CloseContext, ToolTypeOK
  <2>1. CASE flight[c] = "ok" /\ effects' = Committed(c)
    BY <2>0, <2>1, CommitKeeps
  <2>2. CASE flight'[c] # "ok" /\ UNCHANGED effects
    <3>1. flight[c] \in Raised \cup {"ok", "invalid_result"}
      BY <1>0, <2>0 DEF FlightFits
    <3>2. /\ flight'[c] \in Raised \cup {"invalid_result"}
          /\ flight'[c] = "invalid_result" => flight[c] = "invalid_result"
      BY <2>0, <2>2, <3>1 DEF Raised
    <3>3. verdict' = [verdict EXCEPT ![c] = verdict'[c]] /\ answer' = [answer EXCEPT ![c] = answer'[c]]
      BY <1>0, <2>0 DEF ToolTypeOK
    <3>4. Leaves(c, "closed")
      BY <2>0, <2>2, <3>2, <3>3 DEF Leaves, Leaving
    <3>q. QED
      BY <3>4, LeavingKeeps
  <2>q. QED
    BY <1>2, <2>1, <2>2 DEF CloseContext
<1>3. CASE _invoke(c)
  <2>1. PICK kind \in Raised \cup {flight[c]} : Ends(c, "closed", kind)
    BY <1>3 DEF _invoke
  <2>2. verdict' = [verdict EXCEPT ![c] = verdict'[c]] /\ flight' = [flight EXCEPT ![c] = flight'[c]]
    BY <1>0, <1>3 DEF _invoke, ToolTypeOK
  <2>3. answer' = [answer EXCEPT ![c] = answer'[c]] /\ answer'[c] = kind
    BY <1>0, <2>1 DEF ToolTypeOK
  <2>4. Leaves(c, "done")
    BY <1>3, <2>1, <2>2, <2>3 DEF _invoke, Leaves, Leaving
  <2>q. QED
    BY <2>4, LeavingKeeps
<1>4. CASE CancelCall(c)
  <2>0. /\ at[c] \notin {"arriving", "done"} /\ at' = [at EXCEPT ![c] = "done"]
        /\ answer' = [answer EXCEPT ![c] = "dropped"]
        /\ flight' = [flight EXCEPT ![c] = "none"]
        /\ UNCHANGED <<asking, principal, kwargs, granted, verdict>>
    BY <1>4 DEF CancelCall
  <2>1. CASE UNCHANGED effects
    BY <1>0, <2>0, <2>1, CancelKeeps
  <2>2. CASE at[c] = "returned" /\ flight[c] = "ok" /\ effects' = Committed(c)
    BY <2>0, <2>2, CommitKeeps
  <2>q. QED
    BY <1>4, <2>1, <2>2 DEF CancelCall
<1>q. QED
  BY <1>1, <1>2, <1>3, <1>4

LEMMA ToolInductive == ToolInv /\ [ToolNext]_toolVars => ToolInv'
<1> SUFFICES ASSUME ToolInv, [ToolNext]_toolVars PROVE ToolInv'
  OBVIOUS
<1>1. ASSUME NEW c \in Callers, \/ CallTool(c) \/ _principal(c) \/ _is_allowed(c) \/ Validate(c) \/ _runner(c)
                                \/ _approved(c) \/ RunUseCase(c) \/ CloseContext(c) \/ _invoke(c) \/ CancelCall(c)
      PROVE  ToolInv'
  BY <1>1, AdmissionKeeps, ValidationKeeps, ApprovalKeeps, RunKeeps
<1>2. CASE ChangePolicy \/ UNCHANGED toolVars
  BY <1>2 DEF ChangePolicy, toolVars, ToolInv, ToolTypeOK, LocalsFit, EffectsFit, AnswersFit,
     FlightFits, ApprovedIsRun, AnswersTell
<1>q. QED
  BY <1>1, <1>2 DEF ToolNext

(* However many calls interleave and however often the policy changes:     *)
(* what a destructive tool does was approved as it is for the caller the   *)
(* call's own headers name; "ok" says that the call was committed, and a   *)
(* refusal or an invalid result that it was not; and only a use case that  *)
(* returned a valid result has its work committed, whatever the context's  *)
(* and the lifespan's ends raise and whenever the client gives up          *)
(* (call_tool, ToolRunner._invoke).                                        *)
THEOREM ToolsSound == ToolSpec => []ToolCallsAreSound
<1>1. ToolInv => ToolCallsAreSound
  BY DEF ToolInv, ToolCallsAreSound
<1>q. QED
  BY <1>1, ToolInitial, ToolInductive, PTL DEF ToolSpec

-----------------------------------------------------------------------------
(*****************************************************************************)
(* ClientRetry: any policy, any answers, and observers that take any time.   *)
(*****************************************************************************)
ClientSpec == ClientInit /\ [][ClientNext]_clientVars

ClientTypeOK ==
  /\ policy \in RetryPolicies
  /\ stage \in {"calling", "observing", "sleeping", "telling", "done"}
  /\ attempt \in Nat
  /\ {now, since, observed} \subseteq Nat /\ since <= now
  /\ wake \in Int
  /\ deadline \in Nat \cup {Nothing}
  /\ last \in Heard \cup {Nothing}
  /\ {raised, callOutcome, result} \subseteq Statuses \cup {Nothing}
  /\ told \in BOOLEAN

(* The deadline moves with the observers' time, and with nothing else;     *)
(* attempts and sleeps end by then.                                        *)
DeadlineFits ==
  /\ deadline = Nothing <=> policy.total = Nothing
  /\ stage \in {"calling", "observing", "sleeping"} /\ deadline # Nothing =>
       deadline = policy.total + observed
  /\ stage \in {"calling", "sleeping"} /\ deadline # Nothing => now <= deadline
  /\ stage = "observing" /\ deadline # Nothing => since <= deadline

(* What the attempt observers heard is what happens next: a wait that fits *)
(* is part of the announced delay, and leaves time to spare.               *)
AnnouncementFits ==
  /\ stage \in {"observing", "sleeping"} => last # Nothing
  /\ stage = "observing" => last.at = since /\ raised \in {Nothing, last.status}
  /\ stage \in {"observing", "sleeping"} /\ raised = Nothing =>
       /\ last.delay # Nothing
       /\ last.wait # Nothing =>
            last.delay >= last.wait /\ (deadline # Nothing => since + last.wait < deadline)
  /\ stage = "sleeping" => raised = Nothing /\ wake = since + last.delay /\ since >= last.at
  /\ stage = "calling" /\ attempt > 1 =>
       last # Nothing /\ (last.wait # Nothing => since >= last.at + last.wait)

(* A call has one outcome, made at its end.                                *)
OutcomeFits ==
  /\ stage \in {"calling", "observing", "sleeping"} => callOutcome = Nothing
  /\ stage = "telling" => raised # Nothing /\ callOutcome = raised
  /\ stage # "done" => ~told

ClientInv == ClientTypeOK /\ DeadlineFits /\ AnnouncementFits /\ OutcomeFits /\ EndsAreTold

LEMMA LargerOfTwo ==
  ASSUME NEW a \in Int, NEW b \in Int
  PROVE  Max({a, b}) \in Int /\ Max({a, b}) >= a /\ Max({a, b}) >= b
<1>1. \E x \in {a, b} : \A y \in {a, b} : x >= y
  OBVIOUS
<1>q. QED
  BY <1>1 DEF Max

LEMMA SmallerOfTwo ==
  ASSUME NEW a \in Int, NEW b \in Int
  PROVE  Min({a, b}) \in Int
<1>1. \E x \in {a, b} : \A y \in {a, b} : x =< y
  OBVIOUS
<1>q. QED
  BY <1>1 DEF Min

LEMMA PoliciesAreValid ==
  ASSUME NEW p \in RetryPolicies
  PROVE  /\ p.attempts \in Nat \ {0} /\ p.max \in Nat
         /\ p.total \in Nat \cup {Nothing}
  BY ClientRetryAssumption DEF Policy

LEMMA BackoffsAreNumbers ==
  ASSUME policy \in RetryPolicies, NEW n
  PROVE  Backoffs(n) \subseteq Int
<1> DEFINE base == policy.base * 2 ^ (n - 1)
           spread == (base * policy.jitter) \div 10
           range == (base - spread)..(base + spread)
<1>1. range \subseteq Int
  OBVIOUS
<1>2. Backoffs(n) = {Min({policy.max, d}) : d \in range}
  BY DEF Backoffs
<1> HIDE DEF range
<1>3. ASSUME NEW d \in range PROVE Min({policy.max, d}) \in Int
  BY <1>1, PoliciesAreValid, SmallerOfTwo
<1>q. QED
  BY <1>2, <1>3

(* A delay covers the wait it was made for, and the wait fits.             *)
LEMMA DelaysCoverTheWait ==
  ASSUME ClientTypeOK, NEW w \in Waits \cup {Nothing}, NEW delay \in Delays(w)
  PROVE  /\ delay \in Int \cup {Nothing}
         /\ delay # Nothing /\ w # Nothing =>
              delay >= w /\ (deadline # Nothing => w < deadline - now)
<1>1. CASE Fits(w)
  <2>1. PICK b \in Backoffs(attempt) : delay = Max({b, IF w = Nothing THEN 0 ELSE w})
    BY <1>1 DEF Delays
  <2>2. b \in Int /\ (IF w = Nothing THEN 0 ELSE w) \in Int
    BY <2>1, BackoffsAreNumbers, ClientRetryAssumption DEF ClientTypeOK
  <2>3. delay \in Int /\ delay >= (IF w = Nothing THEN 0 ELSE w)
    BY <2>1, <2>2, LargerOfTwo
  <2>q. QED
    BY <1>1, <2>3 DEF Fits
<1>2. CASE ~Fits(w)
  BY <1>2 DEF Delays
<1>q. QED
  BY <1>1, <1>2

LEMMA ClientInitial == ClientInit => ClientInv
<1> SUFFICES ASSUME ClientInit PROVE ClientInv
  OBVIOUS
<1> USE DEF ClientInit
<1>1. ClientTypeOK
  <2>1. deadline \in Nat \cup {Nothing}
    BY PoliciesAreValid
  <2>2. told \in BOOLEAN
    BY Zenon
  <2>3. /\ {now, since, observed} \subseteq Nat /\ since <= now /\ wake \in Int /\ attempt \in Nat
        /\ {raised, callOutcome, result} \subseteq Statuses \cup {Nothing}
    OBVIOUS
  <2>q. QED
    BY <2>1, <2>2, <2>3 DEF ClientTypeOK
<1>2. DeadlineFits
  BY PoliciesAreValid, ClientRetryAssumption DEF DeadlineFits
<1>3. AnnouncementFits /\ OutcomeFits /\ EndsAreTold
  BY DEF AnnouncementFits, OutcomeFits, EndsAreTold
<1>q. QED
  BY <1>1, <1>2, <1>3 DEF ClientInv

(* However an attempt ends, what is heard of it fits.                      *)
LEMMA FinishKeeps ==
  ASSUME ClientInv, NEW ending \in Statuses, NEW selected \in BOOLEAN,
         NEW delay \in Int \cup {Nothing},
         NEW wanted \in Waits \cup {Nothing}, NEW wait \in Waits \cup {Nothing},
         Finish(ending, selected, delay, wanted, wait),
         delay # Nothing /\ wait # Nothing =>
           delay >= wait /\ (deadline # Nothing => wait < deadline - now)
  PROVE  ClientInv'
<1> DEFINE heard == [attempt |-> attempt, status |-> ending,
                     willRetry |-> selected /\ delay # Nothing,
                     delay |-> delay, at |-> now, asked |-> wanted, wait |-> wait]
<1> USE DEF ClientInv, Finish, Enter, Hear
<1>1. heard \in Heard
  BY DEF Heard, ClientTypeOK
<1>2. /\ last' = heard /\ last'.status = ending /\ last'.delay = delay
      /\ last'.at = now /\ last'.wait = wait
  OBVIOUS
<1> HIDE DEF heard
<1>3. ClientTypeOK'
  BY <1>1, <1>2 DEF ClientTypeOK
<1>4. DeadlineFits'
  BY DEF DeadlineFits, ClientTypeOK
<1>5. AnnouncementFits'
  <2>1. last' # Nothing
    BY <1>1, <1>2, ClientRetryAssumption DEF Heard
  <2>2. raised' \in {Nothing, ending} /\ (raised' = Nothing => delay # Nothing)
    BY ClientRetryAssumption
  <2>3. since' = now /\ stage' = "observing" /\ deadline' = deadline
    OBVIOUS
  <2>4. wait # Nothing => wait \in Nat
    BY ClientRetryAssumption
  <2>q. QED
    BY <1>2, <2>1, <2>2, <2>3, <2>4, ClientRetryAssumption DEF AnnouncementFits, ClientTypeOK
<1>6. OutcomeFits' /\ EndsAreTold'
  BY DEF OutcomeFits, EndsAreTold
<1>q. QED
  BY <1>3, <1>4, <1>5, <1>6

LEMMA AttemptKeeps ==
  ASSUME ClientInv, Succeed \/ Reject \/ BreakOff \/ Fail \/ AttemptExpires \/ AttemptCancelled
  PROVE  ClientInv'
<1>0. ClientTypeOK
  BY DEF ClientInv
<1>1. CASE \E ending \in Statuses : Finish(ending, FALSE, Nothing, Nothing, Nothing)
  BY <1>1, FinishKeeps
<1>2. CASE Reject
  <2>1. PICK r \in Replies :
          \E delay \in IF Selected(r) THEN Delays(Heeded(r)) ELSE {Nothing} :
            Finish(r.status, Selected(r), delay, r.after, Heeded(r))
    BY <1>2 DEF Reject
  <2>2. PICK delay \in IF Selected(r) THEN Delays(Heeded(r)) ELSE {Nothing} :
          Finish(r.status, Selected(r), delay, r.after, Heeded(r))
    BY <2>1
  <2>3. /\ r.status \in Statuses /\ r.after \in Waits \cup {Nothing}
        /\ Heeded(r) \in Waits \cup {Nothing} /\ Selected(r) \in BOOLEAN
    BY DEF Replies, Statuses, Heeded, Selected
  <2>4. /\ delay \in Int \cup {Nothing}
        /\ delay # Nothing /\ Heeded(r) # Nothing =>
             delay >= Heeded(r) /\ (deadline # Nothing => Heeded(r) < deadline - now)
    BY <1>0, <2>2, <2>3, DelaysCoverTheWait
  <2>q. QED
    BY <2>2, <2>3, <2>4, FinishKeeps
<1>3. CASE BreakOff
  <2>1. PICK selected \in BOOLEAN :
          \E delay \in IF selected THEN Backoffs(attempt) ELSE {Nothing} :
            Finish("transport_error", selected, delay, Nothing, Nothing)
    BY <1>3 DEF BreakOff
  <2>3. PICK delay \in IF selected THEN Backoffs(attempt) ELSE {Nothing} :
          Finish("transport_error", selected, delay, Nothing, Nothing)
    BY <2>1
  <2>2. delay \in Int \cup {Nothing}
    BY <1>0, <2>3, BackoffsAreNumbers DEF ClientTypeOK
  <2>q. QED
    BY <2>2, <2>3, FinishKeeps DEF Statuses
<1>q. QED
  BY <1>1, <1>2, <1>3 DEF Succeed, Fail, AttemptExpires, AttemptCancelled, Statuses

LEMMA TryAgainKeeps == ClientInv /\ TryAgain => ClientInv'
<1> SUFFICES ASSUME ClientInv, TryAgain PROVE ClientInv'
  OBVIOUS
<1> USE DEF ClientInv, TryAgain, Enter
<1>0. last \in Heard /\ last.delay \in Int /\ last.at \in Nat /\ last.at = since
      /\ (last.wait # Nothing => last.wait \in Nat)
  BY ClientRetryAssumption DEF ClientTypeOK, AnnouncementFits, Heard
<1>1. ClientTypeOK'
  BY <1>0, ClientRetryAssumption DEF ClientTypeOK
<1>2. DeadlineFits'
  BY PoliciesAreValid, ClientRetryAssumption DEF DeadlineFits, ClientTypeOK
<1>3. AnnouncementFits'
  BY <1>0, ClientRetryAssumption DEF AnnouncementFits, ClientTypeOK
<1>4. OutcomeFits' /\ EndsAreTold'
  BY DEF OutcomeFits, EndsAreTold
<1>q. QED
  BY <1>1, <1>2, <1>3, <1>4

LEMMA WakeKeeps == ClientInv /\ Wake => ClientInv'
<1> SUFFICES ASSUME ClientInv, Wake PROVE ClientInv'
  OBVIOUS
<1> USE DEF ClientInv, Wake, Enter
<1>0. last \in Heard /\ last.delay \in Int /\ last.at \in Nat
      /\ (last.wait # Nothing => last.wait \in Nat)
  BY ClientRetryAssumption DEF ClientTypeOK, AnnouncementFits, Heard
<1>1. ClientTypeOK'
  BY DEF ClientTypeOK
<1>2. DeadlineFits'
  BY DEF DeadlineFits
<1>3. AnnouncementFits'
  BY <1>0 DEF AnnouncementFits, ClientTypeOK
<1>4. OutcomeFits' /\ EndsAreTold'
  BY DEF OutcomeFits, EndsAreTold
<1>q. QED
  BY <1>1, <1>2, <1>3, <1>4

LEMMA EndingKeeps ==
  ASSUME ClientInv, SleepExpires \/ Conclude \/ ObserversCancelled \/ SleepCancelled
  PROVE  ClientInv'
<1>1. PICK ending \in Statuses : End(ending) /\ observed' \in {observed, observed + (now - since)}
  BY DEF SleepExpires, Conclude, ObserversCancelled, SleepCancelled, End, Statuses, ClientInv, ClientTypeOK
<1>2. stage \in {"observing", "sleeping"}
  BY DEF SleepExpires, Conclude, ObserversCancelled, SleepCancelled
<1> USE DEF ClientInv, End, Enter
<1>3. ClientTypeOK'
  BY <1>1 DEF ClientTypeOK
<1>4. DeadlineFits' /\ AnnouncementFits'
  BY <1>1 DEF DeadlineFits, AnnouncementFits
<1>5. OutcomeFits' /\ EndsAreTold'
  BY <1>1, <1>2, ClientRetryAssumption DEF OutcomeFits, EndsAreTold
<1>q. QED
  BY <1>3, <1>4, <1>5

LEMMA ReturnKeeps == ASSUME ClientInv, Return \/ HandlerCancelled PROVE ClientInv'
<1> USE DEF ClientInv, Return, HandlerCancelled, Enter, Handling
<1>1. ClientTypeOK'
  <2>1. told' \in BOOLEAN
    BY Zenon DEF ClientTypeOK
  <2>2. result' \in Statuses \cup {Nothing} /\ raised' \in Statuses \cup {Nothing}
    BY DEF ClientTypeOK, Statuses
  <2>q. QED
    BY <2>1, <2>2 DEF ClientTypeOK
<1>2. DeadlineFits'
  BY DEF DeadlineFits
<1>4. stage' = "done"
  OBVIOUS
<1>5. AnnouncementFits' /\ OutcomeFits'
  BY <1>4 DEF AnnouncementFits, OutcomeFits
<1>3. EndsAreTold'
  BY ClientRetryAssumption DEF OutcomeFits, AnnouncementFits, EndsAreTold, Statuses
<1>q. QED
  BY <1>1, <1>2, <1>3, <1>5

LEMMA ClientTickKeeps == ClientInv /\ ClientTick => ClientInv'
<1> SUFFICES ASSUME ClientInv, ClientTick PROVE ClientInv'
  OBVIOUS
<1> USE DEF ClientInv, ClientTick, Expired
<1>1. ClientTypeOK'
  BY DEF ClientTypeOK
<1>2. DeadlineFits'
  BY DEF DeadlineFits, ClientTypeOK
<1>3. AnnouncementFits' /\ OutcomeFits' /\ EndsAreTold'
  BY DEF AnnouncementFits, OutcomeFits, EndsAreTold
<1>q. QED
  BY <1>1, <1>2, <1>3

LEMMA ClientInductive == ClientInv /\ [ClientNext]_clientVars => ClientInv'
<1> SUFFICES ASSUME ClientInv, [ClientNext]_clientVars PROVE ClientInv'
  OBVIOUS
<1>1. CASE ClientNext
  BY <1>1, AttemptKeeps, TryAgainKeeps, WakeKeeps, EndingKeeps, ReturnKeeps, ClientTickKeeps
     DEF ClientNext, Loop, Remote, CallerCancels
<1>2. CASE UNCHANGED clientVars
  BY <1>2 DEF clientVars, ClientInv, ClientTypeOK, DeadlineFits, AnnouncementFits, OutcomeFits,
     EndsAreTold
<1>q. QED
  BY <1>1, <1>2

(* A Retry-After the client goes by is honoured, for any policies, waits,  *)
(* observers and cancellations: the next attempt comes no earlier, and a   *)
(* wait that fits is slept to its end (_retry_delay, _run_attempts).  It   *)
(* does not go by the header of an error selected by its code whose        *)
(* definition declares none (_app_error_retry_after).                      *)
THEOREM RetryAfterHonoured == ClientSpec => []HonoursRetryAfter
<1>1. ClientInv => HonoursRetryAfter
  <2> SUFFICES ASSUME ClientInv PROVE HonoursRetryAfter
    OBVIOUS
  <2>1. last # Nothing => last \in Heard
    BY DEF ClientInv, ClientTypeOK
  <2>q. QED
    BY <2>1, ClientRetryAssumption
       DEF ClientInv, ClientTypeOK, AnnouncementFits, HonoursRetryAfter, Heard
<1>q. QED
  BY <1>1, ClientInitial, ClientInductive, PTL DEF ClientSpec

(* Attempts and backoff stay within the total timeout, however long the    *)
(* observers take (total_timeout_seconds).                                 *)
THEOREM TotalTimeoutKept == ClientSpec => []BudgetKept
<1>1. ClientInv => BudgetKept
  BY PoliciesAreValid, ClientRetryAssumption DEF ClientInv, ClientTypeOK, DeadlineFits, BudgetKept
<1>q. QED
  BY <1>1, ClientInitial, ClientInductive, PTL DEF ClientSpec

(* The call observers hear what the caller gets, unless a cancellation     *)
(* interrupts the telling (_notify_client_observers).                      *)
THEOREM CallEndsAreTold == ClientSpec => []EndsAreTold
<1>1. ClientInv => EndsAreTold
  BY DEF ClientInv
<1>q. QED
  BY <1>1, ClientInitial, ClientInductive, PTL DEF ClientSpec

-----------------------------------------------------------------------------
(*****************************************************************************)
(* RateLimit: any rules, costs and identities, either store, and a clock     *)
(* that may be set back.                                                     *)
(*****************************************************************************)
RateSpec == RateInit /\ [][RateNext]_rateVars

(* What an identity has been granted, tick by tick. *)
Ledgers == [rule : Rules \cup {None}, by : [0..Horizon -> Nat]]

RateTypeOK ==
  /\ store \in Stores
  /\ windows \in [Identities -> Windows \cup {None}]
  /\ storeClock \in Int
  /\ elapsed \in 0..Horizon
  /\ rule \in [Identities -> Rules]
  /\ spent \in [Identities -> Ledgers]
  /\ setBack \in BOOLEAN

(* Nothing is granted in the future, and nothing is taken back. *)
Grows(s, moment) ==
  /\ \A t, u \in Int : t <= u => GrantedBy(s, t) <= GrantedBy(s, u)
  /\ \A t \in Int : t >= moment => GrantedBy(s, t) = GrantedBy(s, moment)

(* A window is of the rule the grants are counted under. *)
SameRule(w, s) ==
  w # None => s.rule # None /\ w.limit = s.rule.limit /\ w.length = s.rule.length

(* o is when the last window was opened: what was granted from then on is  *)
(* in it, and it does not close before its length has passed, whatever the *)
(* clock reads; what was granted in a window's length before is bounded    *)
(* too.                                                                    *)
OpenedAt(o, w, s, reading, moment) ==
  /\ Granted(s, o, moment) <= s.rule.limit
  /\ Granted(s, o - s.rule.length, o - 1) <= s.rule.limit
  /\ w # None => /\ w.used = Granted(s, o, moment)
                 /\ w.resets - reading >= o + s.rule.length - moment
  /\ w = None => o + s.rule.length <= moment

(* What was granted just now is in a window that is still open. *)
JustGranted(w, s, reading, moment) ==
  Granted(s, moment, moment) # 0 => w # None /\ w.resets > reading

Bounded(s) ==
  \A t \in 0..Horizon : Granted(s, t, t + s.rule.length - 1) <= 2 * s.rule.limit

CountsFit(w, s, reading, moment) ==
  /\ Grows(s, moment)
  /\ SameRule(w, s)
  /\ s.rule # None =>
       /\ \E o \in 0..moment : OpenedAt(o, w, s, reading, moment)
       /\ JustGranted(w, s, reading, moment)
       /\ Bounded(s)

RateInv ==
  /\ RateTypeOK
  /\ \A i \in Identities : CountsFit(windows[i], spent[i], storeClock, elapsed)
  /\ RetryAfterIsExact

LEMMA CeilingDivides ==
  ASSUME NEW x \in Nat \ {0}, NEW S \in Nat \ {0}
  PROVE  LET s == (x + S - 1) \div S IN
         /\ s \in Nat \ {0}
         /\ s * S \in x..(x + S - 1)
  BY Z3T(30)

LEMMA RuleIsPolicy ==
  ASSUME NEW p \in Rules
  PROVE  p # None /\ p.limit \in Nat \ {0} /\ p.length \in Nat \ {0}
  BY RateLimitAssumption, FixedWindowAssumption DEF Policies

LEMMA GrantedIsNat ==
  ASSUME NEW s \in Ledgers, NEW t \in Int
  PROVE  GrantedBy(s, t) \in Nat
  BY RateLimitAssumption DEF Ledgers, GrantedBy

LEMMA CreditCounts ==
  ASSUME NEW s \in Ledgers, NEW p \in Rules, NEW cost \in Costs, elapsed \in 0..Horizon
  PROVE  /\ Credited(s, p, cost) \in Ledgers
         /\ Credited(s, p, cost).rule = p
         /\ \A t \in Int : GrantedBy(Credited(s, p, cost), t) =
              (IF s.rule = p THEN GrantedBy(s, t) ELSE 0) + (IF t >= elapsed THEN cost ELSE 0)
<1>1. cost \in Nat /\ Horizon \in Nat
  BY RateLimitAssumption
<1>2. \A t \in 0..Horizon : s.by[t] \in Nat
  BY DEF Ledgers
<1>3. Credited(s, p, cost).rule = p
  BY DEF Credited
<1>4. Credited(s, p, cost) \in Ledgers
  BY <1>1, <1>2 DEF Credited, Ledgers
<1>5. ASSUME NEW t \in Int
      PROVE  GrantedBy(Credited(s, p, cost), t) =
               (IF s.rule = p THEN GrantedBy(s, t) ELSE 0) + (IF t >= elapsed THEN cost ELSE 0)
  BY <1>1, <1>2 DEF Credited, GrantedBy
<1>q. QED
  BY <1>3, <1>4, <1>5

(* The old grants and the bound of those to come. *)
LEMMA BoundFromOpening ==
  ASSUME NEW s \in Ledgers, s.rule \in Rules, NEW moment \in 0..Horizon, NEW w, NEW reading \in Int,
         Grows(s, moment), NEW o \in 0..moment, OpenedAt(o, w, s, reading, moment),
         NEW t \in Int, t + s.rule.length - 1 >= o
  PROVE  Granted(s, t, t + s.rule.length - 1) <= 2 * s.rule.limit
<1> DEFINE L == s.rule.length
           B == s.rule.limit
           g(u) == GrantedBy(s, u)
<1>1. L \in Nat \ {0} /\ B \in Nat \ {0} /\ Horizon \in Nat /\ moment \in Nat /\ o \in Nat
  BY RuleIsPolicy, RateLimitAssumption
<1>2. \A u \in Int : g(u) \in Nat
  BY GrantedIsNat
<1>3. g(moment) - g(o - 1) <= B /\ g(o - 1) - g(o - L - 1) <= B
  BY <1>1 DEF OpenedAt, Granted
<1>4. g(t + L - 1) <= g(moment)
  <2>1. CASE t + L - 1 >= moment
    BY <2>1, <1>1, <1>2 DEF Grows
  <2>2. CASE t + L - 1 <= moment
    BY <2>2, <1>1, <1>2 DEF Grows
  <2>q. QED
    BY <2>1, <2>2, <1>1
<1>5. g(t - 1) >= g(o - L - 1)
  <2>1. o - L - 1 \in Int /\ t - 1 \in Int /\ o - L - 1 <= t - 1
    BY <1>1
  <2>q. QED
    BY <2>1 DEF Grows
<1>6. g(t + L - 1) - g(t - 1) <= 2 * B
  <2>1. g(t + L - 1) \in Nat /\ g(t - 1) \in Nat /\ g(moment) \in Nat /\ g(o - 1) \in Nat /\ g(o - L - 1) \in Nat
    BY <1>1, <1>2
  <2>q. QED
    BY <2>1, <1>1, <1>3, <1>4, <1>5
<1>q. QED
  BY <1>6 DEF Granted

LEMMA CreditGrows ==
  ASSUME NEW s \in Ledgers, NEW p \in Rules, NEW cost \in Costs, elapsed \in 0..Horizon,
         Grows(s, elapsed)
  PROVE  Grows(Credited(s, p, cost), elapsed)
<1> DEFINE n == Credited(s, p, cost)
<1>1. cost \in Nat /\ Horizon \in Nat /\ elapsed \in Nat
  BY RateLimitAssumption
<1>2. \A t \in Int : GrantedBy(s, t) \in Nat
  BY GrantedIsNat
<1>3. \A t \in Int : GrantedBy(n, t) =
        (IF s.rule = p THEN GrantedBy(s, t) ELSE 0) + (IF t >= elapsed THEN cost ELSE 0)
  BY CreditCounts
<1> HIDE DEF n
<1>4. Grows(n, elapsed)
  BY <1>1, <1>2, <1>3 DEF Grows
<1>q. QED
  BY <1>4 DEF n

(* A permit counts against the window it is given in: one that is open, or *)
(* one that opens now.                                                     *)
LEMMA PermitKeeps ==
  ASSUME storeClock \in Int, elapsed \in 0..Horizon,
         NEW s \in Ledgers, NEW w \in Windows \cup {None},
         NEW p \in Rules, NEW cost \in Costs, cost <= p.limit,
         CountsFit(w, s, storeClock, elapsed),
         Decision(w, p, cost, storeClock).got = "permit"
  PROVE  /\ Window(w, p, cost, storeClock) \in Windows
         /\ CountsFit(Window(w, p, cost, storeClock), Credited(s, p, cost), storeClock, elapsed)
<1> DEFINE c == Current(w, storeClock)
           v == Window(w, p, cost, storeClock)
           n == Credited(s, p, cost)
           g(t) == GrantedBy(s, t)
           h(t) == GrantedBy(n, t)
           L == p.length
           B == p.limit
<1>0. p \in Policies /\ L \in Nat \ {0} /\ B \in Nat \ {0} /\ p # None
  BY RuleIsPolicy, RateLimitAssumption
<1>1. cost \in Nat /\ cost > 0 /\ Horizon \in Nat /\ elapsed \in Nat
  BY RateLimitAssumption
<1>2. n \in Ledgers /\ n.rule = p
  BY CreditCounts
<1>3. \A t \in Int : h(t) = (IF s.rule = p THEN g(t) ELSE 0) + (IF t >= elapsed THEN cost ELSE 0)
  BY CreditCounts
<1>4. \A t \in Int : g(t) \in Nat /\ h(t) \in Nat
  BY GrantedIsNat, <1>2
<1>5. Grows(n, elapsed)
  BY CreditGrows DEF CountsFit
<1>6. Grows(s, elapsed) /\ SameRule(w, s)
  BY DEF CountsFit
<1>7. ASSUME s.rule # p
      PROVE  Opens(c, p)
  <2>1. SUFFICES ASSUME c # None, c.limit = p.limit, c.length = p.length
                 PROVE  FALSE
    BY DEF Opens
  <2>2. c = w /\ w # None
    BY <2>1 DEF Current
  <2>3. s.rule # None /\ s.rule.limit = p.limit /\ s.rule.length = p.length
    BY <2>1, <2>2, <1>6 DEF SameRule
  <2>4. s.rule \in Policies
    BY <2>3, RateLimitAssumption DEF Ledgers
  <2>5. s.rule = p
    BY <2>3, <2>4, <1>0 DEF Policies
  <2>q. QED
    BY <2>5, <1>7
<1>8. CASE Opens(c, p)
  <2>1. v = Opened(p, cost, storeClock)
    BY <1>8 DEF Window
  <2>2. /\ v \in Windows /\ v # None
        /\ v.limit = B /\ v.length = L /\ v.used = cost /\ v.resets = storeClock + L
    BY <2>1, <1>0, <1>1, FixedWindowAssumption DEF Opened, Windows
  <2>3. SameRule(v, n)
    BY <2>2, <1>2, <1>0 DEF SameRule
  <2>4. h(elapsed - 1) - h(elapsed - L - 1) <= B /\ h(elapsed) - h(elapsed - 1) = cost
    <3>1. elapsed - 1 \in Int /\ elapsed - L - 1 \in Int
      BY <1>0, <1>1
    <3>2. CASE s.rule # p
      <4>1. h(elapsed - 1) = 0 /\ h(elapsed) = cost /\ h(elapsed - L - 1) = 0
        BY <3>1, <3>2, <1>3, <1>0, <1>1
      <4>q. QED
        BY <4>1, <1>0, <1>1
    <3>3. CASE s.rule = p
      <4>1. c = None
        BY <3>3, <1>6, <1>8 DEF Opens, SameRule, Current
      <4>2. w = None \/ ~(w.resets > storeClock)
        BY <4>1 DEF Current
      <4>3. PICK o \in 0..elapsed : OpenedAt(o, w, s, storeClock, elapsed)
        BY <3>3, <1>0 DEF CountsFit
      <4>4. o + L <= elapsed
        <5>1. CASE w = None
          BY <5>1, <4>3, <3>3 DEF OpenedAt
        <5>2. CASE w # None
          <6>1. w.resets \in Int
            BY <5>2 DEF Windows
          <6>2. w.resets - storeClock >= o + L - elapsed
            BY <5>2, <4>3, <3>3 DEF OpenedAt
          <6>3. ~(w.resets > storeClock)
            BY <5>2, <4>2
          <6>q. QED
            BY <6>1, <6>2, <6>3, <1>0, <1>1
        <5>q. QED
          BY <5>1, <5>2
      <4>5. g(elapsed) - g(elapsed - 1) = 0
        BY <4>2, <3>3, <1>0 DEF CountsFit, JustGranted, Granted
      <4>6. g(elapsed) - g(o - 1) <= B
        BY <4>3, <3>3 DEF OpenedAt, Granted
      <4>7. g(o - 1) <= g(elapsed - L - 1)
        <5>1. o - 1 \in Int /\ o - 1 <= elapsed - L - 1
          BY <4>4, <1>0, <1>1
        <5>q. QED
          BY <5>1, <3>1, <1>6 DEF Grows
      <4>8. /\ h(elapsed - 1) = g(elapsed - 1) /\ h(elapsed) = g(elapsed) + cost
            /\ h(elapsed - L - 1) = g(elapsed - L - 1)
        BY <3>1, <3>3, <1>3, <1>4, <1>0, <1>1
      <4>9. g(elapsed) \in Nat /\ g(elapsed - 1) \in Nat /\ g(o - 1) \in Nat /\ g(elapsed - L - 1) \in Nat
        BY <3>1, <1>4, <1>1
      <4>q. QED
        BY <4>5, <4>6, <4>7, <4>8, <4>9, <1>0, <1>1
    <3>q. QED
      BY <3>2, <3>3
  <2>5. OpenedAt(elapsed, v, n, storeClock, elapsed)
    <3>1. Granted(n, elapsed, elapsed) = cost /\ Granted(n, elapsed - L, elapsed - 1) <= B
      BY <2>4, <1>0, <1>1 DEF Granted
    <3>q. QED
      BY <3>1, <2>2, <1>0, <1>1, <1>2 DEF OpenedAt
  <2>6. JustGranted(v, n, storeClock, elapsed)
    BY <2>2, <1>0 DEF JustGranted
  <2>7. Bounded(n)
    <3> SUFFICES ASSUME NEW t \in 0..Horizon
                 PROVE  Granted(n, t, t + L - 1) <= 2 * B
      BY <1>2 DEF Bounded
    <3>1. CASE t + L - 1 >= elapsed
      <4>1. n.rule \in Rules /\ t \in Int /\ t + n.rule.length - 1 >= elapsed /\ elapsed \in 0..elapsed
        BY <3>1, <1>1, <1>2
      <4> HIDE DEF n, v
      <4>2. Granted(n, t, t + n.rule.length - 1) <= 2 * n.rule.limit
        BY <4>1, <2>5, <1>2, <1>5, BoundFromOpening
      <4>q. QED
        BY <4>2, <1>2
    <3>2. CASE t + L - 1 < elapsed
      <4>1. t - 1 \in Int /\ t + L - 1 \in Int /\ t - 1 < elapsed
        BY <3>2, <1>0, <1>1
      <4>2. CASE s.rule = p
        <5>1. h(t + L - 1) = g(t + L - 1) /\ h(t - 1) = g(t - 1)
          BY <3>2, <4>1, <4>2, <1>3, <1>4, <1>1
        <5>2. g(t + L - 1) - g(t - 1) <= 2 * B
          BY <4>2, <1>0 DEF CountsFit, Bounded, Granted
        <5>q. QED
          BY <5>1, <5>2 DEF Granted
      <4>3. CASE s.rule # p
        <5>1. h(t + L - 1) = 0 /\ h(t - 1) = 0
          BY <3>2, <4>1, <4>3, <1>3, <1>1
        <5>q. QED
          BY <5>1, <1>0 DEF Granted
      <4>q. QED
        BY <4>2, <4>3
    <3>q. QED
      BY <3>1, <3>2, <1>0, <1>1
  <2>q. QED
    BY <2>2, <2>3, <2>5, <2>6, <2>7, <1>5, <1>1 DEF CountsFit
<1>9. CASE ~Opens(c, p)
  <2>1. s.rule = p /\ c = w /\ w # None /\ w.resets > storeClock /\ w.limit = B /\ w.length = L
    BY <1>7, <1>9 DEF Opens, Current
  <2>2. w \in Windows /\ w.used \in Nat /\ w.resets \in Int
    BY <2>1 DEF Windows
  <2>3. ~Overspends(w, cost)
    BY <1>9, <2>1 DEF Decision
  <2>4. w.used + cost <= B
    BY <2>1, <2>2, <2>3, <1>0, <1>1 DEF Overspends
  <2>5. v = [w EXCEPT !.used = @ + cost]
    BY <1>9, <2>1, <2>3 DEF Window
  <2>6. /\ v \in Windows /\ v # None
        /\ v.limit = B /\ v.length = L /\ v.used = w.used + cost /\ v.resets = w.resets
    BY <2>1, <2>2, <2>5, <1>1, FixedWindowAssumption DEF Windows
  <2>7. SameRule(v, n)
    BY <2>6, <1>2, <1>0 DEF SameRule
  <2>8. PICK o \in 0..elapsed : OpenedAt(o, w, s, storeClock, elapsed)
    BY <2>1, <1>0 DEF CountsFit
  <2>9. OpenedAt(o, v, n, storeClock, elapsed)
    <3>1. o - 1 \in Int /\ o - L - 1 \in Int /\ o - 1 < elapsed /\ o - L - 1 < elapsed
      BY <1>0, <1>1
    <3>2. h(elapsed) = g(elapsed) + cost /\ h(o - 1) = g(o - 1) /\ h(o - L - 1) = g(o - L - 1)
      BY <3>1, <2>1, <1>3, <1>4, <1>1
    <3>3. /\ g(elapsed) - g(o - 1) = w.used
          /\ g(o - 1) - g(o - L - 1) <= B
          /\ w.resets - storeClock >= o + L - elapsed
      <4>1. o - L - 1 = (o - L) - 1
        BY <1>0, <1>1
      <4>q. QED
        BY <4>1, <2>1, <2>8 DEF OpenedAt, Granted
    <3>4. g(elapsed) \in Nat /\ g(o - 1) \in Nat /\ g(o - L - 1) \in Nat
      BY <3>1, <1>1, <1>4
    <3>5. h(elapsed) - h(o - 1) = w.used + cost
      BY <3>2, <3>3, <3>4, <1>1
    <3>6. Granted(n, o, elapsed) = w.used + cost
      BY <3>5 DEF Granted
    <3>7. Granted(n, o - L, o - 1) <= B
      BY <3>2, <3>3, <1>0, <1>1 DEF Granted
    <3>q. QED
      BY <3>3, <3>6, <3>7, <2>4, <2>6, <1>2 DEF OpenedAt
  <2>10. JustGranted(v, n, storeClock, elapsed)
    BY <2>1, <2>6 DEF JustGranted
  <2>11. Bounded(n)
    <3> SUFFICES ASSUME NEW t \in 0..Horizon
                 PROVE  Granted(n, t, t + L - 1) <= 2 * B
      BY <1>2 DEF Bounded
    <3>1. CASE t + L - 1 >= o
      <4>1. n.rule \in Rules /\ t \in Int /\ t + n.rule.length - 1 >= o
        BY <3>1, <1>1, <1>2
      <4> HIDE DEF n, v
      <4>2. Granted(n, t, t + n.rule.length - 1) <= 2 * n.rule.limit
        BY <4>1, <2>9, <1>2, <1>5, BoundFromOpening
      <4>q. QED
        BY <4>2, <1>2
    <3>2. CASE t + L - 1 < o
      <4>1. t - 1 \in Int /\ t + L - 1 \in Int /\ t - 1 < elapsed /\ t + L - 1 < elapsed
        BY <3>2, <1>0, <1>1
      <4>2. h(t + L - 1) = g(t + L - 1) /\ h(t - 1) = g(t - 1)
        BY <4>1, <2>1, <1>3, <1>4, <1>1
      <4>3. g(t + L - 1) - g(t - 1) <= 2 * B
        BY <2>1, <1>0 DEF CountsFit, Bounded, Granted
      <4>q. QED
        BY <4>2, <4>3 DEF Granted
    <3>q. QED
      BY <3>1, <3>2, <1>0, <1>1
  <2>q. QED
    BY <2>6, <2>7, <2>9, <2>10, <2>11, <1>5, <1>1 DEF CountsFit
<1>q. QED
  BY <1>8, <1>9

(* Time that passes, a clock that is set back and the deletion of expired  *)
(* windows leave the bound alone.                                          *)
LEMMA LaterKeeps ==
  ASSUME NEW s \in Ledgers, NEW w \in Windows \cup {None},
         NEW reading \in Int, NEW moment \in 0..Horizon, CountsFit(w, s, reading, moment)
  PROVE  /\ moment < Horizon => CountsFit(w, s, reading + 1, moment + 1)
         /\ \A d \in Nat : CountsFit(w, s, reading - d, moment)
         /\ CountsFit(Current(w, reading), s, reading, moment)
<1> DEFINE L == s.rule.length
           g(t) == GrantedBy(s, t)
<1>0. Horizon \in Nat /\ moment \in Nat /\ \A t \in Int : g(t) \in Nat
  BY RateLimitAssumption, GrantedIsNat
<1>w. w # None => w.resets \in Int
  BY DEF Windows
<1>g. Grows(s, moment) /\ SameRule(w, s)
  BY DEF CountsFit
<1>1. CASE s.rule = None
  <2>1. w = None
    BY <1>1, <1>g DEF SameRule
  <2>2. Current(w, reading) = None
    BY <2>1 DEF Current
  <2>3. Grows(s, moment + 1)
    BY <1>g, <1>0 DEF Grows
  <2>q. QED
    BY <1>1, <2>1, <2>2, <2>3, <1>g DEF CountsFit, SameRule
<1>2. CASE s.rule # None
  <2>0. L \in Nat \ {0} /\ s.rule.limit \in Nat
    BY <1>2, RuleIsPolicy DEF Ledgers
  <2>1. PICK o \in 0..moment : OpenedAt(o, w, s, reading, moment)
    BY <1>2 DEF CountsFit
  <2>2. o \in Nat /\ o <= moment
    BY <1>0
  <2>3. ASSUME moment < Horizon
        PROVE  CountsFit(w, s, reading + 1, moment + 1)
    <3>1. g(moment + 1) = g(moment)
      BY <1>0, <1>g DEF Grows
    <3>2. Grows(s, moment + 1)
      BY <1>g, <1>0, <3>1 DEF Grows
    <3>3. Granted(s, o, moment + 1) = Granted(s, o, moment)
      BY <3>1 DEF Granted
    <3>4. OpenedAt(o, w, s, reading + 1, moment + 1)
      BY <2>0, <2>1, <2>2, <3>3, <1>0, <1>w DEF OpenedAt
    <3>5. JustGranted(w, s, reading + 1, moment + 1)
      <4>1. Granted(s, moment + 1, moment + 1) = 0
        BY <3>1, <1>0 DEF Granted
      <4>q. QED
        BY <4>1 DEF JustGranted
    <3>6. o \in 0..(moment + 1)
      BY <2>2, <1>0
    <3>q. QED
      BY <3>2, <3>4, <3>5, <3>6, <1>2, <1>g DEF CountsFit
  <2>4. ASSUME NEW d \in Nat
        PROVE  CountsFit(w, s, reading - d, moment)
    <3>1. OpenedAt(o, w, s, reading - d, moment)
      BY <2>0, <2>1, <2>2, <1>0, <1>w DEF OpenedAt
    <3>2. JustGranted(w, s, reading - d, moment)
      BY <1>2, <1>w DEF CountsFit, JustGranted
    <3>q. QED
      BY <3>1, <3>2, <1>2, <1>g DEF CountsFit
  <2>5. CASE Current(w, reading) = w
    BY <2>3, <2>4, <2>5
  <2>6. CASE Current(w, reading) = None /\ w # None
    <3>1. ~(w.resets > reading)
      BY <2>6 DEF Current
    <3>2. w.resets - reading >= o + L - moment
      BY <2>1, <2>6 DEF OpenedAt
    <3>3. o + L <= moment
      BY <3>1, <3>2, <2>0, <2>2, <1>0, <1>w, <2>6
    <3>4. OpenedAt(o, None, s, reading, moment)
      BY <2>1, <3>3 DEF OpenedAt
    <3>5. JustGranted(None, s, reading, moment)
      BY <3>1, <1>2 DEF CountsFit, JustGranted
    <3>6. CountsFit(None, s, reading, moment)
      BY <3>4, <3>5, <1>2, <1>g DEF CountsFit, SameRule
    <3>q. QED
      BY <3>6, <2>3, <2>4, <2>6
  <2>q. QED
    BY <2>5, <2>6 DEF Current
<1>q. QED
  BY <1>1, <1>2

LEMMA CurrentIsWindow ==
  ASSUME NEW w \in Windows \cup {None}, NEW reading \in Int
  PROVE  Current(w, reading) \in Windows \cup {None}
  BY DEF Current

(* The wait a refused caller is told ends with the window or less than a   *)
(* second after.                                                           *)
LEMMA RefusalWaits ==
  ASSUME NEW w \in Windows \cup {None}, NEW p \in Rules, NEW cost \in Costs, NEW reading \in Int,
         Decision(w, p, cost, reading).got = "exceeded"
  PROVE  /\ Window(w, p, cost, reading) = Current(w, reading)
         /\ reading + Decision(w, p, cost, reading).wait * Second \in
              Window(w, p, cost, reading).resets..(Window(w, p, cost, reading).resets + Second - 1)
<1> DEFINE c == Current(w, reading)
           x == c.resets - reading
           s == (x + Second - 1) \div Second
<1>1. ~Opens(c, p) /\ Overspends(c, cost)
  BY DEF Decision
<1>2. c # None /\ c = w /\ w \in Windows /\ w.resets > reading /\ w.resets \in Int
  BY <1>1 DEF Opens, Current, Windows
<1>3. Window(w, p, cost, reading) = c
  BY <1>1 DEF Window
<1>4. Second \in Nat \ {0}
  BY FixedWindowAssumption
<1>5. x \in Nat \ {0} /\ c.resets = reading + x
  BY <1>2
<1>6. s \in Nat \ {0} /\ s * Second \in x..(x + Second - 1)
  BY <1>4, <1>5, CeilingDivides
<1>7. Decision(w, p, cost, reading).wait = s
  <2>1. Decision(w, p, cost, reading).wait = RetryAfter(c, reading)
    BY <1>1 DEF Decision
  <2>q. QED
    BY <2>1, <1>6 DEF RetryAfter
<1> HIDE DEF s
<1>8. s * Second \in Int
  BY <1>6, <1>4
<1>9. reading + s * Second \in c.resets..(c.resets + Second - 1)
  BY <1>4, <1>5, <1>6, <1>8
<1>q. QED
  BY <1>3, <1>7, <1>9

LEMMA RateInitial == RateInit => RateInv
<1> SUFFICES ASSUME RateInit PROVE RateInv
  OBVIOUS
<1>1. \A i \in Identities : spent[i] \in Ledgers /\ spent[i].rule = None /\ windows[i] = None
  BY RateLimitAssumption DEF RateInit, Ledgers
<1>2. RateTypeOK
  <2>1. spent \in [Identities -> Ledgers]
    BY RateLimitAssumption DEF RateInit, Ledgers
  <2>2. windows \in [Identities -> Windows \cup {None}]
    BY DEF RateInit
  <2>3. storeClock \in Int /\ elapsed \in 0..Horizon
    BY RateLimitAssumption DEF RateInit
  <2>4. store \in Stores /\ rule \in [Identities -> Rules] /\ setBack \in BOOLEAN
    BY DEF RateInit
  <2>q. QED
    BY <2>1, <2>2, <2>3, <2>4 DEF RateTypeOK
<1>3. \A i \in Identities : \A t \in Int : GrantedBy(spent[i], t) = 0
  BY RateLimitAssumption DEF RateInit, GrantedBy
<1>4. ASSUME NEW i \in Identities PROVE CountsFit(windows[i], spent[i], storeClock, elapsed)
  <2>1. Grows(spent[i], elapsed)
    <3>1. elapsed = 0
      BY DEF RateInit
    <3>2. \A t \in Int : GrantedBy(spent[i], t) = 0
      BY <1>3
    <3>q. QED
      BY <3>1, <3>2 DEF Grows
  <2>q. QED
    BY <1>1, <2>1 DEF CountsFit, SameRule
<1>5. RetryAfterIsExact
  BY DEF RateInit, RetryAfterIsExact
<1>q. QED
  BY <1>2, <1>4, <1>5 DEF RateInv

LEMMA RateInductive == RateInv /\ [RateNext]_rateVars => RateInv'
<1> SUFFICES ASSUME RateInv, [RateNext]_rateVars PROVE RateInv'
  OBVIOUS
<1>0. /\ RateTypeOK
      /\ \A i \in Identities : /\ windows[i] \in Windows \cup {None} /\ spent[i] \in Ledgers /\ rule[i] \in Rules
                               /\ CountsFit(windows[i], spent[i], storeClock, elapsed)
      /\ storeClock \in Int /\ elapsed \in 0..Horizon /\ Horizon \in Nat
  BY RateLimitAssumption DEF RateInv, RateTypeOK
<1>c. \A i \in Identities : /\ Current(windows[i], storeClock) \in Windows \cup {None}
                            /\ CountsFit(Current(windows[i], storeClock), spent[i], storeClock, elapsed)
  BY <1>0, CurrentIsWindow, LaterKeeps
<1>1. ASSUME NEW i \in Identities, NEW cost \in Costs, Permit(i, cost) PROVE RateInv'
  <2> DEFINE v == Window(windows[i], rule[i], cost, storeClock)
             n == Credited(spent[i], rule[i], cost)
  <2>1. /\ v \in Windows /\ n \in Ledgers
        /\ CountsFit(v, n, storeClock, elapsed)
    BY <1>0, <1>1, PermitKeeps, CreditCounts DEF Permit
  <2> HIDE DEF v, n
  <2>2. /\ windows' = [j \in Identities |-> IF j = i THEN v ELSE Current(windows[j], storeClock)]
        /\ spent' = [spent EXCEPT ![i] = n]
        /\ UNCHANGED <<store, storeClock, elapsed, rule, setBack>>
    BY <1>1 DEF Permit, Pruned, v, n
  <2>3. RateTypeOK'
    BY <1>0, <1>c, <2>1, <2>2 DEF RateTypeOK
  <2>4. ASSUME NEW j \in Identities PROVE CountsFit(windows'[j], spent'[j], storeClock', elapsed')
    <3>1. CASE j = i
      <4>1. windows'[j] = v /\ spent'[j] = n
        BY <2>2, <3>1, <1>0 DEF RateTypeOK
      <4>q. QED
        BY <4>1, <2>1, <2>2
    <3>2. CASE j # i
      <4>1. windows'[j] = Current(windows[j], storeClock) /\ spent'[j] = spent[j]
        BY <2>2, <3>2, <1>0 DEF RateTypeOK
      <4>q. QED
        BY <4>1, <1>c, <2>2
    <3>q. QED
      BY <3>1, <3>2
  <2>5. RetryAfterIsExact'
    BY <1>1 DEF Permit, RetryAfterIsExact
  <2>q. QED
    BY <2>3, <2>4, <2>5 DEF RateInv
<1>2. ASSUME UNCHANGED <<store, storeClock, elapsed, rule, spent, setBack>>,
             \A j \in Identities : windows'[j] \in {windows[j], Current(windows[j], storeClock)},
             windows' \in [Identities -> Windows \cup {None}],
             RetryAfterIsExact'
      PROVE  RateInv'
  <2>1. RateTypeOK'
    BY <1>0, <1>2 DEF RateTypeOK
  <2>2. \A j \in Identities : CountsFit(windows'[j], spent'[j], storeClock', elapsed')
    BY <1>0, <1>c, <1>2
  <2>q. QED
    BY <2>1, <2>2, <1>2 DEF RateInv
<1>k. ASSUME NEW i \in Identities, windows' = Kept(Pruned(i, Current(windows[i], storeClock)))
      PROVE  /\ \A j \in Identities : windows'[j] \in {windows[j], Current(windows[j], storeClock)}
             /\ windows' \in [Identities -> Windows \cup {None}]
  BY <1>0, <1>c, <1>k DEF Kept, Pruned, RateTypeOK
<1>3. ASSUME NEW i \in Identities, NEW cost \in Costs, Refuse(i, cost) PROVE RateInv'
  <2> DEFINE w == Window(windows[i], rule[i], cost, storeClock)
             d == Decision(windows[i], rule[i], cost, storeClock)
  <2>1. d.got = "exceeded" /\ windows' = Kept(Pruned(i, w))
    BY <1>3 DEF Refuse
  <2>2. /\ w = Current(windows[i], storeClock)
        /\ storeClock + d.wait * Second \in w.resets..(w.resets + Second - 1)
    BY <2>1, <1>0, RefusalWaits
  <2>3. reply'.until = storeClock + d.wait * Second /\ reply'.resets = w.resets
    BY <1>3 DEF Refuse
  <2>4. RetryAfterIsExact'
    BY <2>2, <2>3 DEF RetryAfterIsExact
  <2>5. UNCHANGED <<store, storeClock, elapsed, rule, spent, setBack>>
    BY <1>3 DEF Refuse
  <2>6. windows' = Kept(Pruned(i, Current(windows[i], storeClock)))
    BY <2>1, <2>2
  <2>q. QED
    BY <2>4, <2>5, <2>6, <1>k, <1>2
<1>4. ASSUME NEW i \in Identities, NEW cost \in Costs, StoreError(i, cost) PROVE RateInv'
  <2>1. windows' = Kept(Pruned(i, Current(windows[i], storeClock)))
    BY <1>4 DEF StoreError
  <2>2. RetryAfterIsExact'
    BY <1>4 DEF StoreError, RetryAfterIsExact
  <2>q. QED
    BY <2>1, <2>2, <1>4, <1>k, <1>2 DEF StoreError
<1>5. ASSUME NEW i \in Identities, ChangeRule(i) PROVE RateInv'
  <2>1. RateTypeOK'
    BY <1>0, <1>5 DEF ChangeRule, RateTypeOK
  <2>2. RetryAfterIsExact'
    BY <1>5 DEF ChangeRule, RetryAfterIsExact
  <2>3. \A j \in Identities : CountsFit(windows'[j], spent'[j], storeClock', elapsed')
    BY <1>0, <1>5 DEF ChangeRule
  <2>q. QED
    BY <2>1, <2>2, <2>3 DEF RateInv
<1>6. ASSUME RateTick PROVE RateInv'
  <2>1. RateTypeOK'
    BY <1>0, <1>6 DEF RateTick, RateTypeOK
  <2>2. RetryAfterIsExact'
    BY <1>6 DEF RateTick, RetryAfterIsExact
  <2>3. \A j \in Identities : CountsFit(windows[j], spent[j], storeClock + 1, elapsed + 1)
    BY <1>0, <1>6, LaterKeeps DEF RateTick
  <2>4. \A j \in Identities : CountsFit(windows'[j], spent'[j], storeClock', elapsed')
    BY <2>3, <1>6 DEF RateTick
  <2>q. QED
    BY <2>1, <2>2, <2>4 DEF RateInv
<1>7. ASSUME SetBack PROVE RateInv'
  <2>1. PICK d \in SetBacks : storeClock' = storeClock - d
    BY <1>7 DEF SetBack
  <2>2. d \in Nat
    BY RateLimitAssumption
  <2>3. RateTypeOK'
    BY <1>0, <1>7, <2>1, <2>2 DEF SetBack, RateTypeOK
  <2>4. RetryAfterIsExact'
    BY <1>7 DEF SetBack, RetryAfterIsExact
  <2>5. \A j \in Identities : CountsFit(windows[j], spent[j], storeClock - d, elapsed)
    BY <1>0, <2>2, LaterKeeps
  <2>6. \A j \in Identities : CountsFit(windows'[j], spent'[j], storeClock', elapsed')
    BY <2>1, <2>5, <1>7 DEF SetBack
  <2>q. QED
    BY <2>3, <2>4, <2>6 DEF RateInv
<1>8. CASE UNCHANGED rateVars
  <2>1. RateTypeOK' /\ RetryAfterIsExact'
    BY <1>0, <1>8 DEF rateVars, RateTypeOK, RetryAfterIsExact, RateInv
  <2>2. \A j \in Identities : CountsFit(windows'[j], spent'[j], storeClock', elapsed')
    BY <1>0, <1>8 DEF rateVars
  <2>q. QED
    BY <2>1, <2>2 DEF RateInv
<1>q. QED
  BY <1>1, <1>3, <1>4, <1>5, <1>6, <1>7, <1>8 DEF RateNext

(* Within any stretch as long as a window at most two windows' worth is    *)
(* granted, for any costs, rules that change, and a clock that is set back *)
(* (RateLimitStore).                                                       *)
THEOREM BurstsBounded == RateSpec => []BurstsAreBounded
<1>1. RateInv => BurstsAreBounded
  BY DEF RateInv, CountsFit, Bounded, BurstsAreBounded
<1>q. QED
  BY <1>1, RateInitial, RateInductive, PTL DEF RateSpec

(* The Retry-After a refused caller is told ends with the window that      *)
(* refused it, or less than a second after (RateLimitExceeded).            *)
THEOREM RetryAfterExact == RateSpec => []RetryAfterIsExact
<1>1. RateInv => RetryAfterIsExact
  BY DEF RateInv
<1>q. QED
  BY <1>1, RateInitial, RateInductive, PTL DEF RateSpec

-----------------------------------------------------------------------------
(* The MCP server for agents, for any number of calls of any kinds, any    *)
(* number of edits, of loads and of commands of a validation.              *)

(* The operations within isolated_project_imports.                         *)
Inside(c) == thread[c] \in {"entered", "loading", "imported", "failing", "polling", "terminating"}

Threads == {"none", "queued", "begun", "entered", "loading", "imported", "failing",
            "polling", "terminating", "left", "raised"}
Imports == [modules : SUBSET Nat, swapped : BOOLEAN]
Group == [leader : {"none", "running", "exited"}, descendant : BOOLEAN, signalled : BOOLEAN]

AgentTypeOK ==
  /\ source \in Nat
  /\ call \in [Calls -> {"waiting", "holding", "answered", "failed", "cancelled"}]
  /\ lock \in Calls \cup {Unset}
  /\ thread \in [Calls -> Threads]
  /\ cancellations \in [Calls -> Nat]
  /\ interpreter \in Imports
  /\ saved \in [Calls -> Imports \cup {Unset}] /\ inner \in [Calls -> Imports \cup {Unset}]
  /\ step \in [Calls -> Nat] /\ loads \in [Calls -> Nat]
  /\ process \in [Calls -> Group]
  /\ acquiredAt \in [Calls -> Nat \cup {Unset}]
  /\ stale \subseteq Calls /\ abandoned \subseteq Calls /\ late \subseteq Calls /\ beside \subseteq Calls
  /\ \A c \in Calls : /\ Inside(c) => saved[c] \in Imports
                      /\ thread[c] = "loading" => inner[c] \in Imports
                      /\ Underway(c) => acquiredAt[c] \in Nat /\ acquiredAt[c] <= source

(* An operation under way has the lock, or was given up: an inspection at  *)
(* its first cancellation, a validation at its second.                     *)
LockFits ==
  \A c \in Calls :
    /\ call[c] = "holding" <=> lock = c
    /\ call[c] = "waiting" => thread[c] = "none" /\ cancellations[c] = 0
    /\ call[c] = "holding" => cancellations[c] <= 1
    /\ c \in abandoned => call[c] = "cancelled"
    /\ Underway(c) =>
         \/ call[c] = "holding"
         \/ /\ call[c] = "cancelled" /\ c \in abandoned
            /\ \/ Kind[c] = "inspection" /\ Running(c)
               \/ c \in Validations /\ cancellations[c] = 2

(* A command runs only while its step does, and is signalled only by its   *)
(* step.                                                                   *)
ProcessFits ==
  \A c \in Calls :
    /\ thread[c] \in {"polling", "terminating"} => c \in Validations
    /\ thread[c] = "polling" => ~process[c].signalled
    /\ thread[c] \notin {"polling", "terminating"} =>
         /\ process[c].leader # "running"
         /\ process[c].signalled => ~process[c].descendant

(* Operations that run at once are remembered, and come from a lock given  *)
(* up.                                                                     *)
BesideFits ==
  /\ \A c, d \in Calls : c # d /\ Running(c) /\ Running(d) => c \in beside
  /\ beside # {} => abandoned # {}

(* As long as operations ran one at a time, what is restored is what was,  *)
(* and an inspection meets no module of its own when it loads another      *)
(* group.                                                                  *)
IsolationFits ==
  beside = {} =>
    /\ (\A c \in Calls : ~Inside(c)) => interpreter = Original
    /\ \A c \in Calls :
         /\ Inside(c) => saved[c] = Original
         /\ Kind[c] = "inspection" =>
              /\ thread[c] \in {"entered", "imported"} /\ loads[c] < Loads => interpreter.modules = {}
              /\ thread[c] = "loading" => inner[c].modules = {}

(* Versions are no older than c's call.                                    *)
Newer(versions, c) == \A v \in versions : v >= acquiredAt[c]

AloneFits ==
  /\ stale \subseteq beside
  /\ \A c \in Calls \ beside :
       Inside(c) => Newer(interpreter.modules, c) /\ (thread[c] = "loading" => Newer(inner[c].modules, c))

(* With one inspection given up that takes no snapshot any more, modules   *)
(* are as new as whoever is inside, also those that will be restored       *)
(* beside that inspection, which restores none.                            *)
OneInspection ==
  /\ late = {}
  /\ \A c, d \in abandoned : c = d
  /\ abandoned \cap Validations = {}
ModulesFit ==
  \A c \in Calls : Inside(c) =>
    /\ Newer(interpreter.modules, c)
    /\ \A d \in Calls : thread[d] = "loading" => Newer(inner[d].modules, c)
    /\ \A d \in Calls \ {c} : Inside(d) => Newer(saved[d].modules, c)
    /\ c \in abandoned => saved[c].modules = {} /\ (thread[c] = "loading" => inner[c].modules = {})
FreshFits == OneInspection => ModulesFit /\ stale = {}

AgentInv ==
  /\ AgentTypeOK /\ LockFits /\ ProcessFits /\ BesideFits
  /\ IsolationFits /\ AloneFits /\ FreshFits

-----------------------------------------------------------------------------
(* Of two operations under way, one was given up.                          *)
LEMMA OneHolder ==
  ASSUME LockFits, NEW c \in Calls, NEW d \in Calls, c # d, Underway(c), Underway(d)
  PROVE  c \in abandoned \/ d \in abandoned
  BY DEF LockFits

LEMMA OriginalImports == Original \in Imports /\ Original.modules = {}
  BY DEF Original, Imports

LEMMA InsideRuns == \A c \in Calls : (Inside(c) => Running(c)) /\ (Running(c) => Underway(c))
  BY DEF Inside, Running, Underway

LEMMA AgentInitial == Init => AgentInv
<1> SUFFICES ASSUME Init PROVE AgentInv
  OBVIOUS
<1> USE DEF Init, Running
<1>1. AgentTypeOK
  BY OriginalImports DEF AgentTypeOK, Threads, Underway, Inside, Group, NoProcess
<1>2. LockFits
  BY UnsetAssumption DEF LockFits, Underway
<1>3. ProcessFits
  BY DEF ProcessFits, NoProcess
<1>4. BesideFits /\ IsolationFits /\ AloneFits /\ FreshFits
  BY DEF BesideFits, IsolationFits, AloneFits, FreshFits, ModulesFit, Inside
<1>q. QED
  BY <1>1, <1>2, <1>3, <1>4 DEF AgentInv

(* A step that leaves the imports, and where operations are in them.       *)
LEMMA FramesKeep ==
  ASSUME AgentInv, AgentTypeOK', LockFits', ProcessFits',
         UNCHANGED <<imports, stale, abandoned, late, beside>>,
         \A c \in Calls : /\ Running(c)' <=> Running(c)
                          /\ Inside(c)' <=> Inside(c)
                          /\ Inside(c) => acquiredAt'[c] = acquiredAt[c]
                          /\ thread'[c] = "loading" <=> thread[c] = "loading"
                          /\ Kind[c] = "inspection" /\ thread'[c] \in {"entered", "imported"} =>
                               thread[c] \in {"entered", "imported"} /\ loads'[c] = loads[c]
  PROVE  AgentInv'
<1> USE DEF AgentInv, imports
<1>0. \A c \in Calls : thread[c] = "loading" => Inside(c)
  BY DEF Inside
<1>1. BesideFits'
  BY DEF BesideFits
<1>2. IsolationFits'
  BY DEF IsolationFits
<1>3. AloneFits'
  BY DEF AloneFits, Newer
<1>4. FreshFits'
  <2> SUFFICES ASSUME OneInspection PROVE ModulesFit' /\ stale = {}
    BY DEF FreshFits, OneInspection
  <2>1. ModulesFit /\ stale = {}
    BY DEF FreshFits
  <2>q. QED
    BY <2>1 DEF ModulesFit, Newer
<1>q. QED
  BY <1>1, <1>2, <1>3, <1>4

LEMMA CallsKeep ==
  ASSUME AgentInv, AgentTypeOK', LockFits',
         UNCHANGED <<thread, imports, loads, process, acquiredAt, stale, abandoned, late, beside>>
  PROVE  AgentInv'
<1>1. ProcessFits'
  BY DEF AgentInv, ProcessFits
<1>q. QED
  BY <1>1, FramesKeep DEF Running, Inside

LEMMA EditKeeps == AgentInv /\ Edit => AgentInv'
<1> SUFFICES ASSUME AgentInv, Edit PROVE AgentInv'
  OBVIOUS
<1> USE DEF ghosts, imports
<1>1. AgentTypeOK'
  BY DEF AgentInv, Edit, AgentTypeOK, Inside, Underway, Running
<1>2. LockFits'
  BY DEF AgentInv, Edit, LockFits, Underway, Running
<1>q. QED
  BY <1>1, <1>2, CallsKeep DEF Edit

LEMMA LeaveQueueKeeps == ASSUME AgentInv, NEW c \in Calls, LeaveQueue(c) PROVE AgentInv'
<1> USE DEF ghosts, imports
<1>1. AgentTypeOK'
  BY DEF AgentInv, LeaveQueue, AgentTypeOK, Inside, Underway, Running
<1>2. LockFits'
  BY DEF AgentInv, AgentTypeOK, LeaveQueue, LockFits, Underway, Running
<1>q. QED
  BY <1>1, <1>2, CallsKeep DEF LeaveQueue

(* The thread of a call that is not inside goes from one state to another. *)
LEMMA TellingKeeps == ASSUME AgentInv, NEW c \in Calls, Answer(c) PROVE AgentInv'
<1> USE DEF AgentInv, Answer, Answered, Release, ghosts, imports
<1>0. ~Underway(c) /\ thread'[c] = "none"
  BY DEF AgentTypeOK, Underway, Running
<1>1. AgentTypeOK'
  BY <1>0, UnsetAssumption DEF AgentTypeOK, Threads, Inside, Underway, Running
<1>2. LockFits'
  BY <1>0, UnsetAssumption DEF AgentTypeOK, LockFits, Underway, Running
<1>3. ProcessFits'
  BY <1>0 DEF AgentTypeOK, ProcessFits, Underway, Running
<1>q. QED
  BY <1>0, <1>1, <1>2, <1>3, FramesKeep DEF AgentTypeOK, Running, Inside, Underway

LEMMA AcquireKeeps == ASSUME AgentInv, NEW c \in Calls, Acquire(c) PROVE AgentInv'
<1> USE DEF AgentInv, Acquire, imports
<1>0. thread[c] = "none" /\ c \notin abandoned
  BY DEF LockFits
<1>1. AgentTypeOK'
  BY <1>0 DEF AgentTypeOK, Threads, Inside, Underway, Running
<1>2. LockFits'
  BY <1>0, UnsetAssumption DEF AgentTypeOK, LockFits, Underway, Running
<1>3. ProcessFits'
  BY <1>0 DEF AgentTypeOK, ProcessFits
<1>q. QED
  BY <1>0, <1>1, <1>2, <1>3, FramesKeep DEF AgentTypeOK, Running, Inside

-----------------------------------------------------------------------------
(* An operation that begins beside another one is remembered.              *)
LEMMA BeginKeeps == ASSUME AgentInv, NEW c \in Calls, Begin(c) PROVE AgentInv'
<1> USE DEF AgentInv, Begin, imports
<1>1. AgentTypeOK'
  BY DEF AgentTypeOK, Threads, Inside, Underway, Running
<1>2. LockFits'
  BY DEF AgentTypeOK, LockFits, Underway, Running
<1>3. ProcessFits'
  BY DEF AgentTypeOK, ProcessFits
<1> DEFINE others == {d \in Calls : Running(d)}
<1>4. beside' = IF others = {} THEN beside ELSE beside \cup others \cup {c}
  OBVIOUS
<1>5. \A d \in Calls : /\ Running(d)' <=> Running(d) \/ d = c
                       /\ Inside(d)' <=> Inside(d)
                       /\ thread'[d] = "loading" <=> thread[d] = "loading"
                       /\ thread'[d] \in {"entered", "imported"} => thread[d] \in {"entered", "imported"}
  BY DEF AgentTypeOK, Running, Inside
<1>6. BesideFits'
  <2>1. others # {} => abandoned # {}
    <3> SUFFICES ASSUME NEW d \in Calls, Running(d) PROVE abandoned # {}
      OBVIOUS
    <3>q. QED
      BY OneHolder DEF Underway, Running
  <2>2. ASSUME NEW d \in Calls, NEW e \in Calls, d # e, Running(d)', Running(e)' PROVE d \in beside'
    <3>1. CASE d = c \/ e = c
      BY <1>4, <1>5, <2>2, <3>1
    <3>2. CASE d # c /\ e # c
      BY <1>4, <1>5, <2>2, <3>2 DEF BesideFits
    <3>q. QED
      BY <3>1, <3>2
  <2>q. QED
    BY <1>4, <2>1, <2>2 DEF BesideFits
<1>7. IsolationFits'
  BY <1>4, <1>5 DEF IsolationFits
<1>8. AloneFits'
  BY <1>4, <1>5 DEF AloneFits, Newer
<1>9. FreshFits'
  <2> SUFFICES ASSUME OneInspection PROVE ModulesFit' /\ stale = {}
    BY DEF FreshFits, OneInspection
  <2>1. ModulesFit /\ stale = {}
    BY DEF FreshFits
  <2>q. QED
    BY <1>5, <2>1 DEF ModulesFit, Newer
<1>q. QED
  BY <1>1, <1>2, <1>3, <1>6, <1>7, <1>8, <1>9

(* A step of an operation from one place it runs at to another.            *)
LEMMA RunningKeeps ==
  ASSUME AgentInv, NEW c \in Calls, Running(c), thread[c] \notin {"polling", "terminating"},
         NEW t \in {"entered", "loading", "imported", "failing"}, thread' = [thread EXCEPT ![c] = t],
         UNCHANGED <<call, lock, cancellations, process, abandoned, beside>>
  PROVE  LockFits' /\ ProcessFits' /\ BesideFits'
<1> USE DEF AgentInv
<1>1. \A d \in Calls : /\ Running(d)' <=> Running(d)
                       /\ Underway(d)' <=> Underway(d)
                       /\ thread'[d] = "none" <=> thread[d] = "none"
  BY DEF AgentTypeOK, Running, Underway
<1>2. LockFits'
  BY <1>1 DEF LockFits
<1>3. ProcessFits'
  BY DEF AgentTypeOK, ProcessFits
<1>4. BesideFits'
  BY <1>1 DEF BesideFits
<1>q. QED
  BY <1>2, <1>3, <1>4

(* Alone means that nobody else is inside.                                 *)
LEMMA AloneInside ==
  ASSUME BesideFits, NEW c \in Calls, Running(c), NEW d \in Calls, d # c, Inside(d)
  PROVE  c \in beside /\ d \in beside
  BY InsideRuns DEF BesideFits

LEMMA SwapImports == isolated_project_imports \in Imports /\ isolated_project_imports.modules = {}
  BY DEF isolated_project_imports, Imports

LEMMA EnterImportsKeeps == ASSUME AgentInv, NEW c \in Calls, EnterImports(c) PROVE AgentInv'
<1> USE DEF AgentInv, EnterImports, TakesSnapshot
<1>1. Running(c) /\ ~Inside(c) /\ Inside(c)' /\ thread'[c] = "entered"
  BY DEF AgentTypeOK, Running, Inside
<1>2. \A d \in Calls \ {c} : /\ thread'[d] = thread[d] /\ saved'[d] = saved[d]
                             /\ Inside(d)' <=> Inside(d)
  BY DEF AgentTypeOK, Inside
<1>3. AgentTypeOK'
  BY SwapImports DEF AgentTypeOK, Threads, Inside, Underway, Running
<1>4. LockFits' /\ ProcessFits' /\ BesideFits'
  BY <1>1, RunningKeeps
<1>5. saved'[c] = interpreter /\ interpreter'.modules = {} /\ \A d \in Calls : thread'[d] = "loading" <=> thread[d] = "loading"
  BY SwapImports DEF AgentTypeOK
<1>6. IsolationFits'
  <2> SUFFICES ASSUME beside = {} PROVE IsolationFits'
    BY DEF IsolationFits
  <2>1. \A d \in Calls : ~Inside(d)
    BY <1>1, AloneInside
  <2>2. interpreter = Original
    BY <2>1 DEF IsolationFits
  <2>q. QED
    BY <1>1, <1>2, <1>5, <2>1, <2>2 DEF IsolationFits
<1>7. AloneFits'
  BY <1>1, <1>2, <1>5 DEF AloneFits, Newer
<1>8. FreshFits'
  <2> SUFFICES ASSUME OneInspection' PROVE ModulesFit' /\ stale = {}
    BY DEF FreshFits
  <2>1. OneInspection /\ c \notin abandoned
    BY DEF OneInspection
  <2>2. ModulesFit /\ stale = {}
    BY <2>1 DEF FreshFits
  <2> SUFFICES ASSUME NEW d \in Calls, Inside(d)'
               PROVE  /\ \A e \in Calls : thread'[e] = "loading" => Newer(inner[e].modules, d)
                      /\ \A e \in Calls \ {d} : Inside(e)' => Newer(saved'[e].modules, d)
                      /\ d \in abandoned => saved'[d].modules = {} /\ (thread'[d] = "loading" => inner[d].modules = {})
    BY <1>5, <2>2 DEF ModulesFit, Newer
  <2>3. CASE d = c
    <3>1. \A e \in Calls \ {c} : Inside(e) => e \in abandoned
      BY <1>1, <2>1, OneHolder, InsideRuns
    <3>2. \A e \in Calls : thread[e] = "loading" => Inside(e) /\ e # c
      BY DEF Inside
    <3>q. QED
      BY <1>2, <1>5, <2>1, <2>2, <2>3, <3>1, <3>2 DEF ModulesFit, Newer
  <2>4. CASE d # c
    BY <1>2, <1>5, <2>2, <2>4 DEF ModulesFit, Newer
  <2>q. QED
    BY <2>3, <2>4
<1>q. QED
  BY <1>3, <1>4, <1>6, <1>7, <1>8

LEMMA LoadKeeps == ASSUME AgentInv, NEW c \in Calls, Load(c) PROVE AgentInv'
<1> USE DEF AgentInv, Load, TakesSnapshot
<1>1. Running(c) /\ Inside(c) /\ thread[c] \in {"entered", "imported"} /\ thread'[c] = "loading"
  BY DEF AgentTypeOK, Running, Inside
<1>2. \A d \in Calls : /\ d # c => thread'[d] = thread[d] /\ inner'[d] = inner[d]
                       /\ Inside(d)' <=> Inside(d)
  BY DEF AgentTypeOK, Inside
<1>3. AgentTypeOK'
  BY SwapImports DEF AgentTypeOK, Threads, Inside, Underway, Running
<1>4. LockFits' /\ ProcessFits' /\ BesideFits'
  BY <1>1, RunningKeeps
<1>5. inner'[c] = interpreter /\ interpreter'.modules = {}
  BY SwapImports DEF AgentTypeOK
<1>6. IsolationFits'
  <2> SUFFICES ASSUME beside = {} PROVE IsolationFits'
    BY DEF IsolationFits
  <2>1. \A d \in Calls \ {c} : ~Inside(d)
    BY <1>1, AloneInside
  <2>2. Kind[c] = "inspection" => interpreter.modules = {}
    BY <1>1 DEF IsolationFits
  <2>3. \A d \in Calls \ {c} : thread[d] \notin {"entered", "imported", "loading"}
    BY <2>1 DEF Inside
  <2>q. QED
    BY <1>1, <1>2, <1>5, <2>1, <2>2, <2>3 DEF IsolationFits
<1>7. AloneFits'
  BY <1>1, <1>2, <1>5 DEF AloneFits, Newer
<1>8. FreshFits'
  <2> SUFFICES ASSUME OneInspection' PROVE ModulesFit' /\ stale = {}
    BY DEF FreshFits
  <2>1. OneInspection /\ c \notin abandoned
    BY DEF OneInspection
  <2>2. ModulesFit /\ stale = {}
    BY <2>1 DEF FreshFits
  <2>q. QED
    BY <1>1, <1>2, <1>5, <2>1, <2>2 DEF ModulesFit, Newer
<1>q. QED
  BY <1>3, <1>4, <1>6, <1>7, <1>8

(* A module is read from the source of now, or is one that was read since  *)
(* everybody inside got the lock.                                          *)
LEMMA ImportKeeps == ASSUME AgentInv, NEW c \in Calls, Import(c) \/ ImportContract(c) PROVE AgentInv'
<1> USE DEF AgentInv
<1>1. PICK v \in interpreter.modules \cup {source} :
         /\ interpreter' = [interpreter EXCEPT !.modules = @ \cup {v}]
         /\ stale' = IF v < acquiredAt[c] THEN stale \cup {c} ELSE stale
  BY DEF Import, ImportContract, Imported
<1>2. Inside(c) /\ UNCHANGED <<source, call, lock, thread, cancellations, saved, inner, step, process, acquiredAt, abandoned, late, beside>>
  BY DEF Import, ImportContract, Inside
<1>3. v \in Nat /\ interpreter' \in Imports /\ interpreter'.modules = interpreter.modules \cup {v}
  BY <1>1 DEF AgentTypeOK, Imports
<1>4. \A d \in Calls : (Inside(d)' <=> Inside(d)) /\ (Running(d)' <=> Running(d)) /\ (Underway(d)' <=> Underway(d))
  BY <1>2 DEF Inside, Running, Underway
<1>5. \A d \in Calls : Inside(d) => acquiredAt[d] \in Nat /\ acquiredAt[d] <= source
  BY InsideRuns DEF AgentTypeOK
<1>6. AgentTypeOK'
  <2>1. loads' \in [Calls -> Nat] /\ stale' \subseteq Calls
    BY <1>1, BoundsAssumption DEF Import, ImportContract, AgentTypeOK
  <2>q. QED
    BY <1>2, <1>3, <1>4, <2>1 DEF AgentTypeOK
<1>7. LockFits' /\ ProcessFits' /\ BesideFits'
  BY <1>2, <1>4 DEF LockFits, ProcessFits, BesideFits
<1>8. IsolationFits'
  <2> SUFFICES ASSUME beside = {} PROVE IsolationFits'
    BY <1>2 DEF IsolationFits
  <2>1. \A d \in Calls \ {c} : ~Inside(d)
    BY <1>2, AloneInside, InsideRuns
  <2>2. thread[c] = "loading" \/ c \in Validations \/ ~(loads'[c] < Loads)
    BY BoundsAssumption DEF Import, ImportContract, AgentTypeOK
  <2>3. c \in Validations => Kind[c] # "inspection"
    BY DEF Validations
  <2>4. \A d \in Calls \ {c} : thread[d] \notin {"entered", "imported", "loading"}
    BY <2>1 DEF Inside
  <2>q. QED
    BY <1>2, <1>4, <2>1, <2>2, <2>3, <2>4 DEF IsolationFits
<1>9. AloneFits'
  <2>1. stale' \subseteq beside
    <3>1. CASE c \in beside
      BY <1>1, <3>1 DEF AloneFits
    <3>2. CASE c \notin beside
      <4>1. v >= acquiredAt[c]
        BY <1>1, <1>2, <1>5, <3>2 DEF AloneFits, Newer, AgentTypeOK
      <4>q. QED
        BY <1>1, <1>2, <1>3, <1>5, <4>1 DEF AloneFits
    <3>q. QED
      BY <3>1, <3>2
  <2>2. ASSUME NEW d \in Calls \ beside, Inside(d) PROVE Newer(interpreter'.modules, d)
    BY <1>1, <1>3, <1>5, <2>2 DEF AloneFits, Newer, AgentTypeOK
  <2>q. QED
    BY <1>2, <1>4, <2>1, <2>2 DEF AloneFits, Newer
<1>10. FreshFits'
  <2> SUFFICES ASSUME OneInspection PROVE ModulesFit' /\ stale' = {}
    BY <1>2 DEF FreshFits, OneInspection
  <2>1. ModulesFit /\ stale = {}
    BY DEF FreshFits
  <2>2. \A d \in Calls : Inside(d) => v >= acquiredAt[d]
    BY <1>1, <1>5, <2>1 DEF ModulesFit, Newer, AgentTypeOK
  <2>3. ModulesFit'
    BY <1>2, <1>3, <1>4, <2>1, <2>2 DEF ModulesFit, Newer
  <2>q. QED
    BY <1>1, <1>2, <1>3, <1>5, <2>1, <2>2, <2>3
<1>q. QED
  BY <1>6, <1>7, <1>8, <1>9, <1>10

(* What a load restores is as new as whoever is inside.                    *)
LEMMA LoadEndsKeeps == ASSUME AgentInv, NEW c \in Calls, LoadEnds(c) PROVE AgentInv'
<1> USE DEF AgentInv, ghosts
<1>1. PICK t \in {"imported", "failing"} : thread' = [thread EXCEPT ![c] = t]
  BY DEF LoadEnds
<1>2. /\ thread[c] = "loading" /\ interpreter' = inner[c] /\ inner' = [inner EXCEPT ![c] = Unset]
      /\ UNCHANGED <<source, call, lock, cancellations, saved, step, loads, process,
                     acquiredAt, stale, abandoned, late, beside>>
  BY DEF LoadEnds
<1>3. Running(c) /\ Inside(c) /\ inner[c] \in Imports
  BY <1>2 DEF AgentTypeOK, Running, Inside
<1>4. \A d \in Calls : /\ d # c => thread'[d] = thread[d] /\ inner'[d] = inner[d]
                       /\ Inside(d)' <=> Inside(d)
                       /\ Underway(d)' <=> Underway(d)
                       /\ thread'[d] = "loading" => d # c /\ thread[d] = "loading"
  BY <1>1, <1>2 DEF AgentTypeOK, Inside, Underway, Running
<1>5. AgentTypeOK'
  <2>1. thread' \in [Calls -> Threads] /\ inner' \in [Calls -> Imports \cup {Unset}]
    BY <1>1, <1>2 DEF AgentTypeOK, Threads
  <2>q. QED
    BY <1>2, <1>3, <1>4, <2>1 DEF AgentTypeOK
<1>6. LockFits' /\ ProcessFits' /\ BesideFits'
  BY <1>1, <1>2, <1>3, RunningKeeps
<1>7. IsolationFits'
  <2> SUFFICES ASSUME beside = {} PROVE IsolationFits'
    BY <1>2 DEF IsolationFits
  <2>1. \A d \in Calls \ {c} : ~Inside(d)
    BY <1>3, AloneInside
  <2>2. Kind[c] = "inspection" => interpreter'.modules = {}
    BY <1>2 DEF IsolationFits
  <2>3. \A d \in Calls \ {c} : thread[d] \notin {"entered", "imported", "loading"}
    BY <2>1 DEF Inside
  <2>q. QED
    BY <1>2, <1>3, <1>4, <2>1, <2>2, <2>3 DEF IsolationFits
<1>8. AloneFits'
  <2> SUFFICES ASSUME NEW d \in Calls \ beside, Inside(d) PROVE Newer(inner[c].modules, d) /\ (thread'[d] = "loading" => Newer(inner[d].modules, d))
    BY <1>2, <1>4 DEF AloneFits, Newer
  <2>1. d = c
    BY <1>3, AloneInside, InsideRuns
  <2>q. QED
    BY <1>2, <1>4, <2>1 DEF AloneFits
<1>9. FreshFits'
  <2> SUFFICES ASSUME OneInspection PROVE ModulesFit' /\ stale = {}
    BY <1>2 DEF FreshFits, OneInspection
  <2>1. ModulesFit /\ stale = {}
    BY DEF FreshFits
  <2>q. QED
    BY <1>2, <1>4, <2>1 DEF ModulesFit, Newer
<1>q. QED
  BY <1>5, <1>6, <1>7, <1>8, <1>9

(* What an operation restores is what its process had, or what those who   *)
(* stay inside may see.                                                    *)
LEMMA RestoreKeeps ==
  ASSUME AgentInv, NEW c \in Calls, Inside(c), thread[c] \in {"entered", "imported", "failing"},
         AgentTypeOK', LockFits',
         NEW t \in {"none", "left", "raised"}, Leave(c, t)
  PROVE  AgentInv'
<1> USE DEF AgentInv, Leave
<1>1. \A d \in Calls : /\ Inside(d)' => d # c /\ Inside(d)
                       /\ Running(d)' => d # c /\ Running(d)
                       /\ d # c => /\ thread'[d] = thread[d] /\ saved'[d] = saved[d]
                                   /\ acquiredAt'[d] = acquiredAt[d] /\ loads'[d] = loads[d]
                                   /\ Inside(d)' <=> Inside(d)
                       /\ thread'[d] = "loading" => d # c /\ thread[d] = "loading"
  BY DEF AgentTypeOK, Inside, Running
<1>2. ProcessFits'
  BY DEF AgentTypeOK, ProcessFits
<1>3. BesideFits'
  BY <1>1 DEF BesideFits
<1>4. IsolationFits'
  <2> SUFFICES ASSUME beside = {} PROVE IsolationFits'
    BY DEF IsolationFits
  <2>1. \A d \in Calls \ {c} : ~Inside(d)
    BY AloneInside, InsideRuns
  <2>2. saved[c] = Original
    BY DEF IsolationFits
  <2>3. \A d \in Calls : thread'[d] \notin {"entered", "imported", "loading"}
    BY <1>1, <2>1 DEF Inside
  <2>q. QED
    BY <1>1, <2>1, <2>2, <2>3 DEF IsolationFits
<1>5. AloneFits'
  <2>1. \A d \in Calls \ beside : ~Inside(d)'
    BY <1>1, AloneInside, InsideRuns
  <2>q. QED
    BY <2>1 DEF AloneFits
<1>6. FreshFits'
  <2> SUFFICES ASSUME OneInspection PROVE ModulesFit' /\ stale = {}
    BY DEF FreshFits, OneInspection
  <2>1. ModulesFit /\ stale = {}
    BY DEF FreshFits
  <2>q. QED
    BY <1>1, <2>1 DEF ModulesFit, Newer
<1>q. QED
  BY <1>2, <1>3, <1>4, <1>5, <1>6

LEMMA LeaveKeeps == ASSUME AgentInv, NEW c \in Calls, OperationEnds(c) \/ CheckCancelled(c) PROVE AgentInv'
<1>1. PICK t \in {"left", "raised"} : Leave(c, t)
  BY DEF OperationEnds, CheckCancelled
<1>2. Inside(c) /\ thread[c] \in {"entered", "imported", "failing"} /\ UNCHANGED <<call, lock>>
  BY DEF OperationEnds, CheckCancelled, Inside
<1> USE <1>1, <1>2 DEF AgentInv, Leave
<1>3. AgentTypeOK'
  BY DEF AgentTypeOK, Threads, Inside, Underway, Running
<1>4. LockFits'
  BY DEF AgentTypeOK, LockFits, Inside, Underway, Running
<1>q. QED
  BY <1>3, <1>4, RestoreKeeps

LEMMA CancelInlineKeeps == ASSUME AgentInv, NEW c \in Calls, CancelInline(c) PROVE AgentInv'
<1> USE DEF AgentInv, CancelInline, Leave, Release
<1>1. Inside(c) /\ thread[c] \in {"entered", "imported", "failing"}
  BY DEF Inside
<1>2. AgentTypeOK'
  BY <1>1 DEF AgentTypeOK, Threads, Inside, Underway, Running
<1>3. LockFits'
  BY <1>1, UnsetAssumption DEF AgentTypeOK, LockFits, Inside, Underway, Running
<1>q. QED
  BY <1>1, <1>2, <1>3, RestoreKeeps

-----------------------------------------------------------------------------
(* The holder gives up the lock while its operation goes on.               *)
LEMMA AbandonKeeps ==
  ASSUME AgentInv, NEW c \in Calls, call[c] = "holding", Kind[c] = "inspection" \/ c \in Validations,
         AgentTypeOK', LockFits', GiveUp(c),
         UNCHANGED <<thread, imports, loads, process, acquiredAt, stale, late, beside>>
  PROVE  AgentInv'
<1> USE DEF AgentInv, imports
<1>1. CASE ~Underway(c)
  BY <1>1, CallsKeep DEF GiveUp
<1>2. CASE Underway(c)
  <2>1. abandoned' = abandoned \cup {c} /\ c \notin abandoned
    BY <1>2 DEF GiveUp, LockFits
  <2>2. ProcessFits' /\ IsolationFits' /\ AloneFits'
    BY <2>1 DEF ProcessFits, IsolationFits, AloneFits, Newer, Inside
  <2>3. BesideFits'
    BY <2>1 DEF BesideFits, Running
  <2>4. FreshFits'
    <3> SUFFICES ASSUME OneInspection' PROVE ModulesFit' /\ stale = {}
      BY DEF FreshFits
    <3>1. abandoned = {} /\ beside = {} /\ Kind[c] = "inspection"
      BY <2>1 DEF OneInspection, BesideFits
    <3>2. ModulesFit /\ stale = {}
      BY <2>1, <3>1 DEF FreshFits, OneInspection
    <3>3. \A d \in Calls \ {c} : ~Inside(d)
      BY <1>2, <3>1, OneHolder, InsideRuns
    <3>4. Inside(c) => saved[c].modules = {} /\ (thread[c] = "loading" => inner[c].modules = {})
      BY <3>1, OriginalImports DEF IsolationFits
    <3>q. QED
      BY <2>1, <3>2, <3>3, <3>4 DEF ModulesFit, Newer, Inside
  <2>q. QED
    BY <2>2, <2>3, <2>4
<1>q. QED
  BY <1>1, <1>2

LEMMA CancelInspectionKeeps == ASSUME AgentInv, NEW c \in Calls, CancelInspection(c) PROVE AgentInv'
<1> USE DEF AgentInv, CancelInspection, imports
<1>1. CASE thread[c] = "queued"
  <2> USE <1>1 DEF Release
  <2>1. AgentTypeOK'
    BY DEF AgentTypeOK, Threads, Inside, Underway, Running
  <2>2. LockFits'
    BY UnsetAssumption DEF AgentTypeOK, LockFits, Underway, Running
  <2>3. ProcessFits'
    BY DEF AgentTypeOK, ProcessFits
  <2>q. QED
    BY <2>1, <2>2, <2>3, FramesKeep DEF AgentTypeOK, Running, Inside
<1>2. CASE thread[c] # "queued"
  <2> USE <1>2
  <2>1. GiveUp(c) /\ (Underway(c) => Running(c))
    BY DEF Underway
  <2>2. AgentTypeOK'
    BY <2>1 DEF AgentTypeOK, GiveUp, Release, Inside, Underway, Running
  <2>3. LockFits'
    BY <2>1, UnsetAssumption DEF AgentTypeOK, LockFits, GiveUp, Release, Underway, Running
  <2>q. QED
    BY <2>1, <2>2, <2>3, AbandonKeeps
<1>q. QED
  BY <1>1, <1>2

LEMMA CancelValidationKeeps == ASSUME AgentInv, NEW v \in Calls, CancelValidation(v) PROVE AgentInv'
<1> USE DEF AgentInv, CancelValidation, imports
<1>1. cancellations[v] \in {0, 1}
  BY DEF AgentTypeOK, LockFits
<1>2. CASE cancellations[v] = 0
  <2>1. AgentTypeOK'
    BY <1>2 DEF AgentTypeOK, Inside, Underway, Running
  <2>2. LockFits'
    BY <1>2 DEF AgentTypeOK, LockFits, Underway, Running
  <2>q. QED
    BY <1>2, <2>1, <2>2, CallsKeep
<1>3. CASE cancellations[v] = 1
  <2>1. AgentTypeOK'
    BY <1>3 DEF AgentTypeOK, GiveUp, Release, Inside, Underway, Running
  <2>2. LockFits'
    BY <1>3, UnsetAssumption DEF AgentTypeOK, LockFits, GiveUp, Release, Underway, Running
  <2>q. QED
    BY <1>3, <2>1, <2>2, AbandonKeeps DEF Validations
<1>q. QED
  BY <1>1, <1>2, <1>3

-----------------------------------------------------------------------------
(* Commands come and go inside, and end before their step does.            *)
LEMMA CommandKeeps ==
  ASSUME AgentInv, NEW v \in Calls,
         _start_process(v) \/ StepEnds(v) \/ Terminate(v) \/ Kill(v) \/ LeaderExits(v)
  PROVE  AgentInv'
<1> USE DEF AgentInv, ghosts, StepOver, imports
<1>1. /\ thread' \in [Calls -> Threads]
      /\ step' \in [Calls -> Nat]
      /\ process' \in [Calls -> Group]
  <2>1. CASE _start_process(v)
    BY <2>1 DEF _start_process, AgentTypeOK, Group, Threads
  <2>2. CASE StepEnds(v)
    BY <2>2 DEF StepEnds, AgentTypeOK, Threads
  <2>3. CASE Terminate(v)
    <3>1. CASE process[v].leader = "exited"
      BY <2>3, <3>1 DEF Terminate, AgentTypeOK, Threads
    <3>2. CASE process[v].leader # "exited"
      <4>1. PICK l \in {"running", "exited"}, d \in BOOLEAN :
              process' = [process EXCEPT ![v] = [leader |-> l, descendant |-> d, signalled |-> TRUE]]
        BY <2>3, <3>2 DEF Terminate
      <4>2. process' \in [Calls -> Group]
        BY <4>1 DEF AgentTypeOK, Group
      <4>q. QED
        BY <2>3, <3>2, <4>2 DEF Terminate, AgentTypeOK, Threads
    <3>q. QED
      BY <3>1, <3>2
  <2>4. CASE Kill(v)
    <3>1. _stop_process(process[v]) \in Group
      BY DEF AgentTypeOK, Group, _stop_process
    <3>q. QED
      BY <2>4, <3>1 DEF Kill, AgentTypeOK, Threads
  <2>5. CASE LeaderExits(v)
    BY <2>5 DEF LeaderExits, AgentTypeOK, Group
  <2>q. QED
    BY <2>1, <2>2, <2>3, <2>4, <2>5
<1>2. /\ \A c \in Calls : /\ Inside(c)' <=> Inside(c)
                          /\ Running(c)' <=> Running(c)
                          /\ Underway(c)' <=> Underway(c)
                          /\ thread'[c] = "loading" <=> thread[c] = "loading"
      /\ \A c \in Calls \ {v} : thread'[c] = thread[c]
  BY DEF AgentTypeOK, _start_process, StepEnds, Terminate, Kill, LeaderExits, Inside, Underway, Running
<1>3. UNCHANGED <<source, call, lock, cancellations, imports, loads, acquiredAt, stale, abandoned, late, beside>>
  BY DEF _start_process, StepEnds, Terminate, Kill, LeaderExits
<1>4. AgentTypeOK'
  BY <1>1, <1>2, <1>3 DEF AgentTypeOK
<1>5. LockFits'
  <2>1. \A c \in Calls : thread'[c] = "none" <=> thread[c] = "none"
    BY DEF AgentTypeOK, _start_process, StepEnds, Terminate, Kill, LeaderExits
  <2>q. QED
    BY <1>2, <1>3, <2>1 DEF LockFits
<1>6. ProcessFits'
  <2>1. CASE _start_process(v)
    BY <2>1 DEF _start_process, AgentTypeOK, ProcessFits
  <2>2. CASE StepEnds(v)
    BY <2>2 DEF StepEnds, AgentTypeOK, ProcessFits
  <2>3. CASE Terminate(v)
    BY <2>3 DEF Terminate, AgentTypeOK, ProcessFits
  <2>4. CASE Kill(v)
    BY <2>4 DEF Kill, AgentTypeOK, Group, ProcessFits, _stop_process
  <2>5. CASE LeaderExits(v)
    BY <2>5 DEF LeaderExits, AgentTypeOK, Group, ProcessFits
  <2>q. QED
    BY <2>1, <2>2, <2>3, <2>4, <2>5
<1>7. Kind[v] = "inspection" => thread' = thread
  BY DEF _start_process, StepEnds, Terminate, Kill, LeaderExits, ProcessFits, Validations
<1>q. QED
  BY <1>2, <1>3, <1>4, <1>5, <1>6, <1>7, FramesKeep

LEMMA StutterKeeps == AgentInv /\ UNCHANGED vars => AgentInv'
<1> SUFFICES ASSUME AgentInv, UNCHANGED vars PROVE AgentInv'
  OBVIOUS
<1> USE DEF vars, program, ghosts, imports
<1>1. AgentTypeOK' /\ LockFits'
  BY DEF AgentInv, AgentTypeOK, LockFits, Inside, Underway, Running
<1>q. QED
  BY <1>1, CallsKeep

LEMMA AgentInductive == AgentInv /\ [Next]_vars => AgentInv'
<1> SUFFICES ASSUME AgentInv, [Next]_vars PROVE AgentInv'
  OBVIOUS
<1>1. CASE Edit \/ UNCHANGED vars
  BY <1>1, EditKeeps, StutterKeeps
<1>2. ASSUME NEW c \in Calls, Acquire(c) \/ Answer(c) \/ LeaveQueue(c) PROVE AgentInv'
  BY <1>2, AcquireKeeps, TellingKeeps, LeaveQueueKeeps
<1>3. ASSUME NEW c \in Calls, CancelInspection(c) \/ CancelInline(c) \/ CancelValidation(c) PROVE AgentInv'
  BY <1>3, CancelInspectionKeeps, CancelInlineKeeps, CancelValidationKeeps
<1>4. ASSUME NEW c \in Calls, Begin(c) \/ EnterImports(c) \/ Load(c) \/ Import(c) \/ ImportContract(c) \/ LoadEnds(c)
      PROVE  AgentInv'
  BY <1>4, BeginKeeps, EnterImportsKeeps, LoadKeeps, ImportKeeps, LoadEndsKeeps
<1>5. ASSUME NEW c \in Calls, Operation(c) \/ LeaderExits(c) PROVE AgentInv'
  BY <1>4, <1>5, LeaveKeeps, CommandKeeps DEF Operation
<1>q. QED
  BY <1>1, <1>2, <1>3, <1>5 DEF Next

(* Whoever is under way has the lock or was given up, commands run only    *)
(* while their step does, and what is loaded or will be restored is as new *)
(* as whoever is inside, over any cancellations and edits (call,           *)
(* validation_call, isolated_project_imports).                             *)
THEOREM AgentInvariance == Spec => []AgentInv
  BY AgentInitial, AgentInductive, PTL DEF Spec

-----------------------------------------------------------------------------
(* However many calls queue up, are cancelled and cancelled again: of two  *)
(* operations under way one is a cancelled inspection, or a validation     *)
(* cancelled twice (call, validation_call).                                *)
THEOREM OperationsExclude == Spec => []OneAtATime
<1>1. AgentInv => OneAtATime
  <2> SUFFICES ASSUME AgentInv, NEW c \in Calls, NEW d \in Calls, Underway(c), Underway(d), c # d
               PROVE  \E x \in {c, d} : /\ call[x] = "cancelled"
                                        /\ Kind[x] = "inspection" \/ cancellations[x] = 2
    BY DEF OneAtATime
  <2>q. QED
    BY OneHolder DEF AgentInv, LockFits
<1>q. QED
  BY <1>1, AgentInvariance, PTL

(* Import state is restored unless operations ran at once; and modules     *)
(* older than its call are imported by nobody that ran alone, and by       *)
(* nobody at all as long as the only call given up under way is one        *)
(* inspection that took no snapshot without the lock                       *)
(* (isolated_project_imports around operations and loads).                 *)
THEOREM ImportsIsolated == Spec => []ImportsAreIsolated
<1>1. AgentInv => ImportsAreIsolated
  <2> SUFFICES ASSUME AgentInv PROVE ImportsAreIsolated
    OBVIOUS
  <2>1. NothingLeaks
    BY InsideRuns DEF AgentInv, IsolationFits, NothingLeaks
  <2>2. NoStaleModules
    BY DEF AgentInv, AloneFits, FreshFits, OneInspection, NoStaleModules
  <2>q. QED
    BY <2>1, <2>2 DEF ImportsAreIsolated
<1>q. QED
  BY <1>1, AgentInvariance, PTL

(* A validation's step leaves no command running, nor a descendant of one  *)
(* it signalled (_run_step, _stop_process).                                *)
THEOREM CommandsEnd == Spec => []NoCommandSurvives
<1>1. AgentInv => NoCommandSurvives
  BY DEF AgentInv, ProcessFits, NoCommandSurvives, Validations
<1>q. QED
  BY <1>1, AgentInvariance, PTL
=============================================================================
