------------------------------- MODULE Health -------------------------------
(***************************************************************************)
(* health_route: every request starts all checks again, as tasks of their  *)
(* own, and answers when each has ended or its timeout has passed.  An     *)
(* overdue task is cancelled and kept in detached_checks until it ends.    *)
(* Checks are the application's and may never end: an asynchronous one may *)
(* swallow the cancellation, a synchronous one keeps its worker thread of  *)
(* the shared pool although its task is gone.                              *)
(***************************************************************************)
EXTENDS Integers, FiniteSets

CONSTANTS
  Requests,
  AsyncChecks,
  SyncChecks,
  PoolSize      \* threads of asyncio.to_thread's executor

VARIABLES
  request,      \* "new" | "running" | "healthy" | "unhealthy" | "gone"
  task,         \* of a request's check: "none" | "queued" | "running" | "ok" | "failed" | "cancelled"
  outcome,      \* its run_check: "none" | "waiting" | "ok" | "failed" | "cancelled"
  asked,        \* tasks asked to cancel
  threads,      \* checks that occupy a thread
  detached,     \* detached_checks
  overdue       \* checks whose timeout passed while they were awaited (a ghost)

healthVars == <<request, task, outcome, asked, threads, detached, overdue>>

ASSUME HealthAssumption == PoolSize \in Nat /\ AsyncChecks \cap SyncChecks = {}

Checks == AsyncChecks \cup SyncChecks
Jobs == Requests \X Checks
Unfinished(j) == task[j] \in {"queued", "running"}

HealthInit ==
  /\ request = [r \in Requests |-> "new"]
  /\ task = [j \in Jobs |-> "none"]
  /\ outcome = [j \in Jobs |-> "none"]
  /\ asked = {} /\ threads = {} /\ detached = {} /\ overdue = {}

get_health(r) ==
  /\ request[r] = "new"
  /\ request' = [request EXCEPT ![r] = "running"]
  /\ task' = [j \in Jobs |-> IF j[1] # r THEN task[j]
                             ELSE IF j[2] \in AsyncChecks THEN "running" ELSE "queued"]
  /\ outcome' = [j \in Jobs |-> IF j[1] = r THEN "waiting" ELSE outcome[j]]
  /\ UNCHANGED <<asked, threads, detached, overdue>>

-----------------------------------------------------------------------------
(* The tasks of invoke_check, and the pool.                                *)
Ended(j, how) ==
  /\ task' = [task EXCEPT ![j] = how]
  /\ detached' = detached \ {j}    \* the done callback
  /\ UNCHANGED <<request, outcome, asked, overdue>>

ThreadStarts(j) ==
  /\ task[j] = "queued" /\ j \notin asked /\ Cardinality(threads) < PoolSize
  /\ task' = [task EXCEPT ![j] = "running"]
  /\ threads' = threads \cup {j}
  /\ UNCHANGED <<request, outcome, asked, detached, overdue>>

ThreadEnds(j) ==
  /\ j \in threads
  /\ threads' = threads \ {j}
  /\ IF task[j] = "running"
     THEN \E how \in {"ok", "failed"} : Ended(j, how)
     ELSE UNCHANGED <<request, task, outcome, asked, detached, overdue>>

AsyncEnds(j) ==
  /\ j[2] \in AsyncChecks /\ task[j] = "running"
  /\ \E how \in {"ok", "failed", "cancelled"} : Ended(j, how)
  /\ UNCHANGED threads

(* Awaiting a thread, or one to be free, is given up at once.              *)
SyncCancelled(j) ==
  /\ j[2] \in SyncChecks /\ Unfinished(j) /\ j \in asked
  /\ Ended(j, "cancelled")
  /\ UNCHANGED threads

-----------------------------------------------------------------------------
(* run_check, and the answer.                                              *)
CancelAndDetach_NotDetached(js) == asked' = asked \cup js /\ UNCHANGED detached
CancelAndDetach(js) == asked' = asked \cup js /\ detached' = detached \cup js

run_check(j) ==
  /\ outcome[j] = "waiting" /\ task[j] \in {"ok", "failed", "cancelled"}
  /\ outcome' = [outcome EXCEPT ![j] = task[j]]
  /\ UNCHANGED <<request, task, asked, threads, detached, overdue>>

(* As asyncio.wait_for would: cancel the task, and await it.               *)
Timeout_Awaits(j) ==
  /\ outcome[j] = "waiting" /\ Unfinished(j)
  /\ CancelAndDetach({j})
  /\ overdue' = overdue \cup {j}
  /\ UNCHANGED <<request, task, outcome, threads>>

Timeout(j) ==
  /\ outcome[j] = "waiting" /\ Unfinished(j)
  /\ CancelAndDetach({j})
  /\ overdue' = overdue \cup {j}
  /\ outcome' = [outcome EXCEPT ![j] = "failed"]
  /\ UNCHANGED <<request, task, threads>>

Respond(r) ==
  /\ request[r] = "running"
  /\ \A k \in Checks : outcome[<<r, k>>] \in {"ok", "failed"}
  /\ request' = [request EXCEPT ![r] = IF \A k \in Checks : outcome[<<r, k>>] = "ok"
                                       THEN "healthy" ELSE "unhealthy"]
  /\ UNCHANGED <<task, outcome, asked, threads, detached, overdue>>

(* A check that raises CancelledError is not caught: gather raises it, and *)
(* leaves the other run_checks to themselves.                              *)
RaisesCancelledError(r) ==
  /\ request[r] = "running" /\ \E k \in Checks : outcome[<<r, k>>] = "cancelled"
  /\ request' = [request EXCEPT ![r] = "gone"]
  /\ UNCHANGED <<task, outcome, asked, threads, detached, overdue>>

(* The request is cancelled, and every run_check that waits with it.       *)
Disconnect(r) ==
  LET waiting == {j \in Jobs : j[1] = r /\ outcome[j] = "waiting"} IN
  /\ request[r] = "running"
  /\ request' = [request EXCEPT ![r] = "gone"]
  /\ outcome' = [j \in Jobs |-> IF j \in waiting THEN "cancelled" ELSE outcome[j]]
  /\ CancelAndDetach({j \in waiting : Unfinished(j)})
  /\ UNCHANGED <<task, threads, overdue>>

HealthProgress ==
  \/ \E r \in Requests : Respond(r) \/ RaisesCancelledError(r)
  \/ \E j \in Jobs : run_check(j) \/ Timeout(j)

HealthNext ==
  \/ HealthProgress
  \/ \E r \in Requests : get_health(r) \/ Disconnect(r)
  \/ \E j \in Jobs : ThreadStarts(j) \/ ThreadEnds(j) \/ AsyncEnds(j) \/ SyncCancelled(j)

(* A service is reported healthy only if each of this request's own checks *)
(* ended well before its timeout passed: not one that swallowed its        *)
(* cancellation, was answered by an earlier request's run, or found no     *)
(* free thread because stuck checks hold them.                             *)
HealthyIsProven ==
  \A r \in Requests : request[r] = "healthy" =>
    \A k \in Checks : task[<<r, k>>] = "ok" /\ <<r, k>> \notin overdue

(* "Keep an uncooperative timed-out check alive until it finishes": a task *)
(* that runs is awaited by its run_check or held in detached_checks, and   *)
(* that holds none that has ended.                                         *)
RunawaysAreHeld ==
  \A j \in Jobs : /\ Unfinished(j) => outcome[j] = "waiting" \/ j \in detached
                  /\ j \in detached => Unfinished(j)

(* What a request reports and what it leaves behind are both accounted for. *)
HealthIsHonest == HealthyIsProven /\ RunawaysAreHeld

(* However stuck the checks are, a request ends: no check need cooperate.  *)
HealthAnswers == \A r \in Requests : request[r] = "running" ~> request[r] # "running"
=============================================================================
