----------------------------- MODULE AgentServer -----------------------------
(***************************************************************************)
(* tenchi mcp: one process that answers a coding agent's calls about a     *)
(* project while the agent edits it.  One lock keeps operations apart.     *)
(* Inspections run in a worker thread, preflight, evaluations and tasks on *)
(* the event loop, validations in a shielded worker thread that runs       *)
(* subprocesses and polls for a cancellation.  Each swaps the              *)
(* interpreter's import state - sys.modules, sys.path, the byte-code       *)
(* cache - and puts it back, and swaps it again around each group of the   *)
(* project it loads (but check, which imports nothing: the validation      *)
(* modelled here is verify).  Taking a snapshot and clearing the modules   *)
(* is one step, so is putting it back, and so is the import of a module.   *)
(* A client may cancel any call; the MCP library delivers a cancellation   *)
(* again while the task does not end.  Outputs, redirections of stdout and *)
(* progress messages are left out.                                         *)
(***************************************************************************)
EXTENDS Integers

CONSTANTS
  Calls,       \* the calls clients make
  Kind,        \* [Calls -> {"inspection", "inline", "validation"}]
  Steps,       \* commands a validation runs
  Loads,       \* bound: groups of the project one operation loads (verify: ten)
  MaxEdits,    \* bound: how often the agent changes the project's source
  Unset        \* nobody, nothing yet

VARIABLES
  source,        \* the version of the project's source
  call,          \* "waiting" | "holding" | "answered" | "failed" | "cancelled"
  lock,          \* operation_lock: the call that holds it
  thread,        \* the operation of a call: where its code is
  cancellations, \* cancellations delivered to a call that holds the lock
  interpreter,   \* the process's import state
  saved,         \* isolated_project_imports around the operation: what it restores
  inner,         \* and the one around the load under way
  step,          \* validation commands that ended
  loads,         \* groups the operation has loaded
  process        \* the validation's subprocess group

VARIABLES \* ghosts
  acquiredAt,    \* the source's version when the call got the lock
  stale,         \* calls that imported a module of an earlier version
  abandoned,     \* calls that gave up the lock with their thread under way
  late,          \* those of them that took a snapshot after that
  beside         \* calls whose operation ran while another one did

imports == <<interpreter, saved, inner>>
program == <<source, call, lock, thread, cancellations, imports, step, loads, process>>
ghosts == <<acquiredAt, stale, abandoned, late, beside>>
vars == <<program, ghosts>>

ASSUME KindAssumption == Kind \in [Calls -> {"inspection", "inline", "validation"}]
ASSUME BoundsAssumption == Steps \in Nat /\ Loads \in Nat /\ MaxEdits \in Nat
ASSUME UnsetAssumption == Unset \notin Calls

Validations == {c \in Calls : Kind[c] = "validation"}

(* modules: versions of the project's modules in sys.modules.  swapped:    *)
(* the root is first on sys.path, or byte code goes to a temporary         *)
(* directory; neither is as the process had it.                            *)
Original == [modules |-> {}, swapped |-> FALSE]
NoProcess == [leader |-> "none", descendant |-> FALSE, signalled |-> FALSE]

Init ==
  /\ source = 0
  /\ call = [c \in Calls |-> "waiting"]
  /\ lock = Unset
  /\ thread = [c \in Calls |-> "none"]
  /\ cancellations = [c \in Calls |-> 0]
  /\ interpreter = Original
  /\ saved = [c \in Calls |-> Unset]
  /\ inner = [c \in Calls |-> Unset]
  /\ step = [c \in Calls |-> 0]
  /\ loads = [c \in Calls |-> 0]
  /\ process = [c \in Calls |-> NoProcess]
  /\ acquiredAt = [c \in Calls |-> Unset]
  /\ stale = {} /\ abandoned = {} /\ late = {} /\ beside = {}

-----------------------------------------------------------------------------
(* queued: waits for a thread.  begun: runs, before it swaps the import    *)
(* state; then entered, loading, imported ... until it has left or raised. *)
Running(c) == thread[c] \notin {"none", "queued", "left", "raised"}
Underway(c) == thread[c] = "queued" \/ Running(c)

(* The event loop.  An inline operation imports the project without an     *)
(* await, so that nothing else of the loop runs until it has.              *)
LoopIsFree == \A c \in Calls : Kind[c] = "inline" => ~Underway(c) \/ thread[c] = "imported"

Release(c) == lock' = IF lock = c THEN Unset ELSE lock

Acquire(c) ==
  /\ LoopIsFree /\ call[c] = "waiting" /\ lock = Unset
  /\ lock' = c
  /\ call' = [call EXCEPT ![c] = "holding"]
  /\ thread' = [thread EXCEPT ![c] = "queued"]
  /\ acquiredAt' = [acquiredAt EXCEPT ![c] = source]
  /\ UNCHANGED <<source, cancellations, imports, step, loads, process, stale, abandoned, late, beside>>

Answered(c) ==
  /\ thread' = [thread EXCEPT ![c] = "none"]
  /\ call' = [call EXCEPT ![c] = IF cancellations[c] > 0 THEN "cancelled"
                                 ELSE IF thread[c] = "raised" THEN "failed" ELSE "answered"]

Answer_KeepsLockOnError(c) ==
  /\ LoopIsFree /\ call[c] = "holding" /\ thread[c] \in {"left", "raised"}
  /\ Answered(c)
  /\ IF thread[c] = "raised" THEN UNCHANGED lock ELSE Release(c)
  /\ UNCHANGED <<source, cancellations, imports, step, loads, process, ghosts>>

Answer(c) ==
  /\ LoopIsFree /\ call[c] = "holding" /\ thread[c] \in {"left", "raised"}
  /\ Answered(c)
  /\ Release(c)
  /\ UNCHANGED <<source, cancellations, imports, step, loads, process, ghosts>>

-----------------------------------------------------------------------------
(* isolated_project_imports: around an operation, and around each load.    *)
isolated_project_imports_Kept == [interpreter EXCEPT !.swapped = TRUE]
isolated_project_imports == [modules |-> {}, swapped |-> TRUE]

Begin(c) ==
  /\ thread[c] = "queued"
  /\ thread' = [thread EXCEPT ![c] = "begun"]
  /\ LET others == {d \in Calls : Running(d)}
     IN  beside' = IF others = {} THEN beside ELSE beside \cup others \cup {c}
  /\ UNCHANGED <<source, call, lock, cancellations, imports, step, loads, process>>
  /\ UNCHANGED <<acquiredAt, stale, abandoned, late>>

TakesSnapshot(c) == late' = IF c \in abandoned THEN late \cup {c} ELSE late

EnterImports(c) ==
  /\ thread[c] = "begun"
  /\ thread' = [thread EXCEPT ![c] = "entered"]
  /\ saved' = [saved EXCEPT ![c] = interpreter]
  /\ interpreter' = isolated_project_imports
  /\ TakesSnapshot(c)
  /\ UNCHANGED <<source, call, lock, cancellations, inner, step, loads, process>>
  /\ UNCHANGED <<acquiredAt, stale, abandoned, beside>>

(* load_route_group and its like, each in a swap of its own: preflight and *)
(* the other inline operations load once before they await, app_map and    *)
(* verify several groups one after the other.                              *)
Load(c) ==
  /\ \/ thread[c] = "entered" /\ (c \in Validations => step[c] = Steps)
     \/ thread[c] = "imported" /\ Kind[c] # "inline"
  /\ loads[c] < Loads
  /\ loads' = [loads EXCEPT ![c] = @ + 1]
  /\ thread' = [thread EXCEPT ![c] = "loading"]
  /\ inner' = [inner EXCEPT ![c] = interpreter]
  /\ interpreter' = isolated_project_imports
  /\ TakesSnapshot(c)
  /\ UNCHANGED <<source, call, lock, cancellations, saved, step, process>>
  /\ UNCHANGED <<acquiredAt, stale, abandoned, beside>>

(* importlib.import_module, a module at a time: one that sys.modules has   *)
(* is not read again.                                                      *)
Imported(c) ==
  \E v \in interpreter.modules \cup {source} :
    /\ interpreter' = [interpreter EXCEPT !.modules = @ \cup {v}]
    /\ stale' = IF v < acquiredAt[c] THEN stale \cup {c} ELSE stale

Import(c) ==
  /\ thread[c] = "loading"
  /\ Imported(c)
  /\ UNCHANGED <<source, call, lock, thread, cancellations, saved, inner, step, loads, process>>
  /\ UNCHANGED <<acquiredAt, abandoned, late, beside>>

(* load_contract swaps nothing but the path.  make_preview loads nothing   *)
(* else, verify has loaded the groups when it checks a change plan.        *)
ImportContract(c) ==
  /\ \/ Kind[c] = "inspection" /\ thread[c] = "entered" /\ loads' = [loads EXCEPT ![c] = Loads]
     \/ c \in Validations /\ thread[c] = "imported" /\ UNCHANGED loads
  /\ Imported(c)
  /\ UNCHANGED <<source, call, lock, thread, cancellations, saved, inner, step, process>>
  /\ UNCHANGED <<acquiredAt, abandoned, late, beside>>

(* The load's swap is left.  verify goes on after an import that failed,   *)
(* the others do not.                                                      *)
LoadEnds(c) ==
  /\ thread[c] = "loading"
  /\ \E t \in {"imported"} \cup (IF c \in Validations THEN {} ELSE {"failing"}) :
       thread' = [thread EXCEPT ![c] = t]
  /\ interpreter' = inner[c]
  /\ inner' = [inner EXCEPT ![c] = Unset]
  /\ UNCHANGED <<source, call, lock, cancellations, saved, step, loads, process, ghosts>>

Leave(c, t) ==
  /\ thread' = [thread EXCEPT ![c] = IF call[c] = "holding" THEN t ELSE "none"]
  /\ interpreter' = saved[c]
  /\ saved' = [saved EXCEPT ![c] = Unset]
  /\ step' = [step EXCEPT ![c] = 0]
  /\ loads' = [loads EXCEPT ![c] = 0]
  /\ acquiredAt' = [acquiredAt EXCEPT ![c] = Unset]
  /\ UNCHANGED <<source, cancellations, inner, process, stale, abandoned, late, beside>>

(* It answers or raises; doctor and others have loaded nothing.            *)
OperationEnds(c) ==
  /\ \/ thread[c] = "entered" /\ Kind[c] # "inline" /\ (c \in Validations => step[c] = Steps)
     \/ thread[c] \in {"imported", "failing"}
  /\ \E t \in {"left", "raised"} : (thread[c] = "failing" => t = "raised") /\ Leave(c, t)
  /\ UNCHANGED <<call, lock>>

-----------------------------------------------------------------------------
(* The commands of a validation, run_check and _run_step.                  *)
Cancelled(v) == cancellations[v] > 0
CheckCancelled(v) ==
  /\ v \in Validations /\ thread[v] \in {"entered", "imported"} /\ Cancelled(v)
  /\ Leave(v, "raised")
  /\ UNCHANGED <<call, lock>>

_start_process(v) ==
  /\ v \in Validations /\ thread[v] = "entered" /\ step[v] < Steps /\ ~Cancelled(v)
  /\ thread' = [thread EXCEPT ![v] = "polling"]
  /\ \E spawns \in BOOLEAN :
       process' = [process EXCEPT ![v] = [leader |-> "running", descendant |-> spawns, signalled |-> FALSE]]
  /\ UNCHANGED <<source, call, lock, cancellations, imports, step, loads, ghosts>>

StepOver(v) ==
  /\ thread' = [thread EXCEPT ![v] = "entered"]
  /\ step' = [step EXCEPT ![v] = @ + 1]

(* The command ends by itself; its step is over when a poll sees that.     *)
LeaderExits(v) ==
  /\ process[v].leader = "running"
  /\ process' = [process EXCEPT ![v].leader = "exited"]
  /\ UNCHANGED <<source, call, lock, thread, cancellations, imports, step, loads, ghosts>>

StepEnds(v) ==
  /\ thread[v] = "polling" /\ process[v].leader = "exited"
  /\ StepOver(v)
  /\ UNCHANGED <<source, call, lock, cancellations, imports, loads, process, ghosts>>

(* The poll found it running and its deadline over, or the call cancelled. *)
(* _stop_process does nothing for a leader that has just exited; else it   *)
(* sends SIGTERM to the group, whose members may ignore it.                *)
Terminate(v) ==
  /\ thread[v] = "polling"
  /\ IF process[v].leader = "exited"
     THEN StepOver(v) /\ UNCHANGED process
     ELSE /\ \E l \in {"running", "exited"}, d \in BOOLEAN :
               /\ d => process[v].descendant
               /\ process' = [process EXCEPT ![v] = [leader |-> l, descendant |-> d, signalled |-> TRUE]]
          /\ thread' = [thread EXCEPT ![v] = "terminating"]
          /\ UNCHANGED step
  /\ UNCHANGED <<source, call, lock, cancellations, imports, loads, ghosts>>

(* SIGKILL to the group, whether or not its leader has exited.             *)
_stop_process_LeaderOnly(group) ==
  IF group.leader = "exited" THEN group ELSE [group EXCEPT !.leader = "exited", !.descendant = FALSE]
_stop_process(group) == [group EXCEPT !.leader = "exited", !.descendant = FALSE]

Kill(v) ==
  /\ thread[v] = "terminating"
  /\ process' = [process EXCEPT ![v] = _stop_process(process[v])]
  /\ StepOver(v)
  /\ UNCHANGED <<source, call, lock, cancellations, imports, loads, ghosts>>

-----------------------------------------------------------------------------
(* Cancellations.                                                          *)
LeaveQueue(c) ==
  /\ LoopIsFree /\ call[c] = "waiting"
  /\ call' = [call EXCEPT ![c] = "cancelled"]
  /\ UNCHANGED <<source, lock, thread, cancellations, imports, step, loads, process, ghosts>>

GiveUp(c) ==
  /\ call' = [call EXCEPT ![c] = "cancelled"]
  /\ Release(c)
  /\ abandoned' = IF Underway(c) THEN abandoned \cup {c} ELSE abandoned

(* call: to_thread is not shielded.  A function that no thread has begun   *)
(* never is, one that was goes on without the lock, wherever it is: also   *)
(* if it has yet to take its snapshots.                                    *)
CancelInspection(c) ==
  /\ LoopIsFree /\ call[c] = "holding" /\ Kind[c] = "inspection"
  /\ IF thread[c] = "queued"
     THEN /\ thread' = [thread EXCEPT ![c] = "none"]
          /\ call' = [call EXCEPT ![c] = "cancelled"]
          /\ Release(c)
          /\ UNCHANGED abandoned
     ELSE GiveUp(c) /\ UNCHANGED thread
  /\ UNCHANGED <<source, cancellations, imports, step, loads, process, acquiredAt, stale, late, beside>>

(* An inline operation is cancelled where it awaits; its context managers  *)
(* and the lock are left on the way out.                                   *)
CancelInline(c) ==
  /\ call[c] = "holding" /\ Kind[c] = "inline" /\ thread[c] = "imported"
  /\ call' = [call EXCEPT ![c] = "cancelled"]
  /\ Leave(c, "none")
  /\ Release(c)

(* validation_call: the first cancellation sets the event and waits for    *)
(* the worker behind a second shield; another one ends the wait.           *)
CancelValidation_Unshielded(v) ==
  /\ LoopIsFree /\ call[v] = "holding" /\ v \in Validations
  /\ cancellations' = [cancellations EXCEPT ![v] = @ + 1]
  /\ GiveUp(v)
  /\ UNCHANGED <<source, thread, imports, step, loads, process, acquiredAt, stale, late, beside>>

CancelValidation(v) ==
  /\ LoopIsFree /\ call[v] = "holding" /\ v \in Validations
  /\ cancellations' = [cancellations EXCEPT ![v] = @ + 1]
  /\ IF cancellations[v] = 0 THEN UNCHANGED <<call, lock, abandoned>> ELSE GiveUp(v)
  /\ UNCHANGED <<source, thread, imports, step, loads, process, acquiredAt, stale, late, beside>>

Edit ==
  /\ source < MaxEdits
  /\ source' = source + 1
  /\ UNCHANGED <<call, lock, thread, cancellations, imports, step, loads, process, ghosts>>

-----------------------------------------------------------------------------
Operation(c) ==
  \/ Begin(c) \/ EnterImports(c) \/ Load(c) \/ Import(c) \/ ImportContract(c) \/ LoadEnds(c) \/ OperationEnds(c)
  \/ CheckCancelled(c) \/ _start_process(c) \/ StepEnds(c) \/ Terminate(c) \/ Kill(c)

Next ==
  \/ Edit
  \/ \E c \in Calls :
       \/ Acquire(c) \/ Answer(c) \/ LeaveQueue(c)
       \/ CancelInspection(c) \/ CancelInline(c) \/ CancelValidation(c)
       \/ Operation(c) \/ LeaderExits(c)

Spec == Init /\ [][Next]_vars

(* The loop and the threads go on, an import and what is awaited inline    *)
(* end, and a command that does not is stopped at its deadline.  Nobody    *)
(* must call, edit or cancel, and a command need not end by itself.        *)
LiveSpec ==
  /\ Spec
  /\ \A c \in Calls : WF_vars(Acquire(c)) /\ WF_vars(Answer(c)) /\ WF_vars(Operation(c))

-----------------------------------------------------------------------------
(* Two operations are under way at once only if one of them is a cancelled *)
(* inspection, or a validation that was cancelled twice: the lock is kept  *)
(* until a validation cancelled once has stopped.                          *)
OneAtATime ==
  \A c, d \in {x \in Calls : Underway(x)} :
    c # d => \E x \in {c, d} : /\ call[x] = "cancelled"
                               /\ Kind[x] = "inspection" \/ cancellations[x] = 2

(* "without leaking state": when no operation runs, and none ever ran      *)
(* while another one did, modules, path and byte-code cache are as the     *)
(* process had them.                                                       *)
NothingLeaks == beside = {} /\ (\A c \in Calls : ~Running(c)) => interpreter = Original

(* "fresh project imports": an operation that runs alone imports the       *)
(* source as it was when its call got the lock, or newer, whatever calls   *)
(* before it left loaded.  So does one that runs beside an inspection that *)
(* was cancelled, as long as that one took its snapshots while it had the  *)
(* lock, and no other call, nor a validation, was given up.                *)
NoStaleModules ==
  /\ stale \subseteq beside
  /\ stale # {} => \/ late # {}
                   \/ \E c, d \in abandoned : c # d
                   \/ abandoned \cap Validations # {}

(* isolated_project_imports, as far as the lock carries it.                *)
ImportsAreIsolated == NothingLeaks /\ NoStaleModules

(* "Give a persistent adapter fresh project imports without leaking        *)
(* state."  One inspection that is cancelled before it takes a snapshot    *)
(* breaks it: it saves the modules of the next call, and puts them back    *)
(* under a third one.                                                      *)
FreshImports == stale = {}

(* A validation never ends with its command running; and one that was      *)
(* signalled leaves no descendant, even one that ignored SIGTERM under a   *)
(* leader that did not.                                                    *)
NoCommandSurvives ==
  \A v \in Validations :
    thread[v] \notin {"polling", "terminating"} =>
      /\ process[v].leader # "running"
      /\ process[v].signalled => ~process[v].descendant

(* Every call is answered or cancelled, and a cancelled validation stops:  *)
(* no lock is held forever, no worker polls forever.                       *)
EveryCallEnds ==
  /\ \A c \in Calls : call[c] = "waiting" ~> call[c] \in {"answered", "failed", "cancelled"}
  /\ \A v \in Validations : cancellations[v] > 0 ~> ~Underway(v)
=============================================================================
