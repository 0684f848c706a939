--------------------------- MODULE TaskboardTasks ---------------------------
(***************************************************************************)
(* taskboard's writes to one task and its idempotent creations, from       *)
(* several processes over one SQLite database: the tool tasks.move, POST   *)
(* /tasks and PATCH /tasks/{id}.                                           *)
(*                                                                         *)
(* Every request has a connection and a transaction of its own.  A read    *)
(* before the first write sees what is committed; the first write takes    *)
(* SQLite's writer lock, which the request keeps until it commits or rolls *)
(* back.  Clients repeat a request whose answer they did not get, with the *)
(* same key, whether or not the first one is still running.                *)
(***************************************************************************)
EXTENDS FixedWindow, FiniteSets

CONSTANTS
  Ops,       \* logical operations: [kind, key, expected, value]
  Sends,     \* Sends[o]: how often a client sends operation o at most
  Rule,      \* the rate limit of tasks.move
  LeaseTTL,  \* reservation_ttl, in ticks
  Horizon    \* how long the system is watched

Kinds == {"move", "create", "patch"}
Requests == UNION {{o} \X (1..Sends[o]) : o \in Ops}

(* A row of tasks, as far as its version, status and title go. *)
Values == {"todo", "first"} \cup {o.value : o \in Ops}
Tasks == [version : Nat, status : Values, title : Values]

(* An operation ends with the task it has saved or the row it has made.    *)
Results == Tasks \cup [row : Requests]

(* A row of idempotency_records: under way, or with its result.  charged   *)
(* names the window a move was charged to.                                 *)
Records == [input : Ops, token : Requests, result : Results \cup {None},
            until : Int, charged : Int \cup {None}]

(* What a key has settled on. *)
Settlements == [input : Ops, result : Results]

ASSUME TaskboardTasksAssumption ==
  /\ \A o \in Ops : o.kind \in Kinds /\ o.expected \in Nat \ {0}
  /\ Sends \in [Ops -> Nat]
  /\ Rule \in Policies
  /\ LeaseTTL \in Nat \ {0}
  /\ Horizon \in Nat
  /\ None \notin Requests /\ None \notin Results
  /\ None \notin Records /\ None \notin Settlements

Op(r) == r[1]
Keyed == {r \in Requests : Op(r).kind # "patch"}
Keys == {Op(r).key : r \in Keyed}
KeyOf(r) == Op(r).key

VARIABLES
  db,       \* the committed database
  work,     \* the writer's transaction, or None
  writer,   \* the request that holds the writer lock, or None
  req,      \* each request's progress
  now       \* the wall clock

vars == <<db, work, writer, req, now>>

Waiting == {"arrived", "saving"}
Init ==
  /\ db = [task |-> [version |-> 1, status |-> "todo", title |-> "first"],
           rows |-> [k \in Keys |-> 0],
           records |-> [k \in Keys |-> None],
           window |-> None]
  /\ work = None
  /\ writer = None
  /\ req = [r \in Requests |->
              [stage |-> "idle", seen |-> None, result |-> None,
               answer |-> None, overlaps |-> FALSE]]
  /\ now = 0

(* What the client has of its request in the end: a result, or the refusal *)
(* of work in progress, or nothing it could use ("refused": any other      *)
(* error, a lost answer, a dead process).                                  *)
Answered(r, answer, result) ==
  req' = [req EXCEPT ![r] =
    [stage |-> "answered", seen |-> None, result |-> result,
     answer |-> answer, overlaps |-> FALSE]]

(* A write of r takes the writer lock if nobody else has it. *)
Lock(r, stage, answer, result) ==
  /\ writer = None
  /\ writer' = r
  /\ req' = [req EXCEPT ![r].stage = stage, ![r].seen = None,
                      ![r].answer = answer, ![r].result = result]

Holding(r, stage) == writer = r /\ req[r].stage = stage

(* An exception on its way through the transaction. *)
Raise(r) ==
  /\ req' = [req EXCEPT ![r].stage = "failing", ![r].answer = "refused",
                        ![r].result = None]
  /\ UNCHANGED <<db, writer, now>>

-----------------------------------------------------------------------------
(* Requests arrive. *)

Matching(r, s) == s # r /\ Op(s) = Op(r) /\ writer = s

Send(r) ==
  /\ req[r].stage = "idle"
  /\ r[2] > 1 => req[<<Op(r), r[2] - 1>>].stage # "idle"
  /\ req' = [req EXCEPT
       ![r].stage = "arrived",
       ![r].overlaps = r \in Keyed /\ \E s \in Keyed :
          Matching(r, s) /\ work.records[KeyOf(s)] # None
            /\ work.records[KeyOf(s)].token = s]
  /\ UNCHANGED <<db, work, writer, now>>

(* busy_timeout expires behind another writer, or the process dies. *)
GiveUp(r) ==
  /\ req[r].stage \in Waiting
  /\ Answered(r, "refused", None)
  /\ UNCHANGED <<db, work, writer, now>>

-----------------------------------------------------------------------------
(* SqliteIdempotencyStore.reserve, in the order of its statements. *)

Live_ResultsExpire(rec) == rec # None /\ rec.until > now

(* A record that is in the way: completed ones are kept for ever. *)
Live(rec) == rec # None /\ (rec.result = None => rec.until > now)

Reserve(r) ==
  LET found == db.records[KeyOf(r)] IN
  /\ req[r].stage = "arrived" /\ r \in Keyed
  /\ \/ /\ ~Live(found)
        /\ Lock(r, "operating", None, None)
        /\ work' = [db EXCEPT !.records[KeyOf(r)] =
             [input |-> Op(r), token |-> r, result |-> None,
              until |-> now + LeaseTTL, charged |-> None]]
     \/ /\ Live(found) /\ found.input = Op(r) /\ found.result # None
        /\ Lock(r, "committing", "ok", found.result)
        /\ work' = db
     \/ /\ Live(found) /\ found.input = Op(r) /\ found.result = None
        /\ Lock(r, "failing", "in_progress", None)
        /\ work' = db
     \/ /\ Live(found) /\ found.input # Op(r)
        /\ Lock(r, "failing", "refused", None)
        /\ work' = db
  /\ UNCHANGED <<db, now>>

(* complete: only before the lease is over. *)
Complete(r) ==
  LET k == KeyOf(r) IN
  /\ Holding(r, "completing")
  /\ IF work.records[k].until > now
     THEN /\ work' = [work EXCEPT !.records[k].result = req[r].result]
          /\ req' = [req EXCEPT ![r].stage = "committing", ![r].answer = "ok"]
          /\ UNCHANGED <<db, writer, now>>
     ELSE /\ work' = [work EXCEPT !.records[k] = None]
          /\ Raise(r)

-----------------------------------------------------------------------------
(* The operations under the reservation. *)

(* The change an operation makes to the task it has read. *)
Changed(o, task) ==
  IF o.kind = "move" THEN [task EXCEPT !.version = @ + 1, !.status = o.value]
  ELSE [task EXCEPT !.version = @ + 1, !.title = o.value]

Operated(r, result) ==
  /\ req' = [req EXCEPT ![r].stage = "completing", ![r].result = result]
  /\ UNCHANGED <<db, writer, now>>

(* move_task: the quota, then the task and who may write it, then the      *)
(* precondition and the save.  A task that is there but not to be written  *)
(* by this user is a choice; a stale version is not.                       *)
Move(r) ==
  LET o == Op(r)
      consumed == [work EXCEPT !.window = Window(@, Rule, 1, now)]
      permitted == Decision(work.window, Rule, 1, now).got = "permit"
      task == IF work.task.status = o.value THEN work.task ELSE Changed(o, work.task)
  IN /\ Holding(r, "operating") /\ o.kind = "move"
     /\ \/ /\ work' = [consumed EXCEPT !.records[o.key] = None]
           /\ Raise(r)
        \/ /\ permitted /\ work.task.version = o.expected
           /\ work' = [consumed EXCEPT !.task = task,
                        !.records[o.key].charged = consumed.window.resets]
           /\ Operated(r, task)

Create(r) ==
  /\ Holding(r, "operating") /\ Op(r).kind = "create"
  /\ work' = [work EXCEPT !.rows[KeyOf(r)] = @ + 1]
  /\ Operated(r, [row |-> r])

(* The operation raises before it has written anything. *)
OperationFails(r) ==
  /\ Holding(r, "operating")
  /\ work' = [work EXCEPT !.records[KeyOf(r)] = None]
  /\ Raise(r)

-----------------------------------------------------------------------------
(* update_task: a read, a check, and a save that checks again. *)

Read(r) ==
  /\ req[r].stage = "arrived" /\ Op(r).kind = "patch"
  /\ IF db.task.version = Op(r).expected
     THEN req' = [req EXCEPT ![r].stage = "saving", ![r].seen = db.task]
     ELSE Answered(r, "refused", None)
  /\ UNCHANGED <<db, work, writer, now>>

Save_Unchecked(r) ==
  LET task == [Changed(Op(r), req[r].seen) EXCEPT !.version = db.task.version + 1] IN
  /\ req[r].stage = "saving"
  /\ Lock(r, "committing", "ok", task) /\ work' = [db EXCEPT !.task = task]
  /\ UNCHANGED <<db, now>>

Save(r) ==
  LET task == Changed(Op(r), req[r].seen) IN
  /\ req[r].stage = "saving"
  /\ IF db.task.version = Op(r).expected
     THEN Lock(r, "committing", "ok", task) /\ work' = [db EXCEPT !.task = task]
     ELSE Lock(r, "failing", "refused", None) /\ work' = db
  /\ UNCHANGED <<db, now>>

-----------------------------------------------------------------------------
(* The end of the transaction. *)

Unlock == work' = None /\ writer' = None

Commit(r) ==
  /\ Holding(r, "committing")
  /\ db' = work /\ Unlock
  /\ Answered(r, req[r].answer, req[r].result)
  /\ UNCHANGED now

RollBack_Commits(r) ==
  /\ Holding(r, "failing")
  /\ db' = work /\ Unlock
  /\ Answered(r, req[r].answer, req[r].result)
  /\ UNCHANGED now

RollBack(r) ==
  /\ Holding(r, "failing")
  /\ UNCHANGED db /\ Unlock
  /\ Answered(r, req[r].answer, req[r].result)
  /\ UNCHANGED now

(* The request is cancelled, times out or its process dies.  A commit that *)
(* was under way may have been applied; anything else is rolled back.      *)
Die(r) ==
  /\ writer = r
  /\ db' \in IF req[r].stage = "committing" THEN {work, db} ELSE {db}
  /\ Unlock
  /\ Answered(r, "refused", None)
  /\ UNCHANGED now

Tick ==
  /\ now < Horizon
  /\ now' = now + 1
  /\ UNCHANGED <<db, work, writer, req>>

Next ==
  \/ \E r \in Requests :
       \/ Send(r) \/ GiveUp(r) \/ Reserve(r) \/ Complete(r)
       \/ Move(r) \/ Create(r) \/ OperationFails(r) \/ Read(r) \/ Save(r)
       \/ Commit(r) \/ RollBack(r) \/ Die(r)
  \/ Tick

Spec == Init /\ [][Next]_vars

-----------------------------------------------------------------------------
Done(k) == db.records[k] # None /\ db.records[k].result # None

(* Quota is spent by completed moves only, once per key: replays, refused  *)
(* and failed moves cost nothing (move_task).                              *)
QuotaIsForWorkDone ==
  db.window # None =>
    db.window.used =
      Cardinality({k \in Keys : Done(k) /\ db.records[k].charged = db.window.resets})

(* Nobody's change is lost: every committed save makes its own change to   *)
(* the task as it was committed before (SqliteTaskRepository.save).        *)
SavesCompose ==
  [][db'.task # db.task =>
       writer # None /\ db'.task = Changed(Op(writer), db.task)]_vars

settledBar ==
  [k \in Keys |->
     IF Done(k) THEN [input |-> db.records[k].input, result |-> db.records[k].result]
     ELSE None]

toldBar ==
  [r \in Keyed |->
     IF req[r].stage = "answered" /\ req[r].answer = "ok" THEN req[r].result ELSE None]

Durable == INSTANCE DurableResult WITH
  Requests <- Keyed, InputOf <- Op, settled <- settledBar, told <- toldBar

(* Clients that repeat a keyed request get one result per key, and only a  *)
(* result that survives (run_idempotently over open_request_ports).        *)
ImplementsDurableResult == Durable!Spec

=============================================================================
