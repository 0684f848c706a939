-------------------------- MODULE TaskboardOutbox --------------------------
(***************************************************************************)
(* The taskboard's membership outbox: add_project_member requests and      *)
(* outbox workers, each on a connection of its own to one SQLite file in   *)
(* WAL mode.                                                               *)
(*                                                                         *)
(* A connection reads the last committed database until its first write,   *)
(* which begins a transaction and takes the one writer lock; from then on  *)
(* it works on its own copy until commit publishes it or rollback drops    *)
(* it.  Workers crash and restart; requests fail; both wait for the lock   *)
(* for at most busy_timeout, so waiting may also end in a failure.         *)
(***************************************************************************)
EXTENDS Integers, Sequences

CONSTANTS
  Requests,    \* add_project_member calls for one project
  Workers,     \* outbox worker processes
  Users,
  Target,      \* Target[r]: the user request r adds
  Rejects,     \* <<w, u>>: w's dispatcher rejects the message about u
  MaxFaults,   \* bound on crashes, infrastructure errors and lock timeouts
  None

ASSUME OutboxAssumption ==
  /\ Requests \cap Workers = {}
  /\ Target \in [Requests -> Users]
  /\ Rejects \subseteq Workers \X Users
  /\ MaxFaults \in Nat
  /\ None \notin Requests \cup Workers

VARIABLES
  db,        \* the committed database
  writer,    \* the connection holding the writer lock, or None
  work,      \* the database as the writer's transaction sees it
  request,   \* progress of each request
  seen,      \* seen[r]: project.member_ids as request r read it
  worker,    \* progress of each worker
  entry,     \* entry[w]: id of the outbox row w has claimed, or 0
  faults     \* history: worker faults so far

vars == <<db, writer, work, request, seen, worker, entry, faults>>

(* A row of the outbox table; its id is its position. *)
Row == [user : Users, processed : BOOLEAN, error : BOOLEAN]

(* notified lists the row whose handler wrote each notification. *)
Database == [members : SUBSET Users, outbox : Seq(Row), notified : Seq(Nat)]

(* Every variable has its type, only the writer's copy may differ from     *)
(* what is committed, and a connection past its first write holds the lock *)
(* (sqlite3 transactions of open_request_ports and process_next).          *)
TypeOK ==
  /\ db \in Database
  /\ work \in Database
  /\ writer \in Requests \cup Workers \cup {None}
  /\ request \in [Requests -> {"new", "read", "saved", "queued",
                               "done", "unchanged", "failed"}]
  /\ seen \in [Requests -> SUBSET Users]
  /\ worker \in [Workers -> {"idle", "claimed", "delivered", "rejected",
                             "rolled_back", "marked"}]
  /\ entry \in [Workers -> 0..Len(db.outbox)]
  /\ faults \in 0..MaxFaults
  /\ writer = None => work = db
  /\ \A r \in Requests : writer = r <=> request[r] \in {"saved", "queued"}
  /\ \A w \in Workers :
       writer = w <=> worker[w] \in {"claimed", "delivered", "rejected", "marked"}

Init ==
  /\ db = [members |-> {}, outbox |-> <<>>, notified |-> <<>>]
  /\ work = db
  /\ writer = None
  /\ request = [r \in Requests |-> "new"]
  /\ seen = [r \in Requests |-> {}]
  /\ worker = [w \in Workers |-> "idle"]
  /\ entry = [w \in Workers |-> 0]
  /\ faults = 0

-----------------------------------------------------------------------------
(* Transactions. *)

BeginWith(p, d) == writer = None /\ writer' = p /\ work' = d /\ UNCHANGED db

Commit(p) == writer = p /\ writer' = None /\ db' = work /\ UNCHANGED work

(* Rolling back a connection that holds no transaction does nothing. *)
RollBack(p) ==
  /\ writer' = IF writer = p THEN None ELSE writer
  /\ work' = IF writer = p THEN db ELSE work
  /\ UNCHANGED db

-----------------------------------------------------------------------------
(* add_project_member in its request scope. *)

RequestMoves(r, from, to) ==
  /\ request[r] = from
  /\ request' = [request EXCEPT ![r] = to]
  /\ UNCHANGED <<worker, entry, faults>>

(* projects.get, outside any transaction. *)
ReadMembers(r) ==
  /\ RequestMoves(r, "new", "read")
  /\ Target[r] \notin db.members
  /\ seen' = [seen EXCEPT ![r] = db.members]
  /\ UNCHANGED <<db, writer, work>>

AlreadyMember(r) ==
  /\ RequestMoves(r, "new", "unchanged")
  /\ Target[r] \in db.members
  /\ UNCHANGED <<db, writer, work, seen>>

(* projects.save: UPDATE projects SET member_ids, whatever they are now. *)

SaveMembers(r) ==
  /\ RequestMoves(r, "read", "saved")
  /\ BeginWith(r, [db EXCEPT !.members = seen[r] \cup {Target[r]}])
  /\ UNCHANGED seen

(* outbox.enqueue of the member_added message, in the same transaction. *)
Enqueue(r) ==
  /\ RequestMoves(r, "saved", "queued")
  /\ work' = [work EXCEPT !.outbox =
       Append(@, [user |-> Target[r], processed |-> FALSE, error |-> FALSE])]
  /\ UNCHANGED <<db, writer, seen>>

CommitRequest(r) ==
  /\ RequestMoves(r, "queued", "done")
  /\ Commit(r)
  /\ UNCHANGED seen

(* An error, a timeout, a lock that stays busy, or a crash: roll back. *)
FailRequest(r) ==
  /\ request[r] \in {"new", "read", "saved", "queued"}
  /\ request' = [request EXCEPT ![r] = "failed"]
  /\ RollBack(r)
  /\ UNCHANGED <<seen, worker, entry, faults>>

-----------------------------------------------------------------------------
(* process_next. *)

Pending == {i \in DOMAIN db.outbox : ~db.outbox[i].processed}

WorkerMoves(w, from, to) ==
  /\ worker[w] = from
  /\ worker' = [worker EXCEPT ![w] = to]
  /\ UNCHANGED <<request, seen, faults>>

Oldest_Newest(i) == i \in Pending /\ \A j \in Pending : j <= i

(* ORDER BY id LIMIT 1 *)
Oldest(i) == i \in Pending /\ \A j \in Pending : i <= j

Claimed(i) == [db EXCEPT !.outbox[i].processed = TRUE]

(* claim_next; with nothing pending it returns and leaves no trace. *)
Claim(w) ==
  /\ WorkerMoves(w, "idle", "claimed")
  /\ \E i \in Pending :
       /\ Oldest(i)
       /\ BeginWith(w, Claimed(i))
       /\ entry' = [entry EXCEPT ![w] = i]

User(w) == db.outbox[entry[w]].user

(* The handler ran; its notification is in the worker's transaction. *)
Deliver(w) ==
  /\ WorkerMoves(w, "claimed", "delivered")
  /\ <<w, User(w)>> \notin Rejects
  /\ work' = [work EXCEPT !.notified = Append(@, entry[w])]
  /\ UNCHANGED <<db, writer, entry>>

(* JobPayloadError, JobNotFoundError, JobResultError or AppError: the      *)
(* handler may or may not have written before the failure.                 *)
Reject(w) ==
  /\ WorkerMoves(w, "claimed", "rejected")
  /\ <<w, User(w)>> \in Rejects
  /\ \/ work' = [work EXCEPT !.notified = Append(@, entry[w])]
     \/ UNCHANGED work
  /\ UNCHANGED <<db, writer, entry>>

(* connection.rollback(): the claim is gone with the partial writes. *)

RollBackJob_Commits(w) ==
  /\ WorkerMoves(w, "rejected", "rolled_back")
  /\ Commit(w)
  /\ UNCHANGED entry

RollBackJob(w) ==
  /\ WorkerMoves(w, "rejected", "rolled_back")
  /\ RollBack(w)
  /\ UNCHANGED entry

MarkedFailed_ErrorOnly(i) == [db EXCEPT !.outbox[i].error = TRUE]

MarkedFailed(i) ==
  [db EXCEPT !.outbox[i].processed = TRUE, !.outbox[i].error = TRUE]

(* outbox.mark_failed, in a transaction of its own. *)
MarkFailed(w) ==
  /\ WorkerMoves(w, "rolled_back", "marked")
  /\ BeginWith(w, MarkedFailed(entry[w]))
  /\ UNCHANGED entry

CommitJob(w) ==
  /\ \E from \in {"delivered", "marked"} : WorkerMoves(w, from, "idle")
  /\ Commit(w)
  /\ entry' = [entry EXCEPT ![w] = 0]

(* Any other exception, a busy lock, or a crash and restart: the           *)
(* connection closes, which rolls back, and the worker polls again.        *)
Fault(w) ==
  /\ worker[w] # "idle"
  /\ faults < MaxFaults
  /\ faults' = faults + 1
  /\ RollBack(w)
  /\ worker' = [worker EXCEPT ![w] = "idle"]
  /\ entry' = [entry EXCEPT ![w] = 0]
  /\ UNCHANGED <<request, seen>>

RequestStep(r) ==
  \/ ReadMembers(r) \/ AlreadyMember(r) \/ SaveMembers(r)
  \/ Enqueue(r) \/ CommitRequest(r) \/ FailRequest(r)

Process(w) == Deliver(w) \/ Reject(w) \/ RollBackJob(w) \/ CommitJob(w)

WorkerStep(w) == Claim(w) \/ Process(w) \/ MarkFailed(w) \/ Fault(w)

Done == \A r \in Requests : request[r] \in {"done", "unchanged", "failed"}

(* Everything is answered and settled; workers go on polling. *)
Quiet ==
  /\ Done
  /\ Pending = {}
  /\ \A w \in Workers : worker[w] = "idle"
  /\ UNCHANGED vars

Next ==
  \/ \E r \in Requests : RequestStep(r)
  \/ \E w \in Workers : WorkerStep(w)
  \/ Quiet

Spec == Init /\ [][Next]_vars

(* A request that began to write ends (commit or rollback), and main()     *)
(* keeps every worker going.  The lock is free again and again, and SQLite *)
(* does not refuse it to the same worker for ever.                         *)
Fairness ==
  /\ \A r \in Requests : WF_vars(Enqueue(r) \/ CommitRequest(r))
  /\ \A w \in Workers :
       /\ WF_vars(Process(w))
       /\ SF_vars(Claim(w))
       /\ SF_vars(MarkFailed(w))

FairSpec == Spec /\ Fairness

-----------------------------------------------------------------------------
Announced == {db.outbox[i].user : i \in DOMAIN db.outbox}
Notifications(i) == {n \in DOMAIN db.notified : db.notified[n] = i}

(* A committed row is delivered at most once, however often its job was    *)
(* claimed, rolled back, or interrupted (SqliteOutbox docstring).          *)
DeliveredAtMostOnce ==
  \A m, n \in DOMAIN db.notified : db.notified[m] = db.notified[n] => m = n

(* The notification commits with the settled row and with nothing else: a  *)
(* row has one exactly when it is settled without an error.                *)
NotifiedExactlyWhenDelivered ==
  \A i \in DOMAIN db.outbox :
    i \in {db.notified[n] : n \in DOMAIN db.notified}
      <=> db.outbox[i].processed /\ ~db.outbox[i].error

(* Rows settle oldest first, with any number of workers: nothing overtakes *)
(* a row that is still pending (claim_next).                               *)
SettledOldestFirst ==
  \A i, j \in DOMAIN db.outbox :
    i < j /\ db.outbox[j].processed => db.outbox[i].processed

(* Nobody is a committed member without a committed message announcing it  *)
(* (add_project_member: both commit or roll back together).                *)
MembersWereAnnounced == db.members \subseteq Announced

(* A committed message is settled in the end: delivered or dead-lettered.  *)
EveryMessageSettles ==
  \A u \in Users :
    u \in Announced ~>
      \A i \in DOMAIN db.outbox : db.outbox[i].user = u => db.outbox[i].processed

(* Claimed by the repository's documentation, refuted by the code: *)

(* worker.py: a job ends delivered or dead-lettered, not both.             *)
EndsOneWay ==
  \A i \in DOMAIN db.outbox : db.outbox[i].error => Notifications(i) = {}

=============================================================================
