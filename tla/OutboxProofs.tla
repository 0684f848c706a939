----------------------------- MODULE OutboxProofs -----------------------------
(***************************************************************************)
(* Proofs about TaskboardOutbox, for any number of requests, workers,      *)
(* users and faults.                                                       *)
(***************************************************************************)
EXTENDS TaskboardOutbox, TLAPS, SequenceTheorems

NewRow(r) == [user |-> Target[r], processed |-> FALSE, error |-> FALSE]

(* What a request's transaction holds when both its writes are in it. *)
Announcing(r) ==
  [db EXCEPT !.members = seen[r] \cup {Target[r]}, !.outbox = Append(@, NewRow(r))]

(* What the writer's transaction holds at each point, seen from db. *)
RequestsFit ==
  \A r \in Requests :
    /\ request[r] = "saved" => work = [db EXCEPT !.members = seen[r] \cup {Target[r]}]
    /\ request[r] = "queued" => work = Announcing(r)

WorkersFit ==
  \A w \in Workers :
    /\ worker[w] = "claimed" => work = Claimed(entry[w])
    /\ worker[w] = "delivered" =>
         work = [Claimed(entry[w]) EXCEPT !.notified = Append(@, entry[w])]
    /\ worker[w] = "marked" => work = MarkedFailed(entry[w])

WorkFits == RequestsFit /\ WorkersFit

(* A claimed row is pending as long as its worker holds the lock, and the  *)
(* rows before it are settled even when the lock is gone.                  *)
ClaimFits ==
  \A w \in Workers : worker[w] # "idle" =>
    /\ entry[w] \in DOMAIN db.outbox
    /\ worker[w] \in {"claimed", "delivered", "rejected"} => ~db.outbox[entry[w]].processed
    /\ \A j \in DOMAIN db.outbox : j < entry[w] => db.outbox[j].processed

(* Whoever a request has read as a member was announced. *)
SeenFits ==
  \A r \in Requests :
    request[r] \in {"read", "saved", "queued"} => seen[r] \subseteq Announced

(* Only settled rows have been notified. *)
NotifiedFits ==
  \A n \in DOMAIN db.notified :
    db.notified[n] \in DOMAIN db.outbox /\ db.outbox[db.notified[n]].processed

DataFits ==
  NotifiedFits /\ DeliveredAtMostOnce /\ SettledOldestFirst /\ MembersWereAnnounced

IInv == TypeOK /\ WorkFits /\ ClaimFits /\ SeenFits /\ DataFits

-----------------------------------------------------------------------------
(* Settling a row, with or without an error, changes that row only. *)
LEMMA SettledRows ==
  ASSUME NEW d \in Database, NEW i \in DOMAIN d.outbox, NEW x \in Row,
         NEW e, e = [d EXCEPT !.outbox = [@ EXCEPT ![i] = x]]
  PROVE  /\ e \in Database
         /\ e.members = d.members /\ e.notified = d.notified
         /\ Len(e.outbox) = Len(d.outbox)
         /\ DOMAIN e.outbox = DOMAIN d.outbox
         /\ \A j \in DOMAIN d.outbox : e.outbox[j] = IF j = i THEN x ELSE d.outbox[j]
<1>1. d.outbox \in Seq(Row) /\ DOMAIN d.outbox = 1..Len(d.outbox)
  BY DEF Database
<1>2. [d.outbox EXCEPT ![i] = x] \in Seq(Row)
  BY <1>1, ExceptSeq
<1>3. Len([d.outbox EXCEPT ![i] = x]) = Len(d.outbox)
  BY <1>1, ExceptSeq
<1>q. QED
  BY <1>1, <1>2, <1>3 DEF Database

LEMMA ClaimedRows ==
  ASSUME db \in Database, NEW i \in DOMAIN db.outbox
  PROVE  /\ Claimed(i) \in Database
         /\ Claimed(i).members = db.members /\ Claimed(i).notified = db.notified
         /\ Len(Claimed(i).outbox) = Len(db.outbox)
         /\ DOMAIN Claimed(i).outbox = DOMAIN db.outbox
         /\ \A j \in DOMAIN db.outbox :
              Claimed(i).outbox[j] = IF j = i THEN [db.outbox[i] EXCEPT !.processed = TRUE]
                                     ELSE db.outbox[j]
<1> DEFINE x == [db.outbox[i] EXCEPT !.processed = TRUE]
<1>0. db.outbox \in Seq(Row) /\ DOMAIN db.outbox = 1..Len(db.outbox)
  BY DEF Database
<1>a. db.outbox[i] \in Row
  BY <1>0, ElementOfSeq
<1>1. x \in Row
  BY <1>a DEF Row
<1>2. Claimed(i) = [db EXCEPT !.outbox = [@ EXCEPT ![i] = x]]
  BY DEF Claimed
<1> HIDE DEF x
<1>3. /\ Claimed(i) \in Database
      /\ \A j \in DOMAIN db.outbox : Claimed(i).outbox[j] = IF j = i THEN x ELSE db.outbox[j]
  BY <1>1, <1>2, SettledRows
<1>4. /\ Claimed(i).members = db.members /\ Claimed(i).notified = db.notified
      /\ Len(Claimed(i).outbox) = Len(db.outbox)
      /\ DOMAIN Claimed(i).outbox = DOMAIN db.outbox
  BY <1>1, <1>2, SettledRows
<1>q. QED
  BY <1>3, <1>4 DEF x

LEMMA MarkedRows ==
  ASSUME db \in Database, NEW i \in DOMAIN db.outbox
  PROVE  /\ MarkedFailed(i) \in Database
         /\ MarkedFailed(i).members = db.members /\ MarkedFailed(i).notified = db.notified
         /\ Len(MarkedFailed(i).outbox) = Len(db.outbox)
         /\ DOMAIN MarkedFailed(i).outbox = DOMAIN db.outbox
         /\ \A j \in DOMAIN db.outbox :
              MarkedFailed(i).outbox[j] =
                IF j = i THEN [db.outbox[i] EXCEPT !.processed = TRUE, !.error = TRUE]
                ELSE db.outbox[j]
<1> DEFINE x == [db.outbox[i] EXCEPT !.processed = TRUE, !.error = TRUE]
<1>0. db.outbox \in Seq(Row) /\ DOMAIN db.outbox = 1..Len(db.outbox)
  BY DEF Database
<1>a. db.outbox[i] \in Row
  BY <1>0, ElementOfSeq
<1>1. x \in Row
  BY <1>a DEF Row
<1>2. MarkedFailed(i) = [db EXCEPT !.outbox = [@ EXCEPT ![i] = x]]
  BY DEF MarkedFailed
<1> HIDE DEF x
<1>3. /\ MarkedFailed(i) \in Database
      /\ \A j \in DOMAIN db.outbox : MarkedFailed(i).outbox[j] = IF j = i THEN x ELSE db.outbox[j]
  BY <1>1, <1>2, SettledRows
<1>4. /\ MarkedFailed(i).members = db.members /\ MarkedFailed(i).notified = db.notified
      /\ Len(MarkedFailed(i).outbox) = Len(db.outbox)
      /\ DOMAIN MarkedFailed(i).outbox = DOMAIN db.outbox
  BY <1>1, <1>2, SettledRows
<1>q. QED
  BY <1>3, <1>4 DEF x

NewRowType == \A r \in Requests : NewRow(r) \in Row

LEMMA NewRowsAreRows == NewRowType
  BY OutboxAssumption DEF NewRowType, NewRow, Row

(* Appending the message of a request keeps the rows before it. *)
LEMMA QueuedRows ==
  ASSUME db \in Database, NEW r \in Requests, seen[r] \cup {Target[r]} \in SUBSET Users
  PROVE  /\ Announcing(r) \in Database
         /\ Announcing(r).members = seen[r] \cup {Target[r]}
         /\ Announcing(r).notified = db.notified
         /\ Len(Announcing(r).outbox) = Len(db.outbox) + 1
         /\ DOMAIN Announcing(r).outbox = DOMAIN db.outbox \cup {Len(db.outbox) + 1}
         /\ \A j \in DOMAIN db.outbox : Announcing(r).outbox[j] = db.outbox[j]
         /\ Announcing(r).outbox[Len(db.outbox) + 1] = NewRow(r)
<1>1. db.outbox \in Seq(Row) /\ DOMAIN db.outbox = 1..Len(db.outbox)
      /\ Len(db.outbox) \in Nat
  BY DEF Database
<1>2. NewRow(r) \in Row
  BY NewRowsAreRows DEF NewRowType
<1>3. Announcing(r).outbox = Append(db.outbox, NewRow(r)) /\ Announcing(r).members = seen[r] \cup {Target[r]}
         /\ Announcing(r).notified = db.notified
  BY DEF Database, Announcing
<1>4. /\ Append(db.outbox, NewRow(r)) \in Seq(Row)
      /\ Len(Append(db.outbox, NewRow(r))) = Len(db.outbox) + 1
      /\ \A j \in 1..Len(db.outbox) : Append(db.outbox, NewRow(r))[j] = db.outbox[j]
      /\ Append(db.outbox, NewRow(r))[Len(db.outbox) + 1] = NewRow(r)
  BY <1>1, <1>2, AppendProperties
<1>5. DOMAIN Announcing(r).outbox = 1..(Len(db.outbox) + 1)
  BY <1>3, <1>4
<1>6. Announcing(r) \in Database
  BY <1>3, <1>4 DEF Database, Announcing
<1>q. QED
  BY <1>1, <1>3, <1>4, <1>5, <1>6

(* Appending a notification. *)
LEMMA NotifiedRows ==
  ASSUME NEW d \in Database, NEW i \in DOMAIN d.outbox,
         NEW e, e = [d EXCEPT !.notified = Append(@, i)]
  PROVE  /\ e \in Database
         /\ e.members = d.members /\ e.outbox = d.outbox
         /\ DOMAIN e.notified = DOMAIN d.notified \cup {Len(d.notified) + 1}
         /\ DOMAIN d.notified = 1..Len(d.notified) /\ Len(d.notified) \in Nat
         /\ \A n \in DOMAIN d.notified : e.notified[n] = d.notified[n]
         /\ e.notified[Len(d.notified) + 1] = i
<1>1. /\ d.notified \in Seq(Nat) /\ DOMAIN d.notified = 1..Len(d.notified)
      /\ Len(d.notified) \in Nat
      /\ i \in Nat
  BY DEF Database
<1>2. e.notified = Append(d.notified, i) /\ e.members = d.members /\ e.outbox = d.outbox
  BY DEF Database
<1>3. /\ Append(d.notified, i) \in Seq(Nat)
      /\ Len(Append(d.notified, i)) = Len(d.notified) + 1
      /\ \A j \in 1..Len(d.notified) : Append(d.notified, i)[j] = d.notified[j]
      /\ Append(d.notified, i)[Len(d.notified) + 1] = i
  BY <1>1, AppendProperties
<1>4. DOMAIN e.notified = 1..(Len(d.notified) + 1)
  BY <1>2, <1>3
<1>5. e \in Database
  BY <1>2, <1>3 DEF Database
<1>q. QED
  BY <1>1, <1>2, <1>3, <1>4, <1>5

-----------------------------------------------------------------------------
LEMMA InvInitial == Init => IInv
<1> SUFFICES ASSUME Init PROVE IInv
  OBVIOUS
<1>1. db \in Database /\ work \in Database /\ db.outbox = <<>> /\ db.notified = <<>>
  BY DEF Init, Database
<1>2. TypeOK
  BY <1>1, OutboxAssumption DEF Init, TypeOK
<1>3. WorkFits /\ ClaimFits /\ SeenFits
  BY DEF Init, WorkFits, RequestsFit, WorkersFit, ClaimFits, SeenFits
<1>4. DataFits
  BY <1>1 DEF Init, DataFits, NotifiedFits, DeliveredAtMostOnce, SettledOldestFirst,
     MembersWereAnnounced
<1>q. QED
  BY <1>2, <1>3, <1>4 DEF IInv

(* While no transaction commits, what is committed stays as it is. *)
LEMMA DataStays == DataFits /\ UNCHANGED db => DataFits'
  BY DEF DataFits, NotifiedFits, DeliveredAtMostOnce, SettledOldestFirst,
     MembersWereAnnounced, Announced

LEMMA SavedMembers ==
  ASSUME db \in Database, NEW m \in SUBSET Users, NEW e, e = [db EXCEPT !.members = m]
  PROVE  /\ e \in Database /\ e.members = m
         /\ e.outbox = db.outbox /\ e.notified = db.notified
  BY DEF Database

(* A step of a request that leaves the others alone, as far as what they   *)
(* see of the database goes.                                               *)
LEMMA OthersStay ==
  ASSUME TypeOK, WorkFits, ClaimFits, UNCHANGED <<db, worker, entry>>,
         UNCHANGED work \/ \A w \in Workers : writer # w
  PROVE  ClaimFits' /\ WorkersFit'
<1>1. ClaimFits'
  BY DEF ClaimFits
<1>2. ASSUME NEW w \in Workers
      PROVE  /\ Claimed(entry[w])' = Claimed(entry[w])
             /\ MarkedFailed(entry[w])' = MarkedFailed(entry[w])
  BY DEF Claimed, MarkedFailed
<1>3. CASE UNCHANGED work
  BY <1>1, <1>2, <1>3 DEF WorkFits, WorkersFit
<1>4. CASE \A w \in Workers : writer # w
  BY <1>1, <1>4 DEF TypeOK, WorkersFit
<1>q. QED
  BY <1>3, <1>4

LEMMA RequestsStep ==
  ASSUME IInv, NEW r \in Requests,
         ReadMembers(r) \/ AlreadyMember(r) \/ SaveMembers(r) \/ Enqueue(r) \/ FailRequest(r)
  PROVE  IInv'
<1> USE OutboxAssumption
<1>0. TypeOK /\ WorkFits /\ ClaimFits /\ SeenFits /\ DataFits
  BY DEF IInv
<1>1. CASE ReadMembers(r)
  <2>1. TypeOK'
    BY <1>0, <1>1 DEF ReadMembers, RequestMoves, TypeOK, Database
  <2>o. ClaimFits' /\ WorkersFit'
    BY <1>0, <1>1, OthersStay DEF ReadMembers, RequestMoves
  <2>r. RequestsFit'
    BY <1>0, <1>1 DEF ReadMembers, RequestMoves, TypeOK, WorkFits, RequestsFit, NewRow, Announcing
  <2>2. WorkFits' /\ ClaimFits'
    BY <2>o, <2>r DEF WorkFits
  <2>3. SeenFits'
    BY <1>0, <1>1 DEF ReadMembers, RequestMoves, TypeOK, SeenFits, DataFits, MembersWereAnnounced, Announced
  <2>q. QED
    BY <1>0, <1>1, <2>1, <2>2, <2>3, DataStays DEF ReadMembers, IInv
<1>2. CASE AlreadyMember(r)
  <2>1. TypeOK'
    BY <1>0, <1>2 DEF AlreadyMember, RequestMoves, TypeOK, Database
  <2>o. ClaimFits' /\ WorkersFit'
    BY <1>0, <1>2, OthersStay DEF AlreadyMember, RequestMoves
  <2>r. RequestsFit'
    BY <1>0, <1>2 DEF AlreadyMember, RequestMoves, TypeOK, WorkFits, RequestsFit, NewRow, Announcing
  <2>2. WorkFits' /\ ClaimFits'
    BY <2>o, <2>r DEF WorkFits
  <2>3. SeenFits'
    BY <1>0, <1>2 DEF AlreadyMember, RequestMoves, TypeOK, SeenFits, Announced
  <2>q. QED
    BY <1>0, <1>2, <2>1, <2>2, <2>3, DataStays DEF AlreadyMember, IInv
<1>3. CASE SaveMembers(r)
  <2>m. seen[r] \cup {Target[r]} \in SUBSET Users
    BY <1>0 DEF TypeOK
  <2>0. work' \in Database
    BY <1>0, <1>3, <2>m, SavedMembers DEF SaveMembers, BeginWith, TypeOK
  <2>1. TypeOK'
    BY <1>0, <1>3, <2>0 DEF SaveMembers, RequestMoves, BeginWith, TypeOK
  <2>2. WorkFits' /\ ClaimFits'
    BY <1>0, <1>3 DEF SaveMembers, RequestMoves, BeginWith, TypeOK, WorkFits, RequestsFit, WorkersFit, ClaimFits, Claimed, MarkedFailed
  <2>3. SeenFits'
    BY <1>0, <1>3 DEF SaveMembers, RequestMoves, BeginWith, TypeOK, SeenFits, Announced
  <2>q. QED
    BY <1>0, <1>3, <2>1, <2>2, <2>3, DataStays DEF SaveMembers, BeginWith, IInv
<1>4. CASE Enqueue(r)
  <2>m. seen[r] \cup {Target[r]} \in SUBSET Users
    BY <1>0 DEF TypeOK
  <2>w. work = [db EXCEPT !.members = seen[r] \cup {Target[r]}] /\ db \in Database
    BY <1>0, <1>4 DEF Enqueue, RequestMoves, WorkFits, RequestsFit, WorkersFit, TypeOK
  <2>v. work' = [work EXCEPT !.outbox = Append(@, NewRow(r))]
    BY <1>4 DEF Enqueue, NewRow
  <2>0. work' = Announcing(r)
    BY <2>w, <2>v DEF Database, Announcing
  <2>a. work' \in Database
    BY <2>0, <2>m, <2>w, QueuedRows
  <2>1. TypeOK'
    BY <1>0, <1>4, <2>a DEF Enqueue, RequestMoves, TypeOK
  <2>o. writer = r /\ \A w \in Workers : writer # w
    BY <1>0, <1>4 DEF Enqueue, RequestMoves, TypeOK
  <2>x. UNCHANGED <<db, seen, worker, entry>> /\ request' = [request EXCEPT ![r] = "queued"]
    BY <1>4 DEF Enqueue, RequestMoves
  <2>y. \A q \in Requests : Announcing(q)' = Announcing(q)
    BY <2>x DEF NewRow, Announcing
  <2>2. WorkFits' /\ ClaimFits'
    BY <1>0, <2>0, <2>o, <2>x, <2>y, OthersStay DEF TypeOK, WorkFits, RequestsFit, WorkersFit
  <2>3. SeenFits'
    BY <1>0, <1>4 DEF Enqueue, RequestMoves, TypeOK, SeenFits, Announced
  <2>q. QED
    BY <1>0, <1>4, <2>1, <2>2, <2>3, DataStays DEF Enqueue, IInv
<1>5. CASE FailRequest(r)
  <2>1. TypeOK'
    BY <1>0, <1>5 DEF FailRequest, RollBack, TypeOK
  <2>o. \/ UNCHANGED work
        \/ writer = r /\ \A w \in Workers : writer # w
    BY <1>0, <1>5 DEF FailRequest, RollBack, TypeOK
  <2>x. UNCHANGED <<db, seen, worker, entry>> /\ request' = [request EXCEPT ![r] = "failed"]
    BY <1>5 DEF FailRequest, RollBack
  <2>y. ClaimFits' /\ \A q \in Requests : Announcing(q)' = Announcing(q)
    BY <1>0, <2>o, <2>x, OthersStay DEF NewRow, Announcing
  <2>2. WorkFits'
    BY <1>0, <2>o, <2>x, <2>y, OthersStay DEF TypeOK, WorkFits, RequestsFit, WorkersFit
  <2>3. SeenFits'
    BY <1>0, <1>5 DEF FailRequest, RollBack, TypeOK, SeenFits, Announced
  <2>q. QED
    BY <1>0, <1>5, <2>1, <2>2, <2>y, <2>3, DataStays DEF FailRequest, RollBack, IInv
<1>q. QED
  BY <1>1, <1>2, <1>3, <1>4, <1>5

(* While a worker writes, no request does, and a step of a worker leaves   *)
(* the other workers and the requests alone.                               *)
LEMMA RequestsStay ==
  ASSUME TypeOK, WorkFits, SeenFits, UNCHANGED <<db, request, seen>>,
         UNCHANGED work \/ \A r \in Requests : writer # r
  PROVE  SeenFits' /\ RequestsFit'
<1>1. SeenFits'
  BY DEF SeenFits, Announced
<1>2. \A r \in Requests : Announcing(r)' = Announcing(r)
  BY DEF NewRow, Announcing
<1>3. CASE UNCHANGED work
  BY <1>1, <1>2, <1>3 DEF WorkFits, RequestsFit
<1>4. CASE \A r \in Requests : writer # r
  BY <1>1, <1>4 DEF TypeOK, RequestsFit
<1>q. QED
  BY <1>3, <1>4

LEMMA WorkersStep ==
  ASSUME IInv, NEW w \in Workers,
         Claim(w) \/ Deliver(w) \/ Reject(w) \/ RollBackJob(w) \/ MarkFailed(w) \/ Fault(w)
  PROVE  IInv'
<1> USE OutboxAssumption
<1>0. TypeOK /\ WorkFits /\ ClaimFits /\ SeenFits /\ DataFits
  BY DEF IInv
<1>d. db \in Database /\ DOMAIN db.outbox = 1..Len(db.outbox) /\ Len(db.outbox) \in Nat
  BY <1>0 DEF TypeOK, Database
<1>c. UNCHANGED db => \A i : Claimed(i)' = Claimed(i) /\ MarkedFailed(i)' = MarkedFailed(i)
  BY DEF Claimed, MarkedFailed
<1>1. CASE Claim(w)
  <2>1. PICK i \in Pending : Oldest(i) /\ BeginWith(w, Claimed(i)) /\ entry' = [entry EXCEPT ![w] = i]
    BY <1>1 DEF Claim
  <2>2. i \in DOMAIN db.outbox /\ ~db.outbox[i].processed
    BY DEF Pending
  <2>3. \A j \in DOMAIN db.outbox : j < i => db.outbox[j].processed
    BY <1>d, <2>1, <2>2 DEF Oldest, Pending
  <2>4. /\ worker[w] = "idle" /\ worker' = [worker EXCEPT ![w] = "claimed"]
        /\ UNCHANGED <<request, seen, faults, db>>
        /\ writer = None /\ writer' = w /\ work' = Claimed(i)
    BY <1>1, <2>1 DEF Claim, WorkerMoves, BeginWith
  <2>5. work' \in Database
    BY <1>d, <2>2, <2>4, ClaimedRows
  <2>6. TypeOK'
    BY <1>0, <1>d, <2>1, <2>2, <2>4, <2>5 DEF TypeOK
  <2>7. ClaimFits'
    BY <1>0, <2>1, <2>2, <2>3, <2>4 DEF TypeOK, ClaimFits
  <2>8. \A r \in Requests : writer # r
    BY <2>4
  <2>r. SeenFits' /\ RequestsFit'
    BY <1>0, <2>1, <2>4, <2>8, RequestsStay
  <2>9. SeenFits' /\ WorkFits'
    BY <1>0, <1>c, <2>1, <2>4, <2>r DEF TypeOK, WorkFits, WorkersFit
  <2>q. QED
    BY <1>0, <2>4, <2>6, <2>7, <2>9, DataStays DEF IInv
<1>2. CASE Deliver(w)
  <2>1. /\ worker[w] = "claimed" /\ worker' = [worker EXCEPT ![w] = "delivered"]
        /\ UNCHANGED <<request, seen, faults, db, writer, entry>>
        /\ work' = [work EXCEPT !.notified = Append(@, entry[w])]
    BY <1>2 DEF Deliver, WorkerMoves
  <2>2. writer = w /\ work = Claimed(entry[w]) /\ entry[w] \in DOMAIN db.outbox
    BY <1>0, <2>1 DEF TypeOK, WorkFits, RequestsFit, WorkersFit, ClaimFits
  <2>3. work \in Database /\ entry[w] \in DOMAIN work.outbox
    BY <1>d, <2>2, ClaimedRows
  <2>4. work' \in Database
    BY <2>1, <2>3, NotifiedRows
  <2>5. TypeOK'
    BY <1>0, <2>1, <2>4 DEF TypeOK
  <2>6. ClaimFits'
    BY <1>0, <2>1 DEF TypeOK, ClaimFits
  <2>7. \A r \in Requests : writer # r
    BY <2>2
  <2>r. SeenFits' /\ RequestsFit'
    BY <1>0, <2>1, <2>7, RequestsStay
  <2>8. SeenFits' /\ WorkFits'
    BY <1>0, <1>c, <2>1, <2>2, <2>r DEF TypeOK, WorkFits, WorkersFit
  <2>q. QED
    BY <1>0, <2>1, <2>5, <2>6, <2>8, DataStays DEF IInv
<1>3. CASE Reject(w)
  <2>1. /\ worker[w] = "claimed" /\ worker' = [worker EXCEPT ![w] = "rejected"]
        /\ UNCHANGED <<request, seen, faults, db, writer, entry>>
        /\ work' = [work EXCEPT !.notified = Append(@, entry[w])] \/ work' = work
    BY <1>3 DEF Reject, WorkerMoves
  <2>2. writer = w /\ work = Claimed(entry[w]) /\ entry[w] \in DOMAIN db.outbox
    BY <1>0, <2>1 DEF TypeOK, WorkFits, RequestsFit, WorkersFit, ClaimFits
  <2>3. work \in Database /\ entry[w] \in DOMAIN work.outbox
    BY <1>d, <2>2, ClaimedRows
  <2>4. work' \in Database
    BY <2>1, <2>3, NotifiedRows
  <2>5. TypeOK'
    BY <1>0, <2>1, <2>4 DEF TypeOK
  <2>6. ClaimFits'
    BY <1>0, <2>1 DEF TypeOK, ClaimFits
  <2>7. \A r \in Requests : writer # r
    BY <2>2
  <2>r. SeenFits' /\ RequestsFit'
    BY <1>0, <2>1, <2>7, RequestsStay
  <2>8. SeenFits' /\ WorkFits'
    BY <1>0, <1>c, <2>1, <2>2, <2>r DEF TypeOK, WorkFits, WorkersFit
  <2>q. QED
    BY <1>0, <2>1, <2>5, <2>6, <2>8, DataStays DEF IInv
<1>4. CASE RollBackJob(w)
  <2>1. /\ worker[w] = "rejected" /\ worker' = [worker EXCEPT ![w] = "rolled_back"]
        /\ UNCHANGED <<request, seen, faults, db, entry>>
    BY <1>4 DEF RollBackJob, WorkerMoves, RollBack
  <2>2. writer = w /\ writer' = None /\ work' = db
    BY <1>0, <1>4, <2>1 DEF RollBackJob, RollBack, TypeOK
  <2>5. TypeOK'
    BY <1>0, <2>1, <2>2 DEF TypeOK
  <2>6. ClaimFits'
    BY <1>0, <2>1 DEF TypeOK, ClaimFits
  <2>7. \A r \in Requests : writer # r
    BY <2>2
  <2>r. SeenFits' /\ RequestsFit'
    BY <1>0, <2>1, <2>7, RequestsStay
  <2>8. SeenFits' /\ WorkFits'
    BY <1>0, <1>c, <2>1, <2>2, <2>r DEF TypeOK, WorkFits, WorkersFit
  <2>q. QED
    BY <1>0, <2>1, <2>5, <2>6, <2>8, DataStays DEF IInv
<1>5. CASE MarkFailed(w)
  <2>1. /\ worker[w] = "rolled_back" /\ worker' = [worker EXCEPT ![w] = "marked"]
        /\ UNCHANGED <<request, seen, faults, db, entry>>
        /\ writer = None /\ writer' = w /\ work' = MarkedFailed(entry[w])
    BY <1>5 DEF MarkFailed, WorkerMoves, BeginWith
  <2>2. entry[w] \in DOMAIN db.outbox
    BY <1>0, <2>1 DEF ClaimFits
  <2>4. work' \in Database
    BY <1>d, <2>1, <2>2, MarkedRows
  <2>5. TypeOK'
    BY <1>0, <2>1, <2>4 DEF TypeOK
  <2>6. ClaimFits'
    BY <1>0, <2>1 DEF TypeOK, ClaimFits
  <2>7. \A r \in Requests : writer # r
    BY <2>1
  <2>r. SeenFits' /\ RequestsFit'
    BY <1>0, <2>1, <2>7, RequestsStay
  <2>8. SeenFits' /\ WorkFits'
    BY <1>0, <1>c, <2>1, <2>2, <2>r DEF TypeOK, WorkFits, WorkersFit
  <2>q. QED
    BY <1>0, <2>1, <2>5, <2>6, <2>8, DataStays DEF IInv
<1>6. CASE Fault(w)
  <2>1. /\ worker[w] # "idle" /\ worker' = [worker EXCEPT ![w] = "idle"]
        /\ UNCHANGED <<request, seen, db>>
        /\ entry' = [entry EXCEPT ![w] = 0]
        /\ faults' = faults + 1 /\ faults < MaxFaults
    BY <1>6 DEF Fault, RollBack
  <2>2. \/ writer = w /\ writer' = None /\ work' = db
        \/ writer # w /\ UNCHANGED <<writer, work>>
    BY <1>0, <1>6 DEF Fault, RollBack
  <2>5. TypeOK'
    BY <1>0, <1>d, <2>1, <2>2 DEF TypeOK
  <2>6. ClaimFits'
    BY <1>0, <2>1 DEF TypeOK, ClaimFits
  <2>7. UNCHANGED work \/ \A r \in Requests : writer # r
    BY <2>2
  <2>r. SeenFits' /\ RequestsFit'
    BY <1>0, <2>1, <2>7, RequestsStay
  <2>8. SeenFits' /\ WorkFits'
    BY <1>0, <1>c, <2>1, <2>2, <2>r DEF TypeOK, WorkFits, WorkersFit
  <2>q. QED
    BY <1>0, <2>1, <2>5, <2>6, <2>8, DataStays DEF IInv
<1>q. QED
  BY <1>1, <1>2, <1>3, <1>4, <1>5, <1>6

-----------------------------------------------------------------------------
(* What a commit of either kind does to the rows. *)
LEMMA CommitRequestStep ==
  ASSUME IInv, NEW r \in Requests, CommitRequest(r)
  PROVE  IInv'
<1> USE OutboxAssumption
<1>0. TypeOK /\ WorkFits /\ ClaimFits /\ SeenFits /\ DataFits
  BY DEF IInv
<1>1. /\ request[r] = "queued" /\ request' = [request EXCEPT ![r] = "done"]
      /\ UNCHANGED <<worker, entry, faults, seen, work>>
      /\ writer = r /\ writer' = None /\ db' = work
  BY DEF CommitRequest, RequestMoves, Commit
<1>2. seen[r] \cup {Target[r]} \in SUBSET Users
  BY <1>0 DEF TypeOK
<1>3. db \in Database /\ DOMAIN db.outbox = 1..Len(db.outbox) /\ Len(db.outbox) \in Nat
  BY <1>0 DEF TypeOK, Database
<1>s. work = Announcing(r)
  BY <1>0, <1>1 DEF WorkFits, RequestsFit, WorkersFit
<1>4. /\ work \in Database
      /\ work.members = seen[r] \cup {Target[r]} /\ work.notified = db.notified
      /\ Len(work.outbox) = Len(db.outbox) + 1
      /\ DOMAIN work.outbox = DOMAIN db.outbox \cup {Len(db.outbox) + 1}
      /\ \A j \in DOMAIN db.outbox : work.outbox[j] = db.outbox[j]
      /\ work.outbox[Len(db.outbox) + 1] = NewRow(r)
  BY <1>s, <1>2, <1>3, QueuedRows
<1>5. \A w \in Workers : worker[w] \in {"idle", "rolled_back"}
  BY <1>0, <1>1 DEF TypeOK
<1>6. TypeOK'
  BY <1>0, <1>1, <1>3, <1>4 DEF TypeOK
<1>7. WorkFits'
  BY <1>0, <1>1, <1>5 DEF TypeOK, WorkFits, RequestsFit, WorkersFit
<1>o. \A i \in 1..Len(db.outbox) : \A j \in DOMAIN work.outbox : j < i =>
        j \in DOMAIN db.outbox /\ work.outbox[j] = db.outbox[j]
  BY <1>3, <1>4
<1>8. ClaimFits'
  <2>1. ASSUME NEW w \in Workers, worker'[w] # "idle"
        PROVE  /\ worker'[w] = "rolled_back" /\ entry'[w] = entry[w]
               /\ entry[w] \in 1..Len(db.outbox)
               /\ \A j \in DOMAIN db.outbox : j < entry[w] => db.outbox[j].processed
    BY <1>0, <1>1, <1>3, <1>5, <2>1 DEF ClaimFits
  <2>2. ASSUME NEW w \in Workers, worker'[w] # "idle",
               NEW j \in DOMAIN work.outbox, j < entry[w]
        PROVE  work.outbox[j].processed
    <3>1. j \in DOMAIN db.outbox /\ work.outbox[j] = db.outbox[j]
      BY <1>o, <2>1, <2>2
    <3>q. QED
      BY <2>1, <2>2, <3>1
  <2>3. DOMAIN db.outbox \subseteq DOMAIN work.outbox
    BY <1>4
  <2>q. QED
    BY <1>1, <1>3, <2>1, <2>2, <2>3 DEF ClaimFits
<1>9. Announced \subseteq Announced' /\ Target[r] \in Announced'
  BY <1>1, <1>4 DEF Announced, NewRow
<1>10. SeenFits'
  BY <1>0, <1>1, <1>9 DEF TypeOK, SeenFits
<1>11. NotifiedFits' /\ DeliveredAtMostOnce'
  BY <1>0, <1>1, <1>4 DEF DataFits, NotifiedFits, DeliveredAtMostOnce
<1>12. SettledOldestFirst'
  <2>1. ASSUME NEW i \in DOMAIN work.outbox, NEW j \in DOMAIN work.outbox,
               i < j, work.outbox[j].processed
        PROVE  work.outbox[i].processed
    <3>1. j # Len(db.outbox) + 1
      BY <1>4, <2>1 DEF NewRow
    <3>2. j \in 1..Len(db.outbox)
      BY <1>3, <1>4, <3>1
    <3>3. i \in DOMAIN db.outbox /\ work.outbox[i] = db.outbox[i]
      BY <1>3, <1>4, <2>1, <3>2
    <3>4. db.outbox[j].processed
      BY <1>3, <1>4, <2>1, <3>2
    <3>q. QED
      BY <1>0, <1>3, <2>1, <3>2, <3>3, <3>4 DEF DataFits, SettledOldestFirst
  <2>q. QED
    BY <1>1, <2>1 DEF SettledOldestFirst
<1>13. MembersWereAnnounced'
  BY <1>0, <1>1, <1>4, <1>9 DEF SeenFits, MembersWereAnnounced
<1>q. QED
  BY <1>6, <1>7, <1>8, <1>10, <1>11, <1>12, <1>13 DEF IInv, DataFits

LEMMA CommitJobStep ==
  ASSUME IInv, NEW w \in Workers, CommitJob(w)
  PROVE  IInv'
<1> USE OutboxAssumption
<1>0. TypeOK /\ WorkFits /\ ClaimFits /\ SeenFits /\ DataFits
  BY DEF IInv
<1>1. /\ worker[w] \in {"delivered", "marked"} /\ worker' = [worker EXCEPT ![w] = "idle"]
      /\ entry' = [entry EXCEPT ![w] = 0]
      /\ UNCHANGED <<request, seen, faults, work>>
      /\ writer = w /\ writer' = None /\ db' = work
  BY DEF CommitJob, WorkerMoves, Commit
<1> DEFINE i == entry[w]
<1>2. i \in DOMAIN db.outbox /\ \A j \in DOMAIN db.outbox : j < i => db.outbox[j].processed
  BY <1>0, <1>1 DEF ClaimFits
<1>3. db \in Database /\ DOMAIN db.outbox = 1..Len(db.outbox) /\ Len(db.outbox) \in Nat
  BY <1>0 DEF TypeOK, Database
<1> HIDE DEF i
<1>4. /\ work \in Database /\ work.members = db.members
      /\ Len(work.outbox) = Len(db.outbox)
      /\ DOMAIN work.outbox = DOMAIN db.outbox
      /\ \A j \in DOMAIN db.outbox :
           /\ work.outbox[j].user = db.outbox[j].user
           /\ work.outbox[j].processed <=> j = i \/ db.outbox[j].processed
  <2>1. CASE worker[w] = "marked"
    <3>1. work = MarkedFailed(i)
      BY <1>0, <2>1 DEF WorkFits, RequestsFit, WorkersFit, i
    <3>2. \A j \in DOMAIN db.outbox : db.outbox[j] \in Row
      BY <1>3, ElementOfSeq DEF Database
    <3>3. /\ work \in Database /\ work.members = db.members
          /\ Len(work.outbox) = Len(db.outbox)
          /\ DOMAIN work.outbox = DOMAIN db.outbox
      BY <1>2, <1>3, <3>1, MarkedRows
    <3>4. \A j \in DOMAIN db.outbox : j # i => work.outbox[j] = db.outbox[j]
      BY <1>2, <1>3, <3>1, MarkedRows
    <3>5. work.outbox[i] = [db.outbox[i] EXCEPT !.processed = TRUE, !.error = TRUE]
      BY <1>2, <1>3, <3>1, MarkedRows
    <3>6. work.outbox[i].user = db.outbox[i].user /\ work.outbox[i].processed = TRUE
      BY <1>2, <3>2, <3>5 DEF Row
    <3>q. QED
      BY <3>3, <3>4, <3>6
  <2>2. CASE worker[w] = "delivered"
    <3>1. work = [Claimed(i) EXCEPT !.notified = Append(@, i)]
      BY <1>0, <2>2 DEF WorkFits, RequestsFit, WorkersFit, i
    <3>2. \A j \in DOMAIN db.outbox : db.outbox[j] \in Row
      BY <1>3, ElementOfSeq DEF Database
    <3>3. Claimed(i) \in Database /\ i \in DOMAIN Claimed(i).outbox
      BY <1>2, <1>3, ClaimedRows
    <3>4. work \in Database /\ work.outbox = Claimed(i).outbox /\ work.members = Claimed(i).members
      BY <3>1, <3>3, NotifiedRows
    <3>5. /\ work \in Database /\ work.members = db.members
          /\ Len(work.outbox) = Len(db.outbox)
          /\ DOMAIN work.outbox = DOMAIN db.outbox
      <4>1. /\ Claimed(i).members = db.members
            /\ Len(Claimed(i).outbox) = Len(db.outbox)
            /\ DOMAIN Claimed(i).outbox = DOMAIN db.outbox
        BY <1>2, <1>3, ClaimedRows
      <4>q. QED
        BY <3>4, <4>1
    <3>c. \A j \in DOMAIN db.outbox :
            Claimed(i).outbox[j] = IF j = i THEN [db.outbox[i] EXCEPT !.processed = TRUE]
                                   ELSE db.outbox[j]
      BY <1>2, <1>3, ClaimedRows
    <3>6. \A j \in DOMAIN db.outbox : j # i => work.outbox[j] = db.outbox[j]
      BY <3>4, <3>c
    <3>7. work.outbox[i] = [db.outbox[i] EXCEPT !.processed = TRUE]
      BY <1>2, <3>4, <3>c
    <3>8. work.outbox[i].user = db.outbox[i].user /\ work.outbox[i].processed = TRUE
      BY <1>2, <3>2, <3>7 DEF Row
    <3>q. QED
      BY <3>5, <3>6, <3>8
  <2>q. QED
    BY <1>1, <2>1, <2>2
<1>5. /\ NotifiedFits' /\ DeliveredAtMostOnce'
  <2>1. CASE worker[w] = "marked"
    <3>1. work = MarkedFailed(i)
      BY <1>0, <2>1 DEF WorkFits, RequestsFit, WorkersFit, i
    <3>2. work.notified = db.notified
      BY <1>2, <1>3, <3>1, MarkedRows
    <3>3. NotifiedFits'
      BY <1>0, <1>1, <1>4, <3>2 DEF DataFits, NotifiedFits
    <3>4. DeliveredAtMostOnce'
      BY <1>0, <1>1, <3>2 DEF DataFits, DeliveredAtMostOnce
    <3>q. QED
      BY <3>3, <3>4
  <2>2. CASE worker[w] = "delivered"
    <3>1. work = [Claimed(i) EXCEPT !.notified = Append(@, i)]
      BY <1>0, <2>2 DEF WorkFits, RequestsFit, WorkersFit, i
    <3>3. /\ Claimed(i) \in Database /\ i \in DOMAIN Claimed(i).outbox
          /\ Claimed(i).notified = db.notified
      BY <1>2, <1>3, ClaimedRows
    <3>4. /\ DOMAIN work.notified = DOMAIN db.notified \cup {Len(db.notified) + 1}
          /\ \A n \in DOMAIN db.notified : work.notified[n] = db.notified[n]
          /\ work.notified[Len(db.notified) + 1] = i
      BY <3>1, <3>3, NotifiedRows
    <3>5. ~db.outbox[i].processed
      BY <1>0, <2>2 DEF ClaimFits, i
    <3>6. \A n \in DOMAIN db.notified : db.notified[n] # i
      BY <1>0, <3>5 DEF DataFits, NotifiedFits
    <3>7. NotifiedFits'
      BY <1>0, <1>1, <1>2, <1>4, <3>4 DEF DataFits, NotifiedFits
    <3>8. DeliveredAtMostOnce'
      BY <1>0, <1>1, <3>4, <3>6 DEF DataFits, DeliveredAtMostOnce
    <3>q. QED
      BY <3>7, <3>8
  <2>q. QED
    BY <1>1, <2>1, <2>2
<1>6. \A v \in Workers : v # w => worker[v] \in {"idle", "rolled_back"}
  BY <1>0, <1>1 DEF TypeOK
<1>7. TypeOK'
  BY <1>0, <1>1, <1>3, <1>4 DEF TypeOK
<1>8. WorkFits'
  BY <1>0, <1>1, <1>6 DEF TypeOK, WorkFits, RequestsFit, WorkersFit
<1>9. ClaimFits'
  BY <1>0, <1>1, <1>3, <1>4, <1>6 DEF TypeOK, ClaimFits
<1>10. Announced' = Announced
  BY <1>1, <1>4 DEF Announced
<1>11. SeenFits' /\ MembersWereAnnounced'
  BY <1>0, <1>1, <1>4, <1>10 DEF SeenFits, DataFits, MembersWereAnnounced
<1>12. SettledOldestFirst'
  BY <1>0, <1>1, <1>2, <1>3, <1>4 DEF DataFits, SettledOldestFirst
<1>q. QED
  BY <1>5, <1>7, <1>8, <1>9, <1>11, <1>12 DEF IInv, DataFits

-----------------------------------------------------------------------------
LEMMA StutterStep == IInv /\ UNCHANGED vars => IInv'
<1> SUFFICES ASSUME IInv, UNCHANGED vars PROVE IInv'
  OBVIOUS
<1>1. UNCHANGED <<db, writer, work, request, seen, worker, entry, faults>>
  BY DEF vars
<1>2. TypeOK'
  BY <1>1 DEF IInv, TypeOK
<1>3. WorkFits' /\ ClaimFits' /\ SeenFits'
  BY <1>1, OthersStay, RequestsStay DEF IInv, WorkFits, RequestsFit, WorkersFit
<1>q. QED
  BY <1>1, <1>2, <1>3, DataStays DEF IInv

LEMMA InvInductive == IInv /\ [Next]_vars => IInv'
<1> SUFFICES ASSUME IInv, [Next]_vars PROVE IInv'
  OBVIOUS
<1>1. ASSUME NEW r \in Requests, RequestStep(r) PROVE IInv'
  BY <1>1, RequestsStep, CommitRequestStep DEF RequestStep
<1>2. ASSUME NEW w \in Workers, WorkerStep(w) PROVE IInv'
  BY <1>2, WorkersStep, CommitJobStep DEF WorkerStep, Process
<1>3. CASE Quiet
  BY <1>3, StutterStep DEF Quiet
<1>4. CASE UNCHANGED vars
  BY <1>4, StutterStep
<1>q. QED
  BY <1>1, <1>2, <1>3, <1>4 DEF Next

(* The inductive invariant holds in every run.                             *)
THEOREM Invariance == Spec => []IInv
  BY InvInitial, InvInductive, PTL DEF Spec

(* Every variable keeps its type, and only the holder of the writer lock   *)
(* has uncommitted writes.                                                 *)
THEOREM TypeCorrect == Spec => []TypeOK
<1>1. IInv => TypeOK
  BY DEF IInv
<1>q. QED
  BY <1>1, Invariance, PTL

(* Crashes, rollbacks and any number of competing workers never deliver a  *)
(* committed row twice (process_next).                                     *)
THEOREM DeliveredOnce == Spec => []DeliveredAtMostOnce
<1>1. IInv => DeliveredAtMostOnce
  BY DEF IInv, DataFits
<1>q. QED
  BY <1>1, Invariance, PTL

(* No worker overtakes a row that is still pending (claim_next).           *)
THEOREM OldestFirst == Spec => []SettledOldestFirst
<1>1. IInv => SettledOldestFirst
  BY DEF IInv, DataFits
<1>q. QED
  BY <1>1, Invariance, PTL

(* A member and the message that announces them commit together, also when *)
(* the members a request saves are the stale ones it read (projects.save). *)
THEOREM MembersAnnounced == Spec => []MembersWereAnnounced
<1>1. IInv => MembersWereAnnounced
  BY DEF IInv, DataFits
<1>q. QED
  BY <1>1, Invariance, PTL

-----------------------------------------------------------------------------
(* Workers of one release register the same jobs and reject the same       *)
(* messages.  With two releases at work NotifiedExactlyWhenDelivered does  *)
(* not hold: see EndsOneWay.                                               *)
OneRelease ==
  \A v, w \in Workers, u \in Users : <<v, u>> \in Rejects <=> <<w, u>> \in Rejects

Rejected(u) == \E w \in Workers : <<w, u>> \in Rejects

NotifiedRow(i) == \E n \in DOMAIN db.notified : db.notified[n] = i

(* A row is settled with an error or with a notification, and only a row   *)
(* whose message is rejected with an error.                                *)
RowFits(i) ==
  /\ db.outbox[i].error => db.outbox[i].processed
  /\ db.outbox[i].processed /\ ~db.outbox[i].error => NotifiedRow(i)
  /\ NotifiedRow(i) => ~db.outbox[i].error /\ ~Rejected(db.outbox[i].user)

(* What a worker makes of its row follows from the row's message.          *)
VerdictFits(w) ==
  /\ worker[w] = "delivered" => <<w, User(w)>> \notin Rejects
  /\ worker[w] \in {"rejected", "rolled_back", "marked"} => <<w, User(w)>> \in Rejects

RowsFit == \A i \in DOMAIN db.outbox : RowFits(i)
VerdictsFit == \A w \in Workers : VerdictFits(w)

(* Until a transaction commits, the rows fit as they did.                  *)
LEMMA RowsStay == RowsFit /\ UNCHANGED db => RowsFit'
  BY DEF RowsFit, RowFits, NotifiedRow, Rejected

LEMMA RequestVerdicts ==
  ASSUME IInv, RowsFit, VerdictsFit, NEW r \in Requests, RequestStep(r), ~CommitRequest(r)
  PROVE  RowsFit' /\ VerdictsFit'
<1>1. UNCHANGED <<db, worker, entry>>
  BY DEF RequestStep, ReadMembers, AlreadyMember, SaveMembers, Enqueue, FailRequest,
         RequestMoves, BeginWith, RollBack
<1>q. QED
  BY <1>1, RowsStay DEF VerdictsFit, VerdictFits, User

LEMMA WorkerVerdicts ==
  ASSUME IInv, RowsFit, VerdictsFit, NEW w \in Workers,
         Claim(w) \/ Deliver(w) \/ Reject(w) \/ RollBackJob(w) \/ MarkFailed(w) \/ Fault(w)
  PROVE  RowsFit' /\ VerdictsFit'
<1>1. UNCHANGED db
  BY DEF Claim, Deliver, Reject, RollBackJob, MarkFailed, Fault, BeginWith, RollBack
<1>2. TypeOK
  BY DEF IInv
<1>3. ASSUME NEW v \in Workers, v # w
      PROVE  VerdictFits(v)'
  <2>1. worker'[v] = worker[v] /\ entry'[v] = entry[v]
    BY <1>2, <1>3 DEF Claim, Deliver, Reject, RollBackJob, MarkFailed, Fault, WorkerMoves, TypeOK
  <2>q. QED
    BY <1>1, <2>1 DEF VerdictsFit, VerdictFits, User
<1>4. VerdictFits(w)'
  <2>1. CASE Claim(w) \/ Fault(w)
    BY <1>2, <2>1 DEF Claim, Fault, WorkerMoves, TypeOK, VerdictFits
  <2>2. CASE Deliver(w)
    BY <1>1, <1>2, <2>2 DEF Deliver, WorkerMoves, TypeOK, VerdictFits, User
  <2>3. CASE Reject(w)
    BY <1>1, <1>2, <2>3 DEF Reject, WorkerMoves, TypeOK, VerdictFits, User
  <2>4. CASE RollBackJob(w)
    BY <1>1, <1>2, <2>4 DEF RollBackJob, WorkerMoves, TypeOK, VerdictsFit, VerdictFits, User
  <2>5. CASE MarkFailed(w)
    BY <1>1, <1>2, <2>5 DEF MarkFailed, WorkerMoves, TypeOK, VerdictsFit, VerdictFits, User
  <2>q. QED
    BY <2>1, <2>2, <2>3, <2>4, <2>5
<1>q. QED
  BY <1>1, <1>3, <1>4, RowsStay DEF VerdictsFit

LEMMA CommitRequestVerdicts ==
  ASSUME IInv, RowsFit, VerdictsFit, NEW r \in Requests, CommitRequest(r)
  PROVE  RowsFit' /\ VerdictsFit'
<1>0. TypeOK /\ WorkFits /\ ClaimFits /\ NotifiedFits
  BY DEF IInv, DataFits
<1>1. request[r] = "queued" /\ UNCHANGED <<worker, entry>> /\ db' = work
  BY DEF CommitRequest, RequestMoves, Commit
<1>2. db \in Database /\ seen[r] \cup {Target[r]} \in SUBSET Users
  BY <1>0, OutboxAssumption DEF TypeOK
<1>3. work = Announcing(r)
  BY <1>0, <1>1 DEF WorkFits, RequestsFit
<1>4. /\ work.notified = db.notified
      /\ DOMAIN work.outbox = DOMAIN db.outbox \cup {Len(db.outbox) + 1}
      /\ \A j \in DOMAIN db.outbox : work.outbox[j] = db.outbox[j]
      /\ work.outbox[Len(db.outbox) + 1] = NewRow(r)
  BY <1>2, <1>3, QueuedRows
<1>5. \A i : NotifiedRow(i)' <=> NotifiedRow(i)
  BY <1>1, <1>4 DEF NotifiedRow
<1>6. ASSUME NEW i \in DOMAIN work.outbox
      PROVE  RowFits(i)'
  <2>1. CASE i \in DOMAIN db.outbox
    BY <1>1, <1>4, <1>5, <2>1 DEF RowsFit, RowFits, Rejected
  <2>2. CASE i \notin DOMAIN db.outbox
    <3>1. work.outbox[i] = NewRow(r)
      BY <1>4, <2>2
    <3>2. ~NotifiedRow(i)
      BY <1>0, <2>2 DEF NotifiedRow, NotifiedFits
    <3>q. QED
      BY <1>1, <1>5, <3>1, <3>2 DEF RowFits, NewRow
  <2>q. QED
    BY <2>1, <2>2
<1>7. ASSUME NEW w \in Workers
      PROVE  VerdictFits(w)'
  <2>1. worker[w] # "idle" => User(w)' = User(w)
    BY <1>0, <1>1, <1>4 DEF ClaimFits, User
  <2>q. QED
    BY <1>1, <2>1 DEF VerdictsFit, VerdictFits
<1>q. QED
  BY <1>1, <1>6, <1>7 DEF RowsFit, VerdictsFit

LEMMA CommitJobVerdicts ==
  ASSUME OneRelease, IInv, RowsFit, VerdictsFit, NEW w \in Workers, CommitJob(w)
  PROVE  RowsFit' /\ VerdictsFit'
<1>i. PICK i : i = entry[w]
  OBVIOUS
<1>0. TypeOK /\ WorkFits /\ ClaimFits /\ NotifiedFits
  BY DEF IInv, DataFits
<1>1. /\ worker[w] \in {"delivered", "marked"} /\ worker' = [worker EXCEPT ![w] = "idle"]
      /\ entry' = [entry EXCEPT ![w] = 0] /\ db' = work
  BY DEF CommitJob, WorkerMoves, Commit
<1>2. i \in DOMAIN db.outbox /\ db \in Database
  BY <1>0, <1>1, <1>i DEF ClaimFits, TypeOK
<1>3. \A j \in DOMAIN db.outbox : db.outbox[j] \in Row
  <2>1. db.outbox \in Seq(Row) /\ DOMAIN db.outbox = 1..Len(db.outbox)
    BY <1>2 DEF Database
  <2>q. QED
    BY <2>1, ElementOfSeq
<1>4. Rejected(db.outbox[i].user) <=> <<w, User(w)>> \in Rejects
  BY <1>2, <1>3, <1>i DEF OneRelease, Rejected, User, Row
<1>5. RowsFit' /\ \A j \in DOMAIN db.outbox : work.outbox[j].user = db.outbox[j].user
  <2>1. CASE worker[w] = "marked"
    <3>1. work = MarkedFailed(i)
      BY <1>0, <1>i, <2>1 DEF WorkFits, WorkersFit
    <3>2. /\ work.notified = db.notified /\ DOMAIN work.outbox = DOMAIN db.outbox
          /\ \A j \in DOMAIN db.outbox : j # i => work.outbox[j] = db.outbox[j]
          /\ work.outbox[i] = [db.outbox[i] EXCEPT !.processed = TRUE, !.error = TRUE]
      BY <1>2, <3>1, MarkedRows
    <3>3. /\ work.outbox[i].processed /\ work.outbox[i].error
          /\ work.outbox[i].user = db.outbox[i].user
      BY <1>2, <1>3, <3>2 DEF Row
    <3>4. ~NotifiedRow(i)
      BY <1>2, <1>4, <2>1 DEF VerdictsFit, VerdictFits, RowsFit, RowFits
    <3>5. \A j : NotifiedRow(j)' <=> NotifiedRow(j)
      BY <1>1, <3>2 DEF NotifiedRow
    <3>6. RowFits(i)'
      BY <1>1, <3>3, <3>4, <3>5 DEF RowFits
    <3>7. ASSUME NEW j \in DOMAIN db.outbox, j # i
          PROVE  RowFits(j)'
      BY <1>1, <3>2, <3>5, <3>7 DEF RowsFit, RowFits, Rejected
    <3>q. QED
      BY <1>1, <3>2, <3>3, <3>6, <3>7 DEF RowsFit
  <2>2. CASE worker[w] = "delivered"
    <3>1. work = [Claimed(i) EXCEPT !.notified = Append(@, i)]
      BY <1>0, <1>i, <2>2 DEF WorkFits, WorkersFit
    <3>2. /\ Claimed(i) \in Database /\ Claimed(i).notified = db.notified
          /\ DOMAIN Claimed(i).outbox = DOMAIN db.outbox
          /\ \A j \in DOMAIN db.outbox :
               Claimed(i).outbox[j] = IF j = i THEN [db.outbox[i] EXCEPT !.processed = TRUE]
                                      ELSE db.outbox[j]
      BY <1>2, ClaimedRows
    <3>3. /\ work.outbox = Claimed(i).outbox
          /\ DOMAIN work.notified = DOMAIN db.notified \cup {Len(db.notified) + 1}
          /\ \A n \in DOMAIN db.notified : work.notified[n] = db.notified[n]
          /\ work.notified[Len(db.notified) + 1] = i
      BY <1>2, <3>1, <3>2, NotifiedRows
    <3>4. ~db.outbox[i].processed /\ ~db.outbox[i].error
      BY <1>0, <1>2, <1>i, <2>2 DEF ClaimFits, RowsFit, RowFits
    <3>5. /\ work.outbox[i].processed /\ ~work.outbox[i].error
          /\ work.outbox[i].user = db.outbox[i].user
      BY <1>2, <1>3, <3>2, <3>3, <3>4 DEF Row
    <3>6. ~Rejected(db.outbox[i].user)
      BY <1>4, <2>2 DEF VerdictsFit, VerdictFits
    <3>7. NotifiedRow(i)' /\ \A j : j # i => (NotifiedRow(j)' <=> NotifiedRow(j))
      BY <1>1, <3>3 DEF NotifiedRow
    <3>8. RowFits(i)'
      BY <1>1, <3>5, <3>6, <3>7 DEF RowFits, Rejected
    <3>9. ASSUME NEW j \in DOMAIN db.outbox, j # i
          PROVE  RowFits(j)' /\ work.outbox[j] = db.outbox[j]
      BY <1>1, <3>2, <3>3, <3>7, <3>9 DEF RowsFit, RowFits, Rejected
    <3>q. QED
      BY <1>1, <3>2, <3>3, <3>5, <3>8, <3>9 DEF RowsFit
  <2>q. QED
    BY <1>1, <2>1, <2>2
<1>6. ASSUME NEW v \in Workers
      PROVE  VerdictFits(v)'
  <2>1. CASE v = w
    BY <1>0, <1>1, <2>1 DEF VerdictFits, TypeOK
  <2>2. CASE v # w
    <3>1. worker'[v] = worker[v] /\ entry'[v] = entry[v]
      BY <1>0, <1>1, <2>2 DEF TypeOK
    <3>2. worker[v] # "idle" => User(v)' = User(v)
      BY <1>0, <1>1, <1>5, <3>1 DEF ClaimFits, User
    <3>q. QED
      BY <3>1, <3>2 DEF VerdictsFit, VerdictFits
  <2>q. QED
    BY <2>1, <2>2
<1>q. QED
  BY <1>5, <1>6 DEF VerdictsFit

(* With workers of one release, a message ends delivered or dead-lettered: *)
(* the notification commits with the settled row and with nothing else,    *)
(* over any crashes, rollbacks and interleavings (process_next).           *)
THEOREM NotifiedOrDeadLettered ==
  ASSUME OneRelease
  PROVE  Spec => []NotifiedExactlyWhenDelivered
<1>1. Init => RowsFit /\ VerdictsFit
  BY DEF Init, RowsFit, VerdictsFit, VerdictFits
<1>2. IInv /\ RowsFit /\ VerdictsFit /\ [Next]_vars => RowsFit' /\ VerdictsFit'
  <2> SUFFICES ASSUME IInv, RowsFit, VerdictsFit, [Next]_vars
               PROVE  RowsFit' /\ VerdictsFit'
    OBVIOUS
  <2>1. ASSUME NEW r \in Requests, RequestStep(r)
        PROVE  RowsFit' /\ VerdictsFit'
    BY <2>1, RequestVerdicts, CommitRequestVerdicts
  <2>2. ASSUME NEW w \in Workers, WorkerStep(w)
        PROVE  RowsFit' /\ VerdictsFit'
    BY <2>2, WorkerVerdicts, CommitJobVerdicts DEF WorkerStep, Process
  <2>3. CASE UNCHANGED vars
    BY <2>3, RowsStay DEF vars, VerdictsFit, VerdictFits, User
  <2>q. QED
    BY <2>1, <2>2, <2>3 DEF Next, Quiet
<1>3. IInv /\ RowsFit => NotifiedExactlyWhenDelivered
  BY DEF IInv, DataFits, NotifiedFits, RowsFit, RowFits, NotifiedRow,
         NotifiedExactlyWhenDelivered
<1>q. QED
  BY <1>1, <1>2, <1>3, Invariance, PTL DEF Spec
=============================================================================
