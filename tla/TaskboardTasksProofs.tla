------------------------- MODULE TaskboardTasksProofs -------------------------
(***************************************************************************)
(* Proofs about TaskboardTasks, for any operations, any number of repeated *)
(* requests, any rule and any lease.                                       *)
(***************************************************************************)
EXTENDS TaskboardTasks, TLAPS, FiniteSetTheorems

Held == {"operating", "completing", "committing", "failing"}
Stages == {"idle", "answered"} \cup Waiting \cup Held
Answers == {"ok", "in_progress", "refused"}

Databases ==
  [task : Tasks, rows : [Keys -> Nat], records : [Keys -> Records \cup {None}],
   window : Windows \cup {None}]

Progress ==
  [stage : Stages, seen : Tasks \cup {None}, result : Results \cup {None},
   answer : Answers \cup {None}, overlaps : BOOLEAN]

TypeOK ==
  /\ db \in Databases
  /\ writer # None => writer \in Requests /\ work \in Databases
  /\ req \in [Requests -> Progress]
  /\ now \in Nat

(* A record that holds a result. *)
Settled(rec) == rec # None /\ rec.result # None

(* The keys whose move was charged to a window that resets at t. *)
ChargedTo(d, t) == {k \in Keys : Settled(d.records[k]) /\ d.records[k].charged = t}

(* The quota of a database is spent by the work it holds, and no move was  *)
(* charged to a window that is still to come.                              *)
Charges(d) ==
  /\ d.window # None =>
       /\ d.window.limit = Rule.limit /\ d.window.length = Rule.length
       /\ IsFiniteSet(ChargedTo(d, d.window.resets))
       /\ d.window.used = Cardinality(ChargedTo(d, d.window.resets))
  /\ \A k \in Keys : Settled(d.records[k]) /\ d.records[k].charged # None =>
       d.window # None /\ d.records[k].charged <= d.window.resets

(* The transaction's database once its record has its result. *)
Settling(d, k, result) == [d EXCEPT !.records[k].result = result]

(* The only change to the task is the one the writer asked for. *)
OwnChange(r) == work.task \in {db.task, Changed(Op(r), db.task)}

(* Outside the writer's key, the records are those committed. *)
OthersKept(k) == \A j \in Keys \ {k} : work.records[j] = db.records[j]

OperatingFits(r) ==
  LET k == KeyOf(r) IN
  /\ r \in Keyed /\ ~Settled(db.records[k])
  /\ work.task = db.task /\ work.window = db.window /\ OthersKept(k)
  /\ work.records[k] # None
  /\ work.records[k].input = Op(r) /\ work.records[k].result = None
  /\ work.records[k].charged = None

CompletingFits(r) ==
  LET k == KeyOf(r) IN
  /\ r \in Keyed /\ ~Settled(db.records[k])
  /\ OwnChange(r) /\ OthersKept(k)
  /\ work.records[k] # None
  /\ work.records[k].input = Op(r) /\ work.records[k].result = None
  /\ req[r].result \in Results
  /\ Charges(Settling(work, k, req[r].result))

CommittingFits(r) ==
  LET k == KeyOf(r) IN
  /\ OwnChange(r) /\ Charges(work)
  /\ req[r].result \in Results /\ req[r].answer = "ok"
  /\ r \notin Keyed => work.records = db.records
  /\ r \in Keyed =>
       /\ OthersKept(k)
       /\ Settled(work.records[k])
       /\ work.records[k].input = Op(r) /\ work.records[k].result = req[r].result
       /\ Settled(db.records[k]) => work.records[k] = db.records[k]

(* What the transaction of r holds at each point, seen from db. *)
WorkFits(r) ==
  /\ req[r].stage \in Held
  /\ req[r].stage = "operating" => OperatingFits(r)
  /\ req[r].stage = "completing" => CompletingFits(r)
  /\ req[r].stage = "committing" => CommittingFits(r)
  /\ req[r].stage = "failing" => req[r].answer \in {"in_progress", "refused"}

(* What an update has read is the task of its version. *)
SeenFits(r) ==
  req[r].stage = "saving" =>
    /\ Op(r).kind = "patch"
    /\ req[r].seen \in Tasks /\ req[r].seen.version = Op(r).expected
    /\ req[r].seen.version <= db.task.version
    /\ req[r].seen.version = db.task.version => req[r].seen = db.task

(* Only the writer is under way with a transaction. *)
RequestFits(r) ==
  /\ writer = r => WorkFits(r)
  /\ req[r].stage \in Held => writer = r
  /\ SeenFits(r)

IInv == TypeOK /\ Charges(db) /\ \A r \in Requests : RequestFits(r)

-----------------------------------------------------------------------------
LEMMA RequestFacts ==
  ASSUME NEW r \in Requests
  PROVE  /\ Op(r) \in Ops /\ Op(r).expected \in Nat \ {0} /\ Op(r).kind \in Kinds
         /\ r \in Keyed <=> Op(r).kind # "patch"
         /\ r \in Keyed => KeyOf(r) \in Keys
         /\ r # None
<1>1. PICK o \in Ops : r \in {o} \X (1..Sends[o])
  BY DEF Requests
<1>2. r[1] \in Ops
  BY <1>1
<1>3. r \in Keyed <=> Op(r).kind # "patch"
  BY DEF Keyed
<1>4. r \in Keyed => KeyOf(r) \in Keys
  BY DEF Keys, KeyOf
<1>q. QED
  BY <1>2, <1>3, <1>4, TaskboardTasksAssumption DEF Op

LEMMA ChangedTask ==
  ASSUME NEW r \in Requests, NEW task \in Tasks
  PROVE  /\ Changed(Op(r), task) \in Tasks
         /\ Changed(Op(r), task).version = task.version + 1
<1>1. Op(r) \in Ops /\ Op(r).value \in Values
  BY RequestFacts DEF Values
<1>2. ASSUME NEW o, o.value \in Values
      PROVE  /\ Changed(o, task) \in Tasks
             /\ Changed(o, task).version = task.version + 1
  <2> DEFINE next == [task EXCEPT !.version = @ + 1]
             moved == [next EXCEPT !.status = o.value]
             retitled == [next EXCEPT !.title = o.value]
  <2>0. next \in Tasks /\ next.version = task.version + 1
    BY DEF Tasks
  <2> HIDE DEF next
  <2>1. moved \in Tasks /\ moved.version = next.version
    BY <1>2, <2>0 DEF Tasks
  <2>2. retitled \in Tasks /\ retitled.version = next.version
    BY <1>2, <2>0 DEF Tasks
  <2> USE DEF next
  <2>3. Changed(o, task) = IF o.kind = "move" THEN moved ELSE retitled
    BY DEF Changed
  <2> HIDE DEF next, moved, retitled
  <2>q. QED
    BY <2>0, <2>1, <2>2, <2>3
<1>q. QED
  BY <1>1, <1>2

LEMMA CountOneMore ==
  ASSUME NEW S, IsFiniteSet(S), NEW x, x \notin S
  PROVE  IsFiniteSet(S \cup {x}) /\ Cardinality(S \cup {x}) = Cardinality(S) + 1
BY FS_AddElement, Zenon

-----------------------------------------------------------------------------
(* A step of a request that waits changes only that request.               *)
LEMMA Waits ==
  ASSUME IInv, NEW r \in Requests, NEW p \in Progress, req' = [req EXCEPT ![r] = p],
         UNCHANGED <<db, work, writer, now>>, req[r].stage \notin Held,
         p.stage \notin Held, SeenFits(r)'
  PROVE  IInv'
<1> USE DEF IInv
<1>1. TypeOK'
  BY DEF TypeOK
<1>2. Charges(db)'
  BY DEF Charges, ChargedTo, Settled
<1>3. ASSUME NEW s \in Requests
      PROVE  RequestFits(s)'
  <2>1. CASE s = r
    BY <2>1 DEF RequestFits, WorkFits, TypeOK
  <2>2. CASE s # r
    <3>1. req'[s] = req[s]
      BY <2>2 DEF TypeOK
    <3>2. WorkFits(s)' <=> WorkFits(s)
      <4>1. OperatingFits(s)' <=> OperatingFits(s)
        BY <3>1 DEF OperatingFits, OthersKept, Settled
      <4>2. Charges(Settling(work, KeyOf(s), req[s].result))'
              <=> Charges(Settling(work, KeyOf(s), req[s].result))
        BY <3>1 DEF Charges, ChargedTo, Settled, Settling
      <4>3. CompletingFits(s)' <=> CompletingFits(s)
        BY <3>1, <4>2 DEF CompletingFits, OwnChange, OthersKept, Settled
      <4>4. Charges(work)' <=> Charges(work)
        BY DEF Charges, ChargedTo, Settled
      <4>5. CommittingFits(s)' <=> CommittingFits(s)
        BY <3>1, <4>4 DEF CommittingFits, OwnChange, OthersKept, Settled
      <4>q. QED
        BY <3>1, <4>1, <4>3, <4>5 DEF WorkFits
    <3>3. SeenFits(s)' <=> SeenFits(s)
      BY <3>1 DEF SeenFits
    <3>q. QED
      BY <3>1, <3>2, <3>3 DEF RequestFits
  <2>q. QED
    BY <2>1, <2>2
<1>q. QED
  BY <1>1, <1>2, <1>3

(* A step of the writer, or of a request that becomes it, inside its       *)
(* transaction.                                                            *)
LEMMA Writes ==
  ASSUME IInv, NEW r \in Requests, NEW p \in Progress, req' = [req EXCEPT ![r] = p],
         writer \in {None, r}, writer' = r, work' \in Databases,
         UNCHANGED <<db, now>>, WorkFits(r)'
  PROVE  IInv'
<1> USE DEF IInv
<1>1. TypeOK'
  BY DEF TypeOK
<1>2. Charges(db)'
  BY DEF Charges, ChargedTo, Settled
<1>3. p.stage # "saving"
  BY DEF WorkFits, Held, TypeOK
<1>4. ASSUME NEW s \in Requests
      PROVE  RequestFits(s)'
  <2>1. CASE s = r
    BY <1>3, <2>1 DEF RequestFits, SeenFits, TypeOK
  <2>2. CASE s # r
    <3>1. req'[s] = req[s]
      BY <2>2 DEF TypeOK
    <3>2. req[s].stage \notin Held
      BY <2>2, RequestFacts DEF RequestFits
    <3>3. SeenFits(s)' <=> SeenFits(s)
      BY <3>1 DEF SeenFits
    <3>q. QED
      BY <2>2, <3>1, <3>2, <3>3 DEF RequestFits
  <2>q. QED
    BY <2>1, <2>2
<1>q. QED
  BY <1>1, <1>2, <1>4

(* The end of a transaction: it is applied only when it was to be committed. *)
LEMMA Ends ==
  ASSUME IInv, NEW r \in Requests, NEW p \in Progress, req' = [req EXCEPT ![r] = p],
         writer = r, writer' = None, p.stage = "answered",
         db' = db \/ (req[r].stage = "committing" /\ db' = work), UNCHANGED now
  PROVE  IInv'
<1> USE DEF IInv
<1>0. r # None
  BY RequestFacts
<1>1. TypeOK'
  BY <1>0 DEF TypeOK
<1>2. Charges(db)'
  <2>1. CASE db' = db
    BY <2>1 DEF Charges, ChargedTo, Settled
  <2>2. CASE req[r].stage = "committing" /\ db' = work
    <3>1. Charges(work)
      BY <2>2 DEF RequestFits, WorkFits, CommittingFits
    <3>q. QED
      BY <2>2, <3>1 DEF Charges, ChargedTo, Settled
  <2>q. QED
    BY <2>1, <2>2
<1>3. \/ db'.task = db.task
      \/ db'.task \in Tasks /\ db'.task.version = db.task.version + 1
  BY <1>0, ChangedTask DEF RequestFits, WorkFits, CommittingFits, OwnChange, TypeOK, Databases
<1>4. ASSUME NEW s \in Requests
      PROVE  RequestFits(s)'
  <2>1. CASE s = r
    BY <1>0, <2>1 DEF RequestFits, SeenFits, TypeOK, Held
  <2>2. CASE s # r
    <3>1. req'[s] = req[s]
      BY <2>2 DEF TypeOK
    <3>2. req[s].stage \notin Held
      BY <2>2 DEF RequestFits
    <3>3. SeenFits(s)'
      <4>1. db.task.version \in Nat
        BY DEF TypeOK, Databases, Tasks
      <4>2. req[s].stage = "saving" => req[s].seen.version \in Nat
        BY RequestFacts DEF RequestFits, SeenFits
      <4>3. SeenFits(s)
        BY DEF RequestFits
      <4>q. QED
        BY <1>3, <3>1, <4>1, <4>2, <4>3 DEF SeenFits
    <3>q. QED
      BY <3>1, <3>2, <3>3, RequestFacts DEF RequestFits
  <2>q. QED
    BY <2>1, <2>2
<1>q. QED
  BY <1>1, <1>2, <1>4

-----------------------------------------------------------------------------
LEMMA SendKeeps ==
  ASSUME IInv, NEW r \in Requests, Send(r)
  PROVE  IInv'
<1> DEFINE b == r \in Keyed /\ \E s \in Keyed :
                  Matching(r, s) /\ work.records[KeyOf(s)] # None
                    /\ work.records[KeyOf(s)].token = s
<1> DEFINE p == [req[r] EXCEPT !.stage = "arrived", !.overlaps = b]
<1>1. req[r] \in Progress
  BY DEF IInv, TypeOK
<1>2. b \in BOOLEAN
  BY Zenon
<1> HIDE DEF b
<1>3. p \in Progress /\ p.stage = "arrived"
  BY <1>1, <1>2 DEF Progress, Stages, Waiting
<1>4. req' = [req EXCEPT ![r] = p]
  BY <1>1 DEF Send, b, IInv, TypeOK, Progress
<1>5. req'[r].stage = "arrived"
  BY <1>3, <1>4 DEF IInv, TypeOK
<1>6. SeenFits(r)'
  BY <1>5 DEF SeenFits
<1> HIDE DEF p
<1>q. QED
  BY <1>3, <1>4, <1>6, Waits DEF Send, Held

LEMMA AnsweredProgress ==
  ASSUME IInv, NEW r \in Requests, NEW answer \in Answers, NEW result \in Results \cup {None},
         Answered(r, answer, result)
  PROVE  \E p \in Progress : p.stage = "answered" /\ req' = [req EXCEPT ![r] = p]
<1>1. [stage |-> "answered", seen |-> None, result |-> result,
       answer |-> answer, overlaps |-> FALSE] \in Progress
  BY DEF Progress, Stages
<1>q. QED
  BY <1>1 DEF Answered

LEMMA GiveUpKeeps ==
  ASSUME IInv, NEW r \in Requests, GiveUp(r)
  PROVE  IInv'
<1>1. PICK p \in Progress : p.stage = "answered" /\ req' = [req EXCEPT ![r] = p]
  BY AnsweredProgress DEF GiveUp, Answers
<1>2. SeenFits(r)'
  BY <1>1 DEF SeenFits, IInv, TypeOK
<1>q. QED
  BY <1>1, <1>2, Waits DEF GiveUp, Held, Waiting

LEMMA ReadKeeps ==
  ASSUME IInv, NEW r \in Requests, Read(r)
  PROVE  IInv'
<1>1. CASE db.task.version = Op(r).expected
  <2> DEFINE p == [req[r] EXCEPT !.stage = "saving", !.seen = db.task]
  <2>1. req[r] \in Progress /\ db.task \in Tasks
    BY DEF IInv, TypeOK, Databases
  <2>2. p \in Progress /\ p.stage = "saving" /\ p.seen = db.task
    BY <2>1 DEF Progress, Stages, Waiting
  <2>3. req' = [req EXCEPT ![r] = p]
    BY <1>1, <2>1 DEF Read, IInv, TypeOK, Progress
  <2>4. SeenFits(r)'
    BY <1>1, <2>1, <2>2, <2>3 DEF SeenFits, Read, IInv, TypeOK, Tasks
  <2> HIDE DEF p
  <2>q. QED
    BY <2>2, <2>3, <2>4, Waits DEF Read, Held
<1>2. CASE db.task.version # Op(r).expected
  <2>1. PICK p \in Progress : p.stage = "answered" /\ req' = [req EXCEPT ![r] = p]
    BY <1>2, AnsweredProgress DEF Read, Answers
  <2>2. SeenFits(r)'
    BY <2>1 DEF SeenFits, IInv, TypeOK
  <2>q. QED
    BY <2>1, <2>2, Waits DEF Read, Held
<1>q. QED
  BY <1>1, <1>2

LEMMA DieKeeps ==
  ASSUME IInv, NEW r \in Requests, Die(r)
  PROVE  IInv'
<1>1. PICK p \in Progress : p.stage = "answered" /\ req' = [req EXCEPT ![r] = p]
  BY AnsweredProgress DEF Die, Answers
<1>q. QED
  BY <1>1, Ends DEF Die, Unlock

LEMMA RollBackKeeps ==
  ASSUME IInv, NEW r \in Requests, RollBack(r)
  PROVE  IInv'
<1>1. req[r].answer \in Answers /\ req[r].result \in Results \cup {None}
  BY DEF RollBack, Holding, IInv, TypeOK, Progress, RequestFits, WorkFits, Answers
<1>2. PICK p \in Progress : p.stage = "answered" /\ req' = [req EXCEPT ![r] = p]
  BY <1>1, AnsweredProgress DEF RollBack
<1>q. QED
  BY <1>2, Ends DEF RollBack, Unlock, Holding

LEMMA CommitKeeps ==
  ASSUME IInv, NEW r \in Requests, Commit(r)
  PROVE  IInv'
<1>1. req[r].answer \in Answers /\ req[r].result \in Results \cup {None}
  BY DEF Commit, Holding, IInv, TypeOK, Progress, RequestFits, WorkFits, CommittingFits, Answers
<1>2. PICK p \in Progress : p.stage = "answered" /\ req' = [req EXCEPT ![r] = p]
  BY <1>1, AnsweredProgress DEF Commit
<1>q. QED
  BY <1>2, Ends DEF Commit, Unlock, Holding

-----------------------------------------------------------------------------
(* A request that takes the writer lock has nothing in its way but the     *)
(* progress it is left with.                                               *)
LEMMA Locks ==
  ASSUME IInv, NEW r \in Requests, NEW stage \in Held, NEW answer \in Answers \cup {None},
         NEW result \in Results \cup {None}, Lock(r, stage, answer, result)
  PROVE  /\ writer = None /\ writer' = r
         /\ req'[r].stage = stage /\ req'[r].answer = answer /\ req'[r].result = result
         /\ \E p \in Progress : req' = [req EXCEPT ![r] = p]
<1> DEFINE p == [req[r] EXCEPT !.stage = stage, !.seen = None, !.answer = answer,
                               !.result = result]
<1>1. req[r] \in Progress
  BY DEF IInv, TypeOK
<1>2. p \in Progress /\ p.stage = stage /\ p.answer = answer /\ p.result = result
  BY <1>1 DEF Progress, Stages
<1>3. req' = [req EXCEPT ![r] = p]
  BY <1>1 DEF Lock, IInv, TypeOK, Progress
<1> HIDE DEF p
<1>4. req'[r] = p
  BY <1>3 DEF IInv, TypeOK
<1>q. QED
  BY <1>2, <1>3, <1>4 DEF Lock

LEMMA FreshRecord ==
  ASSUME IInv, NEW r \in Keyed
  PROVE  [input |-> Op(r), token |-> r, result |-> None, until |-> now + LeaseTTL,
          charged |-> None] \in Records
<1>1. r \in Requests /\ Op(r) \in Ops
  BY RequestFacts DEF Keyed
<1>q. QED
  BY <1>1, TaskboardTasksAssumption DEF Records, IInv, TypeOK

LEMMA ReserveKeeps ==
  ASSUME IInv, NEW r \in Requests, Reserve(r)
  PROVE  IInv'
<1> DEFINE k == KeyOf(r)
           found == db.records[k]
           fresh == [input |-> Op(r), token |-> r, result |-> None,
                     until |-> now + LeaseTTL, charged |-> None]
<1>1. r \in Keyed /\ k \in Keys
  BY RequestFacts DEF Reserve
<1>2. found \in Records \cup {None} /\ db \in Databases
  BY <1>1 DEF IInv, TypeOK, Databases
<1>3. UNCHANGED <<db, now>>
  BY DEF Reserve
<1>4. CASE ~Live(found) /\ Lock(r, "operating", None, None)
           /\ work' = [db EXCEPT !.records[k] = fresh]
  <2>1. fresh \in Records /\ fresh.result = None /\ fresh.input = Op(r) /\ fresh.charged = None
    BY <1>1, FreshRecord
  <2> HIDE DEF fresh
  <2>2. /\ work' \in Databases
        /\ work'.task = db.task /\ work'.window = db.window
        /\ work'.records[k] = fresh
        /\ \A j \in Keys \ {k} : work'.records[j] = db.records[j]
    BY <1>1, <1>2, <1>4, <2>1 DEF Databases
  <2>3. ~Settled(found) /\ fresh # None
    BY <1>2, <1>4, <2>1, TaskboardTasksAssumption DEF Live, Settled, Records
  <2>4. /\ writer = None /\ writer' = r /\ req'[r].stage = "operating"
        /\ \E p \in Progress : req' = [req EXCEPT ![r] = p]
    BY <1>4, Locks DEF Held, Answers
  <2>5. OperatingFits(r)'
    BY <1>1, <1>3, <2>1, <2>2, <2>3 DEF OperatingFits, OthersKept, Settled
  <2>6. WorkFits(r)'
    BY <2>4, <2>5 DEF WorkFits, Held
  <2>q. QED
    BY <1>3, <2>2, <2>4, <2>6, Writes
<1>5. CASE Live(found) /\ found.input = Op(r) /\ found.result # None
           /\ Lock(r, "committing", "ok", found.result) /\ work' = db
  <2>1. Settled(found) /\ found.result \in Results
    BY <1>2, <1>5 DEF Live, Settled, Records
  <2> HIDE DEF found
  <2>2. /\ writer = None /\ writer' = r /\ req'[r].stage = "committing"
        /\ req'[r].answer = "ok" /\ req'[r].result = found.result
        /\ \E p \in Progress : req' = [req EXCEPT ![r] = p]
    BY <1>5, <2>1, Locks DEF Held, Answers
  <2>3. Charges(work)'
    BY <1>5 DEF IInv, Charges, ChargedTo, Settled
  <2>4. CommittingFits(r)'
    BY <1>1, <1>3, <1>5, <2>1, <2>2, <2>3 DEF CommittingFits, OwnChange, OthersKept, Settled, found
  <2>5. WorkFits(r)'
    BY <2>2, <2>4 DEF WorkFits, Held
  <2>q. QED
    BY <1>2, <1>3, <1>5, <2>2, <2>5, Writes
<1>6. ASSUME NEW answer \in {"in_progress", "refused"},
             Lock(r, "failing", answer, None), work' = db
      PROVE  IInv'
  <2>1. /\ writer = None /\ writer' = r /\ req'[r].stage = "failing" /\ req'[r].answer = answer
        /\ \E p \in Progress : req' = [req EXCEPT ![r] = p]
    BY <1>6, Locks DEF Held, Answers
  <2>2. WorkFits(r)'
    BY <2>1 DEF WorkFits, Held
  <2>q. QED
    BY <1>2, <1>3, <1>6, <2>1, <2>2, Writes
<1>q. QED
  BY <1>4, <1>5, <1>6 DEF Reserve

LEMMA SaveKeeps ==
  ASSUME IInv, NEW r \in Requests, Save(r)
  PROVE  IInv'
<1> DEFINE task == Changed(Op(r), req[r].seen)
<1>1. /\ req[r].seen \in Tasks /\ Op(r).kind = "patch" /\ r \notin Keyed
      /\ req[r].seen.version = Op(r).expected
      /\ req[r].seen.version = db.task.version => req[r].seen = db.task
  BY RequestFacts DEF Save, IInv, RequestFits, SeenFits
<1>2. db \in Databases /\ UNCHANGED <<db, now>>
  BY DEF IInv, TypeOK, Save
<1>3. CASE db.task.version = Op(r).expected
  <2>1. Lock(r, "committing", "ok", task) /\ work' = [db EXCEPT !.task = task]
    BY <1>3 DEF Save
  <2>2. task \in Tasks /\ task = Changed(Op(r), db.task)
    BY <1>1, <1>3, ChangedTask
  <2> HIDE DEF task
  <2>3. /\ work' \in Databases /\ work'.task = task
        /\ work'.records = db.records /\ work'.window = db.window
    BY <1>2, <2>1, <2>2 DEF Databases
  <2>4. /\ writer = None /\ writer' = r /\ req'[r].stage = "committing"
        /\ req'[r].answer = "ok" /\ req'[r].result = task
        /\ \E p \in Progress : req' = [req EXCEPT ![r] = p]
    BY <2>1, <2>2, Locks DEF Held, Answers, Results
  <2>5. Charges(work)'
    BY <2>3 DEF IInv, Charges, ChargedTo, Settled
  <2>6. CommittingFits(r)'
    BY <1>1, <1>2, <2>2, <2>3, <2>4, <2>5 DEF CommittingFits, OwnChange, Results
  <2>7. WorkFits(r)'
    BY <2>4, <2>6 DEF WorkFits, Held
  <2>q. QED
    BY <1>2, <2>3, <2>4, <2>7, Writes
<1>4. CASE db.task.version # Op(r).expected
  <2>1. Lock(r, "failing", "refused", None) /\ work' = db
    BY <1>4 DEF Save
  <2>2. /\ writer = None /\ writer' = r /\ req'[r].stage = "failing" /\ req'[r].answer = "refused"
        /\ \E p \in Progress : req' = [req EXCEPT ![r] = p]
    BY <2>1, Locks DEF Held, Answers
  <2>3. WorkFits(r)'
    BY <2>2 DEF WorkFits, Held
  <2>q. QED
    BY <1>2, <2>1, <2>2, <2>3, Writes
<1>q. QED
  BY <1>3, <1>4

-----------------------------------------------------------------------------
(* The writer's own state. *)
LEMMA Writer ==
  ASSUME IInv, NEW r \in Requests, NEW stage \in Held, Holding(r, stage)
  PROVE  /\ req[r] \in Progress /\ work \in Databases
         /\ stage = "operating" => OperatingFits(r)
         /\ stage = "completing" => CompletingFits(r)
BY RequestFacts DEF IInv, TypeOK, Holding, RequestFits, WorkFits

LEMMA SettlingOne ==
  ASSUME NEW d \in Databases, NEW k \in Keys, d.records[k] \in Records, NEW result \in Results
  PROVE  /\ Settling(d, k, result) \in Databases
         /\ Settling(d, k, result).task = d.task
         /\ Settling(d, k, result).window = d.window
         /\ \A j \in Keys \ {k} : Settling(d, k, result).records[j] = d.records[j]
         /\ Settling(d, k, result).records[k] # None
         /\ Settling(d, k, result).records[k].input = d.records[k].input
         /\ Settling(d, k, result).records[k].charged = d.records[k].charged
         /\ Settling(d, k, result).records[k].result = result
<1> DEFINE settled == [d.records[k] EXCEPT !.result = result]
           rows == [d.records EXCEPT ![k] = settled]
<1>1. /\ settled \in Records /\ settled.result = result
      /\ settled.input = d.records[k].input /\ settled.charged = d.records[k].charged
  BY DEF Records
<1>2. settled # None
  BY <1>1, TaskboardTasksAssumption
<1> HIDE DEF settled
<1>3. /\ rows \in [Keys -> Records \cup {None}] /\ rows[k] = settled
      /\ \A j \in Keys \ {k} : rows[j] = d.records[j]
  BY <1>1 DEF Databases
<1>4. Settling(d, k, result) = [d EXCEPT !.records = rows]
  BY DEF Settling, Databases, settled
<1> HIDE DEF rows
<1>q. QED
  BY <1>1, <1>2, <1>3, <1>4 DEF Databases

(* An operation that raises gives its reservation back. *)
LEMMA Raises ==
  ASSUME IInv, NEW r \in Keyed, NEW stage \in Held, Holding(r, stage), Raise(r),
         work' \in Databases
  PROVE  IInv'
<1> DEFINE p == [req[r] EXCEPT !.stage = "failing", !.answer = "refused", !.result = None]
<1>1. r \in Requests /\ req[r] \in Progress
  BY Writer DEF Keyed
<1>2. p \in Progress /\ p.stage = "failing" /\ p.answer = "refused"
  BY <1>1 DEF Progress, Stages, Held, Answers
<1>3. req' = [req EXCEPT ![r] = p]
  BY <1>1 DEF Raise, IInv, TypeOK, Progress
<1> HIDE DEF p
<1>4. WorkFits(r)'
  BY <1>1, <1>2, <1>3 DEF WorkFits, Held, IInv, TypeOK
<1>q. QED
  BY <1>1, <1>2, <1>3, <1>4, Writes DEF Raise, Holding

LEMMA OperationFailsKeeps ==
  ASSUME IInv, NEW r \in Requests, OperationFails(r)
  PROVE  IInv'
<1>1. r \in Keyed /\ KeyOf(r) \in Keys /\ work \in Databases
  BY Writer, RequestFacts DEF OperationFails, OperatingFits, Held
<1>2. work' \in Databases
  BY <1>1 DEF OperationFails, Databases
<1>q. QED
  BY <1>1, <1>2, Raises DEF OperationFails, Held

LEMMA CompleteKeeps ==
  ASSUME IInv, NEW r \in Requests, Complete(r)
  PROVE  IInv'
<1> DEFINE k == KeyOf(r)
           result == req[r].result
<1>1. /\ r \in Keyed /\ k \in Keys /\ work \in Databases /\ req[r] \in Progress
      /\ CompletingFits(r)
  BY Writer, RequestFacts DEF Complete, CompletingFits, Held
<1>2. CASE work.records[k].until > now
  <2> DEFINE p == [req[r] EXCEPT !.stage = "committing", !.answer = "ok"]
  <2>1. /\ work' = [work EXCEPT !.records[k].result = result]
        /\ req' = [req EXCEPT ![r].stage = "committing", ![r].answer = "ok"]
        /\ UNCHANGED <<db, writer, now>>
    BY <1>2 DEF Complete
  <2>2. /\ p \in Progress /\ p.stage = "committing" /\ p.answer = "ok"
        /\ p.result = result
    BY <1>1 DEF Progress, Stages, Held, Answers
  <2>3. req' = [req EXCEPT ![r] = p]
    BY <1>1, <2>1 DEF IInv, TypeOK, Progress
  <2>4. req'[r] = p
    BY <2>3 DEF IInv, TypeOK
  <2> HIDE DEF p
  <2>5. result \in Results /\ work.records[k] \in Records
    BY <1>1 DEF CompletingFits, Databases
  <2>6. work' = Settling(work, k, result)
    BY <1>1, <2>1 DEF Settling, Databases
  <2> HIDE DEF result, k
  <2>7. /\ work' \in Databases /\ work'.task = work.task
        /\ Settled(work'.records[k]) /\ work'.records[k].input = Op(r)
        /\ work'.records[k].result = result
        /\ \A j \in Keys \ {k} : work'.records[j] = work.records[j]
    BY <1>1, <2>5, <2>6, SettlingOne, TaskboardTasksAssumption
    DEF CompletingFits, Settled, k
  <2>10. Charges(work)'
    <3>1. Charges(Settling(work, k, result))
      BY <1>1 DEF CompletingFits, result, k
    <3>q. QED
      BY <2>6, <3>1 DEF Charges, ChargedTo, Settled
  <2>11. CommittingFits(r)'
    BY <1>1, <2>1, <2>2, <2>4, <2>5, <2>7, <2>10
    DEF CommittingFits, CompletingFits, OwnChange, OthersKept, Settled, k
  <2>12. WorkFits(r)'
    BY <2>2, <2>4, <2>11 DEF WorkFits, Held
  <2>13. writer = r
    BY DEF Complete, Holding
  <2>q. QED
    BY <2>1, <2>2, <2>3, <2>7, <2>12, <2>13, Writes
<1>3. CASE ~(work.records[k].until > now)
  <2>1. work' = [work EXCEPT !.records[k] = None] /\ Raise(r)
    BY <1>3 DEF Complete
  <2>2. work' \in Databases
    BY <1>1, <2>1 DEF Databases
  <2>q. QED
    BY <1>1, <2>1, <2>2, Raises DEF Complete, Held
<1>q. QED
  BY <1>2, <1>3

(* A successful operation leaves its result for complete. *)
LEMMA Operates ==
  ASSUME IInv, NEW r \in Keyed, Holding(r, "operating"), NEW result \in Results,
         Operated(r, result), work' \in Databases, CompletingFits(r)'
  PROVE  IInv'
<1> DEFINE p == [req[r] EXCEPT !.stage = "completing", !.result = result]
<1>1. r \in Requests /\ req[r] \in Progress
  BY Writer DEF Keyed, Held
<1>2. p \in Progress /\ p.stage = "completing"
  BY <1>1 DEF Progress, Stages, Held
<1>3. req' = [req EXCEPT ![r] = p]
  BY <1>1 DEF Operated, IInv, TypeOK, Progress
<1> HIDE DEF p
<1>4. WorkFits(r)'
  BY <1>1, <1>2, <1>3 DEF WorkFits, Held, IInv, TypeOK
<1>q. QED
  BY <1>1, <1>2, <1>3, <1>4, Writes DEF Operated, Holding

(* A result that was charged to no window changes no quota. *)
LEMMA NothingCharged ==
  ASSUME NEW d \in Databases, NEW e \in Databases, NEW k \in Keys, Charges(d),
         ~Settled(d.records[k]), e.window = d.window,
         \A j \in Keys \ {k} : e.records[j] = d.records[j],
         Settled(e.records[k]) => e.records[k].charged = None
  PROVE  Charges(e)
<1>1. ASSUME d.window # None
      PROVE  ChargedTo(e, d.window.resets) = ChargedTo(d, d.window.resets)
  <2>1. d.window.resets # None
    BY <1>1, FixedWindowAssumption DEF Databases, Windows
  <2>q. QED
    BY <2>1 DEF ChargedTo
<1>q. QED
  BY <1>1 DEF Charges

LEMMA CreateKeeps ==
  ASSUME IInv, NEW r \in Requests, Create(r)
  PROVE  IInv'
<1> DEFINE k == KeyOf(r)
           result == [row |-> r]
<1>1. /\ r \in Keyed /\ k \in Keys /\ work \in Databases /\ OperatingFits(r)
  BY Writer, RequestFacts DEF Create, OperatingFits, Held
<1>2. db \in Databases /\ Charges(db) /\ UNCHANGED db
  BY DEF IInv, TypeOK, Create, Operated
<1>3. result \in Results
  BY DEF Results
<1>4. req'[r].result = result
  <2>1. req[r] \in Progress
    BY DEF IInv, TypeOK
  <2>q. QED
    BY <2>1 DEF Create, Operated, IInv, TypeOK, Progress
<1> HIDE DEF result, k
<1>5. /\ work' \in Databases /\ work'.task = work.task /\ work'.window = work.window
      /\ work'.records = work.records
  BY <1>1 DEF Create, Databases, k
<1>6. Charges(Settling(work', k, result))
  <2> DEFINE e == Settling(work', k, result)
  <2>1. work'.records[k] \in Records
    BY <1>1, <1>5 DEF OperatingFits, Databases, k
  <2>2. /\ e \in Databases /\ e.window = db.window
        /\ \A j \in Keys \ {k} : e.records[j] = db.records[j]
        /\ e.records[k].charged = None
    BY <1>1, <1>3, <1>5, <2>1, SettlingOne DEF OperatingFits, OthersKept, k
  <2> HIDE DEF e
  <2>q. QED
    BY <1>1, <1>2, <2>2, NothingCharged DEF OperatingFits, k, e
<1>7. CompletingFits(r)'
  BY <1>1, <1>2, <1>3, <1>4, <1>5, <1>6
  DEF CompletingFits, OperatingFits, OwnChange, OthersKept, k
<1>q. QED
  BY <1>1, <1>3, <1>5, <1>7, Operates DEF Create, result

-----------------------------------------------------------------------------
LEMMA WindowType ==
  ASSUME NEW w \in Windows \cup {None}, NEW t \in Nat
  PROVE  Window(w, Rule, 1, t) \in Windows
<1>1. Rule.limit \in Nat \ {0} /\ Rule.length \in Nat \ {0}
  BY TaskboardTasksAssumption DEF Policies
<1>2. Opened(Rule, 1, t) \in Windows
  BY <1>1 DEF Opened, Windows
<1>3. ASSUME NEW c \in Windows
      PROVE  [c EXCEPT !.used = @ + 1] \in Windows
  BY DEF Windows
<1>4. ~Opens(Current(w, t), Rule) => Current(w, t) \in Windows
  BY DEF Opens, Current
<1>q. QED
  BY <1>2, <1>3, <1>4 DEF Window

(* A move that is permitted and done is charged to the window it is        *)
(* permitted in: to the open one, or to a new one that no other move was   *)
(* charged to.                                                             *)
LEMMA OneCharged ==
  ASSUME NEW d \in Databases, NEW e \in Databases, NEW k \in Keys, NEW t \in Nat, Charges(d),
         ~Settled(d.records[k]), Decision(d.window, Rule, 1, t).got = "permit",
         e.window = Window(d.window, Rule, 1, t),
         \A j \in Keys \ {k} : e.records[j] = d.records[j],
         Settled(e.records[k]), e.records[k].charged = e.window.resets
  PROVE  Charges(e)
<1> DEFINE w == d.window
           c == Current(w, t)
           reset == e.window.resets
           Before == ChargedTo(d, w.resets)
<1>1. w \in Windows \cup {None} /\ e.window \in Windows
  BY WindowType DEF Databases
<1>2. Rule.limit \in Nat \ {0} /\ Rule.length \in Nat \ {0}
  BY TaskboardTasksAssumption DEF Policies
<1>3. e.window # None /\ reset \in Int /\ reset # None
  BY <1>1, FixedWindowAssumption DEF Windows
<1>4. ASSUME NEW j \in Keys, Settled(d.records[j]), d.records[j].charged # None
      PROVE  /\ w # None /\ d.records[j].charged \in Int /\ w.resets \in Int
             /\ d.records[j].charged <= w.resets
  BY <1>1, <1>4 DEF Charges, Settled, Databases, Records, Windows
<1>5. SUFFICES /\ e.window.limit = Rule.limit /\ e.window.length = Rule.length
               /\ IsFiniteSet(ChargedTo(e, reset))
               /\ e.window.used = Cardinality(ChargedTo(e, reset))
               /\ \A j \in Keys \ {k} : Settled(d.records[j]) /\ d.records[j].charged # None =>
                    d.records[j].charged <= reset
  BY <1>3 DEF Charges
<1>6. CASE Opens(c, Rule)
  <2>1. e.window = Opened(Rule, 1, t)
    BY <1>6 DEF Window
  <2>2. /\ e.window.limit = Rule.limit /\ e.window.length = Rule.length
        /\ e.window.used = 1 /\ reset = t + Rule.length
    BY <2>1 DEF Opened
  <2>3. w # None => w.resets \in Int /\ w.resets <= t
    <3>1. w # None => w.limit = Rule.limit /\ w.length = Rule.length
      BY DEF Charges
    <3>2. w # None => w.resets \in Int
      BY <1>1 DEF Windows
    <3>q. QED
      BY <1>6, <3>1, <3>2 DEF Opens, Current
  <2>4. ASSUME NEW j \in Keys \ {k}, Settled(d.records[j]), d.records[j].charged # None
        PROVE  d.records[j].charged < reset /\ d.records[j].charged \in Int
    BY <1>2, <1>4, <2>2, <2>3, <2>4
  <2>5. ChargedTo(e, reset) = {k}
    <3>1. ASSUME NEW j \in Keys
          PROVE  Settled(e.records[j]) /\ e.records[j].charged = reset <=> j = k
      <4>1. CASE j = k
        BY <4>1
      <4>2. CASE j # k
        BY <1>3, <2>4, <4>2
      <4>q. QED
        BY <4>1, <4>2
    <3>q. QED
      BY <3>1 DEF ChargedTo
  <2>6. IsFiniteSet({k}) /\ Cardinality({k}) = 1
    BY FS_Singleton
  <2> HIDE DEF reset
  <2>7. \A j \in Keys \ {k} : Settled(d.records[j]) /\ d.records[j].charged # None =>
          d.records[j].charged <= reset
    BY <1>3, <2>4
  <2>q. QED
    BY <2>2, <2>5, <2>6, <2>7
<1>7. CASE ~Opens(c, Rule)
  <2>1. c = w /\ w \in Windows /\ w # None
    BY <1>1, <1>7 DEF Opens, Current
  <2>2. ~Overspends(c, 1)
    BY <1>7 DEF Decision
  <2>3. e.window = [w EXCEPT !.used = @ + 1]
    BY <1>7, <2>1, <2>2 DEF Window
  <2>4. /\ e.window.limit = w.limit /\ e.window.length = w.length
        /\ e.window.used = w.used + 1 /\ reset = w.resets
    BY <2>1, <2>3 DEF Windows
  <2>5. /\ w.limit = Rule.limit /\ w.length = Rule.length
        /\ IsFiniteSet(Before) /\ w.used = Cardinality(Before)
    BY <2>1 DEF Charges
  <2>6. k \notin Before
    BY DEF ChargedTo
  <2>7. ChargedTo(e, reset) = Before \cup {k}
    BY <2>4 DEF ChargedTo
  <2>8. \A j \in Keys \ {k} : Settled(d.records[j]) /\ d.records[j].charged # None =>
          d.records[j].charged <= reset
    BY <1>4, <2>4
  <2> HIDE DEF Before, reset, c, w
  <2>9. IsFiniteSet(Before \cup {k}) /\ Cardinality(Before \cup {k}) = Cardinality(Before) + 1
    BY <2>5, <2>6, CountOneMore
  <2>q. QED
    BY <2>4, <2>5, <2>7, <2>8, <2>9
<1>q. QED
  BY <1>6, <1>7

LEMMA MoveKeeps ==
  ASSUME IInv, NEW r \in Requests, Move(r)
  PROVE  IInv'
<1> DEFINE k == Op(r).key
           window == Window(work.window, Rule, 1, now)
           consumed == [work EXCEPT !.window = window]
           result == IF work.task.status = Op(r).value THEN work.task
                     ELSE Changed(Op(r), work.task)
<1>1. /\ r \in Keyed /\ k = KeyOf(r) /\ k \in Keys /\ work \in Databases /\ OperatingFits(r)
      /\ Holding(r, "operating")
  BY Writer, RequestFacts DEF Move, OperatingFits, Held, KeyOf
<1>2. db \in Databases /\ Charges(db) /\ now \in Nat
  BY DEF IInv, TypeOK
<1>3. window \in Windows
  BY <1>1, <1>2, WindowType DEF Databases
<1> HIDE DEF window
<1>4. /\ consumed \in Databases /\ consumed.window = window /\ consumed.task = work.task
      /\ consumed.records = work.records
  BY <1>1, <1>3 DEF Databases
<1> HIDE DEF consumed
<1>5. CASE work' = [consumed EXCEPT !.records[k] = None] /\ Raise(r)
  <2>1. work' \in Databases
    BY <1>1, <1>4, <1>5 DEF Databases
  <2>q. QED
    BY <1>1, <1>5, <2>1, Raises DEF Held
<1>6. CASE /\ Decision(work.window, Rule, 1, now).got = "permit"
           /\ work' = [consumed EXCEPT !.task = result, !.records[k].charged = window.resets]
           /\ Operated(r, result)
  <2> DEFINE charged == [consumed.records[k] EXCEPT !.charged = window.resets]
             e == Settling(work', k, result)
  <2>1. work.task = db.task /\ work.task \in Tasks
    BY <1>1, <1>2 DEF OperatingFits, Databases
  <2>2. result \in Tasks /\ result \in Results /\ result \in {db.task, Changed(Op(r), db.task)}
    BY <1>1, <2>1, ChangedTask DEF Results, Keyed
  <2>3. consumed.records[k] \in Records /\ window.resets \in Int
    BY <1>1, <1>3, <1>4 DEF Databases, OperatingFits, Windows
  <2>4. /\ charged \in Records /\ charged.charged = window.resets
        /\ charged.input = Op(r) /\ charged.result = None
    BY <1>1, <1>4, <2>3 DEF Records, OperatingFits
  <2>5. work' = [consumed EXCEPT !.task = result, !.records[k] = charged]
    BY <1>1, <1>4, <1>6 DEF Databases
  <2> HIDE DEF result, charged
  <2>6. /\ work' \in Databases /\ work'.task = result /\ work'.window = window
        /\ work'.records[k] = charged /\ work'.records[k] # None
        /\ \A j \in Keys \ {k} : work'.records[j] = db.records[j]
    <3> DEFINE x == [consumed EXCEPT !.task = result]
    <3>1. /\ x \in Databases /\ x.task = result /\ x.window = window
          /\ x.records = consumed.records
      BY <1>4, <2>2 DEF Databases
    <3>2. work' = [x EXCEPT !.records[k] = charged]
      BY <2>5
    <3> HIDE DEF x
    <3>3. /\ work' \in Databases /\ work'.task = result /\ work'.window = window
          /\ work'.records = [x.records EXCEPT ![k] = charged]
      BY <1>1, <2>4, <3>1, <3>2 DEF Databases
    <3>q. QED
      BY <1>1, <1>4, <2>4, <3>1, <3>3, TaskboardTasksAssumption
      DEF Databases, OperatingFits, OthersKept
  <2>7. Charges(e)
    <3>1. /\ e \in Databases /\ e.window = window /\ Settled(e.records[k])
          /\ e.records[k].charged = window.resets
          /\ \A j \in Keys \ {k} : e.records[j] = db.records[j]
      BY <1>1, <2>2, <2>4, <2>6, SettlingOne, TaskboardTasksAssumption DEF Settled
    <3>2. db.window = work.window /\ ~Settled(db.records[k])
      BY <1>1 DEF OperatingFits
    <3> HIDE DEF e, k
    <3>q. QED
      BY <1>1, <1>2, <1>6, <3>1, <3>2, OneCharged DEF window
  <2>8. UNCHANGED db /\ req'[r].result = result
    <3>1. req[r] \in Progress /\ r \in Requests
      BY DEF IInv, TypeOK
    <3>q. QED
      BY <1>6, <3>1 DEF Operated, IInv, TypeOK, Progress
  <2>9. CompletingFits(r)'
    BY <1>1, <2>2, <2>4, <2>6, <2>7, <2>8
    DEF CompletingFits, OperatingFits, OwnChange, OthersKept
  <2>q. QED
    BY <1>1, <1>6, <2>2, <2>6, <2>9, Operates
<1>q. QED
  BY <1>5, <1>6 DEF Move, window, consumed

-----------------------------------------------------------------------------
LEMMA InitInv ==
  ASSUME Init
  PROVE  IInv
<1>1. db \in Databases
  BY DEF Init, Databases, Tasks, Values
<1>2. req \in [Requests -> Progress] /\ \A r \in Requests : req[r].stage = "idle"
  BY DEF Init, Progress, Stages
<1>3. now \in Nat /\ writer = None
  BY DEF Init
<1>4. Charges(db)
  BY DEF Init, Charges, Settled
<1>5. \A r \in Requests : RequestFits(r)
  BY <1>2, <1>3, RequestFacts DEF RequestFits, SeenFits, Held
<1>q. QED
  BY <1>1, <1>2, <1>3, <1>4, <1>5 DEF IInv, TypeOK

LEMMA QuietKeeps ==
  ASSUME IInv, UNCHANGED <<db, work, writer, req>>, now' \in Nat
  PROVE  IInv'
<1> USE DEF IInv
<1>1. TypeOK'
  BY DEF TypeOK
<1>2. Charges(db)'
  BY DEF Charges, ChargedTo, Settled
<1>3. ASSUME NEW s \in Requests
      PROVE  RequestFits(s)'
  <2>1. OperatingFits(s)' <=> OperatingFits(s)
    BY DEF OperatingFits, OthersKept, Settled
  <2>2. Charges(Settling(work, KeyOf(s), req[s].result))'
          <=> Charges(Settling(work, KeyOf(s), req[s].result))
    BY DEF Charges, ChargedTo, Settled, Settling
  <2>3. CompletingFits(s)' <=> CompletingFits(s)
    BY <2>2 DEF CompletingFits, OwnChange, OthersKept, Settled
  <2>4. Charges(work)' <=> Charges(work)
    BY DEF Charges, ChargedTo, Settled
  <2>5. CommittingFits(s)' <=> CommittingFits(s)
    BY <2>4 DEF CommittingFits, OwnChange, OthersKept, Settled
  <2>6. WorkFits(s)' <=> WorkFits(s)
    BY <2>1, <2>3, <2>5 DEF WorkFits
  <2>7. SeenFits(s)' <=> SeenFits(s)
    BY DEF SeenFits
  <2>q. QED
    BY <2>6, <2>7 DEF RequestFits
<1>q. QED
  BY <1>1, <1>2, <1>3

(* Between any two statements the writer's open transaction is what the    *)
(* committed tables and its own request make of it, and the quota of the   *)
(* committed tables is spent by their moves (move_task, create_task,       *)
(* update_task over one request's connection).                             *)
THEOREM Inductive == Spec => []IInv
<1>1. Init => IInv
  BY InitInv
<1>2. IInv /\ [Next]_vars => IInv'
  <2> SUFFICES ASSUME IInv, [Next]_vars
               PROVE  IInv'
    OBVIOUS
  <2>1. ASSUME NEW r \in Requests, Send(r)
        PROVE  IInv'
    BY <2>1, SendKeeps
  <2>2. ASSUME NEW r \in Requests, GiveUp(r)
        PROVE  IInv'
    BY <2>2, GiveUpKeeps
  <2>3. ASSUME NEW r \in Requests, Reserve(r)
        PROVE  IInv'
    BY <2>3, ReserveKeeps
  <2>4. ASSUME NEW r \in Requests, Complete(r)
        PROVE  IInv'
    BY <2>4, CompleteKeeps
  <2>5. ASSUME NEW r \in Requests, Move(r)
        PROVE  IInv'
    BY <2>5, MoveKeeps
  <2>6. ASSUME NEW r \in Requests, Create(r)
        PROVE  IInv'
    BY <2>6, CreateKeeps
  <2>7. ASSUME NEW r \in Requests, OperationFails(r)
        PROVE  IInv'
    BY <2>7, OperationFailsKeeps
  <2>8. ASSUME NEW r \in Requests, Read(r)
        PROVE  IInv'
    BY <2>8, ReadKeeps
  <2>9. ASSUME NEW r \in Requests, Save(r)
        PROVE  IInv'
    BY <2>9, SaveKeeps
  <2>10. ASSUME NEW r \in Requests, Commit(r)
         PROVE  IInv'
    BY <2>10, CommitKeeps
  <2>11. ASSUME NEW r \in Requests, RollBack(r)
         PROVE  IInv'
    BY <2>11, RollBackKeeps
  <2>12. ASSUME NEW r \in Requests, Die(r)
         PROVE  IInv'
    BY <2>12, DieKeeps
  <2>13. CASE Tick
    BY <2>13, QuietKeeps DEF Tick, IInv, TypeOK
  <2>14. CASE UNCHANGED vars
    BY <2>14, QuietKeeps DEF vars, IInv, TypeOK
  <2>q. QED
    BY <2>1, <2>2, <2>3, <2>4, <2>5, <2>6, <2>7, <2>8, <2>9, <2>10, <2>11, <2>12,
       <2>13, <2>14 DEF Next
<1>q. QED
  BY <1>1, <1>2, PTL DEF Spec

(* The limit of tasks.move is spent by the moves the database holds as     *)
(* done: a replayed, refused, failed or abandoned move costs nothing, over *)
(* any number of windows.                                                  *)
THEOREM QuotaSpentOnWork == Spec => []QuotaIsForWorkDone
<1>1. IInv => QuotaIsForWorkDone
  <2> SUFFICES ASSUME IInv, db.window # None
               PROVE  db.window.used =
                        Cardinality({k \in Keys : Done(k)
                                       /\ db.records[k].charged = db.window.resets})
    BY DEF QuotaIsForWorkDone
  <2>1. {k \in Keys : Done(k) /\ db.records[k].charged = db.window.resets}
          = ChargedTo(db, db.window.resets)
    BY DEF ChargedTo, Settled, Done
  <2>q. QED
    BY <2>1 DEF IInv, Charges
<1>q. QED
  BY <1>1, Inductive, PTL

(* What a committed transaction does to the task is its own request's      *)
(* change to the task as it was: no update is lost, however reads, saves   *)
(* and deaths interleave.                                                  *)
THEOREM NoLostUpdate == Spec => SavesCompose
<1> DEFINE Composes == db'.task # db.task =>
                         writer # None /\ db'.task = Changed(Op(writer), db.task)
<1>1. IInv /\ [Next]_vars => [Composes]_vars
  <2> SUFFICES ASSUME IInv, Next, db'.task # db.task
               PROVE  writer # None /\ db'.task = Changed(Op(writer), db.task)
    BY DEF vars
  <2>1. PICK r \in Requests : Commit(r) \/ Die(r)
    BY DEF Next, Send, GiveUp, Reserve, Complete, Move, Create, OperationFails, Raise,
           Operated, Read, Save, RollBack, Tick
  <2>2. writer = r /\ req[r].stage = "committing" /\ db' = work
    BY <2>1 DEF Commit, Die, Holding
  <2>3. db'.task \in {db.task, Changed(Op(r), db.task)}
    BY <2>2 DEF IInv, RequestFits, WorkFits, CommittingFits, OwnChange
  <2>q. QED
    BY <2>2, <2>3, RequestFacts
<1>q. QED
  BY <1>1, Inductive, PTL DEF Spec, SavesCompose

-----------------------------------------------------------------------------
(* A step of one request that tells it no result changes nothing of what   *)
(* anybody was told.                                                       *)
LEMMA NothingTold ==
  ASSUME NEW r, \A s \in Keyed \ {r} : req'[s] = req[s],
         r \in Keyed => /\ ~(req[r].stage = "answered" /\ req[r].answer = "ok")
                        /\ ~(req'[r].stage = "answered" /\ req'[r].answer = "ok")
  PROVE  toldBar' = toldBar
<1>1. ASSUME NEW s \in Keyed
      PROVE  (IF req[s].stage = "answered" /\ req[s].answer = "ok" THEN req[s].result ELSE None)'
               = IF req[s].stage = "answered" /\ req[s].answer = "ok" THEN req[s].result ELSE None
  BY <1>1
<1>q. QED
  BY <1>1 DEF toldBar

LEMMA NothingSettled ==
  ASSUME db'.records = db.records
  PROVE  settledBar' = settledBar
BY DEF settledBar, Done

(* Before it ends its transaction, a step neither settles nor tells.       *)
LEMMA QuietStep ==
  ASSUME IInv, NEW r \in Requests,
         \/ Send(r) \/ GiveUp(r) \/ Reserve(r) \/ Complete(r)
         \/ Move(r) \/ Create(r) \/ OperationFails(r) \/ Read(r) \/ Save(r) \/ RollBack(r)
  PROVE  settledBar' = settledBar /\ toldBar' = toldBar
<1>1. db' = db
  BY DEF Send, GiveUp, Reserve, Complete, Move, Create, OperationFails, Read, Save, RollBack,
         Raise, Operated
<1>2. req[r] \in Progress /\ DOMAIN req = Requests /\ Keyed \subseteq Requests
  BY DEF IInv, TypeOK, Keyed
<1>3. ~(req[r].stage = "answered" /\ req[r].answer = "ok")
  BY DEF Send, GiveUp, Reserve, Complete, Move, Create, OperationFails, Read, Save, RollBack,
         Holding, Waiting
<1>4. req[r].stage = "failing" /\ writer = r => req[r].answer # "ok"
  BY DEF IInv, RequestFits, WorkFits
<1>5. /\ \A s \in Requests \ {r} : req'[s] = req[s]
      /\ ~(req'[r].stage = "answered" /\ req'[r].answer = "ok")
  <2>1. CASE Send(r)
    BY <1>2, <2>1 DEF Send, Progress
  <2>2. CASE GiveUp(r)
    BY <1>2, <2>2 DEF GiveUp, Answered
  <2>3. CASE Reserve(r)
    BY <1>2, <2>3 DEF Reserve, Lock, Progress
  <2>4. CASE Complete(r)
    BY <1>2, <2>4 DEF Complete, Raise, Progress
  <2>5. CASE Move(r)
    BY <1>2, <2>5 DEF Move, Raise, Operated, Progress
  <2>6. CASE Create(r)
    BY <1>2, <2>6 DEF Create, Operated, Progress
  <2>7. CASE OperationFails(r)
    BY <1>2, <2>7 DEF OperationFails, Raise, Progress
  <2>8. CASE Read(r)
    BY <1>2, <2>8 DEF Read, Answered, Progress
  <2>9. CASE Save(r)
    BY <1>2, <2>9 DEF Save, Lock, Progress
  <2>10. CASE RollBack(r)
    BY <1>2, <1>4, <2>10 DEF RollBack, Answered, Holding
  <2>q. QED
    BY <2>1, <2>2, <2>3, <2>4, <2>5, <2>6, <2>7, <2>8, <2>9, <2>10
<1>q. QED
  BY <1>1, <1>2, <1>3, <1>5, NothingTold, NothingSettled

(* What a transaction that is applied does to what keys have settled on.   *)
LEMMA Applied ==
  ASSUME IInv, NEW r \in Keyed, writer = r, req[r].stage = "committing", db' = work
  PROVE  LET k == KeyOf(r)
             s == [input |-> Op(r), result |-> req[r].result]
         IN /\ s \in Settlements
            /\ settledBar'[k] = s
            /\ settledBar[k] \in {None, s}
            /\ settledBar' = [settledBar EXCEPT ![k] = s]
<1> DEFINE k == KeyOf(r)
           s == [input |-> Op(r), result |-> req[r].result]
<1>1. r \in Requests /\ k \in Keys /\ Op(r) \in Ops
  BY RequestFacts DEF Keyed
<1>2. CommittingFits(r)
  BY <1>1 DEF IInv, RequestFits, WorkFits
<1>3. s \in Settlements
  BY <1>1, <1>2 DEF CommittingFits, Settlements
<1>4. settledBar'[k] = s
  BY <1>1, <1>2 DEF CommittingFits, Settled, settledBar, Done
<1>5. settledBar[k] \in {None, s}
  BY <1>1, <1>2 DEF CommittingFits, Settled, settledBar, Done
<1>6. ASSUME NEW j \in Keys, j # k
      PROVE  settledBar'[j] = settledBar[j]
  BY <1>2, <1>6 DEF CommittingFits, OthersKept, settledBar, Done
<1>7. settledBar' = [settledBar EXCEPT ![k] = s]
  <2> DEFINE F == [settledBar EXCEPT ![k] = s]
  <2>1. F = [j \in Keys |-> IF j = k THEN s ELSE settledBar[j]]
    BY DEF settledBar
  <2>2. settledBar' = [j \in Keys |-> settledBar'[j]]
    BY DEF settledBar
  <2> HIDE DEF s, k
  <2>q. QED
    BY <1>4, <1>6, <2>1, <2>2
<1>q. QED
  BY <1>3, <1>4, <1>5, <1>7

LEMMA ToldOne ==
  ASSUME IInv, NEW r \in Keyed, NEW result, Answered(r, "ok", result),
         req[r].stage # "answered"
  PROVE  toldBar[r] = None /\ toldBar' = [toldBar EXCEPT ![r] = result]
<1>1. DOMAIN req = Requests /\ Keyed \subseteq Requests
  BY DEF IInv, TypeOK, Keyed
<1>2. toldBar[r] = None
  BY DEF toldBar
<1>3. toldBar'[r] = result
  BY <1>1 DEF toldBar, Answered
<1>4. ASSUME NEW s \in Keyed, s # r
      PROVE  toldBar'[s] = toldBar[s]
  BY <1>1, <1>4 DEF toldBar, Answered
<1>5. [toldBar EXCEPT ![r] = result] = [s \in Keyed |-> IF s = r THEN result ELSE toldBar[s]]
  BY DEF toldBar
<1>6. toldBar' = [s \in Keyed |-> toldBar'[s]]
  BY DEF toldBar
<1>q. QED
  BY <1>2, <1>3, <1>4, <1>5, <1>6

LEMMA CommitRefines ==
  ASSUME IInv, NEW r \in Requests, Commit(r)
  PROVE  Durable!Next \/ UNCHANGED <<settledBar, toldBar>>
<1>1. writer = r /\ req[r].stage = "committing" /\ db' = work
  BY DEF Commit, Holding
<1>2. CommittingFits(r)
  BY <1>1 DEF IInv, RequestFits, WorkFits
<1>3. Answered(r, "ok", req[r].result)
  BY <1>2 DEF Commit, CommittingFits
<1>4. CASE r \notin Keyed
  <2>1. \A s \in Keyed \ {r} : req'[s] = req[s]
    BY <1>3, <1>4 DEF Answered, IInv, TypeOK, Keyed
  <2>2. db'.records = db.records
    BY <1>1, <1>2, <1>4 DEF CommittingFits
  <2>q. QED
    BY <1>4, <2>1, <2>2, NothingTold, NothingSettled
<1>5. CASE r \in Keyed
  <2> DEFINE k == KeyOf(r)
             s == [input |-> Op(r), result |-> req[r].result]
  <2>1. /\ s \in Settlements /\ settledBar'[k] = s /\ settledBar[k] \in {None, s}
        /\ settledBar' = [settledBar EXCEPT ![k] = s]
    BY <1>1, <1>5, Applied
  <2>2. toldBar[r] = None /\ toldBar' = [toldBar EXCEPT ![r] = s.result]
    BY <1>1, <1>3, <1>5, ToldOne
  <2>3. s # None /\ s.input = Op(r)
    BY <2>1, TaskboardTasksAssumption
  <2> HIDE DEF s
  <2>4. CASE settledBar[k] = None
    <3>1. Durable!Settle(r)
      BY <2>1, <2>2, <2>3, <2>4 DEF Durable!Settle
    <3>q. QED
      BY <1>5, <3>1 DEF Durable!Next
  <2>5. CASE settledBar[k] = s
    <3>1. UNCHANGED settledBar
      BY <2>1, <2>5, RequestFacts DEF settledBar
    <3>2. Durable!Tell(r)
      BY <2>2, <2>3, <2>5, <3>1 DEF Durable!Tell
    <3>q. QED
      BY <1>5, <3>2 DEF Durable!Next
  <2>q. QED
    BY <2>1, <2>4, <2>5
<1>q. QED
  BY <1>4, <1>5

LEMMA DieRefines ==
  ASSUME IInv, NEW r \in Requests, Die(r)
  PROVE  Durable!Next \/ UNCHANGED <<settledBar, toldBar>>
<1>1. writer = r /\ req[r].stage \in Held
  BY DEF Die, IInv, RequestFits, WorkFits
<1>2. UNCHANGED toldBar
  <2>1. \A s \in Keyed \ {r} : req'[s] = req[s]
    BY DEF Die, Answered, IInv, TypeOK, Keyed
  <2>2. req'[r].answer # "ok"
    BY DEF Die, Answered, IInv, TypeOK
  <2>q. QED
    BY <1>1, <2>1, <2>2, NothingTold DEF Held
<1>3. CASE db' = db
  BY <1>2, <1>3, NothingSettled
<1>4. CASE req[r].stage = "committing" /\ db' = work /\ r \notin Keyed
  <2>1. CommittingFits(r)
    BY <1>1, <1>4 DEF IInv, RequestFits, WorkFits
  <2>q. QED
    BY <1>2, <1>4, <2>1, NothingSettled DEF CommittingFits
<1>5. CASE req[r].stage = "committing" /\ db' = work /\ r \in Keyed
  <2> DEFINE k == KeyOf(r)
             s == [input |-> Op(r), result |-> req[r].result]
  <2>1. /\ s \in Settlements /\ settledBar'[k] = s /\ settledBar[k] \in {None, s}
        /\ settledBar' = [settledBar EXCEPT ![k] = s]
    BY <1>1, <1>5, Applied
  <2>2. s # None /\ s.input = Op(r)
    BY <2>1, TaskboardTasksAssumption
  <2> HIDE DEF s
  <2>3. CASE settledBar[k] = None
    <3>1. Durable!Settle(r)
      BY <1>2, <2>1, <2>2, <2>3 DEF Durable!Settle
    <3>q. QED
      BY <1>5, <3>1 DEF Durable!Next
  <2>4. CASE settledBar[k] = s
    BY <1>2, <2>1, <2>4, RequestFacts DEF settledBar
  <2>q. QED
    BY <2>1, <2>3, <2>4
<1>q. QED
  BY <1>3, <1>4, <1>5 DEF Die

(* Every key settles on one result of one input, for ever, and its clients *)
(* hear that result or nothing: run_idempotently over a request's own      *)
(* transaction keeps what DurableResult promises.                          *)
THEOREM KeepsDurableResult == Spec => ImplementsDurableResult
<1>1. Init => Durable!Init
  BY DEF Init, Durable!Init, settledBar, toldBar, Done, Keyed
<1>2. IInv /\ [Next]_vars => [Durable!Next]_(Durable!vars)
  <2> SUFFICES ASSUME IInv, [Next]_vars
               PROVE  Durable!Next \/ UNCHANGED <<settledBar, toldBar>>
    BY DEF Durable!vars
  <2>1. CASE UNCHANGED vars
    BY <2>1 DEF vars, settledBar, toldBar, Done
  <2>2. CASE Tick
    BY <2>2 DEF Tick, settledBar, toldBar, Done
  <2>3. ASSUME NEW r \in Requests, Commit(r)
        PROVE  Durable!Next \/ UNCHANGED <<settledBar, toldBar>>
    BY <2>3, CommitRefines
  <2>4. ASSUME NEW r \in Requests, Die(r)
        PROVE  Durable!Next \/ UNCHANGED <<settledBar, toldBar>>
    BY <2>4, DieRefines
  <2>q. QED
    BY <2>1, <2>2, <2>3, <2>4, QuietStep DEF Next
<1>q. QED
  BY <1>1, <1>2, Inductive, PTL DEF Spec, ImplementsDurableResult, Durable!Spec
=============================================================================
