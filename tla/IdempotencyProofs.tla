------------------------- MODULE IdempotencyProofs -------------------------
(***************************************************************************)
(* Proofs about Idempotency, for any set of calls, keys, inputs and clock  *)
(* readings.                                                               *)
(***************************************************************************)
EXTENDS Idempotency, TLAPS

LEMMA LaterType ==
  ASSUME NEW t \in Times, NEW d \in Nat
  PROVE  Later(t, d) \in Nat
BY TimesAssumption DEF Later

LEMMA RetryAfterType ==
  ASSUME NEW r \in Record, clock \in Times
  PROVE  RetryAfter(r) \in Nat
BY TimesAssumption, TTLAssumption DEF RetryAfter, Record

LEMMA FoundType ==
  ASSUME TypeOK, NEW k \in Keys
  PROVE  Found(k) \in Record \cup {None} /\ Found(k) \in {records[k], None}
BY DEF TypeOK, Found

LEMMA AbandonedType ==
  ASSUME NEW c, NEW r \in Record \cup {None}
  PROVE  Abandoned(c, r) \in Record \cup {None} /\ Abandoned(c, r) \in {r, None}
BY DEF Abandoned

LEMMA InitType == Init => TypeOK
BY TimesAssumption, NoneAssumption DEF Init, TypeOK, Call, Idle

LEMMA KeptUntilType ==
  ASSUME TypeOK, NEW c \in Calls, calls[c].status = "running"
  PROVE  KeptUntil(c) \in Nat \cup {None}
BY LaterType, TTLAssumption DEF TypeOK, KeptUntil

(* The type of a call after any of the reserve decisions.                  *)
LEMMA AsksType ==
  ASSUME TypeOK, NEW c \in Calls, NEW k \in Keys, NEW f \in Fingerprints,
         NEW d \in CompletedTTLs
  PROVE  /\ Asks(c, k, f, d) \in Call
         /\ Asks(c, k, f, d).key = k
         /\ Asks(c, k, f, d).fp = f
         /\ Asks(c, k, f, d).ttl = d
         /\ Asks(c, k, f, d).status = calls[c].status
<1>1. calls[c] \in Call
  BY DEF TypeOK
<1>2. d \in Nat \cup {None}
  BY TTLAssumption
<1>3. QED
  BY <1>1, <1>2 DEF Asks, Call

(* Replacing one call by a well-typed one that knows its key is well typed. *)
LEMMA CallUpdateType ==
  ASSUME TypeOK, NEW c \in Calls, NEW x \in Call,
         x.key \in Keys, x.fp \in Fingerprints, x.ttl \in CompletedTTLs,
         x.status = "running" => x.until \in Nat,
         calls' = [calls EXCEPT ![c] = x],
         records' \in [Keys -> Record \cup {None}],
         clock' \in Times, lastNow' \in Times
  PROVE  TypeOK'
BY DEF TypeOK

LEMMA StepType == TypeOK /\ [Next]_vars => TypeOK'
<1> SUFFICES ASSUME TypeOK, [Next]_vars PROVE TypeOK'
  OBVIOUS
<1> USE NoneAssumption
<1>1. CASE ClockMoves
  BY <1>1 DEF ClockMoves, TypeOK
<1>2. ASSUME NEW c \in Calls, NEW k \in Keys, NEW f \in Fingerprints,
             NEW d \in CompletedTTLs, Reserve(c, k, f, d)
      PROVE  TypeOK'
  <2> DEFINE ask == Asks(c, k, f, d)
  <2>a. /\ ask \in Call
        /\ ask.key = k /\ ask.fp = f /\ ask.ttl = d
    BY AsksType
  <2>t. clock \in Nat /\ lastNow \in Nat
    BY TimesAssumption DEF TypeOK
  <2> HIDE DEF ask
  <2>1. CASE ReserveClockBackwards(c, k, f, d)
    BY <2>1, <2>a DEF ReserveClockBackwards, TypeOK, Call, ask
  <2>2. CASE ReserveConflict(c, k, f, d)
    BY <2>2, <2>a DEF ReserveConflict, Reserving, TypeOK, Call, ask
  <2>3. CASE ReserveReplay(c, k, f, d)
    <3>1. Found(k).result \in Calls
      BY <2>3, FoundType DEF ReserveReplay, Record
    <3> DEFINE hit == [ask EXCEPT !.status = "replayed", !.answer = Found(k).result]
               miss == [ask EXCEPT !.status = "failed"]
    <3>2. PICK x \in {hit, miss} : calls' = [calls EXCEPT ![c] = x]
      BY <2>3 DEF ReserveReplay, ask
    <3>h. /\ hit \in Call
          /\ hit.key = k /\ hit.fp = f /\ hit.ttl = d /\ hit.status # "running"
      BY <2>a, <3>1 DEF Call
    <3>m. /\ miss \in Call
          /\ miss.key = k /\ miss.fp = f /\ miss.ttl = d /\ miss.status # "running"
      BY <2>a DEF Call
    <3> HIDE DEF hit, miss
    <3>3. /\ x \in Call
          /\ x.key = k /\ x.fp = f /\ x.ttl = d /\ x.status # "running"
      BY <3>h, <3>m
    <3>4. QED
      BY <2>3, <3>2, <3>3, CallUpdateType DEF ReserveReplay, Reserving, TypeOK
  <2>4. CASE ReserveInProgress(c, k, f, d)
    <3>1. RetryAfter(Found(k)) \in Nat
      BY <2>4, FoundType, RetryAfterType DEF ReserveInProgress, TypeOK
    <3> DEFINE wait == [ask EXCEPT !.status = "in_progress",
                                   !.retryAfter = RetryAfter(Found(k))]
    <3>2. calls' = [calls EXCEPT ![c] = wait]
      BY <2>4 DEF ReserveInProgress, ask
    <3>3. /\ wait \in Call
          /\ wait.key = k /\ wait.fp = f /\ wait.ttl = d /\ wait.status # "running"
      BY <2>a, <3>1 DEF Call
    <3> HIDE DEF wait
    <3>4. records' = records /\ clock' = clock /\ lastNow' = clock
      BY <2>4 DEF ReserveInProgress, Reserving
    <3>5. QED
      BY <3>2, <3>3, <3>4, CallUpdateType DEF TypeOK
  <2>5. CASE ReserveWins(c, k, f, d)
    <3>1. Later(clock, ReservationTTL) \in Nat
      BY LaterType, TTLAssumption DEF TypeOK
    <3>2. records' \in [Keys -> Record \cup {None}]
      BY <2>5, <3>1 DEF ReserveWins, TypeOK, Record
    <3> DEFINE run == [ask EXCEPT !.status = "running", !.since = clock,
                                  !.until = Later(clock, ReservationTTL)]
    <3>3. calls' = [calls EXCEPT ![c] = run]
      BY <2>5 DEF ReserveWins, ask
    <3>4. /\ run \in Call
          /\ run.key = k /\ run.fp = f /\ run.ttl = d /\ run.until \in Nat
      BY <2>a, <2>t, <3>1 DEF Call
    <3> HIDE DEF run
    <3>5. QED
      BY <2>5, <3>2, <3>3, <3>4, CallUpdateType DEF ReserveWins, Reserving, TypeOK
  <2>6. CASE ReserveNoFuture(c, k, f, d)
    BY <2>6, <2>a DEF ReserveNoFuture, Reserving, TypeOK, Call, ask
  <2>7. QED
    BY <1>2, <2>1, <2>2, <2>3, <2>4, <2>5, <2>6 DEF Reserve
<1>3. ASSUME NEW c \in Calls, Finish(c)
      PROVE  TypeOK'
  <2>k. calls[c].status = "running" /\ calls[c].key \in Keys
    BY <1>3 DEF Finish, OperationFails, CompleteAndReturn, CompleteRefused, TypeOK
  <2>t. clock \in Nat /\ lastNow \in Nat
    BY TimesAssumption DEF TypeOK
  <2>1. CASE OperationFails(c)
    BY <2>1, <2>k, AbandonedType DEF OperationFails, TypeOK, Call
  <2>2. CASE CompleteAndReturn(c)
    <3>1. Found(calls[c].key) \in Record
      BY <2>2, <2>k, FoundType DEF CompleteAndReturn, Completable, Owns
    <3>2. KeptUntil(c) \in Nat \cup {None}
      BY <2>k, KeptUntilType
    <3>3. records' \in [Keys -> Record \cup {None}]
      BY <2>2, <2>k, <3>1, <3>2 DEF CompleteAndReturn, TypeOK, Record
    <3> DEFINE done == [calls[c] EXCEPT !.status = "returned", !.answer = c,
                                        !.since = clock, !.until = KeptUntil(c)]
    <3>4. calls' = [calls EXCEPT ![c] = done]
      BY <2>2 DEF CompleteAndReturn
    <3>c. /\ calls[c] \in Call /\ calls[c].fp \in Fingerprints
          /\ calls[c].ttl \in CompletedTTLs
      BY <2>k DEF TypeOK
    <3>5. /\ done \in Call /\ done.status # "running"
          /\ done.key \in Keys /\ done.fp \in Fingerprints
          /\ done.ttl \in CompletedTTLs
      BY <2>k, <2>t, <3>2, <3>c DEF Call
    <3> HIDE DEF done
    <3>6. clock' \in Times /\ lastNow' \in Times
      BY <2>2 DEF CompleteAndReturn, TypeOK
    <3>7. QED
      BY <3>3, <3>4, <3>5, <3>6, CallUpdateType
  <2>3. CASE CompleteRefused(c)
    BY <2>3, <2>k, AbandonedType, FoundType DEF CompleteRefused, TypeOK, Call
  <2>4. QED
    BY <1>3, <2>1, <2>2, <2>3 DEF Finish
<1>4. CASE UNCHANGED vars
  BY <1>4 DEF vars, TypeOK
<1>5. QED
  BY <1>1, <1>2, <1>3, <1>4 DEF Next

(* Every variable keeps its type, whatever the calls and the clock do.     *)
THEOREM TypeCorrect == Spec => []TypeOK
<1>1. Init => TypeOK
  BY InitType
<1>2. TypeOK /\ [Next]_vars => TypeOK'
  BY StepType
<1>3. QED
  BY <1>1, <1>2, PTL DEF Spec

-----------------------------------------------------------------------------
(* Leases.  LeaseHolds is inductive together with the types.               *)

IInv == TypeOK /\ LeaseHolds

(* A lease that outlasts the reading the store takes now keeps its record. *)
LEMMA LiveRecordIsFound ==
  ASSUME IInv, NEW c \in Calls, calls[c].status = "running",
         ClockAccepted, calls[c].until > clock
  PROVE  /\ Found(calls[c].key) = records[calls[c].key]
         /\ Owns(c, Found(calls[c].key))
         /\ records[calls[c].key].reservedUntil = calls[c].until
<1>1. clock \in Nat /\ lastNow \in Nat /\ calls[c].until \in Nat
  BY TimesAssumption DEF IInv, TypeOK
<1>2. Live(c)
  BY <1>1 DEF ClockAccepted, Live
<1>3. /\ Owns(c, records[calls[c].key])
      /\ records[calls[c].key].reservedUntil = calls[c].until
  BY <1>2 DEF IInv, LeaseHolds
<1>4. ~Expired(records[calls[c].key], clock)
  BY <1>1, <1>3 DEF Expired, Owns
<1>5. QED
  BY <1>3, <1>4 DEF Found

(* A reserve decision touches its own call, which only a winner leaves     *)
(* running, and the record of its own key.                                 *)
LEMMA ReserveFrame ==
  ASSUME TypeOK, NEW c \in Calls, NEW k \in Keys, NEW f \in Fingerprints,
         NEW d \in CompletedTTLs, Reserve(c, k, f, d)
  PROVE  /\ calls[c].status = "idle"
         /\ calls'[c].key = k /\ calls'[c].fp = f
         /\ calls'[c].status \notin {"idle", "returned"}
         /\ calls'[c].status = "running" => ReserveWins(c, k, f, d)
         /\ \A e \in Calls : e # c => calls'[e] = calls[e]
         /\ \A j \in Keys : j # k => records'[j] = records[j]
<1> DEFINE ask == Asks(c, k, f, d)
<1>a. ask \in Call /\ ask.key = k /\ ask.fp = f
  BY AsksType
<1>b. calls[c].status = "idle"
  BY DEF Reserve, ReserveClockBackwards, ReserveConflict, ReserveReplay,
         ReserveInProgress, ReserveNoFuture, ReserveWins, Reserving
<1> HIDE DEF ask
<1>1. CASE ReserveClockBackwards(c, k, f, d)
  BY <1>a, <1>b, <1>1 DEF ReserveClockBackwards, TypeOK, Call, ask
<1>2. CASE ReserveConflict(c, k, f, d)
  BY <1>a, <1>b, <1>2 DEF ReserveConflict, TypeOK, Call, ask
<1>3. CASE ReserveReplay(c, k, f, d)
  <2> DEFINE hit == [ask EXCEPT !.status = "replayed", !.answer = Found(k).result]
             miss == [ask EXCEPT !.status = "failed"]
  <2>1. PICK x \in {hit, miss} : calls' = [calls EXCEPT ![c] = x]
    BY <1>3 DEF ReserveReplay, ask
  <2>2. /\ x.key = k /\ x.fp = f
        /\ x.status \in {"replayed", "failed"}
    BY <1>a DEF Call
  <2> HIDE DEF hit, miss
  <2>3. QED
    BY <1>b, <1>3, <2>1, <2>2 DEF ReserveReplay, TypeOK
<1>4. CASE ReserveInProgress(c, k, f, d)
  BY <1>a, <1>b, <1>4 DEF ReserveInProgress, TypeOK, Call, ask
<1>5. CASE ReserveWins(c, k, f, d)
  BY <1>a, <1>b, <1>5 DEF ReserveWins, TypeOK, Call, ask
<1>6. CASE ReserveNoFuture(c, k, f, d)
  BY <1>a, <1>b, <1>6 DEF ReserveNoFuture, TypeOK, Call, ask
<1>7. QED
  BY <1>1, <1>2, <1>3, <1>4, <1>5, <1>6 DEF Reserve

(* The end of a run touches its own call and the record of its own key.    *)
LEMMA FinishFrame ==
  ASSUME TypeOK, NEW c \in Calls, Finish(c)
  PROVE  /\ calls[c].status = "running" /\ calls[c].key \in Keys
         /\ calls'[c].status \in {"returned", "failed"}
         /\ calls'[c].status # "running"
         /\ \A e \in Calls : e # c => calls'[e] = calls[e]
         /\ \A j \in Keys : j # calls[c].key => records'[j] = records[j]
<1>1. calls[c].status = "running" /\ calls[c].key \in Keys
  BY DEF Finish, OperationFails, CompleteAndReturn, CompleteRefused, TypeOK
<1>2. CASE OperationFails(c)
  BY <1>1, <1>2 DEF OperationFails, TypeOK, Call
<1>3. CASE CompleteAndReturn(c)
  BY <1>1, <1>3 DEF CompleteAndReturn, TypeOK, Call
<1>4. CASE CompleteRefused(c)
  BY <1>1, <1>4 DEF CompleteRefused, TypeOK, Call
<1>5. QED
  BY <1>1, <1>2, <1>3, <1>4 DEF Finish

LEMMA LeaseStep == IInv /\ [Next]_vars => LeaseHolds'
<1> SUFFICES ASSUME IInv, [Next]_vars PROVE LeaseHolds'
  OBVIOUS
<1> USE NoneAssumption
<1>t. TypeOK /\ clock \in Nat /\ lastNow \in Nat
  BY TimesAssumption DEF IInv, TypeOK
<1>1. CASE ClockMoves
  BY <1>1 DEF ClockMoves, IInv, LeaseHolds, Live, Owns
<1>2. ASSUME NEW c \in Calls, NEW k \in Keys, NEW f \in Fingerprints,
             NEW d \in CompletedTTLs, Reserve(c, k, f, d)
      PROVE  LeaseHolds'
  <2>1. SUFFICES ASSUME NEW e \in Calls, Live(e)'
                 PROVE  /\ Owns(e, records[calls[e].key])'
                        /\ (records[calls[e].key].reservedUntil = calls[e].until)'
    BY DEF LeaseHolds
  (* Nobody but a winner starts to run: the others' records are as before. *)
  <2>2. ASSUME calls'[e] = calls[e], records'[calls[e].key] = records[calls[e].key],
               lastNow' = lastNow \/ (ClockAccepted /\ lastNow' = clock)
        PROVE  /\ Owns(e, records[calls[e].key])'
               /\ (records[calls[e].key].reservedUntil = calls[e].until)'
    <3>1. Live(e)
      BY <1>t, <2>1, <2>2 DEF Live, ClockAccepted, TypeOK
    <3>2. QED
      BY <2>2, <3>1 DEF IInv, LeaseHolds, Owns
  <2>3. CASE e = c
    <3>1. CASE ReserveWins(c, k, f, d)
      <4> DEFINE new == [fp |-> f, token |-> c, result |-> None,
             reservedUntil |-> Later(clock, ReservationTTL), keptUntil |-> None]
      <4>1. records'[k] = new
        BY <3>1, <1>t DEF ReserveWins, TypeOK
      <4>2. /\ calls'[c].key = k /\ calls'[c].fp = f
            /\ calls'[c].until = Later(clock, ReservationTTL)
        BY <3>1, <1>t, AsksType DEF ReserveWins, TypeOK, Call
      <4>3. Later(clock, ReservationTTL) \in Nat
        BY <1>t, LaterType, TTLAssumption DEF TypeOK
      <4>4. new \in Record
        BY <4>3 DEF Record
      <4>5. new # None
        BY <4>4
      <4>6. QED
        BY <2>3, <4>1, <4>2, <4>5 DEF Owns
    <3>2. CASE ~ReserveWins(c, k, f, d)
      <4>1. calls'[c].status # "running"
        BY <1>2, <1>t, <3>2, ReserveFrame
      <4>2. QED
        BY <2>1, <2>3, <4>1 DEF Live
    <3>3. QED
      BY <3>1, <3>2
  <2>4. CASE e # c
    <3>1. calls'[e] = calls[e]
      BY <1>2, <1>t, <2>4
         DEF Reserve, ReserveClockBackwards, ReserveConflict, ReserveReplay,
             ReserveInProgress, ReserveNoFuture, ReserveWins, TypeOK
    <3>2. lastNow' = lastNow \/ (ClockAccepted /\ lastNow' = clock)
      BY <1>2
         DEF Reserve, ReserveClockBackwards, ReserveConflict, ReserveReplay,
             ReserveInProgress, ReserveNoFuture, ReserveWins, Reserving
    <3>3. CASE records' = records
      BY <2>2, <3>1, <3>2, <3>3
    <3>4. CASE records' # records
      <4>1. Found(k) = None /\ ClockAccepted /\ lastNow' = clock
        BY <1>2, <3>4
           DEF Reserve, ReserveClockBackwards, ReserveConflict, ReserveReplay,
               ReserveInProgress, ReserveNoFuture, ReserveWins, Reserving
      <4>2. calls[e].status = "running" /\ calls[e].until > clock
        BY <2>1, <3>1, <4>1 DEF Live
      <4>3. calls[e].key # k
        BY <4>1, <4>2, LiveRecordIsFound DEF Owns
      <4>4. records'[calls[e].key] = records[calls[e].key]
        BY <1>2, <1>t, <4>2, <4>3, <3>4
           DEF Reserve, ReserveClockBackwards, ReserveConflict, ReserveReplay,
               ReserveInProgress, ReserveNoFuture, ReserveWins, TypeOK
      <4>5. QED
        BY <2>2, <3>1, <3>2, <4>4
    <3>5. QED
      BY <3>3, <3>4
  <2>5. QED
    BY <2>3, <2>4
<1>3. ASSUME NEW c \in Calls, Finish(c)
      PROVE  LeaseHolds'
  <2>k. /\ calls[c].status = "running" /\ calls[c].key \in Keys
        /\ calls'[c].status # "running"
        /\ \A e \in Calls : e # c => calls'[e] = calls[e]
        /\ \A j \in Keys : j # calls[c].key => records'[j] = records[j]
    BY <1>3, FinishFrame, <1>t
  <2>1. SUFFICES ASSUME NEW e \in Calls, Live(e)', e # c, calls'[e] = calls[e]
                 PROVE  /\ Owns(e, records[calls[e].key])'
                        /\ (records[calls[e].key].reservedUntil = calls[e].until)'
    BY <2>k DEF LeaseHolds, Live
  <2>2. lastNow' = lastNow \/ (ClockAccepted /\ lastNow' = clock)
    BY <1>3 DEF Finish, OperationFails, CompleteAndReturn, CompleteRefused
  <2>3. Live(e)
    BY <1>t, <2>1, <2>2 DEF Live, ClockAccepted, TypeOK
  <2>4. /\ Owns(e, records[calls[e].key])
        /\ records[calls[e].key].reservedUntil = calls[e].until
    BY <2>3 DEF IInv, LeaseHolds
  <2>5. SUFFICES records'[calls[e].key] = records[calls[e].key]
    BY <2>1, <2>4 DEF Owns
  <2>6. CASE calls[e].key # calls[c].key
    BY <1>t, <2>3, <2>k, <2>6 DEF TypeOK, Live
  <2>7. CASE calls[e].key = calls[c].key
    <3>1. ~Owns(c, records[calls[c].key])
      BY <2>1, <2>4, <2>7 DEF Owns
    <3>2. Abandoned(c, records[calls[c].key]) = records[calls[c].key]
      BY <3>1 DEF Abandoned
    <3>3. ASSUME ClockAccepted, lastNow' = clock
          PROVE  Found(calls[c].key) = records[calls[c].key]
      BY <2>1, <2>7, <3>3, LiveRecordIsFound DEF Live
    <3>4. ~CompleteAndReturn(c)
      BY <3>1, <3>3 DEF CompleteAndReturn, Completable
    <3>5. records'[calls[c].key] = records[calls[c].key]
      BY <1>3, <1>t, <2>k, <3>2, <3>3, <3>4
         DEF Finish, OperationFails, CompleteRefused, TypeOK
    <3>6. QED
      BY <2>7, <3>5
  <2>8. QED
    BY <2>6, <2>7
<1>4. CASE UNCHANGED vars
  BY <1>4 DEF vars, IInv, LeaseHolds, Live, Owns
<1>5. QED
  BY <1>1, <1>2, <1>3, <1>4 DEF Next

LEMMA Inductive == Spec => []IInv
<1>1. Init => IInv
  BY InitType DEF Init, IInv, LeaseHolds, Live, Idle
<1>2. IInv /\ [Next]_vars => IInv'
  BY StepType, LeaseStep DEF IInv
<1>3. QED
  BY <1>1, <1>2, PTL DEF Spec

(* A running call whose lease has not ended owns the record of its key.    *)
THEOREM LeasesHold == Spec => []LeaseHolds
<1>1. IInv => LeaseHolds
  BY DEF IInv
<1>2. QED
  BY <1>1, Inductive, PTL

(* At most one operation of a key runs under a lease that has not ended.   *)
THEOREM LiveRunsExclude == Spec => []OneLiveRun
<1>1. IInv => OneLiveRun
  BY DEF IInv, LeaseHolds, OneLiveRun, Owns
<1>2. QED
  BY <1>1, Inductive, PTL

(* No operation runs under a live lease behind an answer.                  *)
THEOREM AnswersEndRuns == Spec => []NoLiveRunBehindAnAnswer
<1>1. IInv => NoLiveRunBehindAnAnswer
  BY DEF IInv, LeaseHolds, NoLiveRunBehindAnAnswer, Owns, Completed
<1>2. QED
  BY <1>1, Inductive, PTL

-----------------------------------------------------------------------------
(* What a step may do to the record of a key.                              *)

LEMMA ReserveReplacesOnlyExpired ==
  ASSUME TypeOK, NEW c \in Calls, NEW k \in Keys, NEW f \in Fingerprints,
         NEW d \in CompletedTTLs, Reserve(c, k, f, d),
         NEW j \in Keys, records'[j] # records[j], records[j] # None
  PROVE  Expired(records[j], lastNow')
<1>1. j = k
  BY ReserveFrame
<1>2. records' # records
  OBVIOUS
<1>3. Found(k) = None /\ lastNow' = clock
  BY <1>2
     DEF Reserve, ReserveClockBackwards, ReserveConflict, ReserveReplay,
         ReserveInProgress, ReserveNoFuture, ReserveWins, Reserving
<1>4. QED
  BY <1>1, <1>3 DEF Found

LEMMA FinishReplacesOwnOrExpired ==
  ASSUME TypeOK, NEW c \in Calls, Finish(c),
         NEW j \in Keys, records'[j] # records[j], records[j] # None
  PROVE  Owns(c, records[j]) \/ Expired(records[j], lastNow')
<1>1. j = calls[c].key
  BY FinishFrame
<1>2. calls[c].key \in Keys
  BY FinishFrame
<1>3. CASE OperationFails(c)
  BY <1>1, <1>2, <1>3 DEF OperationFails, Abandoned, TypeOK
<1>4. CASE CompleteAndReturn(c)
  BY <1>1, <1>2, <1>4, NoneAssumption
     DEF CompleteAndReturn, Completable, Found, Owns
<1>5. CASE CompleteRefused(c)
  BY <1>1, <1>2, <1>5 DEF CompleteRefused, Abandoned, Found, TypeOK
<1>6. QED
  BY <1>3, <1>4, <1>5 DEF Finish

(* A completed record changes or goes away only once its retention is over. *)
THEOREM AnswersStay == Spec => AnswersAreKept
<1> DEFINE Kept(k) == Completed(k) /\ records'[k] # records[k]
                        => /\ records[k].keptUntil # None
                           /\ records[k].keptUntil <= lastNow'
<1>1. TypeOK /\ [Next]_vars => [\A k \in Keys : Kept(k)]_vars
  <2> SUFFICES ASSUME TypeOK, Next, NEW j \in Keys,
                      Completed(j), records'[j] # records[j]
               PROVE  Expired(records[j], lastNow')
    BY DEF Expired, Completed
  <2>1. CASE ClockMoves
    BY <2>1 DEF ClockMoves
  <2>2. ASSUME NEW c \in Calls, NEW k \in Keys, NEW f \in Fingerprints,
               NEW d \in CompletedTTLs, Reserve(c, k, f, d)
        PROVE  Expired(records[j], lastNow')
    BY <2>2, ReserveReplacesOnlyExpired DEF Completed
  <2>3. ASSUME NEW c \in Calls, Finish(c)
        PROVE  Expired(records[j], lastNow')
    BY <2>3, FinishReplacesOwnOrExpired DEF Completed, Owns
  <2>4. QED
    BY <2>1, <2>2, <2>3 DEF Next
<1>2. QED
  BY <1>1, TypeCorrect, PTL DEF Spec, AnswersAreKept

(* A reservation is ended by its own call, or it has expired.              *)
THEOREM ReservationsStay == Spec => ReservationsAreFenced
<1> DEFINE Fenced(k) ==
      Reserved(k) /\ records'[k] # records[k]
        => \/ records[k].reservedUntil <= lastNow'
           \/ /\ calls[records[k].token].status = "running"
              /\ calls'[records[k].token].status # "running"
<1>1. TypeOK /\ [Next]_vars => [\A k \in Keys : Fenced(k)]_vars
  <2> SUFFICES ASSUME TypeOK, Next, NEW j \in Keys,
                      Reserved(j), records'[j] # records[j]
               PROVE  \/ Expired(records[j], lastNow')
                      \/ /\ calls[records[j].token].status = "running"
                         /\ calls'[records[j].token].status # "running"
    BY DEF Expired, Reserved
  <2>1. CASE ClockMoves
    BY <2>1 DEF ClockMoves
  <2>2. ASSUME NEW c \in Calls, NEW k \in Keys, NEW f \in Fingerprints,
               NEW d \in CompletedTTLs, Reserve(c, k, f, d)
        PROVE  Expired(records[j], lastNow')
    BY <2>2, ReserveReplacesOnlyExpired DEF Reserved
  <2>3. ASSUME NEW c \in Calls, Finish(c)
        PROVE  \/ Expired(records[j], lastNow')
               \/ /\ calls[records[j].token].status = "running"
                  /\ calls'[records[j].token].status # "running"
    BY <2>3, FinishReplacesOwnOrExpired, FinishFrame DEF Reserved, Owns
  <2>4. QED
    BY <2>1, <2>2, <2>3 DEF Next
<1>2. QED
  BY <1>1, TypeCorrect, PTL DEF Spec, ReservationsAreFenced

-----------------------------------------------------------------------------
(* History.  Every completed record is backed by the call that returned    *)
(* its result, and every call that returned is still recorded or past its  *)
(* retention.                                                              *)

Backed ==
  \A k \in Keys : Completed(k) =>
    LET d == records[k].result IN
    /\ calls[d].status = "returned"
    /\ calls[d].answer = d
    /\ calls[d].key = k
    /\ calls[d].fp = records[k].fp

Remembered ==
  \A c \in Calls : calls[c].status = "returned" =>
    /\ calls[c].since <= lastNow
    /\ \/ /\ Completed(calls[c].key)
          /\ records[calls[c].key].result = c
          /\ records[calls[c].key].keptUntil = calls[c].until
       \/ /\ calls[c].until # None
          /\ calls[c].until <= lastNow

HInv ==
  /\ TypeOK
  /\ Backed
  /\ Remembered
  /\ ReplaysWhatWasReturned
  /\ AnswersDoNotOverlap

LEMMA LastNowGrows ==
  ASSUME TypeOK, [Next]_vars
  PROVE  lastNow \in Nat /\ lastNow' \in Nat /\ lastNow <= lastNow'
<1>t. clock \in Nat /\ lastNow \in Nat
  BY TimesAssumption DEF TypeOK
<1>1. ASSUME NEW c \in Calls, Finish(c)
      PROVE  lastNow' = lastNow \/ (ClockAccepted /\ lastNow' = clock)
  BY <1>1 DEF Finish, OperationFails, CompleteAndReturn, CompleteRefused
<1>2. ASSUME NEW c, NEW k, NEW f, NEW d, Reserve(c, k, f, d)
      PROVE  lastNow' = lastNow \/ (ClockAccepted /\ lastNow' = clock)
  BY <1>2
     DEF Reserve, ReserveClockBackwards, ReserveConflict, ReserveReplay,
         ReserveInProgress, ReserveNoFuture, ReserveWins, Reserving
<1>3. lastNow' = lastNow \/ (ClockAccepted /\ lastNow' = clock)
  BY <1>1, <1>2 DEF Next, ClockMoves, vars
<1>4. QED
  BY <1>t, <1>3 DEF ClockAccepted

(* A step that does not complete a run leaves completed records as they    *)
(* were or drops them, and a dropped one has expired.                      *)
LEMMA HistoryKept ==
  ASSUME HInv, [Next]_vars, TypeOK',
         NEW R, R = {e \in Calls : calls[e].status = "returned"},
         {e \in Calls : calls'[e].status = "returned"} = R,
         \A e \in R : calls'[e] = calls[e],
         \A j \in Keys : Completed(j)' => records'[j] = records[j],
         \A j \in Keys : Completed(j) /\ records'[j] # records[j]
                          => Expired(records[j], lastNow')
  PROVE  Backed' /\ Remembered' /\ AnswersDoNotOverlap'
<1>1. Backed'
  <2> SUFFICES ASSUME NEW j \in Keys, Completed(j)'
               PROVE  LET d == records'[j].result IN
                      /\ calls'[d].status = "returned"
                      /\ calls'[d].answer = d
                      /\ calls'[d].key = j
                      /\ calls'[d].fp = records'[j].fp
    BY DEF Backed
  <2>1. Completed(j) /\ records'[j] = records[j]
    BY DEF Completed
  <2>2. records[j].result \in Calls
    BY <2>1, NoneAssumption DEF Completed, HInv, TypeOK, Record
  <2>3. records[j].result \in R
    BY <2>1, <2>2 DEF HInv, Backed
  <2>4. QED
    BY <2>1, <2>3 DEF HInv, Backed
<1>2. Remembered'
  <2> SUFFICES ASSUME NEW e \in Calls, calls'[e].status = "returned"
               PROVE  /\ calls'[e].since <= lastNow'
                      /\ \/ /\ Completed(calls[e].key)'
                            /\ records'[calls'[e].key].result = e
                            /\ records'[calls'[e].key].keptUntil = calls'[e].until
                         \/ /\ calls'[e].until # None
                            /\ calls'[e].until <= lastNow'
    BY DEF Remembered
  <2> DEFINE j == calls[e].key
  <2>1. e \in R /\ calls'[e] = calls[e] /\ calls[e].status = "returned"
    OBVIOUS
  <2>2. j \in Keys /\ calls[e].since \in Nat /\ calls[e].until \in Nat \cup {None}
    BY <2>1 DEF HInv, TypeOK, Call
  <2>3. lastNow \in Nat /\ lastNow' \in Nat /\ lastNow <= lastNow'
    BY LastNowGrows DEF HInv
  <2>4. calls[e].since <= lastNow'
    BY <2>1, <2>2, <2>3 DEF HInv, Remembered
  <2>5. CASE calls[e].until # None /\ calls[e].until <= lastNow
    BY <2>1, <2>2, <2>3, <2>4, <2>5
  <2>6. CASE /\ Completed(j)
             /\ records[j].result = e
             /\ records[j].keptUntil = calls[e].until
    <3>1. CASE records'[j] = records[j]
      BY <2>1, <2>4, <2>6, <3>1 DEF Completed
    <3>2. CASE records'[j] # records[j]
      <4>1. Expired(records[j], lastNow')
        BY <2>2, <2>6, <3>2
      <4>2. calls[e].until # None /\ calls[e].until <= lastNow'
        BY <2>6, <4>1 DEF Expired, Completed
      <4>3. QED
        BY <2>1, <2>4, <4>2
    <3>3. QED
      BY <3>1, <3>2
  <2>7. QED
    BY <2>1, <2>5, <2>6 DEF HInv, Remembered
<1>3. AnswersDoNotOverlap'
  BY DEF HInv, AnswersDoNotOverlap
<1>4. QED
  BY <1>1, <1>2, <1>3

(* Whoever a replay points at keeps having returned.                       *)
LEMMA ReplaysKept ==
  ASSUME ReplaysWhatWasReturned,
         \A e \in Calls : calls[e].status = "returned" => calls'[e] = calls[e],
         NEW c \in Calls, calls'[c] = calls[c], calls[c].status = "replayed"
  PROVE  \E e \in Calls :
           /\ calls'[e].status = "returned"
           /\ calls'[e].answer = calls'[c].answer
           /\ calls'[e].key = calls'[c].key
           /\ calls'[e].fp = calls'[c].fp
BY DEF ReplaysWhatWasReturned

LEMMA ReserveHistory ==
  ASSUME HInv, Next, TypeOK', NEW c \in Calls, NEW k \in Keys,
         NEW f \in Fingerprints, NEW d \in CompletedTTLs, Reserve(c, k, f, d)
  PROVE  HInv'
<1> USE NoneAssumption
<1>t. TypeOK
  BY DEF HInv
<1>f. /\ calls[c].status = "idle"
      /\ calls'[c].key = k /\ calls'[c].fp = f
      /\ calls'[c].status \notin {"idle", "returned"}
      /\ \A e \in Calls : e # c => calls'[e] = calls[e]
      /\ \A j \in Keys : j # k => records'[j] = records[j]
  BY <1>t, ReserveFrame
<1>1. \A j \in Keys : Completed(j)' => records'[j] = records[j]
  <2> SUFFICES ASSUME Completed(k)' PROVE records'[k] = records[k]
    BY <1>f
  <2> DEFINE new == [fp |-> f, token |-> c, result |-> None,
        reservedUntil |-> Later(clock, ReservationTTL), keptUntil |-> None]
  <2>1. records' = records \/ records'[k] = None \/ records'[k] = new
    BY <1>t
       DEF Reserve, ReserveClockBackwards, ReserveConflict, ReserveReplay,
           ReserveInProgress, ReserveNoFuture, ReserveWins, TypeOK
  <2>2. QED
    BY <2>1 DEF Completed
<1>2. \A j \in Keys : Completed(j) /\ records'[j] # records[j]
                         => Expired(records[j], lastNow')
  BY <1>t, ReserveReplacesOnlyExpired DEF Completed
<1>3. Backed' /\ Remembered' /\ AnswersDoNotOverlap'
  <2> DEFINE R == {e \in Calls : calls[e].status = "returned"}
  <2>1. {e \in Calls : calls'[e].status = "returned"} = R
    BY <1>f
  <2>2. \A e \in R : calls'[e] = calls[e]
    BY <1>f
  <2> HIDE DEF R
  <2>3. QED
    BY <1>1, <1>2, <2>1, <2>2, HistoryKept DEF R
<1>4. ReplaysWhatWasReturned'
  <2> SUFFICES ASSUME NEW e \in Calls, calls'[e].status = "replayed"
               PROVE  \E b \in Calls :
                        /\ calls'[b].status = "returned"
                        /\ calls'[b].answer = calls'[e].answer
                        /\ calls'[b].key = calls'[e].key
                        /\ calls'[b].fp = calls'[e].fp
    BY DEF ReplaysWhatWasReturned
  <2>1. CASE e # c
    BY <1>f, <2>1, ReplaysKept DEF HInv
  <2>2. CASE e = c
    <3>1. ReserveReplay(c, k, f, d)
      <4> DEFINE ask == Asks(c, k, f, d)
      <4>1. ask \in Call
        BY <1>t, AsksType
      <4>2. ReserveClockBackwards(c, k, f, d) => calls'[c].status = "failed"
        BY <1>t, <4>1 DEF ReserveClockBackwards, TypeOK, Call
      <4>3. ReserveConflict(c, k, f, d) => calls'[c].status = "conflict"
        BY <1>t, <4>1 DEF ReserveConflict, TypeOK, Call
      <4>4. ReserveInProgress(c, k, f, d) => calls'[c].status = "in_progress"
        BY <1>t, <4>1 DEF ReserveInProgress, TypeOK, Call
      <4>5. ReserveWins(c, k, f, d) => calls'[c].status = "running"
        BY <1>t, <4>1 DEF ReserveWins, TypeOK, Call
      <4>6. ReserveNoFuture(c, k, f, d) => calls'[c].status = "failed"
        BY <1>t, <4>1 DEF ReserveNoFuture, TypeOK, Call
      <4>7. QED
        BY <2>2, <4>2, <4>3, <4>4, <4>5, <4>6 DEF Reserve
    <3> DEFINE b == records[k].result
    <3>2. /\ Found(k) = records[k] /\ Completed(k)
          /\ records[k].fp = f /\ b \in Calls
      BY <1>t, <3>1, FoundType DEF ReserveReplay, Completed, TypeOK, Record
    <3>3. /\ calls[b].status = "returned" /\ calls[b].answer = b
          /\ calls[b].key = k /\ calls[b].fp = f
      BY <3>2 DEF HInv, Backed
    <3>4. b # c /\ calls'[b] = calls[b]
      BY <1>f, <3>2, <3>3
    <3>5. calls'[c].answer = b
      <4> DEFINE ask == Asks(c, k, f, d)
                 hit == [ask EXCEPT !.status = "replayed", !.answer = Found(k).result]
                 miss == [ask EXCEPT !.status = "failed"]
      <4>1. ask \in Call
        BY <1>t, AsksType
      <4>2. PICK x \in {hit, miss} : calls' = [calls EXCEPT ![c] = x]
        BY <3>1 DEF ReserveReplay
      <4>3. calls'[c] = x
        BY <1>t, <4>2 DEF TypeOK
      <4>4. x = hit
        BY <2>2, <4>1, <4>2, <4>3 DEF Call
      <4>5. hit.answer = Found(k).result
        BY <4>1 DEF Call
      <4>6. QED
        BY <3>2, <4>3, <4>4, <4>5
    <3>6. QED
      BY <1>f, <2>2, <3>2, <3>3, <3>4, <3>5
  <2>3. QED
    BY <2>1, <2>2
<1>5. QED
  BY <1>3, <1>4 DEF HInv

(* A run that ends without returning adds nothing to the history.          *)
LEMMA FailureHistory ==
  ASSUME HInv, Next, TypeOK', NEW c \in Calls, OperationFails(c) \/ CompleteRefused(c)
  PROVE  HInv'
<1> USE NoneAssumption
<1>t. TypeOK
  BY DEF HInv
<1>f. /\ calls[c].status = "running" /\ calls[c].key \in Keys
      /\ calls'[c].status = "failed"
      /\ \A e \in Calls : e # c => calls'[e] = calls[e]
      /\ \A j \in Keys : j # calls[c].key => records'[j] = records[j]
  BY <1>t, FinishFrame DEF Finish, OperationFails, CompleteRefused, TypeOK, Call
<1>1. \A j \in Keys : Completed(j)' => records'[j] = records[j]
  <2> DEFINE k == calls[c].key
  <2> SUFFICES ASSUME records'[k] # None PROVE records'[k] = records[k]
    BY <1>f DEF Completed
  <2>1. Abandoned(c, records[k]) \in {records[k], None}
    BY DEF Abandoned
  <2>2. Abandoned(c, Found(k)) \in {records[k], None}
    BY DEF Abandoned, Found
  <2>3. QED
    BY <1>t, <1>f, <2>1, <2>2 DEF OperationFails, CompleteRefused, TypeOK
<1>2. \A j \in Keys : Completed(j) /\ records'[j] # records[j]
                         => Expired(records[j], lastNow')
  BY <1>t, FinishReplacesOwnOrExpired DEF Completed, Owns, Finish
<1>3. Backed' /\ Remembered' /\ AnswersDoNotOverlap'
  <2> DEFINE R == {e \in Calls : calls[e].status = "returned"}
  <2>1. {e \in Calls : calls'[e].status = "returned"} = R
    BY <1>f
  <2>2. \A e \in R : calls'[e] = calls[e]
    BY <1>f
  <2> HIDE DEF R
  <2>3. QED
    BY <1>1, <1>2, <2>1, <2>2, HistoryKept DEF R
<1>4. ReplaysWhatWasReturned'
  <2> SUFFICES ASSUME NEW e \in Calls, calls'[e].status = "replayed"
               PROVE  \E b \in Calls :
                        /\ calls'[b].status = "returned"
                        /\ calls'[b].answer = calls'[e].answer
                        /\ calls'[b].key = calls'[e].key
                        /\ calls'[b].fp = calls'[e].fp
    BY DEF ReplaysWhatWasReturned
  <2>1. e # c
    BY <1>f
  <2>2. QED
    BY <1>f, <2>1, ReplaysKept DEF HInv
<1>5. QED
  BY <1>3, <1>4 DEF HInv

(* The call that completes finds its key's record reserved, so every       *)
(* earlier answer of the key is past its retention.                        *)
LEMMA ReturnHistory ==
  ASSUME HInv, Next, TypeOK', NEW c \in Calls, CompleteAndReturn(c)
  PROVE  HInv'
<1> USE NoneAssumption
<1> DEFINE k == calls[c].key
           done == [Found(k) EXCEPT !.result = c, !.keptUntil = KeptUntil(c)]
           told == [calls[c] EXCEPT !.status = "returned", !.answer = c,
                                    !.since = clock, !.until = KeptUntil(c)]
<1>t. TypeOK /\ clock \in Nat /\ lastNow \in Nat
  BY TimesAssumption DEF HInv, TypeOK
<1>f. /\ calls[c].status = "running" /\ k \in Keys
      /\ \A e \in Calls : e # c => calls'[e] = calls[e]
      /\ \A j \in Keys : j # k => records'[j] = records[j]
  BY <1>t, FinishFrame DEF Finish
<1>1. /\ Found(k) = records[k] /\ records[k] \in Record
      /\ records[k].result = None /\ records[k].fp = calls[c].fp
  BY <1>t, <1>f, FoundType DEF CompleteAndReturn, Completable, Owns
<1>2. /\ records'[k] = done
      /\ done.result = c /\ done.keptUntil = KeptUntil(c) /\ done.fp = calls[c].fp
      /\ done # None
  <2>1. records'[k] = done
    BY <1>t, <1>f DEF CompleteAndReturn, TypeOK
  <2>2. done.result = c /\ done.keptUntil = KeptUntil(c) /\ done.fp = calls[c].fp
    BY <1>1 DEF Record
  <2>3. KeptUntil(c) \in Nat \cup {None}
    BY <1>t, <1>f, KeptUntilType
  <2>4. done \in Record
    BY <1>1, <2>3 DEF Record
  <2>5. QED
    BY <2>1, <2>2, <2>4
<1>3. /\ calls'[c].status = "returned" /\ calls'[c].answer = c
      /\ calls'[c].since = clock /\ calls'[c].until = KeptUntil(c)
      /\ calls'[c].key = k /\ calls'[c].fp = calls[c].fp
  <2>1. calls'[c] = told
    BY <1>t DEF CompleteAndReturn, TypeOK
  <2>2. calls[c] \in Call
    BY <1>t DEF TypeOK
  <2>3. QED
    BY <2>1, <2>2 DEF Call
<1>4. lastNow' = clock /\ clock >= lastNow
  BY DEF CompleteAndReturn, ClockAccepted
<1> HIDE DEF done, told
<1>5. Completed(k)' /\ ~Completed(k)
  BY <1>1, <1>2, <1>3 DEF Completed
<1>6. Backed'
  <2> SUFFICES ASSUME NEW j \in Keys, Completed(j)'
               PROVE  LET d == records'[j].result IN
                      /\ calls'[d].status = "returned"
                      /\ calls'[d].answer = d
                      /\ calls'[d].key = j
                      /\ calls'[d].fp = records'[j].fp
    BY DEF Backed
  <2>1. CASE j = k
    BY <1>2, <1>3, <2>1
  <2>2. CASE j # k
    <3>1. records'[j] = records[j] /\ Completed(j) /\ records[j].result \in Calls
      BY <1>t, <1>f, <2>2 DEF Completed, TypeOK, Record
    <3>2. calls[records[j].result].status = "returned"
      BY <3>1 DEF HInv, Backed
    <3>3. calls'[records[j].result] = calls[records[j].result]
      BY <1>f, <3>1, <3>2
    <3>4. QED
      BY <3>1, <3>3 DEF HInv, Backed
  <2>3. QED
    BY <2>1, <2>2
<1>7. ASSUME NEW e \in Calls, e # c, calls'[e].status = "returned"
      PROVE  /\ calls'[e] = calls[e] /\ calls[e].status = "returned"
             /\ calls[e].since \in Nat /\ calls[e].since <= clock
             /\ calls[e].until \in Nat \cup {None}
             /\ calls[e].key = k => /\ calls[e].until # None
                                    /\ calls[e].until <= clock
  <2>1. calls'[e] = calls[e] /\ calls[e].status = "returned"
    BY <1>f, <1>7
  <2>2. calls[e].since \in Nat /\ calls[e].until \in Nat \cup {None}
    BY <1>t DEF TypeOK, Call
  <2>3. calls[e].since <= lastNow
    BY <2>1 DEF HInv, Remembered
  <2>4. ASSUME calls[e].key = k
        PROVE  calls[e].until # None /\ calls[e].until <= lastNow
    BY <1>5, <2>1, <2>4 DEF HInv, Remembered
  <2>5. QED
    BY <1>t, <1>4, <2>1, <2>2, <2>3, <2>4
<1>8. Remembered'
  <2> SUFFICES ASSUME NEW e \in Calls, calls'[e].status = "returned"
               PROVE  /\ calls'[e].since <= lastNow'
                      /\ \/ /\ Completed(calls[e].key)'
                            /\ records'[calls'[e].key].result = e
                            /\ records'[calls'[e].key].keptUntil = calls'[e].until
                         \/ /\ calls'[e].until # None
                            /\ calls'[e].until <= lastNow'
    BY DEF Remembered
  <2>1. CASE e = c
    BY <1>t, <1>2, <1>3, <1>4, <1>5, <2>1 DEF Completed
  <2>2. CASE e # c
    <3>1. CASE calls[e].key = k
      BY <1>4, <1>7, <2>2, <3>1
    <3>2. CASE calls[e].key # k
      <4>1. calls[e].key \in Keys
        BY <1>t, <1>7, <2>2 DEF TypeOK
      <4>2. records'[calls[e].key] = records[calls[e].key]
        BY <1>f, <3>2, <4>1
      <4>3. \/ /\ Completed(calls[e].key)
               /\ records[calls[e].key].result = e
               /\ records[calls[e].key].keptUntil = calls[e].until
            \/ /\ calls[e].until # None
               /\ calls[e].until <= lastNow
        BY <1>7, <2>2 DEF HInv, Remembered
      <4>4. calls[e].until # None /\ calls[e].until <= lastNow => calls[e].until <= clock
        BY <1>t, <1>4, <1>7, <2>2
      <4>5. QED
        BY <1>4, <1>7, <2>2, <4>2, <4>3, <4>4 DEF Completed
    <3>3. QED
      BY <3>1, <3>2
  <2>3. QED
    BY <2>1, <2>2
<1>9. AnswersDoNotOverlap'
  BY <1>3, <1>7 DEF HInv, AnswersDoNotOverlap
<1>10. ReplaysWhatWasReturned'
  <2> SUFFICES ASSUME NEW e \in Calls, calls'[e].status = "replayed"
               PROVE  \E b \in Calls :
                        /\ calls'[b].status = "returned"
                        /\ calls'[b].answer = calls'[e].answer
                        /\ calls'[b].key = calls'[e].key
                        /\ calls'[b].fp = calls'[e].fp
    BY DEF ReplaysWhatWasReturned
  <2>1. e # c
    BY <1>3
  <2>2. QED
    BY <1>f, <2>1, ReplaysKept DEF HInv
<1>11. QED
  BY <1>6, <1>8, <1>9, <1>10 DEF HInv

LEMMA HistoryHolds == Spec => []HInv
<1>1. Init => HInv
  <2> SUFFICES ASSUME Init PROVE HInv
    OBVIOUS
  <2>1. TypeOK
    BY InitType
  <2>2. /\ \A k \in Keys : ~Completed(k)
        /\ \A c \in Calls : calls[c].status = "idle"
    BY DEF Init, Completed, Idle
  <2>3. QED
    BY <2>1, <2>2
       DEF HInv, Backed, Remembered, ReplaysWhatWasReturned, AnswersDoNotOverlap
<1>2. HInv /\ [Next]_vars => HInv'
  <2> SUFFICES ASSUME HInv, [Next]_vars PROVE HInv'
    OBVIOUS
  <2>t. TypeOK'
    BY StepType DEF HInv
  <2>1. CASE ClockMoves
    BY <2>t, <2>1
       DEF ClockMoves, HInv, Backed, Remembered, Completed,
           ReplaysWhatWasReturned, AnswersDoNotOverlap
  <2>2. CASE UNCHANGED vars
    BY <2>t, <2>2
       DEF vars, HInv, Backed, Remembered, Completed,
           ReplaysWhatWasReturned, AnswersDoNotOverlap
  <2>3. ASSUME Next, NEW c \in Calls, NEW k \in Keys, NEW f \in Fingerprints,
               NEW d \in CompletedTTLs, Reserve(c, k, f, d)
        PROVE  HInv'
    BY <2>t, <2>3, ReserveHistory
  <2>4. ASSUME Next, NEW c \in Calls, Finish(c)
        PROVE  HInv'
    BY <2>t, <2>4, FailureHistory, ReturnHistory DEF Finish
  <2>5. QED
    BY <2>1, <2>2, <2>3, <2>4 DEF Next
<1>3. QED
  BY <1>1, <1>2, PTL DEF Spec

(* A replay hands out what a call of the same key and input returned.      *)
THEOREM ReplaysAreBacked == Spec => []ReplaysWhatWasReturned
<1>1. HInv => ReplaysWhatWasReturned
  BY DEF HInv
<1>2. QED
  BY <1>1, HistoryHolds, PTL

(* Of two runs of one key that returned, one was past its retention when   *)
(* the other completed.                                                    *)
THEOREM AnswersAlone == Spec => []AnswersDoNotOverlap
<1>1. HInv => AnswersDoNotOverlap
  BY DEF HInv
<1>2. QED
  BY <1>1, HistoryHolds, PTL

-----------------------------------------------------------------------------
(* Refinement: a step of the store and its callers is a step of            *)
(* IdempotentResult, or changes nothing there.                             *)

LEMMA SameAnswers ==
  ASSUME \A j \in Keys : records'[j] = records[j]
  PROVE  UNCHANGED answerBar
BY DEF answerBar, Completed

(* Dropping the record of k, or replacing it by one without a result,      *)
(* forgets its answer if it had one.                                       *)
LEMMA DroppedAnswer ==
  ASSUME HInv, NEW k \in Keys,
         \A j \in Keys : j # k => records'[j] = records[j],
         ~Completed(k)',
         Completed(k) => records[k].keptUntil # None
  PROVE  UNCHANGED answerBar \/ Promise!Forget(k)
<1> USE NoneAssumption
<1>1. CASE ~Completed(k)
  BY <1>1 DEF answerBar, Completed
<1>2. CASE Completed(k)
  <2>1. answerBar[k] = [fp |-> records[k].fp, value |-> records[k].result,
                        forever |-> FALSE]
    BY <1>2 DEF answerBar
  <2>2. answerBar[k] \in Answer
    BY <1>2, <2>1 DEF HInv, TypeOK, Completed, Record, Answer
  <2>3. answerBar' = [answerBar EXCEPT ![k] = None]
    BY DEF answerBar, Completed
  <2>4. answerBar[k].forever = FALSE
    BY <2>1
  <2>5. answerBar[k] # None
    BY <2>2
  <2>6. QED
    BY <2>3, <2>4, <2>5 DEF Promise!Forget
<1>3. QED
  BY <1>1, <1>2

(* Changing one call changes what its caller alone has been told.          *)
LEMMA ToldOne ==
  ASSUME NEW c \in Calls, \A e \in Calls : e # c => calls'[e] = calls[e],
         calls[c].status \in {"idle", "running"}
  PROVE  /\ outcomeBar[c] = Promise!Pending
         /\ calls'[c].status \in {"conflict", "in_progress", "failed"}
              => outcomeBar' = [outcomeBar EXCEPT ![c] = Promise!Refused]
         /\ calls'[c].status = "running" => UNCHANGED outcomeBar
         /\ calls'[c].status \in {"returned", "replayed"}
              => outcomeBar' = [outcomeBar EXCEPT ![c] = Promise!Result(calls'[c].answer)]
<1>1. outcomeBar[c] = Promise!Pending
  BY DEF outcomeBar, Promise!Pending
<1>2. ASSUME calls'[c].status \in {"conflict", "in_progress", "failed"}
      PROVE  outcomeBar' = [outcomeBar EXCEPT ![c] = Promise!Refused]
  BY <1>2 DEF outcomeBar, Promise!Refused
<1>3. ASSUME calls'[c].status = "running" PROVE UNCHANGED outcomeBar
  BY <1>3 DEF outcomeBar
<1>4. ASSUME calls'[c].status \in {"returned", "replayed"}
      PROVE  outcomeBar' = [outcomeBar EXCEPT ![c] = Promise!Result(calls'[c].answer)]
  BY <1>4 DEF outcomeBar, Promise!Result
<1>5. QED
  BY <1>1, <1>2, <1>3, <1>4

LEMMA RefusalRefines ==
  ASSUME NEW c \in Calls, outcomeBar[c] = Promise!Pending,
         outcomeBar' = [outcomeBar EXCEPT ![c] = Promise!Refused],
         UNCHANGED answerBar \/ \E k \in Keys : Promise!Forget(k)
  PROVE  Promise!Next
BY DEF Promise!Next, Promise!Refuse

LEMMA ReserveRefines ==
  ASSUME HInv, HInv', NEW c \in Calls, NEW k \in Keys, NEW f \in Fingerprints,
         NEW d \in CompletedTTLs, Reserve(c, k, f, d)
  PROVE  Promise!Next \/ UNCHANGED <<answerBar, outcomeBar>>
<1> USE NoneAssumption
<1>t. TypeOK
  BY DEF HInv
<1>f. /\ calls[c].status = "idle"
      /\ calls'[c].status = "running" => ReserveWins(c, k, f, d)
      /\ \A e \in Calls : e # c => calls'[e] = calls[e]
      /\ \A j \in Keys : j # k => records'[j] = records[j]
  BY <1>t, ReserveFrame
<1> DEFINE ask == Asks(c, k, f, d)
<1>a. ask \in Call
  BY <1>t, AsksType
<1> HIDE DEF ask
<1>1. ASSUME ReserveClockBackwards(c, k, f, d) \/ ReserveConflict(c, k, f, d)
             \/ ReserveInProgress(c, k, f, d)
      PROVE  Promise!Next
  <2>1. calls'[c].status \in {"failed", "conflict", "in_progress"}
    <3>1. CASE ReserveClockBackwards(c, k, f, d)
      BY <1>t, <1>a, <3>1 DEF ReserveClockBackwards, TypeOK, Call, ask
    <3>2. CASE ReserveConflict(c, k, f, d)
      BY <1>t, <1>a, <3>2 DEF ReserveConflict, TypeOK, Call, ask
    <3>3. CASE ReserveInProgress(c, k, f, d)
      BY <1>t, <1>a, <3>3 DEF ReserveInProgress, TypeOK, Call, ask
    <3>4. QED
      BY <1>1, <3>1, <3>2, <3>3
  <2>2. UNCHANGED answerBar
    BY <1>1, SameAnswers
       DEF ReserveClockBackwards, ReserveConflict, ReserveInProgress
  <2>3. QED
    BY <1>f, <2>1, <2>2, ToldOne, RefusalRefines
<1>2. ASSUME ReserveReplay(c, k, f, d)
      PROVE  Promise!Next
  <2> DEFINE hit == [ask EXCEPT !.status = "replayed", !.answer = Found(k).result]
             miss == [ask EXCEPT !.status = "failed"]
  <2>1. PICK x \in {hit, miss} : calls' = [calls EXCEPT ![c] = x]
    BY <1>2 DEF ReserveReplay, ask
  <2>2. /\ hit.status = "replayed" /\ hit.answer = Found(k).result
        /\ miss.status = "failed"
    BY <1>a DEF Call
  <2>3. calls'[c] = x
    BY <1>t, <2>1 DEF TypeOK
  <2>4. UNCHANGED answerBar
    BY <1>2, SameAnswers DEF ReserveReplay
  <2> HIDE DEF hit, miss
  <2>5. CASE x = miss
    BY <1>f, <2>2, <2>3, <2>4, <2>5, ToldOne, RefusalRefines
  <2>6. CASE x = hit
    <3>1. Found(k) = records[k] /\ Completed(k) /\ records[k].fp = f
      BY <1>t, <1>2, FoundType DEF ReserveReplay, Completed
    <3>2. answerBar[k] = [fp |-> f, value |-> records[k].result,
                          forever |-> records[k].keptUntil = None]
      BY <3>1 DEF answerBar
    <3>3. answerBar[k] \in Answer
      BY <1>t, <3>1, <3>2 DEF TypeOK, Completed, Record, Answer
    <3>4. outcomeBar' = [outcomeBar EXCEPT ![c] = Promise!Result(answerBar[k].value)]
      BY <1>f, <2>2, <2>3, <2>6, <3>1, <3>2, ToldOne
    <3>5. outcomeBar[c] = Promise!Pending
      BY <1>f, ToldOne
    <3>6. Promise!Replay(c, k, f)
      BY <2>4, <3>2, <3>3, <3>4, <3>5 DEF Promise!Replay
    <3>7. QED
      BY <3>6 DEF Promise!Next
  <2>7. QED
    BY <2>1, <2>5, <2>6
<1>3. ASSUME ReserveWins(c, k, f, d) \/ ReserveNoFuture(c, k, f, d)
      PROVE  UNCHANGED answerBar \/ Promise!Forget(k)
  <2> DEFINE new == [fp |-> f, token |-> c, result |-> None,
        reservedUntil |-> Later(clock, ReservationTTL), keptUntil |-> None]
  <2>1. records'[k] = None \/ records'[k] = new
    BY <1>t, <1>3 DEF ReserveWins, ReserveNoFuture, TypeOK
  <2>2. ~Completed(k)'
    BY <2>1 DEF Completed
  <2>3. Found(k) = None
    BY <1>3 DEF ReserveWins, ReserveNoFuture
  <2>4. Completed(k) => records[k].keptUntil # None
    BY <2>3 DEF Found, Completed, Expired
  <2>5. QED
    BY <1>f, <2>2, <2>4, DroppedAnswer
<1>4. ASSUME ReserveWins(c, k, f, d)
      PROVE  Promise!Next \/ UNCHANGED <<answerBar, outcomeBar>>
  <2>1. calls'[c].status = "running"
    BY <1>t, <1>a, <1>4 DEF ReserveWins, TypeOK, Call, ask
  <2>2. UNCHANGED outcomeBar
    BY <1>f, <2>1, ToldOne
  <2>3. QED
    BY <1>3, <1>4, <2>2 DEF Promise!Next
<1>5. ASSUME ReserveNoFuture(c, k, f, d)
      PROVE  Promise!Next
  <2>1. calls'[c].status = "failed"
    BY <1>t, <1>a, <1>5 DEF ReserveNoFuture, TypeOK, Call, ask
  <2>2. QED
    BY <1>f, <1>3, <1>5, <2>1, ToldOne, RefusalRefines
<1>6. QED
  BY <1>1, <1>2, <1>4, <1>5 DEF Reserve

LEMMA FinishRefines ==
  ASSUME HInv, HInv', NEW c \in Calls, Finish(c)
  PROVE  Promise!Next
<1> USE NoneAssumption
<1> DEFINE k == calls[c].key
<1>t. TypeOK
  BY DEF HInv
<1>f. /\ calls[c].status = "running" /\ k \in Keys
      /\ \A e \in Calls : e # c => calls'[e] = calls[e]
      /\ \A j \in Keys : j # k => records'[j] = records[j]
  BY <1>t, FinishFrame
<1>1. CASE OperationFails(c) \/ CompleteRefused(c)
  <2>1. calls'[c].status = "failed"
    BY <1>t, <1>1 DEF OperationFails, CompleteRefused, TypeOK, Call
  <2>2. records'[k] \in {None, records[k]}
    BY <1>t, <1>f, <1>1
       DEF OperationFails, CompleteRefused, Abandoned, Found, TypeOK
  <2>3. CASE records'[k] = records[k]
    <3>1. UNCHANGED answerBar
      BY <1>f, <2>3, SameAnswers
    <3>2. QED
      BY <1>f, <2>1, <3>1, ToldOne, RefusalRefines
  <2>4. CASE records'[k] # records[k]
    <3>1. Completed(k) => records[k].keptUntil # None
      <4>1. ASSUME Completed(k) PROVE Expired(records[k], lastNow')
        BY <1>t, <1>f, <2>4, <4>1, FinishReplacesOwnOrExpired DEF Completed, Owns
      <4>2. QED
        BY <4>1 DEF Completed, Expired
    <3>2. records'[k] = None
      BY <2>2, <2>4
    <3>k. calls'[c].key = k
      BY <1>t, <1>1 DEF OperationFails, CompleteRefused, TypeOK, Call
    <3>3. ~Completed(k)'
      BY <3>2, <3>k DEF Completed
    <3>4. \A j \in Keys : j = k => ~Completed(j)'
      BY <3>2 DEF Completed
    <3>5. UNCHANGED answerBar \/ \E j \in Keys : Promise!Forget(j)
      BY <1>f, <3>1, <3>4, DroppedAnswer
    <3>6. QED
      BY <1>f, <2>1, <3>5, ToldOne, RefusalRefines
  <2>5. QED
    BY <2>3, <2>4
<1>2. CASE CompleteAndReturn(c)
  <2> DEFINE g == calls[c].fp
             eternal == KeptUntil(c) = None
             done == [Found(k) EXCEPT !.result = c, !.keptUntil = KeptUntil(c)]
  <2>1. /\ Found(k) = records[k] /\ records[k] \in Record
        /\ records[k].result = None /\ records[k].fp = g /\ g \in Fingerprints
    BY <1>t, <1>f, <1>2, FoundType DEF CompleteAndReturn, Completable, Owns, TypeOK
  <2>2. KeptUntil(c) \in Nat \cup {None}
    BY <1>t, <1>f, KeptUntilType
  <2>3. records' = [records EXCEPT ![k] = done]
    BY <1>2 DEF CompleteAndReturn
  <2>4. /\ done \in Record /\ done.result = c /\ done.fp = g
        /\ done.keptUntil = KeptUntil(c)
    BY <2>1, <2>2 DEF Record
  <2>5. answerBar[k] = None
    BY <1>f, <2>1 DEF answerBar, Completed
  <2>6. \A j \in Keys : records'[j] = IF j = k THEN done ELSE records[j]
    BY <1>t, <1>f, <2>3 DEF TypeOK
  <2> HIDE DEF done, g
  <2>7. answerBar' = [answerBar EXCEPT ![k] = [fp |-> g, value |-> c, forever |-> eternal]]
    <3> DEFINE v == [fp |-> g, value |-> c, forever |-> eternal]
               F == [j \in Keys |-> IF j = k THEN v ELSE answerBar[j]]
    <3>1. answerBar' = F
      <4>1. ASSUME NEW j \in Keys, j # k
            PROVE  Completed(j)' = Completed(j) /\ records'[j] = records[j]
        BY <2>6, <4>1 DEF Completed
      <4>2. ASSUME NEW j \in Keys, j = k
            PROVE  /\ Completed(j)'
                   /\ records'[j].fp = g /\ records'[j].result = c
                   /\ records'[j].keptUntil = KeptUntil(c)
        BY <2>4, <2>6, <4>2 DEF Completed
      <4>3. answerBar' =
              [j \in Keys |->
                 IF Completed(j)'
                 THEN [fp |-> records'[j].fp, value |-> records'[j].result,
                       forever |-> records'[j].keptUntil = None]
                 ELSE None]
        BY DEF answerBar
      <4>4. ASSUME NEW j \in Keys
            PROVE  answerBar'[j] = F[j]
        <5>1. CASE j = k
          BY <4>2, <4>3, <5>1
        <5>2. CASE j # k
          BY <4>1, <4>3, <5>2 DEF answerBar
        <5>3. QED
          BY <5>1, <5>2
      <4>5. QED
        BY <4>3, <4>4
    <3>2. F = [answerBar EXCEPT ![k] = v]
      BY DEF answerBar
    <3>3. QED
      BY <3>1, <3>2
  <2>8. /\ calls'[c].status = "returned" /\ calls'[c].answer = c
    <3> DEFINE told == [calls[c] EXCEPT !.status = "returned", !.answer = c,
                                        !.since = clock, !.until = KeptUntil(c)]
    <3>1. calls'[c] = told
      BY <1>t, <1>2 DEF CompleteAndReturn, TypeOK
    <3>2. calls[c] \in Call
      BY <1>t DEF TypeOK
    <3>3. QED
      BY <3>1, <3>2 DEF Call
  <2>9. /\ outcomeBar[c] = Promise!Pending
        /\ outcomeBar' = [outcomeBar EXCEPT ![c] = Promise!Result(c)]
    BY <1>f, <2>8, ToldOne
  <2>10. Promise!Settle(c, k, g, eternal)
    BY <2>5, <2>7, <2>9 DEF Promise!Settle
  <2>11. eternal \in BOOLEAN /\ g \in Fingerprints
    BY <2>1 DEF g
  <2>12. QED
    BY <1>f, <2>10, <2>11 DEF Promise!Next
<1>3. QED
  BY <1>1, <1>2 DEF Finish

(* The store and its callers keep the promise of IdempotentResult.         *)
THEOREM KeepsPromise == Spec => ImplementsPromise
<1>1. Init => Promise!Init
  BY DEF Init, Idle, Promise!Init, Promise!Pending, answerBar, outcomeBar, Completed
<1>2. HInv /\ HInv' /\ [Next]_vars => [Promise!Next]_(Promise!vars)
  <2> SUFFICES ASSUME HInv, HInv', [Next]_vars
               PROVE  Promise!Next \/ UNCHANGED <<answerBar, outcomeBar>>
    BY DEF Promise!vars
  <2>1. CASE ClockMoves
    BY <2>1 DEF ClockMoves, answerBar, outcomeBar, Completed
  <2>2. CASE UNCHANGED vars
    BY <2>2 DEF vars, answerBar, outcomeBar, Completed
  <2>3. ASSUME NEW c \in Calls, NEW k \in Keys, NEW f \in Fingerprints,
               NEW d \in CompletedTTLs, Reserve(c, k, f, d)
        PROVE  Promise!Next \/ UNCHANGED <<answerBar, outcomeBar>>
    BY <2>3, ReserveRefines
  <2>4. ASSUME NEW c \in Calls, Finish(c)
        PROVE  Promise!Next
    BY <2>4, FinishRefines
  <2>5. QED
    BY <2>1, <2>2, <2>3, <2>4 DEF Next
<1>3. QED
  BY <1>1, <1>2, HistoryHolds, PTL DEF Spec, ImplementsPromise, Promise!Spec
=============================================================================
