---------------------------- MODULE Idempotency ----------------------------
(***************************************************************************)
(* tenchi.idempotency in one process: MemoryIdempotencyStore shared by     *)
(* concurrent run_idempotently calls.                                      *)
(*                                                                         *)
(* The store never suspends while it holds its lock, so reserve is one     *)
(* step, and everything after the operation (validation, complete, and     *)
(* abandon when something raised) is one step too.  Calls interleave only  *)
(* while their operations run, which is also when the clock moves.         *)
(*                                                                         *)
(* A call reserves at most once, so the call itself stands for the uuid4   *)
(* token of its reservation and for the result its operation returns.      *)
(***************************************************************************)
EXTENDS Integers

CONSTANTS
  Calls,            \* calls of run_idempotently; also tokens and results
  Keys,             \* (namespace, scope, key) identities
  Fingerprints,     \* fingerprints of validated inputs
  Times,            \* readings the store's clock can give, in ticks
  Coarse,           \* readings too large for a float to add a ttl to
  TicksPerSecond,   \* clock resolution, for Retry-After in whole seconds
  ReservationTTL,   \* reservation_ttl, in ticks
  CompletedTTLs,    \* the completed_ttl values callers use, None for ever
  None

ASSUME TimesAssumption ==
  /\ Times \subseteq Nat
  /\ 0 \in Times
  /\ Coarse \subseteq Times

ASSUME TTLAssumption ==
  /\ ReservationTTL \in Nat \ {0}
  /\ TicksPerSecond \in Nat \ {0}
  /\ CompletedTTLs \subseteq (Nat \ {0}) \cup {None}

Record ==
  [fp : Fingerprints, token : Calls, result : Calls \cup {None},
   reservedUntil : Nat, keptUntil : Nat \cup {None}]

Answer == [fp : Fingerprints, value : Calls, forever : BOOLEAN]

ASSUME NoneAssumption ==
  /\ None \notin Nat
  /\ None \notin Calls
  /\ None \notin Keys
  /\ None \notin Fingerprints
  /\ None \notin Record
  /\ None \notin Answer

VARIABLES
  records,   \* _records: what the store holds for each key
  clock,     \* what clock() returns if it is asked now
  lastNow,   \* _last_now: the last reading the store accepted
  calls      \* each call: its progress, its reservation and its outcome

vars == <<records, clock, lastNow, calls>>

(* since/until is the lease of a running call, and the retention period of *)
(* the result of one that returned (until = None: kept for ever).          *)
Call ==
  [status : {"idle", "running", "returned", "replayed",
             "conflict", "in_progress", "failed"},
   key : Keys \cup {None}, fp : Fingerprints \cup {None},
   ttl : Nat \cup {None}, since : Nat, until : Nat \cup {None},
   answer : Calls \cup {None}, retryAfter : Nat]

Idle == [status |-> "idle", key |-> None, fp |-> None, ttl |-> None,
         since |-> 0, until |-> 0, answer |-> None, retryAfter |-> 0]

(* Every variable has its type; a call that reserved has its key, input    *)
(* and ttl, and one that runs has a lease with an end (IdempotencyReservation). *)
TypeOK ==
  /\ records \in [Keys -> Record \cup {None}]
  /\ clock \in Times
  /\ lastNow \in Times
  /\ calls \in [Calls -> Call]
  /\ \A c \in Calls : calls[c].status # "idle" =>
       /\ calls[c].key \in Keys
       /\ calls[c].fp \in Fingerprints
       /\ calls[c].ttl \in CompletedTTLs
       /\ calls[c].status = "running" => calls[c].until \in Nat

Init ==
  /\ records = [k \in Keys |-> None]
  /\ clock = 0
  /\ lastNow = 0
  /\ calls = [c \in Calls |-> Idle]

-----------------------------------------------------------------------------
(* The store's helpers. *)

Later(t, ttl) == IF t \in Coarse THEN t ELSE t + ttl

(* Faulty variants, one per property that catches them; the mutant runs    *)
(* put each in the place of the definition it follows the name of.         *)

Expired_ForgetsForever(r, t) ==
  IF r.result = None
  THEN r.reservedUntil <= t
  ELSE r.keptUntil = None \/ r.keptUntil <= t

Expired(r, t) ==
  IF r.result = None
  THEN r.reservedUntil <= t
  ELSE r.keptUntil # None /\ r.keptUntil <= t

Found_OverlooksReservations(k) ==
  IF records[k] # None /\ records[k].result = None THEN None ELSE records[k]

(* The record of k after the expired one, if any, has been deleted. *)
Found(k) ==
  IF records[k] # None /\ Expired(records[k], clock) THEN None ELSE records[k]

Owns(c, r) ==
  /\ r # None
  /\ r.token = c
  /\ r.fp = calls[c].fp
  /\ r.result = None

(* _now: a reading below the last accepted one raises. *)
ClockAccepted == clock >= lastNow

(* max(1, ceil(reservation_expires_at - now)) seconds. *)
RetryAfter(r) ==
  LET left == r.reservedUntil - clock
      ceil == (left + TicksPerSecond - 1) \div TicksPerSecond
  IN  IF ceil >= 1 THEN ceil ELSE 1

-----------------------------------------------------------------------------
(* reserve, one action per decision. *)

Asks(c, k, f, d) ==
  [calls[c] EXCEPT !.key = k, !.fp = f, !.ttl = d]

ReserveClockBackwards(c, k, f, d) ==
  /\ calls[c].status = "idle"
  /\ ~ClockAccepted
  /\ calls' = [calls EXCEPT ![c] = [Asks(c, k, f, d) EXCEPT !.status = "failed"]]
  /\ UNCHANGED <<records, clock, lastNow>>

Reserving(c) ==
  /\ calls[c].status = "idle"
  /\ ClockAccepted
  /\ lastNow' = clock
  /\ UNCHANGED clock

ReserveConflict(c, k, f, d) ==
  /\ Reserving(c)
  /\ Found(k) # None
  /\ Found(k).fp # f
  /\ calls' = [calls EXCEPT ![c] = [Asks(c, k, f, d) EXCEPT !.status = "conflict"]]
  /\ UNCHANGED records

(* The stored bytes either validate against result_type or raise. *)
ReserveReplay(c, k, f, d) ==
  /\ Reserving(c)
  /\ Found(k) # None
  /\ Found(k).fp = f
  /\ Found(k).result # None
  /\ \/ calls' = [calls EXCEPT ![c] = [Asks(c, k, f, d) EXCEPT
                    !.status = "replayed", !.answer = Found(k).result]]
     \/ calls' = [calls EXCEPT ![c] = [Asks(c, k, f, d) EXCEPT !.status = "failed"]]
  /\ UNCHANGED records

ReserveInProgress(c, k, f, d) ==
  /\ Reserving(c)
  /\ Found(k) # None
  /\ Found(k).fp = f
  /\ Found(k).result = None
  /\ calls' = [calls EXCEPT ![c] = [Asks(c, k, f, d) EXCEPT
                 !.status = "in_progress", !.retryAfter = RetryAfter(Found(k))]]
  /\ UNCHANGED records

ReserveWins(c, k, f, d) ==
  /\ Reserving(c)
  /\ Found(k) = None
  /\ Later(clock, ReservationTTL) > clock
  /\ records' = [records EXCEPT ![k] =
       [fp |-> f, token |-> c, result |-> None,
        reservedUntil |-> Later(clock, ReservationTTL), keptUntil |-> None]]
  /\ calls' = [calls EXCEPT ![c] = [Asks(c, k, f, d) EXCEPT
       !.status = "running", !.since = clock,
       !.until = Later(clock, ReservationTTL)]]

(* The lease would not end in the future: nothing is reserved, but an      *)
(* expired record is gone.                                                 *)
ReserveNoFuture(c, k, f, d) ==
  /\ Reserving(c)
  /\ Found(k) = None
  /\ ~(Later(clock, ReservationTTL) > clock)
  /\ records' = [records EXCEPT ![k] = None]
  /\ calls' = [calls EXCEPT ![c] = [Asks(c, k, f, d) EXCEPT !.status = "failed"]]

-----------------------------------------------------------------------------
(* The end of a run. *)

Abandoned(c, r) == IF Owns(c, r) THEN None ELSE r

(* The operation raised, was cancelled, or returned a result that does not *)
(* match result_type: the reservation is abandoned, without reading the    *)
(* clock.                                                                  *)
OperationFails(c) ==
  LET k == calls[c].key IN
  /\ calls[c].status = "running"
  /\ records' = [records EXCEPT ![k] = Abandoned(c, records[k])]
  /\ calls' = [calls EXCEPT ![c].status = "failed"]
  /\ UNCHANGED <<clock, lastNow>>

KeptUntil(c) == IF calls[c].ttl = None THEN None ELSE Later(clock, calls[c].ttl)

Completable(c) ==
  /\ Owns(c, Found(calls[c].key))
  /\ KeptUntil(c) # None => KeptUntil(c) > clock

(* The operation returned and complete stored its result. *)
CompleteAndReturn(c) ==
  LET k == calls[c].key IN
  /\ calls[c].status = "running"
  /\ ClockAccepted
  /\ Completable(c)
  /\ lastNow' = clock
  /\ records' = [records EXCEPT ![k] =
       [Found(k) EXCEPT !.result = c, !.keptUntil = KeptUntil(c)]]
  /\ calls' = [calls EXCEPT ![c] = [@ EXCEPT
       !.status = "returned", !.answer = c,
       !.since = clock, !.until = KeptUntil(c)]]
  /\ UNCHANGED clock

(* The operation returned but complete raised: the lease is over, another  *)
(* call owns the key, or the clock is unusable.  abandon follows at once.  *)
CompleteRefused(c) ==
  LET k == calls[c].key IN
  /\ calls[c].status = "running"
  /\ \/ /\ ~ClockAccepted
        /\ records' = [records EXCEPT ![k] = Abandoned(c, records[k])]
        /\ UNCHANGED lastNow
     \/ /\ ClockAccepted
        /\ ~Completable(c)
        /\ records' = [records EXCEPT ![k] = Abandoned(c, Found(k))]
        /\ lastNow' = clock
  /\ calls' = [calls EXCEPT ![c].status = "failed"]
  /\ UNCHANGED clock

(* An injected clock may show any reading next; time.monotonic only        *)
(* larger ones.                                                            *)
ClockMoves ==
  /\ \E t \in Times : clock' = t
  /\ UNCHANGED <<records, lastNow, calls>>

Reserve(c, k, f, d) ==
  \/ ReserveClockBackwards(c, k, f, d)
  \/ ReserveConflict(c, k, f, d)
  \/ ReserveReplay(c, k, f, d)
  \/ ReserveInProgress(c, k, f, d)
  \/ ReserveWins(c, k, f, d)
  \/ ReserveNoFuture(c, k, f, d)

Finish(c) == OperationFails(c) \/ CompleteAndReturn(c) \/ CompleteRefused(c)

Next ==
  \/ ClockMoves
  \/ \E c \in Calls, k \in Keys, f \in Fingerprints, d \in CompletedTTLs :
       Reserve(c, k, f, d)
  \/ \E c \in Calls : Finish(c)

Spec == Init /\ [][Next]_vars

-----------------------------------------------------------------------------
Reserved(k) == records[k] # None /\ records[k].result = None
Completed(k) == records[k] # None /\ records[k].result # None
Live(c) == calls[c].status = "running" /\ calls[c].until > lastNow

(* A running call whose lease has not ended owns the record of its key, so *)
(* nobody else can complete, abandon or re-reserve it meanwhile            *)
(* (MemoryIdempotencyStore.reserve/complete/abandon).                      *)
LeaseHolds ==
  \A c \in Calls : Live(c) =>
    /\ Owns(c, records[calls[c].key])
    /\ records[calls[c].key].reservedUntil = calls[c].until

(* Two operations of one key run at the same time only after the lease of  *)
(* one of them has ended (the reservation is exclusive permission).        *)
OneLiveRun ==
  \A c, d \in Calls :
    c # d /\ Live(c) /\ Live(d) => calls[c].key # calls[d].key

(* While a key replays a result, no call still holds a live lease on it.   *)
NoLiveRunBehindAnAnswer ==
  \A c \in Calls : Live(c) => ~Completed(calls[c].key)

(* A replay hands out what a call of the same key and the same input       *)
(* returned to its own caller.                                             *)
ReplaysWhatWasReturned ==
  \A c \in Calls : calls[c].status = "replayed" =>
    \E d \in Calls :
      /\ calls[d].status = "returned"
      /\ calls[d].answer = calls[c].answer
      /\ calls[d].key = calls[c].key
      /\ calls[d].fp = calls[c].fp

(* Two runs of one key both return only if the retention of one of them    *)
(* was over when the other completed; a result kept for ever stays alone.  *)
AnswersDoNotOverlap ==
  \A c, d \in Calls :
    /\ c # d
    /\ calls[c].status = "returned" /\ calls[d].status = "returned"
    /\ calls[c].key = calls[d].key
    => \/ calls[c].until # None /\ calls[c].until <= calls[d].since
       \/ calls[d].until # None /\ calls[d].until <= calls[c].since

(* A completed record changes or goes away only once its retention is      *)
(* over: neither a late complete nor any abandon can touch it.             *)
AnswersAreKept ==
  [][\A k \in Keys : Completed(k) /\ records'[k] # records[k]
       => /\ records[k].keptUntil # None
          /\ records[k].keptUntil <= lastNow']_vars

(* A reservation is ended by the call that made it, or it has expired:     *)
(* abandon and complete are fenced by the token.                           *)
ReservationsAreFenced ==
  [][\A k \in Keys : Reserved(k) /\ records'[k] # records[k]
       => \/ records[k].reservedUntil <= lastNow'
          \/ /\ calls[records[k].token].status = "running"
             /\ calls'[records[k].token].status # "running"]_vars

-----------------------------------------------------------------------------
(* The refinement mapping to IdempotentResult. *)

answerBar ==
  [k \in Keys |->
     IF Completed(k)
     THEN [fp |-> records[k].fp, value |-> records[k].result,
           forever |-> records[k].keptUntil = None]
     ELSE None]

outcomeBar ==
  [c \in Calls |->
     IF calls[c].status \in {"idle", "running"}
     THEN [got |-> "pending", value |-> None]
     ELSE IF calls[c].status \in {"returned", "replayed"}
     THEN [got |-> "result", value |-> calls[c].answer]
     ELSE [got |-> "refused", value |-> None]]

Promise == INSTANCE IdempotentResult WITH answer <- answerBar, outcome <- outcomeBar

(* Every behaviour of the store and its callers is one IdempotentResult    *)
(* allows: one answer per key, replayed only for the same input.           *)
ImplementsPromise == Promise!Spec
=============================================================================
