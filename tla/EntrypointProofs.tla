-------------------------- MODULE EntrypointProofs --------------------------
(***************************************************************************)
(* Entrypoint's safety properties, for every set of entrypoints and every  *)
(* number of observers, from one inductive invariant; then what Binding    *)
(* promises of the arguments a call is made with, and what HttpExchange    *)
(* promises of a request and its answer, for every application that the    *)
(* checks and the composition let through.                                 *)
(***************************************************************************)
EXTENDS Entrypoint, Binding, HttpExchange, FiniteSetTheorems, SequenceTheorems, WellFoundedInduction, TLAPS

Entering == {"called", "opening", "hooks", "verifying", "validating", "running",
           "presenting"}

Inside == {"hooks", "verifying", "running", "presenting", "committing",
           "rolling_back"}

After == {"telling_use_case", "telling_request", "ending", "done"}

(* The scope is open exactly between the steps that open and end it. *)
ScopeFits ==
  /\ stage \in {"called", "opening"} => scope = "none"
  /\ stage \in {"hooks", "verifying"} => Http
  /\ stage = "validating" => scope = IF Http THEN "open" ELSE "none"
  /\ stage \in Inside => scope = "open"
  /\ stage = "closing" => scope \in {"committed", "rolled_back"}
  /\ stage \in {"boundary"} \cup After => scope # "open"

(* Nothing is on its way out before something has been returned or raised, *)
(* and what is says how the scope has ended or will end.                   *)
FlightFits ==
  /\ stage \in Entering <=> flight = "none"
  /\ stage = "committing" => flight \in {"result"} \cup Refusals
  /\ stage = "rolling_back" => flight \in Exceptions
  /\ flight = "result" /\ stage # "committing" => scope = "committed"
  /\ flight \in {"declared", "undeclared", "violation"}
       => stage = "rolling_back" \/ scope \in {"none", "rolled_back"}
  /\ flight \in Refusals =>
       IF Http THEN stage = "committing" \/ scope = "committed"
       ELSE scope = "none"
  /\ flight = "cancelled" => cancelled \/ deadline = "expired"

(* The use case has run only if it was let in by the guards before it, and *)
(* is committed only if it has succeeded, or has not run.                  *)
RunFits ==
  /\ stage \in {"called", "opening", "hooks", "verifying", "validating"}
       => run = "not_run"
  /\ ~Http => ~call.signed
  /\ Http /\ stage \in {"running", "presenting"} /\ call.signed => verified
  /\ stage = "validating" /\ call.signed => verified
  /\ flight \in Refusals => run = "not_run"
  /\ flight = "invalid" /\ call.signed => verified
  /\ stage = "running" => run # "not_run"
  /\ stage = "presenting" => run = "succeeded"
  /\ stage = "committing" \/ scope = "committed" => run \in {"succeeded", "not_run"}

(* The answer is what left the scope, unless a deadline, a cancellation or *)
(* the end of the lifespan replaced it.                                    *)
AnswerFits ==
  /\ stage \in After <=> answer # "none"
  /\ answer \in {"none", flight, "timed_out", "cancelled", "error"}
  /\ answer \in {"result"} \cup Refusals => deadline # "expired"
  /\ answer = "cancelled" => cancelled

(* Who has been told of the call so far, when nobody cancels. *)
ToldFits ==
  /\ stage \notin After => told["use_case"] = 0 /\ told["request"] = 0
  /\ told["use_case"] > 0 => run # "not_run"
  /\ stage = "telling_use_case" => run # "not_run" /\ told["request"] = 0
  /\ stage \in {"telling_request", "ending", "done"} /\ ~cancelled =>
       told["use_case"] = IF run = "not_run" THEN 0 ELSE Observers
  /\ stage = "telling_request" => Http
  /\ stage = "ending" => ~Http /\ told["request"] = 0
  /\ stage = "done" /\ ~cancelled =>
       told["request"] = IF Http THEN Observers ELSE 0

IInv == TypeOK /\ ScopeFits /\ FlightFits /\ RunFits /\ AnswerFits /\ ToldFits

-----------------------------------------------------------------------------
(* A call starts in the invariant. *)
LEMMA InvInitial == Init => IInv
<1> SUFFICES ASSUME Init PROVE IInv
  OBVIOUS
<1>1. TypeOK
  <2>1. told \in [{"use_case", "request"} -> 0..Observers]
    BY EntrypointAssumption DEF Init
  <2>q. QED
    BY <2>1 DEF Init, TypeOK, Stages, Flights, Answers
<1>2. ScopeFits /\ FlightFits
  BY DEF Init, ScopeFits, FlightFits, Entering, Inside, After, Refusals
<1>3. RunFits /\ AnswerFits
  BY DEF Init, RunFits, AnswerFits, After, Refusals, Http
<1>4. ToldFits
  BY DEF Init, ToldFits
<1>q. QED
  BY <1>1, <1>2, <1>3, <1>4 DEF IInv

(* Every step of an entrypoint preserves it. *)
LEMMA InvInductive == IInv /\ [Next]_vars => IInv'
<1> SUFFICES ASSUME IInv, [Next]_vars PROVE IInv'
  OBVIOUS
<1> USE EntrypointAssumption
    DEF IInv, TypeOK, ScopeFits, FlightFits, RunFits, AnswerFits, ToldFits,
        Entering, Inside, After, Stages, Flights, Answers, Refusals, Exceptions,
        Call, AllKinds, Http
<1>1. CASE Open
  BY <1>1 DEF Open, Go
<1>2. CASE OpenFails
  BY <1>2 DEF OpenFails, Go
<1>3. CASE HooksPass
  BY <1>3 DEF HooksPass, Go
<1>4. CASE HookRaises
  BY <1>4 DEF HookRaises, Leave, Exit
<1>5. CASE GuardRefuses
  BY <1>5 DEF GuardRefuses, Leave, Exit
<1>6. CASE Verify
  BY <1>6 DEF Verify, Go
<1>7. CASE Accept
  BY <1>7 DEF Accept, Go
<1>8. CASE RefuseHttp
  BY <1>8 DEF RefuseHttp, Leave, Exit
<1>9. CASE Disconnect
  BY <1>9 DEF Disconnect, Leave, Exit
<1>10. CASE Refuse
  BY <1>10 DEF Refuse, Go
<1>11. CASE Return
  BY <1>11 DEF Return, Go
<1>12. CASE Raise
  BY <1>12 DEF Raise, Leave, Exit, Status
<1>13. CASE Begin
  BY <1>13 DEF Begin
<1>14. CASE Present
  BY <1>14 DEF Present, Leave, Exit
<1>15. CASE Commit
  BY <1>15 DEF Commit, Go
<1>16. CASE CommitFails
  BY <1>16 DEF CommitFails, Go
<1>17. CASE RollBack
  BY <1>17 DEF RollBack, Go
<1>18. CASE Close
  BY <1>18 DEF Close, Go
<1>19. CASE Boundary
  BY <1>19 DEF Boundary, Outward, TimesOut, ToldFirst, OwnsLifespan
<1>20. CASE TellUseCase
  BY <1>20 DEF TellUseCase, Tell
<1>21. CASE UseCaseTold
  BY <1>21 DEF UseCaseTold, OwnsLifespan
<1>22. CASE TellRequest
  BY <1>22 DEF TellRequest, Tell
<1>23. CASE RequestTold
  BY <1>23 DEF RequestTold
<1>24. CASE EndLifespan
  BY <1>24 DEF EndLifespan
<1>25. CASE DeadlineExpires
  BY <1>25 DEF DeadlineExpires, Cut, Suppressed, CutInScope, CutOutside, Awaiting
<1>26. CASE CallerCancels
  BY <1>26 DEF CallerCancels, Cut, Suppressed, CutInScope, CutOutside, Awaiting
<1>27. CASE CancelledWhileTelling
  BY <1>27 DEF CancelledWhileTelling, OwnsLifespan
<1>28. CASE Done
  BY <1>28 DEF Done, vars
<1>29. CASE UNCHANGED vars
  BY <1>29 DEF vars
<1>q. QED
  BY <1>1, <1>2, <1>3, <1>4, <1>5, <1>6, <1>7, <1>8, <1>9, <1>10, <1>11, <1>12, <1>13, <1>14,
     <1>15, <1>16, <1>17, <1>18, <1>19, <1>20, <1>21, <1>22, <1>23, <1>24, <1>25, <1>26, <1>27, <1>28, <1>29
  DEF Next, UserCode, Framework

-----------------------------------------------------------------------------
(* The invariant holds of every call through every entrypoint. *)
THEOREM Invariance == Spec => []IInv
<1>1. Init => IInv
  BY InvInitial
<1>2. IInv /\ [Next]_vars => IInv'
  BY InvInductive
<1>q. QED
  BY <1>1, <1>2, PTL DEF Spec

(* Every reachable state of a call is well typed, and its transaction is   *)
(* open only inside its scope.                                             *)
THEOREM TypeCorrect == Spec => []TypeOK
<1>1. IInv => TypeOK
  BY DEF IInv
<1>q. QED
  BY <1>1, Invariance, PTL

(* Who is answered with a result can rely on the commit, and a use case    *)
(* whose observers hear of anything but success has had nothing committed  *)
(* (open_context, _UseCaseCall.invoke).                                    *)
THEOREM SuccessMeansCommitted == Spec => []SuccessIsCommitted
<1>1. IInv => (answer = "result" => scope = "committed")
  BY DEF IInv, TypeOK, AnswerFits, FlightFits, After, Flights, Refusals, Exceptions
<1>2. IInv => (told["use_case"] > 0 /\ scope = "committed" => run = "succeeded")
  BY DEF IInv, RunFits, ToldFits
<1>3. IInv => SuccessIsCommitted
  BY <1>1, <1>2 DEF SuccessIsCommitted
<1>q. QED
  BY <1>3, Invariance, PTL

(* An application error or a contract violation that reaches the caller    *)
(* has left no write behind (dispatch).                                    *)
THEOREM FailureMeansRolledBack == Spec => []FailuresRollBack
<1>1. IInv => FailuresRollBack
  BY DEF IInv, TypeOK, AnswerFits, FlightFits, After, Refusals,
      FailuresRollBack
<1>q. QED
  BY <1>1, Invariance, PTL

(* After the deadline expired neither a result nor a refusal is answered   *)
(* (respond).                                                              *)
THEOREM LateSuccessIsATimeout == Spec => []NoLateSuccess
<1>1. IInv => NoLateSuccess
  BY DEF IInv, TypeOK, AnswerFits, NoLateSuccess
<1>q. QED
  BY <1>1, Invariance, PTL

(* Observers hear of a finished call, each once (_notify_observers and     *)
(* _notify_use_case_observers).                                            *)
THEOREM ObserversToldOnce == Spec => []EachObserverToldOnce
<1>1. IInv => EachObserverToldOnce
  BY DEF IInv, TypeOK, AnswerFits, ToldFits, ScopeFits, After,
      EachObserverToldOnce
<1>q. QED
  BY <1>1, Invariance, PTL

(* Invalid input stops before the use case, and a webhook's details wait   *)
(* for its signature (dispatch).                                           *)
THEOREM InvalidInputStops == Spec => []InvalidInputGoesNowhere
<1>1. IInv => InvalidInputGoesNowhere
  BY DEF IInv, TypeOK, AnswerFits, FlightFits, RunFits, Refusals,
      InvalidInputGoesNowhere
<1>q. QED
  BY <1>1, Invariance, PTL

(* An HTTP refusal leaves its scope committed and closed (dispatch).       *)
THEOREM RefusalsCommitTheScope == Spec => []RefusalsCloseTheScope
<1>1. IInv => RefusalsCloseTheScope
  BY DEF IInv, TypeOK, AnswerFits, FlightFits, After, Refusals,
      RefusalsCloseTheScope
<1>q. QED
  BY <1>1, Invariance, PTL

-----------------------------------------------------------------------------
(* Every set of naturals has a least: what stands for induction here.      *)
LEMMA LeastNumber ==
  ASSUME NEW T, T \subseteq Nat, T # {}
  PROVE  \E n \in T : \A m \in T : n <= m
<1>1. PICK n \in T : \A m \in T : ~(<<m, n>> \in OpToRel(<, Nat))
  <2> DEFINE R == OpToRel(<, Nat)
  <2>1. IsWellFoundedOn(R, Nat)
    BY NatLessThanWellFounded
  <2> HIDE DEF R
  <2>2. \E n \in T : \A m \in T : ~(<<m, n>> \in R)
    BY <2>1, WFMin
  <2>q. QED
    BY <2>2 DEF R
<1>2. \A m \in T : ~(m < n)
  BY <1>1 DEF OpToRel
<1>q. QED
  BY <1>2

-----------------------------------------------------------------------------
(* The chain of names that an annotation starts.                           *)
IsChain(c, n, globals, note) ==
  c = [i \in 0..n |-> IF i = 0 THEN note
                      ELSE IF c[i - 1] \in Names THEN globals[c[i - 1]] ELSE c[i - 1]]

(* A chain of any length can be followed: names are looked up one by one.  *)
LEMMA ChainsAre ==
  ASSUME NEW n \in Nat, NEW globals, NEW note
  PROVE  \E c : IsChain(c, n, globals, note)
<1> DEFINE Endless == {m \in Nat : ~\E c : IsChain(c, m, globals, note)}
<1>1. SUFFICES ASSUME Endless # {} PROVE FALSE
  <2>1. n \notin Endless
    BY <1>1
  <2>q. QED
    BY <2>1
<1>2. PICK m \in Endless : \A k \in Endless : m <= k
  <2>1. Endless \subseteq Nat
    OBVIOUS
  <2> HIDE DEF Endless
  <2>q. QED
    BY <1>1, <2>1, LeastNumber
<1>3. CASE m = 0
  <2>1. PICK c : c = [i \in 0..0 |-> note]
    OBVIOUS
  <2>2. IsChain(c, 0, globals, note)
    BY <2>1 DEF IsChain
  <2>q. QED
    BY <1>3, <2>2
<1>4. CASE m # 0
  <2>1. m - 1 \in Nat /\ m - 1 \notin Endless /\ m \in Nat
    BY <1>2, <1>4
  <2>2. PICK b : IsChain(b, m - 1, globals, note)
    BY <2>1
  <2>3. PICK c : c = [i \in 0..m |-> IF i = 0 THEN note
                        ELSE IF b[i - 1] \in Names THEN globals[b[i - 1]] ELSE b[i - 1]]
    OBVIOUS
  <2>4. \A i \in 0..(m - 1) : c[i] = b[i]
    <3>1. \A i \in 0..(m - 1) : i \in 0..m
      BY <2>1
    <3>q. QED
      BY <2>2, <2>3, <3>1, Zenon DEF IsChain
  <2>5. \A i \in 0..m : i # 0 => i - 1 \in 0..(m - 1)
    BY <2>1
  <2>6. IsChain(c, m, globals, note)
    BY <2>3, <2>4, <2>5, Zenon DEF IsChain
  <2>q. QED
    BY <2>6
<1>q. QED
  BY <1>3, <1>4

(* _resolved_annotation is the end of a chain as long as there are names.  *)
LEMMA ResolvedByChain ==
  ASSUME NEW globals, NEW note
  PROVE  \E c : /\ IsChain(c, Cardinality(Names), globals, note)
                /\ _resolved_annotation(globals, note) = c[Cardinality(Names)]
<1>1. Cardinality(Names) \in Nat
  BY BindingAssumption, FS_CardinalityType
<1>2. \E c : IsChain(c, Cardinality(Names), globals, note)
  BY <1>1, ChainsAre
<1> DEFINE chain == CHOOSE c : IsChain(c, Cardinality(Names), globals, note)
<1>3. IsChain(chain, Cardinality(Names), globals, note)
  BY <1>2
<1>4. _resolved_annotation(globals, note) = chain[Cardinality(Names)]
  BY DEF _resolved_annotation, IsChain
<1> HIDE DEF chain
<1>q. QED
  BY <1>3, <1>4

(* What an annotation resolves to is what it means, and nothing else.      *)
LEMMA ResolvedIsMeant ==
  ASSUME wiring \in Wirings, NEW note, Resolves(wiring.globals, note)
  PROVE  Meaning(note) = {_resolved_annotation(wiring.globals, note)}
<1> DEFINE N == Cardinality(Names)
           G == wiring.globals
           All == Names \cup Types \cup {note, Unbound}
<1>1. N \in Nat /\ Names \cap Types = {} /\ Unbound \notin Names
  BY BindingAssumption, FS_CardinalityType
<1>2. \A a \in Names : G[a] \in Names \cup Types \cup {Unbound}
  BY WiringsAssumption
<1>3. PICK c : /\ IsChain(c, N, G, note)
               /\ _resolved_annotation(G, note) = c[N]
  BY ResolvedByChain
<1> HIDE DEF N, G
<1>4. /\ c[0] = note
      /\ \A i \in 0..N : i # 0 =>
           c[i] = IF c[i - 1] \in Names THEN G[c[i - 1]] ELSE c[i - 1]
  BY <1>1, <1>3 DEF IsChain
<1>5. c[N] \in Types
  BY <1>3 DEF Resolves, G
<1>6. ASSUME NEW S, note \in S, \A a \in S \cap Names : G[a] \in S
      PROVE  \A i \in 0..N : c[i] \in S
  <2> DEFINE Out == {i \in 0..N : c[i] \notin S}
  <2>1. SUFFICES ASSUME Out # {} PROVE FALSE
    OBVIOUS
  <2>2. PICK i \in Out : \A j \in Out : i <= j
    <3>1. Out \subseteq Nat
      BY <1>1
    <3> HIDE DEF Out
    <3>q. QED
      BY <2>1, <3>1, LeastNumber
  <2>3. i \in 0..N /\ c[i] \notin S /\ i # 0
    BY <1>4, <1>6, <2>2
  <2>4. i - 1 \in 0..N /\ i - 1 < i
    BY <1>1, <2>3
  <2>5. c[i - 1] \in S
    BY <2>2, <2>4
  <2>q. QED
    BY <1>4, <1>6, <2>3, <2>5
<1>7. \A i \in 0..N : c[i] \in All
  <2>1. \A a \in All \cap Names : G[a] \in All
    BY <1>2
  <2>q. QED
    BY <1>6, <2>1
<1>8. ASSUME NEW i \in 0..N, c[i] \in Types
      PROVE  c[i] = c[N]
  <2> DEFINE Moved == {j \in i..N : c[j] # c[i]}
  <2>1. SUFFICES ASSUME Moved # {} PROVE FALSE
    BY <1>1
  <2>2. PICK j \in Moved : \A k \in Moved : j <= k
    <3>1. Moved \subseteq Nat
      BY <1>1
    <3> HIDE DEF Moved
    <3>q. QED
      BY <2>1, <3>1, LeastNumber
  <2>3. j \in i..N /\ c[j] # c[i] /\ j # i
    BY <2>2
  <2>4. j \in 0..N /\ j # 0 /\ j - 1 \in i..N /\ j - 1 < j
    BY <1>1, <2>3
  <2>5. c[j - 1] = c[i]
    BY <2>2, <2>4
  <2>q. QED
    BY <1>1, <1>4, <1>8, <2>3, <2>4, <2>5
<1>9. c[N] \in Meaning(note)
  <2>1. N \in 0..N
    BY <1>1
  <2>2. \A S \in SUBSET All : note \in S /\ (\A a \in S \cap Names : G[a] \in S) => c[N] \in S
    BY <1>6, <2>1
  <2>q. QED
    BY <1>5, <2>2 DEF Meaning, G
<1>10. ASSUME NEW t \in Meaning(note)
       PROVE  t = c[N]
  <2> DEFINE S == {c[i] : i \in 0..N}
  <2>1. S \in SUBSET All
    BY <1>7
  <2>2. note \in S
    BY <1>1, <1>4
  <2>3. \A a \in S \cap Names : G[a] \in S
    <3> SUFFICES ASSUME NEW i \in 0..N, c[i] \in Names
                 PROVE  G[c[i]] \in S
      OBVIOUS
    <3>1. i # N
      BY <1>1, <1>5
    <3>2. i + 1 \in 0..N /\ i + 1 # 0 /\ (i + 1) - 1 = i
      BY <1>1, <3>1
    <3>3. c[i + 1] = G[c[i]]
      BY <1>4, <3>2
    <3>q. QED
      BY <3>2, <3>3
  <2> HIDE DEF S
  <2>4. t \in S /\ t \in Types
    BY <2>1, <2>2, <2>3 DEF Meaning, G
  <2>q. QED
    BY <1>8, <2>4 DEF S
<1>q. QED
  BY <1>3, <1>9, <1>10 DEF G

-----------------------------------------------------------------------------
(* A group is flattened without losing a handler.                          *)
IsFlattening(f, n, seqs) ==
  f = [i \in 1..n |-> IF i = 1 THEN seqs[i] ELSE f[i - 1] \o seqs[i]]

(* Any number of groups can be flattened.                                  *)
LEMMA FlatteningsAre ==
  ASSUME NEW n \in Nat, NEW seqs
  PROVE  \E f : IsFlattening(f, n, seqs)
<1> DEFINE Endless == {m \in Nat : ~\E f : IsFlattening(f, m, seqs)}
<1>1. SUFFICES ASSUME Endless # {} PROVE FALSE
  <2>1. n \notin Endless
    BY <1>1
  <2>q. QED
    BY <2>1
<1>2. PICK m \in Endless : \A k \in Endless : m <= k
  <2>1. Endless \subseteq Nat
    OBVIOUS
  <2> HIDE DEF Endless
  <2>q. QED
    BY <1>1, <2>1, LeastNumber
<1>3. CASE m = 0
  <2>1. PICK f : f = [i \in 1..0 |-> seqs]
    OBVIOUS
  <2>2. 1..0 = {}
    OBVIOUS
  <2>3. IsFlattening(f, 0, seqs)
    BY <2>1, <2>2 DEF IsFlattening
  <2>q. QED
    BY <1>3, <2>3
<1>4. CASE m # 0
  <2>1. m - 1 \in Nat /\ m - 1 \notin Endless /\ m \in Nat
    BY <1>2, <1>4
  <2>2. PICK b : IsFlattening(b, m - 1, seqs)
    BY <2>1
  <2>3. PICK f : f = [i \in 1..m |-> IF i = 1 THEN seqs[i] ELSE b[i - 1] \o seqs[i]]
    OBVIOUS
  <2>4. \A i \in 1..(m - 1) : f[i] = b[i]
    <3>1. \A i \in 1..(m - 1) : i \in 1..m
      BY <2>1
    <3>q. QED
      BY <2>2, <2>3, <3>1, Zenon DEF IsFlattening
  <2>5. \A i \in 1..m : i # 1 => i - 1 \in 1..(m - 1)
    BY <2>1
  <2>6. IsFlattening(f, m, seqs)
    BY <2>3, <2>4, <2>5, Zenon DEF IsFlattening
  <2>q. QED
    BY <2>6
<1>q. QED
  BY <1>3, <1>4

(* What is flattened is the last of the partial flattenings.               *)
LEMMA FlatteningOf ==
  ASSUME NEW S, NEW seqs \in Seq(Seq(S)), seqs # <<>>
  PROVE  \E f : /\ FlattenSeq(seqs) = f[Len(seqs)]
                /\ \A k \in 1..Len(seqs) :
                     f[k] \in Seq(S) /\ f[k] = IF k = 1 THEN seqs[k] ELSE f[k - 1] \o seqs[k]
<1> DEFINE n == Len(seqs)
<1>1. n \in Nat /\ n # 0 /\ \A k \in 1..n : seqs[k] \in Seq(S)
  OBVIOUS
<1>2. \E f : IsFlattening(f, n, seqs)
  BY <1>1, FlatteningsAre
<1> DEFINE flatten == CHOOSE f : IsFlattening(f, n, seqs)
<1>3. IsFlattening(flatten, n, seqs)
  BY <1>2
<1>4. FlattenSeq(seqs) = flatten[n]
  BY <1>1 DEF FlattenSeq, IsFlattening
<1> HIDE DEF flatten, n
<1>5. \A k \in 1..n : flatten[k] = IF k = 1 THEN seqs[k] ELSE flatten[k - 1] \o seqs[k]
  BY <1>3 DEF IsFlattening
<1>6. \A k \in 1..n : flatten[k] \in Seq(S)
  <2> DEFINE Odd == {k \in 1..n : flatten[k] \notin Seq(S)}
  <2>1. SUFFICES ASSUME Odd # {} PROVE FALSE
    OBVIOUS
  <2>2. PICK k \in Odd : \A j \in Odd : k <= j
    <3>1. Odd \subseteq Nat
      BY <1>1
    <3> HIDE DEF Odd
    <3>q. QED
      BY <2>1, <3>1, LeastNumber
  <2>3. k \in 1..n /\ flatten[k] \notin Seq(S) /\ k # 1
    BY <1>1, <1>5, <2>2
  <2>4. k - 1 \in 1..n /\ k - 1 < k
    BY <1>1, <2>3
  <2>5. flatten[k - 1] \in Seq(S)
    BY <2>2, <2>4
  <2>6. flatten[k - 1] \o seqs[k] \in Seq(S)
    BY <1>1, <2>3, <2>5
  <2>q. QED
    BY <1>5, <2>3, <2>6
<1>q. QED
  BY <1>4, <1>5, <1>6 DEF n

(* The flattened group has the handlers of every group in it.              *)
LEMMA FlattenedHolds ==
  ASSUME NEW S, NEW seqs \in Seq(Seq(S)), NEW h, NEW i \in DOMAIN seqs, h \in ToSet(seqs[i])
  PROVE  FlattenSeq(seqs) \in Seq(S) /\ h \in ToSet(FlattenSeq(seqs))
<1> DEFINE n == Len(seqs)
<1>1. n \in Nat /\ i \in 1..n /\ seqs # <<>> /\ \A k \in 1..n : seqs[k] \in Seq(S)
  OBVIOUS
<1>2. PICK flatten :
         /\ FlattenSeq(seqs) = flatten[n]
         /\ \A k \in 1..n :
              flatten[k] \in Seq(S) /\ flatten[k] = IF k = 1 THEN seqs[k] ELSE flatten[k - 1] \o seqs[k]
  BY <1>1, FlatteningOf
<1> HIDE DEF n
<1>4. FlattenSeq(seqs) = flatten[n]
  BY <1>2
<1>5. \A k \in 1..n : flatten[k] = IF k = 1 THEN seqs[k] ELSE flatten[k - 1] \o seqs[k]
  BY <1>2
<1>6. \A k \in 1..n : flatten[k] \in Seq(S)
  BY <1>2
<1>7. \A s, t \in Seq(S) : h \in ToSet(s) \/ h \in ToSet(t) => h \in ToSet(s \o t)
  <2> SUFFICES ASSUME NEW s \in Seq(S), NEW t \in Seq(S), h \in ToSet(s) \/ h \in ToSet(t)
               PROVE  h \in ToSet(s \o t)
    OBVIOUS
  <2>1. DOMAIN (s \o t) = 1..(Len(s) + Len(t)) /\ DOMAIN s = 1..Len(s) /\ DOMAIN t = 1..Len(t)
        /\ Len(s) \in Nat /\ Len(t) \in Nat
    OBVIOUS
  <2>2. CASE h \in ToSet(s)
    <3>1. PICK k \in 1..Len(s) : s[k] = h
      BY <2>1, <2>2 DEF ToSet
    <3>2. (s \o t)[k] = h /\ k \in DOMAIN (s \o t)
      BY <2>1, <3>1
    <3>q. QED
      BY <3>2 DEF ToSet
  <2>3. CASE h \in ToSet(t)
    <3>1. PICK k \in 1..Len(t) : t[k] = h
      BY <2>1, <2>3 DEF ToSet
    <3>2. (s \o t)[Len(s) + k] = h /\ Len(s) + k \in DOMAIN (s \o t)
      BY <2>1, <3>1
    <3>q. QED
      BY <3>2 DEF ToSet
  <2>q. QED
    BY <2>2, <2>3
<1>8. \A k \in i..n : h \in ToSet(flatten[k])
  <2> DEFINE Lost == {k \in i..n : h \notin ToSet(flatten[k])}
  <2>1. SUFFICES ASSUME Lost # {} PROVE FALSE
    OBVIOUS
  <2>2. PICK k \in Lost : \A j \in Lost : k <= j
    <3>1. Lost \subseteq Nat
      BY <1>1
    <3> HIDE DEF Lost
    <3>q. QED
      BY <2>1, <3>1, LeastNumber
  <2>3. k \in i..n /\ k \in 1..n /\ h \notin ToSet(flatten[k])
    BY <1>1, <2>2
  <2>4. k # 1 => k - 1 \in 1..n /\ flatten[k - 1] \in Seq(S) /\ flatten[k] = flatten[k - 1] \o seqs[k]
    <3>1. k # 1 => k - 1 \in 1..n
      BY <1>1, <2>3
    <3>2. flatten[k] = IF k = 1 THEN seqs[k] ELSE flatten[k - 1] \o seqs[k]
      BY <1>5, <2>3
    <3>q. QED
      BY <1>6, <3>1, <3>2
  <2>5. CASE k = i
    <3>1. CASE k = 1
      BY <1>5, <2>3, <2>5, <3>1
    <3>2. CASE k # 1
      BY <1>1, <1>7, <2>3, <2>4, <2>5, <3>2
    <3>q. QED
      BY <3>1, <3>2
  <2>6. CASE k # i
    <3>1. k # 1 /\ k - 1 \in i..n /\ k - 1 < k
      BY <1>1, <2>3, <2>6
    <3>2. h \in ToSet(flatten[k - 1])
      <4> HIDE DEF Lost
      <4>1. k - 1 \notin Lost
        BY <2>2, <2>3, <3>1
      <4>q. QED
        BY <3>1, <4>1 DEF Lost
    <3>q. QED
      BY <1>1, <1>7, <2>3, <2>4, <3>1, <3>2
  <2>q. QED
    BY <2>5, <2>6
<1>9. n \in i..n /\ n \in 1..n
  BY <1>1
<1>q. QED
  BY <1>4, <1>6, <1>8, <1>9

(* A call of a name that one handler has goes to that handler.             *)
LEMMA OwnIsSelected ==
  ASSUME wiring \in Wirings, UniqueNames(_append_handlers(wiring.items))
  PROVE  _append_handlers(wiring.items)[Selected("own")].ours
<1> DEFINE all == _append_handlers(wiring.items)
           own == [name |-> "own", ours |-> TRUE]
           Handlers == [name : STRING, ours : BOOLEAN]
<1>1. wiring.items \in Seq(Seq(Handlers))
  BY WiringsAssumption
<1>2. PICK i \in DOMAIN wiring.items : own \in ToSet(wiring.items[i])
  BY WiringsAssumption
<1>3. all \in Seq(Handlers) /\ own \in ToSet(all)
  <2> HIDE DEF Handlers, own
  <2>q. QED
    BY <1>1, <1>2, FlattenedHolds DEF _append_handlers
<1>4. PICK k \in DOMAIN all : all[k] = own
  BY <1>3 DEF ToSet
<1>5. DOMAIN all = 1..Len(all)
  BY <1>3
<1>6. \A j \in DOMAIN all : all[j].name = "own" => j = k
  BY <1>4 DEF UniqueNames
<1>7. Selected("own") = k
  <2> DEFINE I == {j \in 1..Len(all) : all[j].name = "own"}
  <2>1. I = {k}
    BY <1>4, <1>5, <1>6
  <2>2. Selected("own") = IF I # {} THEN Min(I) ELSE 0
    BY DEF Selected, SelectInSeq
  <2>3. k \in Int
    BY <1>4, <1>5
  <2>4. Min(I) = k
    <3> HIDE DEF I
    <3>q. QED
      BY <2>1, <2>3 DEF Min
  <2>q. QED
    BY <2>1, <2>2, <2>4
<1>q. QED
  BY <1>4, <1>7

-----------------------------------------------------------------------------
(* What is true of an application and a call at each stage of it.          *)
Checked(w) ==
  CASE w.entry = "tool" -> _validate_tool_handler(w)
    [] w.entry = "job" -> _validate_job_handler(w)
    [] w.entry = "task" -> task(w)
    [] w.entry = "route" -> route(w)

Progresses == {"written", "bound", "ready", "refused", "called", "validated", "running",
           "not_a_scope", "opened", "invoked", "presented"} \cup Rejections

(* Validated already; a route is, after its context is opened. *)
InputAccepted ==
  \/ progress \in {"validated", "invoked", "presented"}
  \/ progress \in {"running", "opened"} /\ wiring.entry # "route"

InContext ==
  \/ progress \in {"opened", "invoked", "presented"}
  \/ progress = "validated" /\ wiring.entry = "route"

WiringFits ==
  /\ wiring \in Wirings
  /\ progress \notin {"written", "refused"} /\ wiring.entry # "execute" => Checked(wiring)
  /\ progress \notin {"written", "bound", "refused"} =>
       /\ UniqueNames(_append_handlers(wiring.items))
       /\ wiring.entry \in {"tool", "task", "route"} => ConfiguresRunner(wiring)

GivenFits ==
  /\ given.how = "message" =>
       wiring.entry = "job" /\ given.value \in Accepts[wiring.declared["request"]]
  /\ progress \in Rejections => given.how # "message"
  /\ InputAccepted => Keywords = Passed(kwargs)

OpenedFits ==
  /\ opened \subseteq {"lifespan", "context"}
  /\ progress \in {"written", "bound", "ready", "refused", "called"} => opened = {}
  /\ progress \in {"validated"} \cup Rejections /\ wiring.entry # "route" => opened = {}
  /\ TakesState /\ (progress = "running" \/ InContext) => "lifespan" \in opened
  /\ InContext => "context" \in opened

BindInv ==
  /\ progress \in Progresses
  /\ WiringFits
  /\ GivenFits
  /\ OpenedFits

(* Keywords bind a signature that requires no other and can take each.     *)
LEMMA BindsIf ==
  ASSUME NEW parameters, NEW keys,
         OthersOptional(parameters, keys),
         AddressableIfThere(parameters, keys),
         keys \subseteq DOMAIN parameters \/ TakesAny(parameters)
  PROVE  Binds(parameters, keys)
BY DEF OthersOptional, AddressableIfThere, Binds, Required

(* What is passed when an input is accepted, by the entry that accepts it. *)
LEMMA KeywordsAre ==
  ASSUME wiring \in Wirings
  PROVE  \/ \E k : Keywords = Passed(k)
         \/ \E why \in Rejections : Keywords = Refused(why)
<1>1. wiring.entry \in {"tool", "job", "task", "execute", "route"}
  BY WiringsAssumption
<1>2. \A t : \/ \E k : Keyword(t) = Passed(k)
             \/ \E why \in Rejections : Keyword(t) = Refused(why)
  BY DEF Keyword, Rejections
<1>3. \/ \E k : _task_kwargs = Passed(k)
      \/ \E why \in Rejections : _task_kwargs = Refused(why)
  BY <1>2 DEF _task_kwargs, Rejections
<1>4. CASE wiring.entry = "tool"
  BY <1>2, <1>4 DEF Keywords, _tool_kwargs, Rejections
<1>5. CASE wiring.entry = "job"
  BY <1>2, <1>5 DEF Keywords
<1>6. CASE wiring.entry = "task"
  BY <1>3, <1>6 DEF Keywords
<1>7. CASE wiring.entry = "execute"
  BY <1>3, <1>7 DEF Keywords, _validated_kwargs, Rejections
<1>8. CASE wiring.entry = "route"
  BY <1>8 DEF Keywords, RouteKwargs, Rejections
<1>q. QED
  BY <1>1, <1>4, <1>5, <1>6, <1>7, <1>8

(* The verdict of an input says whether there are keywords.                *)
LEMMA VerdictIs ==
  ASSUME wiring \in Wirings
  PROVE  /\ Keywords.verdict \in {"validated"} \cup Rejections
         /\ Keywords.verdict = "validated" => Keywords = Passed(Keywords.arguments)
BY KeywordsAre DEF Passed, Refused, Rejections

(* The one keyword of an accepted input is the input.                      *)
LEMMA KeywordPasses ==
  ASSUME NEW t, NEW k, Keyword(t) = Passed(k)
  PROVE  k = [request |-> given.value] /\ given.value \in Accepts[t]
<1>1. given.value \in Accepts[t]
  BY DEF Keyword, Passed, Refused
<1>2. Passed([request |-> given.value]) = Passed(k)
  BY <1>1 DEF Keyword
<1>q. QED
  BY <1>1, <1>2 DEF Passed

(* An accepted request is one that the annotation resolved accepts.        *)
Fits(k, parameters) ==
  \A n \in DOMAIN k :
    /\ n \in DOMAIN parameters
    /\ Resolves(wiring.globals, parameters[n].note)
    /\ k[n] \in Accepts[_resolved_annotation(wiring.globals, parameters[n].note)]

(* What a task, or execute, passes is what its signature takes.            *)
LEMMA TaskPasses ==
  ASSUME NEW k, _task_kwargs = Passed(k), _validate_use_case_shape(wiring),
         Supplied /\ given.how # "both" /\ "request" \in DOMAIN wiring.use_case.parameters
           => Usable(wiring, RequestNote(wiring))
  PROVE  /\ Binds(wiring.use_case.parameters, {"context"} \cup DOMAIN k)
         /\ Fits(k, wiring.use_case.parameters)
<1> DEFINE P == wiring.use_case.parameters
<1> USE DEF Passed, Refused
<1>1. /\ AddressableIfThere(P, {"request", "context"})
      /\ "context" \in DOMAIN P \/ TakesAny(P)
      /\ OthersOptional(P, {"request", "context"})
  BY DEF _validate_use_case_shape
<1>2. given.how # "both"
  BY DEF _task_kwargs
<1>3. CASE "request" \notin DOMAIN P
  <2>1. k = <<>> /\ DOMAIN k = {}
    BY <1>2, <1>3 DEF _task_kwargs
  <2>2. OthersOptional(P, {"context"}) /\ AddressableIfThere(P, {"context"})
    BY <1>1, <1>3 DEF OthersOptional, AddressableIfThere, Required
  <2>3. Binds(P, {"context"})
    BY <1>1, <2>2, BindsIf
  <2>4. {"context"} \cup DOMAIN k = {"context"}
    BY <2>1
  <2>q. QED
    BY <2>1, <2>3, <2>4 DEF Fits
<1>4. CASE "request" \in DOMAIN P /\ ~Supplied
  <2>1. k = <<>> /\ DOMAIN k = {} /\ P["request"].default
    BY <1>2, <1>4 DEF _task_kwargs
  <2>2. OthersOptional(P, {"context"}) /\ AddressableIfThere(P, {"context"})
    BY <1>1, <2>1 DEF OthersOptional, AddressableIfThere, Required
  <2>3. Binds(P, {"context"})
    BY <1>1, <2>2, BindsIf
  <2>4. {"context"} \cup DOMAIN k = {"context"}
    BY <2>1
  <2>q. QED
    BY <2>1, <2>3, <2>4 DEF Fits
<1>5. CASE "request" \in DOMAIN P /\ Supplied
  <2>1. Keyword(_resolved_annotation(wiring.globals, RequestNote(wiring))) = Passed(k)
    BY <1>2, <1>5 DEF _task_kwargs
  <2>2. /\ k = [request |-> given.value]
        /\ given.value \in Accepts[_resolved_annotation(wiring.globals, RequestNote(wiring))]
    <3> HIDE DEF Passed
    <3>q. QED
      BY <2>1, KeywordPasses
  <2>3. DOMAIN k = {"request"} /\ k["request"] = given.value
    BY <2>2
  <2>4. Fits(k, P)
    BY <1>2, <1>5, <2>2, <2>3 DEF Fits, Usable, RequestNote
  <2>5. {"context"} \cup DOMAIN k = {"request", "context"}
    BY <2>3
  <2>6. Binds(P, {"request", "context"})
    BY <1>1, <1>5, BindsIf
  <2>q. QED
    BY <2>4, <2>5, <2>6
<1>q. QED
  BY <1>3, <1>4, <1>5

(* What an accepted input becomes binds the signature of a use case that   *)
(* its entry has checked.                                                  *)
LEMMA AcceptedBinds ==
  ASSUME wiring \in Wirings, NEW k, Keywords = Passed(k),
         wiring.entry # "execute" => Checked(wiring)
  PROVE  /\ Binds(wiring.use_case.parameters, {"context"} \cup DOMAIN k)
         /\ Fits(k, wiring.use_case.parameters)
<1> DEFINE P == wiring.use_case.parameters
<1>1. /\ wiring.entry \in {"tool", "job", "task", "execute", "route"}
      /\ wiring.entry = "tool" => DOMAIN wiring.declared \in {{}, {"request"}}
      /\ wiring.entry = "job" => DOMAIN wiring.declared = {"request"}
  BY WiringsAssumption
<1>2. CASE wiring.entry = "tool"
  <2>1. /\ DOMAIN P = {"context"} \cup DOMAIN wiring.declared
        /\ \A n \in DOMAIN P : P[n].kind \in Addressable
        /\ \A n \in DOMAIN wiring.declared : Matches(wiring.globals, P[n].note, wiring.declared[n])
    BY <1>2 DEF Checked, _validate_tool_handler, _validate_handler_shape
  <2>2. _tool_kwargs = Passed(k) /\ given.how # "both"
    BY <1>2 DEF Keywords, _tool_kwargs, Passed, Refused
  <2>3. CASE DOMAIN wiring.declared = {}
    <3>1. k = <<>> /\ DOMAIN k = {}
      BY <2>2, <2>3 DEF _tool_kwargs, Passed, Refused
    <3>q. QED
      BY <2>1, <2>3, <3>1 DEF Fits, Binds, Required
  <2>4. CASE DOMAIN wiring.declared = {"request"}
    <3>1. Keyword(wiring.declared["request"]) = Passed(k)
      BY <2>2, <2>4 DEF _tool_kwargs, Passed, Refused
    <3>2. k = [request |-> given.value] /\ given.value \in Accepts[wiring.declared["request"]]
      BY <3>1, KeywordPasses
    <3>3. DOMAIN k = {"request"} /\ k["request"] = given.value
      BY <3>2
    <3>q. QED
      BY <2>1, <2>4, <3>2, <3>3 DEF Fits, Binds, Required, Matches
  <2>q. QED
    BY <1>1, <1>2, <2>3, <2>4
<1>3. CASE wiring.entry = "job"
  <2>1. /\ {"request", "context"} \subseteq DOMAIN P
        /\ AddressableIfThere(P, {"request", "context"})
        /\ OthersOptional(P, {"request", "context"})
        /\ Matches(wiring.globals, P["request"].note, wiring.declared["request"])
    BY <1>3 DEF Checked, _validate_job_handler
  <2>2. Keyword(wiring.declared["request"]) = Passed(k)
    BY <1>3 DEF Keywords
  <2>3. k = [request |-> given.value] /\ given.value \in Accepts[wiring.declared["request"]]
    BY <2>2, KeywordPasses
  <2>4. DOMAIN k = {"request"} /\ k["request"] = given.value
    BY <2>3
  <2>5. Binds(P, {"request", "context"})
    BY <2>1, BindsIf
  <2>6. {"context"} \cup DOMAIN k = {"request", "context"}
    BY <2>4
  <2>q. QED
    BY <2>1, <2>3, <2>4, <2>5, <2>6 DEF Fits, Matches
<1>4. CASE wiring.entry = "task"
  <2>1. task(wiring) /\ _task_kwargs = Passed(k)
    BY <1>4 DEF Checked, Keywords
  <2>q. QED
    BY <2>1, TaskPasses DEF task
<1>5. CASE wiring.entry = "execute"
  <2>1. _validated_kwargs = Passed(k)
    BY <1>5 DEF Keywords
  <2>2. /\ _validate_use_case_shape(wiring)
        /\ Supplied /\ given.how # "both" /\ "request" \in DOMAIN P => Usable(wiring, RequestNote(wiring))
        /\ _task_kwargs = Passed(k)
    BY <2>1 DEF _validated_kwargs, Passed, Refused
  <2>q. QED
    BY <2>2, TaskPasses
<1>6. CASE wiring.entry = "route"
  <2> DEFINE passed == {"context"} \cup DOMAIN wiring.declared
  <2>1. /\ passed \subseteq DOMAIN P \/ TakesAny(P)
        /\ AddressableIfThere(P, passed)
        /\ OthersOptional(P, passed)
        /\ _check_type_coherence(wiring)
    BY <1>6 DEF Checked, route
  <2>2. Binds(P, passed)
    BY <2>1, BindsIf
  <2>3. \A n \in DOMAIN wiring.declared : given.value \in Accepts[wiring.declared[n]]
    BY <1>6 DEF Keywords, RouteKwargs, Passed, Refused
  <2>4. k = [n \in DOMAIN wiring.declared |-> given.value]
    BY <1>6, <2>3 DEF Keywords, RouteKwargs, Passed
  <2>5. \A n \in DOMAIN wiring.declared :
          n \in DOMAIN P /\ Matches(wiring.globals, P[n].note, wiring.declared[n])
    BY <2>1 DEF _check_type_coherence
  <2>q. QED
    BY <2>2, <2>3, <2>4, <2>5 DEF Fits, Matches
<1>q. QED
  BY <1>1, <1>2, <1>3, <1>4, <1>5, <1>6

(* A projector that its route has checked takes what it is given.          *)
LEMMA ProjectorTakesIt ==
  ASSUME wiring.entry = "route", Checked(wiring), wiring.projector.given
  PROVE  wiring.projector.count = 1 /\ wiring.projector.kind \in Positional
<1>1. route(wiring)
  BY DEF Checked
<1>2. IF wiring.responses THEN _check_presenter(wiring) ELSE _check_response_headers_projector(wiring)
  BY <1>1 DEF route
<1>q. QED
  BY <1>2 DEF _check_presenter, _check_response_headers_projector, ProjectsFrom

(* An application that is bound has been checked by its entry.             *)
LEMMA CheckedUnlessRefused ==
  ASSUME wiring \in Wirings, Bind, progress' # "refused"
  PROVE  Checked(wiring) /\ progress' = "bound"
<1>1. wiring.entry \in {"tool", "job", "task", "execute", "route"} /\ wiring.entry # "execute"
  BY WiringsAssumption DEF Bind
<1>q. QED
  BY <1>1 DEF Bind, Checked

(* What is passed depends on the application and the call only.            *)
LEMMA KeywordsStay ==
  ASSUME UNCHANGED <<wiring, given>>
  PROVE  UNCHANGED Keywords
BY DEF Keywords, _tool_kwargs, _task_kwargs, _validated_kwargs, RouteKwargs, Keyword, Supplied,
   Passed, Refused, RequestNote, Usable, Resolves, _resolved_annotation, _validate_use_case_shape,
   AddressableIfThere, OthersOptional, TakesAny, Required

(* A message is a job's, and what it carries is accepted.                  *)
LEMMA MessagePasses ==
  ASSUME given.how = "message", GivenFits
  PROVE  Keywords.verdict = "validated"
<1>1. wiring.entry = "job" /\ given.value \in Accepts[wiring.declared["request"]]
  BY DEF GivenFits
<1>q. QED
  BY <1>1 DEF Keywords, Keyword, Passed

(* Each step keeps the invariant: the check of a signature,                *)
LEMMA BindStep == BindInv /\ Bind => BindInv'
<1> SUFFICES ASSUME BindInv, Bind PROVE BindInv'
  OBVIOUS
<1>1. /\ UNCHANGED <<wiring, given, kwargs, opened>>
      /\ wiring \in Wirings /\ opened = {} /\ progress' \in {"bound", "refused"}
  BY DEF Bind, BindInv, WiringFits, OpenedFits
<1>2. progress' = "bound" => Checked(wiring)
  BY <1>1, CheckedUnlessRefused
<1>3. WiringFits'
  BY <1>1, <1>2 DEF WiringFits, Checked
<1>4. GivenFits'
  BY <1>1 DEF BindInv, GivenFits, InputAccepted, Rejections
<1>5. OpenedFits'
  BY <1>1 DEF OpenedFits, InContext, Rejections
<1>q. QED
  BY <1>1, <1>3, <1>4, <1>5 DEF BindInv, Progresses

(* the composition of a runner,                                            *)
LEMMA RegisterStep == BindInv /\ Register => BindInv'
<1> SUFFICES ASSUME BindInv, Register PROVE BindInv'
  OBVIOUS
<1>1. /\ UNCHANGED <<wiring, given, kwargs, opened>>
      /\ progress' \in {"ready", "refused"}
      /\ progress' = "ready" =>
           /\ UniqueNames(_append_handlers(wiring.items))
           /\ wiring.entry \in {"tool", "task", "route"} => ConfiguresRunner(wiring)
  BY DEF Register
<1>2. opened = {} /\ (wiring.entry # "execute" => Checked(wiring))
  BY DEF Register, BindInv, WiringFits, OpenedFits
<1>3. WiringFits'
  BY <1>1, <1>2 DEF BindInv, WiringFits, Checked
<1>4. GivenFits'
  BY <1>1 DEF BindInv, GivenFits, InputAccepted, Rejections
<1>5. OpenedFits'
  BY <1>1, <1>2 DEF OpenedFits, InContext, Rejections
<1>q. QED
  BY <1>1, <1>3, <1>4, <1>5 DEF BindInv, Progresses

(* A call, the producer's or anyone's: both start from a runner at rest.   *)
LEMMA CallStep ==
  ASSUME BindInv, progress = "ready", progress' = "called",
         UNCHANGED <<wiring, kwargs, opened>>,
         given'.how = "message" =>
           wiring.entry = "job" /\ given'.value \in Accepts[wiring.declared["request"]]
  PROVE  BindInv'
<1>1. WiringFits'
  BY DEF BindInv, WiringFits, Checked
<1>2. GivenFits'
  BY DEF GivenFits, InputAccepted, Rejections
<1>3. OpenedFits'
  BY DEF BindInv, OpenedFits, InContext, Rejections
<1>q. QED
  BY <1>1, <1>2, <1>3 DEF BindInv, Progresses

(* a call, with whatever input,                                            *)
LEMMA GiveStep ==
  ASSUME BindInv, NEW how \in {"nothing", "python", "json", "both"}, NEW v, Give(how, v)
  PROVE  BindInv'
BY CallStep DEF Give

(* What the producer may enqueue the worker accepts.                       *)
LEMMA MessageStep ==
  ASSUME BindInv, NEW v, job_message(v)
  PROVE  BindInv'
<1> DEFINE t == wiring.declared["request"]
<1>1. /\ progress = "ready" /\ progress' = "called" /\ wiring.entry = "job"
      /\ UNCHANGED <<wiring, kwargs, opened>>
      /\ Dump[t][v] \in Strict[t]
      /\ given' = [how |-> "message", value |-> Dump[t][v]]
  BY DEF job_message, _serialized_job_payload
<1>2. t \in Types
  BY <1>1, WiringsAssumption DEF BindInv, WiringFits
<1>3. Dump[t][v] \in Accepts[t]
  BY <1>1, <1>2, BindingAssumption
<1>q. QED
  BY <1>1, <1>3, CallStep

(* the validation of an input, which happens before anything is opened or, *)
(* in a route, after the context is,                                       *)
LEMMA ValidateStep == BindInv /\ Validate => BindInv'
<1> SUFFICES ASSUME BindInv, Validate PROVE BindInv'
  OBVIOUS
<1>1. /\ UNCHANGED <<wiring, given, opened>>
      /\ progress = IF wiring.entry = "route" THEN "opened" ELSE "called"
      /\ progress' = Keywords.verdict /\ kwargs' = Keywords.arguments
  BY DEF Validate
<1>2. /\ wiring \in Wirings
      /\ Keywords' = Keywords
      /\ progress' \in {"validated"} \cup Rejections
      /\ progress' = "validated" => Keywords = Passed(kwargs')
  BY <1>1, VerdictIs, KeywordsStay DEF BindInv, WiringFits
<1>3. WiringFits'
  BY <1>1, <1>2 DEF BindInv, WiringFits, Checked
<1>4. GivenFits'
  <2>1. given.how = "message" => progress' = "validated"
    BY <1>1, MessagePasses DEF BindInv
  <2>2. progress' \in Rejections => given'.how # "message"
    BY <1>1, <2>1 DEF Rejections
  <2>3. InputAccepted' => progress' = "validated"
    BY <1>2 DEF InputAccepted, Rejections
  <2>4. Passed(kwargs)' = Passed(kwargs')
    BY DEF Passed
  <2>q. QED
    BY <1>1, <1>2, <2>2, <2>3, <2>4 DEF BindInv, GivenFits
<1>5. OpenedFits'
  <2>1. TakesState' = TakesState
    BY <1>1 DEF TakesState, _context_factory_takes_state, BindsPositional
  <2>2. CASE wiring.entry = "route"
    <3>1. InContext
      BY <1>1, <2>2 DEF InContext
    <3>q. QED
      BY <1>1, <1>2, <2>1, <2>2, <3>1 DEF BindInv, OpenedFits, InContext, Rejections
  <2>3. CASE wiring.entry # "route"
    <3>1. opened = {} /\ ~InContext' /\ progress' # "running"
      BY <1>1, <1>2, <2>3 DEF BindInv, OpenedFits, InContext, Rejections
    <3>q. QED
      BY <1>1, <3>1 DEF OpenedFits
  <2>q. QED
    BY <2>2, <2>3
<1>q. QED
  BY <1>2, <1>3, <1>4, <1>5 DEF BindInv, Progresses

(* the lifespan, which a context factory that takes its state waits for,   *)
LEMMA LifespanStep == BindInv /\ _open_lifespan => BindInv'
<1> SUFFICES ASSUME BindInv, _open_lifespan PROVE BindInv'
  OBVIOUS
<1>1. /\ UNCHANGED <<wiring, given, kwargs>>
      /\ progress = IF wiring.entry = "route" THEN "called" ELSE "validated"
      /\ progress' \in {"running", "not_a_scope"}
      /\ opened' = opened \/ opened' = opened \cup {"lifespan"}
      /\ progress' = "running" /\ wiring.entry \in {"tool", "task", "route"} /\ wiring.lifespan.given
           => "lifespan" \in opened'
  BY DEF _open_lifespan
<1>2. /\ wiring \in Wirings /\ opened = {}
      /\ wiring.entry \in {"tool", "task", "route"} => ConfiguresRunner(wiring)
  BY <1>1 DEF BindInv, WiringFits, OpenedFits
<1>3. WiringFits'
  BY <1>1 DEF BindInv, WiringFits, Checked
<1>4. GivenFits'
  <2>1. InputAccepted' => InputAccepted
    BY <1>1 DEF InputAccepted
  <2>2. Keywords' = Keywords /\ Passed(kwargs)' = Passed(kwargs)
    BY <1>1, KeywordsStay DEF Passed
  <2>q. QED
    BY <1>1, <2>1, <2>2 DEF BindInv, GivenFits, Rejections
<1>5. OpenedFits'
  <2>1. TakesState' => wiring.entry \in {"tool", "task", "route"} /\ wiring.lifespan.given
    BY <1>1, <1>2 DEF TakesState, _context_factory_takes_state, BindsPositional, ConfiguresRunner
  <2>2. ~InContext'
    BY <1>1 DEF InContext
  <2>q. QED
    BY <1>1, <1>2, <2>1, <2>2 DEF OpenedFits, Rejections
<1>q. QED
  BY <1>1, <1>3, <1>4, <1>5 DEF BindInv, Progresses

(* the context,                                                            *)
LEMMA ContextStep == BindInv /\ open_context => BindInv'
<1> SUFFICES ASSUME BindInv, open_context PROVE BindInv'
  OBVIOUS
<1>1. /\ UNCHANGED <<wiring, given, kwargs>>
      /\ progress = "running" /\ progress' \in {"opened", "not_a_scope"}
      /\ opened' = opened \/ opened' = opened \cup {"context"}
      /\ progress' = "opened" => "context" \in opened'
  BY DEF open_context
<1>2. WiringFits'
  BY <1>1 DEF BindInv, WiringFits, Checked
<1>3. GivenFits'
  <2>1. InputAccepted' => InputAccepted
    BY <1>1 DEF InputAccepted
  <2>2. Keywords' = Keywords /\ Passed(kwargs)' = Passed(kwargs)
    BY <1>1, KeywordsStay DEF Passed
  <2>q. QED
    BY <1>1, <2>1, <2>2 DEF BindInv, GivenFits, Rejections
<1>4. OpenedFits'
  <2>1. TakesState' = TakesState
    BY <1>1 DEF TakesState, _context_factory_takes_state, BindsPositional
  <2>2. TakesState => "lifespan" \in opened
    BY <1>1 DEF BindInv, OpenedFits
  <2>3. InContext' => "context" \in opened'
    BY <1>1 DEF InContext
  <2>q. QED
    BY <1>1, <2>1, <2>2, <2>3 DEF BindInv, OpenedFits, Rejections
<1>q. QED
  BY <1>1, <1>2, <1>3, <1>4 DEF BindInv, Progresses

(* The use case is called with keywords that bind it.                      *)
LEMMA InvokeStep == BindInv /\ Invoke => BindInv'
<1> SUFFICES ASSUME BindInv, Invoke PROVE BindInv'
  OBVIOUS
<1>1. /\ UNCHANGED <<wiring, given, kwargs, opened>>
      /\ progress = IF wiring.entry = "route" THEN "validated" ELSE "opened"
  BY DEF Invoke
<1>2. /\ wiring \in Wirings /\ (wiring.entry # "execute" => Checked(wiring))
      /\ InputAccepted /\ InContext
      /\ Keywords = Passed(kwargs)
  BY <1>1 DEF BindInv, WiringFits, GivenFits, InputAccepted, InContext
<1>3. Binds(wiring.use_case.parameters, {"context"} \cup DOMAIN kwargs)
  BY <1>2, AcceptedBinds
<1>4. progress' = "invoked"
  BY <1>3 DEF Invoke
<1>5. WiringFits'
  BY <1>1, <1>4 DEF BindInv, WiringFits, Checked
<1>6. GivenFits'
  <2>1. Keywords' = Keywords /\ Passed(kwargs)' = Passed(kwargs)
    BY <1>1, KeywordsStay DEF Passed
  <2>q. QED
    BY <1>1, <1>2, <1>4, <2>1 DEF BindInv, GivenFits, Rejections
<1>7. OpenedFits'
  <2>1. TakesState' = TakesState
    BY <1>1 DEF TakesState, _context_factory_takes_state, BindsPositional
  <2>q. QED
    BY <1>1, <1>2, <1>4, <2>1 DEF BindInv, OpenedFits, Rejections
<1>q. QED
  BY <1>4, <1>5, <1>6, <1>7 DEF BindInv, Progresses

(* and the projection of a response;                                       *)
LEMMA ProjectStep == BindInv /\ Project => BindInv'
<1> SUFFICES ASSUME BindInv, Project PROVE BindInv'
  OBVIOUS
<1>1. /\ UNCHANGED <<wiring, given, kwargs, opened>>
      /\ progress = "invoked" /\ wiring.entry = "route" /\ wiring.projector.given
  BY DEF Project
<1>2. Checked(wiring)
  BY <1>1 DEF BindInv, WiringFits
<1>3. progress' = "presented"
  BY <1>1, <1>2, ProjectorTakesIt DEF Project
<1>4. WiringFits'
  BY <1>1, <1>3 DEF BindInv, WiringFits, Checked
<1>5. GivenFits'
  <2>1. Keywords' = Keywords /\ Passed(kwargs)' = Passed(kwargs)
    BY <1>1, KeywordsStay DEF Passed
  <2>2. InputAccepted
    BY <1>1 DEF InputAccepted
  <2>q. QED
    BY <1>1, <1>3, <2>1, <2>2 DEF BindInv, GivenFits, Rejections
<1>6. OpenedFits'
  <2>1. TakesState' = TakesState
    BY <1>1 DEF TakesState, _context_factory_takes_state, BindsPositional
  <2>2. InContext
    BY <1>1 DEF InContext
  <2>q. QED
    BY <1>1, <1>3, <2>1, <2>2 DEF BindInv, OpenedFits, Rejections
<1>q. QED
  BY <1>3, <1>4, <1>5, <1>6 DEF BindInv, Progresses

(* and so does no step at all.                                             *)
LEMMA BindStutter == BindInv /\ UNCHANGED bindingVars => BindInv'
<1> SUFFICES ASSUME BindInv, UNCHANGED bindingVars PROVE BindInv'
  OBVIOUS
<1>1. UNCHANGED <<wiring, progress, given, kwargs, opened>>
  BY DEF bindingVars
<1>2. Keywords' = Keywords /\ Passed(kwargs)' = Passed(kwargs)
  BY <1>1, KeywordsStay DEF Passed
<1>3. TakesState' = TakesState
  BY <1>1 DEF TakesState, _context_factory_takes_state, BindsPositional
<1>4. WiringFits'
  BY <1>1 DEF BindInv, WiringFits, Checked
<1>5. GivenFits'
  BY <1>1, <1>2 DEF BindInv, GivenFits, InputAccepted
<1>6. OpenedFits'
  BY <1>1, <1>3 DEF BindInv, OpenedFits, InContext
<1>q. QED
  BY <1>1, <1>4, <1>5, <1>6 DEF BindInv

(* The invariant says what is promised of calls.                           *)
LEMMA BoundCallsFollow == BindInv => BoundCallsFit
<1> SUFFICES ASSUME BindInv PROVE BoundCallsFit
  OBVIOUS
<1> DEFINE P == wiring.use_case.parameters
<1>1. progress # "type_error"
  BY DEF BindInv, Progresses, Rejections
<1>2. ASSUME progress = "invoked"
      PROVE  /\ "context" \in opened
             /\ TakesState => "lifespan" \in opened
             /\ _append_handlers(wiring.items)[Selected("own")].ours
  <2>1. InContext
    BY <1>2 DEF InContext
  <2>2. wiring \in Wirings /\ UniqueNames(_append_handlers(wiring.items))
    BY <1>2 DEF BindInv, WiringFits
  <2>q. QED
    BY <2>1, <2>2, OwnIsSelected DEF BindInv, OpenedFits
<1>3. ASSUME progress = "invoked", NEW n \in DOMAIN kwargs
      PROVE  /\ Meaning(P[n].note) # {}
             /\ \A t \in Meaning(P[n].note) : kwargs[n] \in Accepts[t] \ {Unset}
  <2> DEFINE meant == _resolved_annotation(wiring.globals, P[n].note)
  <2>1. wiring \in Wirings /\ (wiring.entry # "execute" => Checked(wiring))
    BY <1>3 DEF BindInv, WiringFits
  <2>2. Keywords = Passed(kwargs)
    BY <1>3 DEF BindInv, GivenFits, InputAccepted
  <2>3. Resolves(wiring.globals, P[n].note) /\ kwargs[n] \in Accepts[meant]
    BY <1>3, <2>1, <2>2, AcceptedBinds DEF Fits
  <2>4. Meaning(P[n].note) = {meant}
    BY <2>1, <2>3, ResolvedIsMeant
  <2>5. meant \in Types
    BY <2>3 DEF Resolves
  <2>6. kwargs[n] # Unset
    <3> HIDE DEF meant
    <3>q. QED
      BY <2>3, <2>5, BindingAssumption
  <2> HIDE DEF meant
  <2>q. QED
    BY <2>3, <2>4, <2>6
<1>4. ASSUME progress \in Rejections
      PROVE  /\ opened \subseteq IF wiring.entry = "route" THEN {"lifespan", "context"} ELSE {}
             /\ given.how # "message"
  BY <1>4 DEF BindInv, OpenedFits, GivenFits
<1>q. QED
  BY <1>1, <1>2, <1>3, <1>4 DEF BoundCallsFit

BindingSpec == BindingInit /\ [][BindingNext]_bindingVars

(* Whatever an application wrote and whatever it is called with: what was  *)
(* bound and registered is called with arguments that its signature takes  *)
(* and its annotations mean, in the scopes that its context needs; a       *)
(* refused input opened none but a route's, and a job's own message is     *)
(* never refused.                                                          *)
THEOREM BindingsFit == BindingSpec => []BoundCallsFit
<1>1. BindingInit => BindInv
  BY DEF BindingInit, BindInv, Progresses, Rejections, WiringFits, GivenFits, InputAccepted,
     OpenedFits, InContext
<1>2. BindInv /\ [BindingNext]_bindingVars => BindInv'
  BY BindStep, RegisterStep, ValidateStep, LifespanStep, ContextStep, InvokeStep, ProjectStep,
     GiveStep, MessageStep, BindStutter DEF BindingNext
<1>q. QED
  BY <1>1, <1>2, BoundCallsFollow, PTL DEF BindingSpec

----------------------------------------------------------------------------
(* The elements of a concatenation.                                        *)
LEMMA Concatenated ==
  \A S : \A s, t \in Seq(S) :
    /\ Len(s \o t) = Len(s) + Len(t)
    /\ \A i \in 1..(Len(s) + Len(t)) : (s \o t)[i] = IF i <= Len(s) THEN s[i] ELSE t[i - Len(s)]
  BY ConcatProperties, Zenon

(* Sequences of one element each, but for the last, are flattened to their *)
(* elements and the last.                                                  *)
LEMMA FlattenedPath ==
  ASSUME NEW S, NEW seqs \in Seq(Seq(S)), seqs # <<>>,
         \A i \in 1..(Len(seqs) - 1) : Len(seqs[i]) = 1
  PROVE  LET flat == FlattenSeq(seqs)
             n == Len(seqs)
         IN  /\ flat \in Seq(S)
             /\ Len(flat) = n - 1 + Len(seqs[n])
             /\ \A k \in 1..(n - 1) : flat[k] = seqs[k][1]
             /\ \A k \in 1..Len(seqs[n]) : flat[n - 1 + k] = seqs[n][k]
             /\ SubSeq(flat, n, Len(flat)) = seqs[n]
<1> DEFINE n == Len(seqs)
<1>1. n \in Nat /\ n >= 1 /\ \A k \in 1..n : seqs[k] \in Seq(S)
  OBVIOUS
<1>2. PICK f : /\ FlattenSeq(seqs) = f[n]
               /\ \A k \in 1..n : f[k] \in Seq(S) /\ f[k] = IF k = 1 THEN seqs[k] ELSE f[k - 1] \o seqs[k]
  BY FlatteningOf
<1>3. \A i \in 1..(n - 1) : Len(seqs[i]) = 1
  OBVIOUS
<1> HIDE DEF n
<1> DEFINE Joined(k) == Len(f[k]) = k /\ \A j \in 1..k : f[k][j] = seqs[j][1]
<1>4. \A k \in 1..(n - 1) : Joined(k)
  <2> DEFINE Odd == {k \in 1..(n - 1) : ~Joined(k)}
  <2>1. SUFFICES ASSUME Odd # {} PROVE FALSE
    OBVIOUS
  <2>2. PICK k \in Odd : \A j \in Odd : k <= j
    <3>1. Odd \subseteq Nat
      BY <1>1
    <3> HIDE DEF Odd
    <3>q. QED
      BY <2>1, <3>1, LeastNumber
  <2>3. k \in Nat /\ k \in 1..(n - 1) /\ k \in 1..n /\ seqs[k] \in Seq(S) /\ Len(seqs[k]) = 1
    BY <1>1, <1>3, <2>2
  <2>x. ~Joined(k)
    BY <2>2
  <2>4. CASE k = 1
    <3>1. f[1] = seqs[1]
      BY <1>2, <2>3, <2>4
    <3>2. Joined(1)
      BY <2>3, <2>4, <3>1
    <3>q. QED
      BY <2>x, <2>4, <3>2
  <2>5. CASE k # 1
    <3>1. k - 1 \in 1..(n - 1) /\ k - 1 < k /\ k - 1 \in 1..n
      BY <1>1, <2>3, <2>5
    <3>2. Len(f[k - 1]) = k - 1 /\ \A j \in 1..(k - 1) : f[k - 1][j] = seqs[j][1]
      <4> HIDE DEF Odd, Joined
      <4>1. k - 1 \notin Odd
        BY <2>2, <2>3, <3>1
      <4>2. Joined(k - 1)
        BY <3>1, <4>1 DEF Odd
      <4>q. QED
        BY <4>2 DEF Joined
    <3>3. f[k] = f[k - 1] \o seqs[k] /\ f[k - 1] \in Seq(S)
      BY <1>2, <2>3, <2>5, <3>1
    <3>x. /\ Len(f[k]) = Len(f[k - 1]) + Len(seqs[k])
          /\ \A j \in 1..(Len(f[k - 1]) + Len(seqs[k])) :
               f[k][j] = IF j <= Len(f[k - 1]) THEN f[k - 1][j] ELSE seqs[k][j - Len(f[k - 1])]
      <4> DEFINE s == f[k - 1]
      <4> DEFINE t == seqs[k]
      <4>1. s \in Seq(S) /\ t \in Seq(S) /\ f[k] = s \o t
        BY <2>3, <3>3
      <4> HIDE DEF s, t
      <4>2. /\ Len(s \o t) = Len(s) + Len(t)
            /\ \A i \in 1..(Len(s) + Len(t)) : (s \o t)[i] = IF i <= Len(s) THEN s[i] ELSE t[i - Len(s)]
        BY <4>1, Concatenated, Zenon
      <4>3. /\ Len(f[k]) = Len(s) + Len(t)
            /\ \A j \in 1..(Len(s) + Len(t)) : f[k][j] = IF j <= Len(s) THEN s[j] ELSE t[j - Len(s)]
        BY <4>1, <4>2, Zenon
      <4>q. QED
        BY <4>3 DEF s, t
    <3>4. Len(f[k]) = k
      BY <2>3, <3>2, <3>x
    <3>5. \A j \in 1..k : f[k][j] = seqs[j][1]
      BY <2>3, <3>1, <3>2, <3>x
    <3>q. QED
      BY <2>x, <3>4, <3>5
  <2>q. QED
    BY <2>4, <2>5
<1>5. n \in 1..n /\ seqs[n] \in Seq(S) /\ f[n] \in Seq(S)
  BY <1>1, <1>2
<1>6. /\ Len(f[n]) = n - 1 + Len(seqs[n])
      /\ \A k \in 1..(n - 1) : f[n][k] = seqs[k][1]
      /\ \A k \in 1..Len(seqs[n]) : f[n][n - 1 + k] = seqs[n][k]
  <2>1. CASE n = 1
    BY <1>2, <1>5, <2>1
  <2>2. CASE n # 1
    <3>1. n - 1 \in 1..(n - 1) /\ n - 1 \in 1..n
      BY <1>1, <2>2
    <3>2. f[n] = f[n - 1] \o seqs[n] /\ f[n - 1] \in Seq(S)
      BY <1>2, <1>5, <2>2, <3>1
    <3>3. Len(f[n - 1]) = n - 1 /\ \A j \in 1..(n - 1) : f[n - 1][j] = seqs[j][1]
      BY <1>4, <3>1
    <3>x. /\ Len(f[n]) = Len(f[n - 1]) + Len(seqs[n])
          /\ \A j \in 1..(Len(f[n - 1]) + Len(seqs[n])) :
               f[n][j] = IF j <= Len(f[n - 1]) THEN f[n - 1][j] ELSE seqs[n][j - Len(f[n - 1])]
      <4> DEFINE s == f[n - 1]
      <4> DEFINE t == seqs[n]
      <4>1. s \in Seq(S) /\ t \in Seq(S) /\ f[n] = s \o t
        BY <1>5, <3>2
      <4> HIDE DEF s, t
      <4>2. /\ Len(s \o t) = Len(s) + Len(t)
            /\ \A i \in 1..(Len(s) + Len(t)) : (s \o t)[i] = IF i <= Len(s) THEN s[i] ELSE t[i - Len(s)]
        BY <4>1, Concatenated, Zenon
      <4>3. /\ Len(f[n]) = Len(s) + Len(t)
            /\ \A j \in 1..(Len(s) + Len(t)) : f[n][j] = IF j <= Len(s) THEN s[j] ELSE t[j - Len(s)]
        BY <4>1, <4>2, Zenon
      <4>q. QED
        BY <4>3 DEF s, t
    <3>y. Len(seqs[n]) \in Nat
      BY <1>5
    <3>4. Len(f[n]) = n - 1 + Len(seqs[n])
      BY <3>3, <3>x
    <3>5. \A k \in 1..(n - 1) : f[n][k] = seqs[k][1]
      <4> TAKE k \in 1..(n - 1)
      <4>1. k \in 1..(Len(f[n - 1]) + Len(seqs[n])) /\ k <= Len(f[n - 1])
        BY <1>1, <3>3, <3>y
      <4>2. f[n][k] = f[n - 1][k]
        BY <3>x, <4>1
      <4>q. QED
        BY <3>3, <4>2
    <3>6. \A k \in 1..Len(seqs[n]) : f[n][n - 1 + k] = seqs[n][k]
      BY <1>1, <3>3, <3>x, <3>y
    <3>q. QED
      BY <3>4, <3>5, <3>6
  <2>q. QED
    BY <2>1, <2>2
<1>7. SubSeq(f[n], n, Len(f[n])) = seqs[n]
  <2> DEFINE rest == SubSeq(f[n], n, Len(f[n]))
  <2>x. Len(f[n]) \in Nat /\ Len(seqs[n]) \in Nat /\ \A i \in n..Len(f[n]) : f[n][i] \in S
    BY <1>1, <1>5
  <2>y. /\ rest \in Seq(S)
        /\ Len(rest) = IF n <= Len(f[n]) THEN Len(f[n]) - n + 1 ELSE 0
        /\ \A i \in 1..(Len(f[n]) - n + 1) : rest[i] = f[n][n + i - 1]
    BY <1>1, <2>x, SubSeqProperties
  <2> HIDE DEF rest
  <2>1. Len(rest) = Len(seqs[n])
    BY <1>1, <1>6, <2>x, <2>y
  <2>2. \A k \in 1..Len(rest) : rest[k] = seqs[n][k]
    BY <1>1, <1>6, <2>1, <2>x, <2>y
  <2>3. rest = seqs[n]
    BY <1>5, <2>1, <2>2, <2>y, SeqEqual
  <2>q. QED
    BY <2>3 DEF rest
<1>q. QED
  BY <1>2, <1>5, <1>6, <1>7 DEF n

(* A URL without dot segments reaches the server as it is.                 *)
IsWalk(path, n, url) ==
  path = [i \in 0..n |-> IF i = 0 THEN <<>>
                         ELSE IF url[i] = "." THEN path[i - 1]
                         ELSE IF url[i] = ".." THEN SubSeq(path[i - 1], 1, Len(path[i - 1]) - 1)
                         ELSE Append(path[i - 1], url[i])]

(* The walk along a URL that resolves its dot segments.                    *)
LEMMA WalksAre ==
  ASSUME NEW n \in Nat, NEW url
  PROVE  \E path : IsWalk(path, n, url)
<1> DEFINE Endless == {m \in Nat : ~\E path : IsWalk(path, m, url)}
<1>1. SUFFICES ASSUME Endless # {} PROVE FALSE
  <2>1. n \notin Endless
    BY <1>1
  <2>q. QED
    BY <2>1
<1>2. PICK m \in Endless : \A k \in Endless : m <= k
  <2>1. Endless \subseteq Nat
    OBVIOUS
  <2> HIDE DEF Endless
  <2>q. QED
    BY <1>1, <2>1, LeastNumber
<1>3. CASE m = 0
  <2>1. PICK path : path = [i \in 0..0 |-> <<>>]
    OBVIOUS
  <2>2. IsWalk(path, 0, url)
    BY <2>1 DEF IsWalk
  <2>q. QED
    BY <1>3, <2>2
<1>4. CASE m # 0
  <2>1. m - 1 \in Nat /\ m - 1 \notin Endless /\ m \in Nat
    BY <1>2, <1>4
  <2>2. PICK b : IsWalk(b, m - 1, url)
    BY <2>1
  <2>3. PICK path : path = [i \in 0..m |-> IF i = 0 THEN <<>>
                         ELSE IF url[i] = "." THEN b[i - 1]
                         ELSE IF url[i] = ".." THEN SubSeq(b[i - 1], 1, Len(b[i - 1]) - 1)
                         ELSE Append(b[i - 1], url[i])]
    OBVIOUS
  <2>4. \A i \in 0..(m - 1) : path[i] = b[i]
    <3>1. \A i \in 0..(m - 1) : i \in 0..m
      BY <2>1
    <3>q. QED
      BY <2>2, <2>3, <3>1, Zenon DEF IsWalk
  <2>5. \A i \in 0..m : i # 0 => i - 1 \in 0..(m - 1)
    BY <2>1
  <2>6. IsWalk(path, m, url)
    BY <2>3, <2>4, <2>5, Zenon DEF IsWalk
  <2>q. QED
    BY <2>6
<1>q. QED
  BY <1>3, <1>4

(* A URL without dot segments reaches the server as it is.                 *)
LEMMA NormalisedIs ==
  ASSUME NEW S, NEW url \in Seq(S), \A i \in 1..Len(url) : url[i] \notin DotSegments
  PROVE  Normalised(url) = url
<1> DEFINE n == Len(url)
<1>1. n \in Nat /\ \E path : IsWalk(path, n, url)
  BY WalksAre
<1> DEFINE walk == CHOOSE path : IsWalk(path, n, url)
<1>2. IsWalk(walk, n, url)
  BY <1>1
<1>3. Normalised(url) = walk[n]
  BY DEF Normalised, IsWalk
<1> HIDE DEF walk, n
<1>4. /\ walk[0] = <<>>
      /\ \A i \in 1..n : i - 1 \in 0..n /\ walk[i] = Append(walk[i - 1], url[i])
  <2>1. 0 \in 0..n /\ \A i \in 1..n : i \in 0..n /\ i # 0 /\ i - 1 \in 0..n
    BY <1>1
  <2>2. \A i \in 1..n : url[i] # "." /\ url[i] # ".."
    BY DEF n, DotSegments
  <2>q. QED
    BY <1>2, <2>1, <2>2, Zenon DEF IsWalk
<1> DEFINE Walked(i) == walk[i] = SubSeq(url, 1, i)
<1>5. \A i \in 0..n : Walked(i)
  <2> DEFINE Odd == {i \in 0..n : ~Walked(i)}
  <2>1. SUFFICES ASSUME Odd # {} PROVE FALSE
    OBVIOUS
  <2>2. PICK i \in Odd : \A j \in Odd : i <= j
    <3>1. Odd \subseteq Nat
      BY <1>1
    <3> HIDE DEF Odd
    <3>q. QED
      BY <2>1, <3>1, LeastNumber
  <2>3. Walked(0)
    <3>1. SubSeq(url, 1, 0) = <<>>
      BY SubSeqEmpty
    <3>q. QED
      BY <1>4, <3>1
  <2>4. i \in 1..n /\ i - 1 \in 0..n /\ i - 1 < i
    <3>1. i \in 0..n /\ ~Walked(i)
      BY <2>2
    <3>2. i # 0
      BY <2>3, <3>1
    <3>q. QED
      BY <1>1, <3>1, <3>2
  <2>5. Walked(i - 1)
    BY <2>2, <2>4
  <2>6. Append(SubSeq(url, 1, i - 1), url[i]) = SubSeq(url, 1, i)
    BY <1>1, <2>4 DEF n
  <2>7. Walked(i)
    BY <1>4, <2>4, <2>5, <2>6
  <2>q. QED
    BY <2>2, <2>7
<1>6. walk[n] = SubSeq(url, 1, n)
  BY <1>1, <1>5
<1>7. SubSeq(url, 1, Len(url)) = url
  OBVIOUS
<1>q. QED
  BY <1>3, <1>6, <1>7 DEF n

(* Each parameter has a text that its segment admits.                      *)
Fills(path, text) ==
  \A i \in Parameters(path) :
    LET t == text[path[i].name]
    IN  t \in DOMAIN Segments /\ t # "" /\ Range(Segments[t]) \cap DotSegments = {} /\ Admits(path[i], t)
(* What a segment of a path becomes in the URL.                            *)
Piece(path, text, i) ==
  CASE path[i].kind = "literal" -> <<path[i].text>>
    [] path[i].kind = "mixed" -> <<path[i].spells[text[path[i].name]]>>
    [] OTHER -> Segments[text[path[i].name]]

(* Each piece is what its segment matches: one segment of the URL, but for *)
(* a parameter that takes the rest.                                        *)
LEMMA PieceIs ==
  ASSUME NEW path, Compiles(path), NEW text, Fills(path, text), NEW i \in DOMAIN path
  PROVE  LET piece == Piece(path, text, i)
         IN  /\ piece \in Seq(Range(piece)) /\ Len(piece) >= 1 /\ Len(piece) \in Nat
             /\ (path[i].kind = "parameter" /\ path[i].converter = "path") \/ Len(piece) = 1
             /\ \A k \in 1..Len(piece) : piece[k] \notin DotSegments
             /\ CASE path[i].kind = "literal" -> piece[1] = path[i].text
                  [] path[i].kind = "mixed" -> piece[1] \in Range(path[i].spells)
                  [] OTHER -> MatchesConverter(path[i].converter, piece[1])
<1> DEFINE piece == Piece(path, text, i)
<1>1. CASE path[i].kind = "literal"
  <2>1. piece = <<path[i].text>> /\ path[i].text \notin DotSegments
    BY <1>1 DEF Piece, Compiles
  <2>q. QED
    BY <1>1, <2>1 DEF Range
<1>2. CASE path[i].kind = "mixed"
  <2>1. piece = <<path[i].spells[text[path[i].name]]>> /\ Range(path[i].spells) \cap DotSegments = {}
    BY <1>2 DEF Piece, Compiles
  <2>x. i \in Parameters(path)
    BY <1>2 DEF Parameters
  <2>y. Admits(path[i], text[path[i].name])
    BY <2>x DEF Fills
  <2>2. text[path[i].name] \in DOMAIN path[i].spells
    BY <1>2, <2>y DEF Admits, Compiles
  <2>3. path[i].spells[text[path[i].name]] \in Range(path[i].spells)
    BY <2>2 DEF Range
  <2>q. QED
    BY <1>2, <2>1, <2>3 DEF Range
<1>3. CASE path[i].kind \notin {"literal", "mixed"}
  <2> DEFINE t == text[path[i].name]
  <2>1. piece = Segments[t] /\ path[i].kind = "parameter"
    BY <1>3 DEF Piece, Compiles
  <2>2. t \in DOMAIN Segments /\ t # "" /\ Range(Segments[t]) \cap DotSegments = {} /\ Admits(path[i], t)
    BY <1>3 DEF Fills, Parameters
  <2> HIDE DEF t, piece
  <2>3. piece \in Seq(Range(piece)) /\ piece # <<>> /\ (Len(piece) = 1 => piece = <<t>>)
    BY <2>1, <2>2, TextsAssumption
  <2>4. Len(piece) \in Nat /\ Len(piece) >= 1
    BY <2>3
  <2>5. \A k \in 1..Len(piece) : piece[k] \notin DotSegments
    <3>1. Range(piece) \cap DotSegments = {}
      BY <2>1, <2>2
    <3>q. QED
      BY <2>3, <3>1, ElementOfSeq, Zenon
  <2>6. path[i].converter # "path" => Len(piece) = 1
    BY <2>1, <2>2, TextsAssumption DEF Admits
  <2>7. MatchesConverter(path[i].converter, piece[1])
    <3>1. CASE path[i].converter = "path"
      BY <3>1 DEF MatchesConverter
    <3>2. CASE path[i].converter = "int"
      <4>x. t \in Digits
        BY <2>1, <2>2, <3>2 DEF Admits
      <4>1. t \in Digits /\ piece[1] = t
        BY <2>3, <2>6, <3>2, <4>x
      <4>q. QED
        BY <3>2, <4>1 DEF MatchesConverter
    <3>3. CASE path[i].converter \notin {"path", "int"}
      <4>1. piece[1] = t
        BY <2>3, <2>6, <3>3
      <4>q. QED
        BY <2>2, <3>3, <4>1 DEF MatchesConverter
    <3>q. QED
      BY <3>1, <3>2, <3>3
  <2>q. QED
    BY <1>3, <2>1, <2>3, <2>4, <2>5, <2>6, <2>7 DEF piece
<1>q. QED
  BY <1>1, <1>2, <1>3

(* A path that is filled: it survives the transport, matches the path it   *)
(* was filled from, and gives each parameter its text again.               *)
LEMMA FilledIs ==
  ASSUME NEW path, Compiles(path), NEW text, Fills(path, text)
  PROVE  LET url == Filled(path, text)
         IN  /\ Normalised(url) = url
             /\ Matches_(path, url)
             /\ \A i \in Parameters(path) : PathText(path, url, path[i].name) = Segments[text[path[i].name]]
<1> DEFINE n == Len(path)
<1> DEFINE piece == [i \in DOMAIN path |-> Piece(path, text, i)]
<1> DEFINE url == Filled(path, text)
<1>1. url = FlattenSeq(piece)
  BY DEF Filled, Piece
<1>2. n \in Nat /\ n = Len(path) /\ DOMAIN path = 1..n /\ DOMAIN piece = 1..n
  BY DEF Compiles
<1>3. \A i \in 1..n :
        /\ piece[i] \in Seq(Range(piece[i])) /\ Len(piece[i]) >= 1 /\ Len(piece[i]) \in Nat
        /\ (path[i].kind = "parameter" /\ path[i].converter = "path") \/ Len(piece[i]) = 1
        /\ \A k \in 1..Len(piece[i]) : piece[i][k] \notin DotSegments
        /\ CASE path[i].kind = "literal" -> piece[i][1] = path[i].text
             [] path[i].kind = "mixed" -> piece[i][1] \in Range(path[i].spells)
             [] OTHER -> MatchesConverter(path[i].converter, piece[i][1])
  BY <1>2, PieceIs
<1> DEFINE S == UNION {Range(piece[i]) : i \in 1..n}
<1>4. piece \in Seq(Seq(S)) /\ Len(piece) = n
  <2>1. \A i \in 1..n : Range(piece[i]) \subseteq S
    OBVIOUS
  <2>2. \A i \in 1..n : piece[i] \in Seq(S)
    <3> HIDE DEF piece, S
    <3>q. QED
      BY <1>3, <2>1, SeqMonotonic
  <2> HIDE DEF S
  <2>q. QED
    BY <1>2, <2>2
<1>5. \A i \in 1..n : path[i].kind = "parameter" /\ path[i].converter = "path" => i = n
  BY <1>2 DEF Compiles
<1>6. \A i \in 1..(n - 1) : Len(piece[i]) = 1
  BY <1>2, <1>3, <1>5
<1>7. \A i \in Parameters(path) : i \in 1..n /\ piece[i] = Piece(path, text, i)
  BY <1>2 DEF Parameters
<1>8. \A i, j \in Parameters(path) : path[i].name = path[j].name => i = j
  BY DEF Compiles
<1> HIDE DEF url, piece, S, n
<1>9. CASE n = 0
  <2>x. path = <<>>
    BY <1>2, <1>9 DEF Compiles
  <2>y. piece = <<>> /\ Len(piece) = 0
    BY <1>4, <1>9
  <2>z. url = <<>>
    BY <1>1, <2>y DEF FlattenSeq
  <2>1. path = <<>> /\ url = <<>>
    BY <2>x, <2>z
  <2>2. Normalised(url) = url
    <3>1. url \in Seq(S) /\ Len(url) = 0
      BY <2>1
    <3>2. \A i \in 1..Len(url) : url[i] \notin DotSegments
      BY <3>1
    <3>q. QED
      BY <3>1, <3>2, NormalisedIs
  <2>3. Matches_(path, url)
    BY <2>1 DEF Matches_
  <2>q. QED
    BY <1>2, <1>9, <2>2, <2>3 DEF Parameters, url
<1>10. CASE n # 0
  <2>1. n >= 1 /\ n \in 1..n /\ piece # <<>>
    BY <1>2, <1>4, <1>10
  <2>2. /\ url \in Seq(S)
        /\ Len(url) = n - 1 + Len(piece[n])
        /\ \A k \in 1..(n - 1) : url[k] = piece[k][1]
        /\ \A k \in 1..Len(piece[n]) : url[n - 1 + k] = piece[n][k]
        /\ SubSeq(url, n, Len(url)) = piece[n]
    BY <1>1, <1>4, <1>6, <2>1, FlattenedPath
  <2>3. Len(piece[n]) >= 1 /\ Len(piece[n]) \in Nat /\ url[n] = piece[n][1]
    BY <1>2, <1>3, <2>1, <2>2
  <2>4. \A i \in 1..n : url[i] = piece[i][1]
    <3> TAKE i \in 1..n
    <3>1. i = n \/ i \in 1..(n - 1)
      BY <1>2
    <3>q. QED
      BY <2>2, <2>3, <3>1
  <2>5. \A i \in 1..Len(url) : url[i] \notin DotSegments
    <3> TAKE i \in 1..Len(url)
    <3>1. CASE i < n
      BY <1>2, <1>3, <1>6, <2>4, <3>1
    <3>2. CASE i >= n
      <4>1. i - n + 1 \in 1..Len(piece[n]) /\ i = n - 1 + (i - n + 1)
        BY <1>2, <2>2, <2>3, <3>2
      <4>2. url[i] = piece[n][i - n + 1]
        BY <2>2, <4>1
      <4>q. QED
        BY <1>3, <2>1, <4>1, <4>2
    <3>q. QED
      BY <1>2, <3>1, <3>2
  <2>6. Normalised(url) = url
    BY <2>2, <2>5, NormalisedIs
  <2>7. Matches_(path, url)
    <3>1. IF Len(path) > 0 /\ path[Len(path)].kind = "parameter" /\ path[Len(path)].converter = "path"
          THEN Len(url) >= Len(path) ELSE Len(url) = Len(path)
      <4>1. Len(url) = n - 1 + Len(piece[n])
        BY <2>2
      <4>2. (path[n].kind = "parameter" /\ path[n].converter = "path") \/ Len(piece[n]) = 1
        BY <1>3, <2>1
      <4>3. n > 0 /\ Len(piece[n]) >= 1 /\ Len(piece[n]) \in Nat
        BY <1>2, <2>1, <2>3
      <4>4. Len(url) >= n /\ (Len(piece[n]) = 1 => Len(url) = n)
        <5> DEFINE m == Len(piece[n])
        <5> DEFINE l == Len(url)
        <5>1. n \in Nat /\ m \in Nat /\ m >= 1 /\ l = n - 1 + m
          BY <1>2, <4>1, <4>3
        <5> HIDE DEF m, l
        <5>2. l >= n /\ (m = 1 => l = n)
          BY <5>1
        <5>q. QED
          BY <5>2 DEF m, l
      <4> DEFINE rest == path[n].kind = "parameter" /\ path[n].converter = "path"
      <4>5. rest \/ Len(url) = n
        BY <4>2, <4>4
      <4>6. IF n > 0 /\ rest THEN Len(url) >= n ELSE Len(url) = n
        <5> HIDE DEF rest
        <5>q. QED
          BY <4>3, <4>4, <4>5
      <4>q. QED
        BY <1>2, <4>6, Zenon
    <3>2. \A i \in DOMAIN path :
            CASE path[i].kind = "literal" -> url[i] = path[i].text
              [] path[i].kind = "mixed" -> url[i] \in Range(path[i].spells)
              [] OTHER -> MatchesConverter(path[i].converter, url[i])
      BY <1>2, <1>3, <2>4
    <3>q. QED
      BY <3>1, <3>2 DEF Matches_
  <2>8. \A i \in Parameters(path) : PathText(path, url, path[i].name) = Segments[text[path[i].name]]
    <3> TAKE i \in Parameters(path)
    <3> DEFINE t == text[path[i].name]
    <3> DEFINE own == CHOOSE k \in Parameters(path) : path[k].name = path[i].name
    <3>1. i \in 1..n /\ own = i
      BY <1>7, <1>8
    <3>2. PathText(path, url, path[i].name) =
            IF path[i].kind = "mixed"
            THEN <<CHOOSE s \in DOMAIN path[i].spells : path[i].spells[s] = url[i]>>
            ELSE IF path[i].converter = "path" THEN SubSeq(url, i, Len(url)) ELSE <<url[i]>>
      <4>1. PathText(path, url, path[i].name) =
              IF path[own].kind = "mixed"
              THEN <<CHOOSE s \in DOMAIN path[own].spells : path[own].spells[s] = url[own]>>
              ELSE IF path[own].converter = "path" THEN SubSeq(url, own, Len(url)) ELSE <<url[own]>>
        BY DEF PathText
      <4> HIDE DEF own
      <4>q. QED
        BY <3>1, <4>1, Zenon
    <3>3. CASE path[i].kind = "mixed"
      <4>1. url[i] = path[i].spells[t]
        <5>1. Piece(path, text, i) = <<path[i].spells[t]>>
          BY <3>3 DEF Piece
        <5>2. url[i] = Piece(path, text, i)[1]
          BY <1>7, <2>4, <3>1
        <5>q. QED
          BY <5>1, <5>2
      <4>2. t \in DOMAIN path[i].spells /\ t \in DOMAIN Segments
        <5>1. t \in DOMAIN Segments /\ Admits(path[i], t)
          BY DEF Fills
        <5>q. QED
          BY <1>2, <3>1, <3>3, <5>1 DEF Admits, Compiles
      <4>3. /\ \A s, u \in DOMAIN path[i].spells : path[i].spells[s] = path[i].spells[u] => s = u
            /\ Len(Segments[t]) = 1
        BY <1>2, <3>1, <3>3, <4>2 DEF Compiles
      <4>4. (CHOOSE s \in DOMAIN path[i].spells : path[i].spells[s] = url[i]) = t
        BY <4>1, <4>2, <4>3
      <4>5. Segments[t] = <<t>>
        BY <4>2, <4>3, TextsAssumption
      <4>q. QED
        BY <3>2, <3>3, <4>4, <4>5
    <3>4. CASE path[i].kind # "mixed"
      <4>1. piece[i] = Segments[t] /\ path[i].kind = "parameter"
        BY <1>2, <1>7, <3>1, <3>4 DEF Piece, Parameters, Compiles
      <4>2. CASE path[i].converter = "path"
        BY <1>5, <2>2, <3>1, <3>2, <3>4, <4>1, <4>2
      <4>3. CASE path[i].converter # "path"
        <5>1. Len(piece[i]) = 1 /\ piece[i] \in Seq(Range(piece[i])) /\ url[i] = piece[i][1]
          BY <1>3, <2>4, <3>1, <4>3
        <5>2. piece[i] = <<url[i]>>
          BY <5>1
        <5>q. QED
          BY <3>2, <3>4, <4>1, <4>3, <5>2
      <4>q. QED
        BY <4>2, <4>3
    <3>q. QED
      BY <3>3, <3>4
  <2>q. QED
    BY <2>6, <2>7, <2>8 DEF url
<1>q. QED
  BY <1>2, <1>9, <1>10

(* What lets routes be put in order: ranks, and identities of their own.   *)
Ranked(routes) ==
  /\ routes \in Seq(Range(routes))
  /\ \A i \in DOMAIN routes :
       /\ Compiles(routes[i].path)
       /\ PathRank[routes[i].path] \in Int /\ MethodRank[routes[i].method] \in Int
       /\ \A k \in DOMAIN routes[i].path : routes[i].path[k].kind # "parameter" => Length[routes[i].path[k].text] \in Nat
  /\ \A i, j \in DOMAIN routes :
       /\ PathRank[routes[i].path] = PathRank[routes[j].path] => routes[i].path = routes[j].path
       /\ MethodRank[routes[i].method] = MethodRank[routes[j].method] => routes[i].method = routes[j].method
  /\ _validate_route_identities(routes)

(* The literal characters of a path are finitely many.                     *)
LEMMA CharactersAreCounted ==
  ASSUME NEW path, Compiles(path), \A k \in DOMAIN path : path[k].kind # "parameter" => Length[path[k].text] \in Nat
  PROVE  LiteralCharacters(path) \in Nat
<1> DEFINE at == {j \in DOMAIN path : path[j].kind # "parameter"}
<1> DEFINE characters == [i \in at |-> {i} \X (1..Length[path[i].text])]
<1> DEFINE S == {characters[i] : i \in at}
<1>1. IsFiniteSet(at)
  <2>1. Len(path) \in Nat /\ DOMAIN path = 1..Len(path)
    BY DEF Compiles
  <2>2. IsFiniteSet(1..Len(path))
    BY <2>1, FS_Interval
  <2>3. at \in SUBSET (1..Len(path))
    BY <2>1
  <2>q. QED
    BY <2>2, <2>3, FS_Subset
<1>2. IsFiniteSet(S)
  <2>1. characters \in Surjection(at, S)
    <3> HIDE DEF at
    <3>q. QED
      BY DEF Surjection
  <2> HIDE DEF at, characters, S
  <2>q. QED
    BY <1>1, <2>1, FS_Surjection
<1>3. \A T \in S : IsFiniteSet(T)
  <2> TAKE T \in S
  <2>1. PICK i \in at : T = {i} \X (1..Length[path[i].text])
    OBVIOUS
  <2>2. Length[path[i].text] \in Nat
    OBVIOUS
  <2>3. IsFiniteSet({i}) /\ IsFiniteSet(1..Length[path[i].text])
    <3>1. IsFiniteSet({i})
      BY FS_Singleton
    <3>2. IsFiniteSet(1..Length[path[i].text])
      <4> DEFINE l == Length[path[i].text]
      <4>1. l \in Int /\ 1 \in Int
        BY <2>2
      <4> HIDE DEF l
      <4>2. IsFiniteSet(1..l)
        BY <4>1, FS_Interval
      <4>q. QED
        BY <4>2 DEF l
    <3>q. QED
      BY <3>1, <3>2
  <2>q. QED
    BY <2>1, <2>3, FS_Product
<1>4. IsFiniteSet(UNION S)
  <2> HIDE DEF S
  <2>q. QED
    BY <1>2, <1>3, FS_UNION
<1>5. UNION S = UNION {{i} \X (1..Length[path[i].text]) : i \in {j \in DOMAIN path : path[j].kind # "parameter"}}
  OBVIOUS
<1>6. LiteralCharacters(path) = Cardinality(UNION S)
  BY <1>5, Zenon DEF LiteralCharacters
<1> HIDE DEF S
<1>q. QED
  BY <1>4, <1>6, FS_CardinalityType

(* So are its segments of any kind.                                        *)
LEMMA SegmentsAreCounted ==
  ASSUME NEW path, Compiles(path), NEW kinds
  PROVE  Cardinality({i \in DOMAIN path : path[i].kind \in kinds}) \in Nat
<1> DEFINE at == {i \in DOMAIN path : path[i].kind \in kinds}
<1>1. Len(path) \in Nat /\ DOMAIN path = 1..Len(path)
  BY DEF Compiles
<1>2. IsFiniteSet(1..Len(path))
  BY <1>1, FS_Interval
<1>3. at \in SUBSET (1..Len(path))
  BY <1>1
<1> HIDE DEF at
<1>4. IsFiniteSet(at)
  BY <1>2, <1>3, FS_Subset
<1>q. QED
  BY <1>4, FS_CardinalityType DEF at

(* And its literals, and its parameters.                                   *)
LEMMA LiteralsAreCounted ==
  ASSUME NEW path, Compiles(path)
  PROVE  /\ Cardinality({i \in DOMAIN path : path[i].kind = "literal"}) \in Nat
         /\ Cardinality(Parameters(path)) \in Nat
<1> DEFINE others == {path[i].kind : i \in DOMAIN path} \ {"literal"}
<1>1. /\ {i \in DOMAIN path : path[i].kind = "literal"} = {i \in DOMAIN path : path[i].kind \in {"literal"}}
      /\ Parameters(path) = {i \in DOMAIN path : path[i].kind \in others}
  BY DEF Parameters
<1> HIDE DEF others
<1>2. Cardinality({i \in DOMAIN path : path[i].kind \in {"literal"}}) \in Nat
  BY SegmentsAreCounted
<1>3. Cardinality({i \in DOMAIN path : path[i].kind \in others}) \in Nat
  BY SegmentsAreCounted
<1>q. QED
  BY <1>1, <1>2, <1>3, Zenon

(* The parts of a priority.                                                *)
LEMMA PriorityIs ==
  ASSUME NEW item, Compiles(item.path),
         PathRank[item.path] \in Int, MethodRank[item.method] \in Int,
         \A k \in DOMAIN item.path : item.path[k].kind # "parameter" => Length[item.path[k].text] \in Nat
  PROVE  LET p == _runtime_route_priority(item)
             n == Len(item.path)
         IN  /\ p \in Seq(Int) /\ Len(p) = n + 8 /\ n \in Nat
             /\ p[1] = IF item.method = "HEAD" THEN 0 ELSE 1
             /\ p[2] = 0 - Cardinality({i \in DOMAIN item.path : item.path[i].kind = "literal"})
             /\ \A k \in 1..n : p[k + 2] \in 0..3
             /\ p[n + 3] = -1
             /\ p[n + 7] = PathRank[item.path] /\ p[n + 8] = MethodRank[item.method]
<1> DEFINE n == Len(item.path)
<1> DEFINE a == <<IF item.method = "HEAD" THEN 0 ELSE 1, 0 - Cardinality({i \in DOMAIN item.path : item.path[i].kind = "literal"})>>
<1> DEFINE b == [i \in DOMAIN item.path |-> SegmentPriority(item.path[i])]
<1> DEFINE c == <<-1>>
<1> DEFINE d == <<0 - LiteralCharacters(item.path), Cardinality(Parameters(item.path)),
                  0 - Len(item.path), PathRank[item.path], MethodRank[item.method]>>
<1> DEFINE p == _runtime_route_priority(item)
<1>1. p = ((a \o b) \o c) \o d
  BY DEF _runtime_route_priority
<1>2. n \in Nat /\ DOMAIN item.path = 1..n
  BY DEF Compiles
<1>3. /\ Cardinality({i \in DOMAIN item.path : item.path[i].kind = "literal"}) \in Nat
      /\ Cardinality(Parameters(item.path)) \in Nat
      /\ LiteralCharacters(item.path) \in Nat
  BY LiteralsAreCounted, CharactersAreCounted
<1>4. \A segment : SegmentPriority(segment) \in 0..3
  <2> TAKE segment
  <2>1. SegmentPriority(segment) \in {0, 1, 2, 3}
    BY DEF SegmentPriority
  <2>q. QED
    BY <2>1
<1>5. a \in Seq(Int) /\ Len(a) = 2
  BY <1>3
<1>6. b \in Seq(Int) /\ Len(b) = n /\ \A k \in 1..n : b[k] \in 0..3
  <2>1. \A k \in 1..n : b[k] \in 0..3
    BY <1>2, <1>4
  <2>x. \A k \in 1..n : b[k] \in Int
    <3> HIDE DEF b, n
    <3>q. QED
      BY <2>1
  <2>y. b = [k \in 1..n |-> b[k]]
    BY <1>2
  <2>3. b \in Seq(Int) /\ Len(b) = n
    <3> HIDE DEF b, n
    <3>1. [k \in 1..n |-> b[k]] \in Seq(Int) /\ Len([k \in 1..n |-> b[k]]) = n
      BY <1>2, <2>x
    <3>q. QED
      BY <2>y, <3>1, Zenon
  <2>q. QED
    BY <2>1, <2>3
<1>7. c \in Seq(Int) /\ Len(c) = 1 /\ c[1] = -1
  OBVIOUS
<1>8. d \in Seq(Int) /\ Len(d) = 5 /\ d[4] = PathRank[item.path] /\ d[5] = MethodRank[item.method]
  BY <1>2, <1>3
<1> DEFINE ab == a \o b
<1> DEFINE abc == ab \o c
<1>x. p = abc \o d
  BY <1>1
<1>y. /\ a[1] = IF item.method = "HEAD" THEN 0 ELSE 1
      /\ a[2] = 0 - Cardinality({i \in DOMAIN item.path : item.path[i].kind = "literal"})
  OBVIOUS
<1> HIDE DEF a, b, c, d, p, n
<1>t. a \in Seq(Int) /\ b \in Seq(Int) /\ c \in Seq(Int) /\ d \in Seq(Int)
  BY <1>5, <1>6, <1>7, <1>8
<1>9. /\ ab \in Seq(Int) /\ Len(ab) = n + 2
      /\ \A i \in 1..2 : ab[i] = a[i]
      /\ \A i \in 1..n : ab[2 + i] = b[i]
  <2>1. ab \in Seq(Int) /\ Len(ab) = Len(a) + Len(b)
    BY <1>t
  <2>2. \A i \in 1..Len(a) : ab[i] = a[i]
    BY <1>t
  <2>3. \A i \in 1..Len(b) : ab[Len(a) + i] = b[i]
    BY <1>t
  <2> HIDE DEF ab
  <2>q. QED
    BY <1>2, <1>5, <1>6, <2>1, <2>2, <2>3
<1> HIDE DEF ab
<1>v. ab \in Seq(Int)
  BY <1>9
<1>10. /\ abc \in Seq(Int) /\ Len(abc) = n + 3
       /\ \A i \in 1..(n + 2) : abc[i] = ab[i]
       /\ abc[n + 3] = c[1]
  <2>1. abc \in Seq(Int) /\ Len(abc) = Len(ab) + Len(c)
    BY <1>t, <1>v
  <2>2. \A i \in 1..Len(ab) : abc[i] = ab[i]
    BY <1>t, <1>v
  <2>3. \A i \in 1..Len(c) : abc[Len(ab) + i] = c[i]
    BY <1>t, <1>v
  <2> HIDE DEF abc
  <2>4. Len(ab) + 1 = n + 3 /\ 1 \in 1..Len(c)
    BY <1>2, <1>7, <1>9
  <2>q. QED
    BY <1>2, <1>7, <1>9, <2>1, <2>2, <2>3, <2>4
<1> HIDE DEF abc
<1>w. abc \in Seq(Int)
  BY <1>10
<1>11. /\ p \in Seq(Int) /\ Len(p) = n + 8
       /\ \A i \in 1..(n + 3) : p[i] = abc[i]
       /\ \A i \in 1..5 : p[n + 3 + i] = d[i]
  <2>1. p \in Seq(Int) /\ Len(p) = Len(abc) + Len(d)
    BY <1>t, <1>w, <1>x
  <2>2. \A i \in 1..Len(abc) : p[i] = abc[i]
    BY <1>t, <1>w, <1>x
  <2>3. \A i \in 1..Len(d) : p[Len(abc) + i] = d[i]
    BY <1>t, <1>w, <1>x
  <2>q. QED
    BY <1>2, <1>8, <1>10, <2>1, <2>2, <2>3
<1>12. p[1] = a[1] /\ p[2] = a[2]
  <2>1. \A i \in 1..2 : i \in 1..(n + 3) /\ i \in 1..(n + 2)
    BY <1>2
  <2>2. \A i \in 1..2 : p[i] = a[i]
    BY <1>9, <1>10, <1>11, <2>1
  <2>q. QED
    BY <2>2
<1>13. \A k \in 1..n : p[k + 2] \in 0..3
  <2> TAKE k \in 1..n
  <2>1. k + 2 \in 1..(n + 3) /\ k + 2 \in 1..(n + 2) /\ k + 2 = 2 + k
    BY <1>2
  <2>2. p[k + 2] = ab[k + 2]
    BY <1>10, <1>11, <2>1
  <2>3. ab[2 + k] = b[k]
    BY <1>9
  <2>q. QED
    BY <1>6, <2>1, <2>2, <2>3
<1>14. p[n + 3] = c[1]
  <2>1. n + 3 \in 1..(n + 3)
    BY <1>2
  <2>q. QED
    BY <1>10, <1>11, <2>1
<1>15. p[n + 7] = d[4] /\ p[n + 8] = d[5]
  <2>1. n + 7 = n + 3 + 4 /\ n + 8 = n + 3 + 5 /\ 4 \in 1..5 /\ 5 \in 1..5
    BY <1>2
  <2>q. QED
    BY <1>11, <2>1
<1>q. QED
  BY <1>2, <1>7, <1>8, <1>y, <1>11, <1>12, <1>13, <1>14, <1>15 DEF p, n

(* Before is a strict order, total where sequences differ.                 *)
LEMMA OneIsBefore ==
  ASSUME NEW p \in Seq(Int), NEW q \in Seq(Int), \E i \in DOMAIN p \cap DOMAIN q : p[i] # q[i]
  PROVE  Before(p, q) \/ Before(q, p)
<1> DEFINE T == {i \in DOMAIN p \cap DOMAIN q : p[i] # q[i]}
<1>1. DOMAIN p = 1..Len(p) /\ DOMAIN q = 1..Len(q) /\ Len(p) \in Nat /\ Len(q) \in Nat
  OBVIOUS
<1>2. T \subseteq Nat /\ T # {}
  BY <1>1
<1>3. PICK i \in T : \A j \in T : i <= j
  <2> HIDE DEF T
  <2>q. QED
    BY <1>2, LeastNumber
<1>4. i \in DOMAIN p \cap DOMAIN q /\ p[i] # q[i] /\ p[i] \in Int /\ q[i] \in Int
  BY <1>1
<1>5. \A j \in 1..(i - 1) : p[j] = q[j]
  <2> TAKE j \in 1..(i - 1)
  <2>1. j \in DOMAIN p \cap DOMAIN q /\ j < i
    BY <1>1, <1>4
  <2>2. j \notin T
    BY <1>1, <1>2, <1>3, <2>1
  <2>q. QED
    BY <2>1, <2>2
<1>6. CASE p[i] < q[i]
  BY <1>4, <1>5, <1>6 DEF Before
<1>7. CASE q[i] < p[i]
  BY <1>4, <1>5, <1>7 DEF Before
<1>q. QED
  BY <1>4, <1>6, <1>7

(* No priority is before one that is before it.                            *)
LEMMA NotBothBefore ==
  ASSUME NEW p \in Seq(Int), NEW q \in Seq(Int), Before(p, q)
  PROVE  ~Before(q, p)
<1>1. PICK i \in DOMAIN p \cap DOMAIN q : p[i] < q[i] /\ \A k \in 1..(i - 1) : p[k] = q[k]
  BY DEF Before
<1>2. SUFFICES ASSUME NEW j \in DOMAIN p \cap DOMAIN q, q[j] < p[j], \A k \in 1..(j - 1) : q[k] = p[k] PROVE FALSE
  BY DEF Before
<1>3. i \in Nat /\ j \in Nat /\ i >= 1 /\ j >= 1 /\ p[i] \in Int /\ q[i] \in Int /\ p[j] \in Int /\ q[j] \in Int
  OBVIOUS
<1>4. i < j \/ j < i \/ i = j
  BY <1>3
<1>5. CASE i < j
  <2>1. i \in 1..(j - 1)
    BY <1>3, <1>5
  <2>q. QED
    BY <1>1, <1>2, <1>3, <2>1
<1>6. CASE j < i
  <2>1. j \in 1..(i - 1)
    BY <1>3, <1>6
  <2>q. QED
    BY <1>1, <1>2, <1>3, <2>1
<1>7. CASE i = j
  BY <1>1, <1>2, <1>3, <1>7
<1>q. QED
  BY <1>4, <1>5, <1>6, <1>7

(* The order of priorities is transitive.                                  *)
LEMMA BeforeThose ==
  ASSUME NEW p \in Seq(Int), NEW q \in Seq(Int), NEW r \in Seq(Int), Before(p, q), Before(q, r)
  PROVE  Before(p, r)
<1>1. PICK i \in DOMAIN p \cap DOMAIN q : p[i] < q[i] /\ \A k \in 1..(i - 1) : p[k] = q[k]
  BY DEF Before
<1>2. PICK j \in DOMAIN q \cap DOMAIN r : q[j] < r[j] /\ \A k \in 1..(j - 1) : q[k] = r[k]
  BY DEF Before
<1>3. /\ i \in Nat /\ j \in Nat /\ i >= 1 /\ j >= 1
      /\ i <= Len(p) /\ i <= Len(q) /\ j <= Len(q) /\ j <= Len(r)
      /\ Len(p) \in Nat /\ Len(q) \in Nat /\ Len(r) \in Nat
      /\ DOMAIN p = 1..Len(p) /\ DOMAIN q = 1..Len(q) /\ DOMAIN r = 1..Len(r)
  OBVIOUS
<1>4. p[i] \in Int /\ q[i] \in Int /\ q[j] \in Int /\ r[j] \in Int
  BY <1>3
<1>5. CASE i < j
  <2>1. i \in 1..(j - 1) /\ \A k \in 1..(i - 1) : k \in 1..(j - 1)
    BY <1>3, <1>5
  <2>2. i \in DOMAIN p \cap DOMAIN r
    BY <1>3, <1>5
  <2>3. p[i] < r[i] /\ \A k \in 1..(i - 1) : p[k] = r[k]
    BY <1>1, <1>2, <2>1
  <2>q. QED
    BY <2>2, <2>3 DEF Before
<1>6. CASE j <= i
  <2>1. (j = i \/ j \in 1..(i - 1)) /\ \A k \in 1..(j - 1) : k \in 1..(i - 1)
    BY <1>3, <1>6
  <2>2. j \in DOMAIN p \cap DOMAIN r
    BY <1>3, <1>6
  <2>3. p[j] < r[j]
    <3>1. CASE j = i
      BY <1>1, <1>2, <1>4, <3>1
    <3>2. CASE j \in 1..(i - 1)
      BY <1>1, <1>2, <3>2
    <3>q. QED
      BY <2>1, <3>1, <3>2
  <2>4. \A k \in 1..(j - 1) : p[k] = r[k]
    BY <1>1, <1>2, <2>1
  <2>q. QED
    BY <2>2, <2>3, <2>4 DEF Before
<1>q. QED
  BY <1>3, <1>5, <1>6

(* The key a route is sorted by.                                           *)
Priority(routes, i) == _runtime_route_priority(routes[i])

(* It is a tuple of integers, by whose length and elements a path is told  *)
(* from others.                                                            *)
LEMMA RoutePriorityIs ==
  ASSUME NEW routes, Ranked(routes), NEW i \in DOMAIN routes
  PROVE  LET p == Priority(routes, i)
             n == Len(routes[i].path)
         IN  /\ p \in Seq(Int) /\ Len(p) = n + 8 /\ n \in Nat /\ DOMAIN routes[i].path = 1..n
             /\ p[1] = IF routes[i].method = "HEAD" THEN 0 ELSE 1
             /\ p[2] = 0 - Cardinality({k \in DOMAIN routes[i].path : routes[i].path[k].kind = "literal"})
             /\ \A k \in 1..n : p[k + 2] \in 0..3
             /\ p[n + 3] = -1
             /\ p[n + 7] = PathRank[routes[i].path] /\ p[n + 8] = MethodRank[routes[i].method]
<1> DEFINE item == routes[i]
<1>1. /\ Compiles(item.path)
      /\ PathRank[item.path] \in Int /\ MethodRank[item.method] \in Int
      /\ \A k \in DOMAIN item.path : item.path[k].kind # "parameter" => Length[item.path[k].text] \in Nat
  BY DEF Ranked
<1>2. Len(item.path) \in Nat /\ DOMAIN item.path = 1..Len(item.path)
  BY <1>1 DEF Compiles
<1> HIDE DEF item
<1>3. /\ _runtime_route_priority(item) \in Seq(Int) /\ Len(_runtime_route_priority(item)) = Len(item.path) + 8
      /\ _runtime_route_priority(item)[1] = IF item.method = "HEAD" THEN 0 ELSE 1
      /\ _runtime_route_priority(item)[2] = 0 - Cardinality({k \in DOMAIN item.path : item.path[k].kind = "literal"})
      /\ \A k \in 1..Len(item.path) : _runtime_route_priority(item)[k + 2] \in 0..3
      /\ _runtime_route_priority(item)[Len(item.path) + 3] = -1
      /\ _runtime_route_priority(item)[Len(item.path) + 7] = PathRank[item.path]
      /\ _runtime_route_priority(item)[Len(item.path) + 8] = MethodRank[item.method]
  BY <1>1, PriorityIs, Zenon
<1>q. QED
  BY <1>2, <1>3, Zenon DEF Priority, item

(* Two routes of an application differ in priority.                        *)
LEMMA PrioritiesDiffer ==
  ASSUME NEW routes, Ranked(routes), NEW i \in DOMAIN routes, NEW j \in DOMAIN routes, i # j,
         Len(routes[i].path) <= Len(routes[j].path)
  PROVE  \E k \in DOMAIN Priority(routes, i) \cap DOMAIN Priority(routes, j) :
           Priority(routes, i)[k] # Priority(routes, j)[k]
<1> DEFINE p == Priority(routes, i)
<1> DEFINE q == Priority(routes, j)
<1> DEFINE n == Len(routes[i].path)
<1> DEFINE m == Len(routes[j].path)
<1>1. /\ p \in Seq(Int) /\ Len(p) = n + 8 /\ n \in Nat
      /\ p[n + 3] = -1
      /\ p[n + 7] = PathRank[routes[i].path] /\ p[n + 8] = MethodRank[routes[i].method]
  BY RoutePriorityIs
<1>2. /\ q \in Seq(Int) /\ Len(q) = m + 8 /\ m \in Nat
      /\ \A k \in 1..m : q[k + 2] \in 0..3
      /\ q[m + 7] = PathRank[routes[j].path] /\ q[m + 8] = MethodRank[routes[j].method]
  BY RoutePriorityIs
<1>3. n <= m
  OBVIOUS
<1> HIDE DEF p, q, n, m
<1>4. DOMAIN p = 1..(n + 8) /\ DOMAIN q = 1..(m + 8)
  BY <1>1, <1>2, LenProperties, Zenon
<1>5. CASE n < m
  <2>1. n + 1 \in 1..m /\ (n + 1) + 2 = n + 3 /\ n + 3 \in 1..(n + 8) /\ n + 3 \in 1..(m + 8)
    BY <1>1, <1>2, <1>5
  <2>2. q[n + 3] \in 0..3
    BY <1>2, <2>1, Zenon
  <2>3. p[n + 3] # q[n + 3]
    BY <1>1, <2>2
  <2>q. QED
    BY <1>4, <2>1, <2>3 DEF p, q
<1>6. CASE n = m
  <2>1. n + 7 \in 1..(n + 8) /\ n + 8 \in 1..(n + 8)
    BY <1>1
  <2>2. SUFFICES ASSUME p[n + 7] = q[n + 7], p[n + 8] = q[n + 8] PROVE FALSE
    BY <1>4, <1>6, <2>1 DEF p, q
  <2>3. PathRank[routes[i].path] = PathRank[routes[j].path] /\ MethodRank[routes[i].method] = MethodRank[routes[j].method]
    BY <1>1, <1>2, <1>6, <2>2
  <2>4. routes[i].path = routes[j].path /\ routes[i].method = routes[j].method
    BY <2>3 DEF Ranked
  <2>q. QED
    BY <2>4 DEF Ranked, _validate_route_identities
<1>q. QED
  BY <1>1, <1>2, <1>3, <1>5, <1>6

(* Of two routes one is tried before the other.                            *)
LEMMA OneRouteIsBefore ==
  ASSUME NEW routes, Ranked(routes), NEW i \in DOMAIN routes, NEW j \in DOMAIN routes, i # j
  PROVE  Before(Priority(routes, i), Priority(routes, j)) \/ Before(Priority(routes, j), Priority(routes, i))
<1>1. /\ Priority(routes, i) \in Seq(Int) /\ Priority(routes, j) \in Seq(Int)
      /\ Len(routes[i].path) \in Nat /\ Len(routes[j].path) \in Nat
  BY RoutePriorityIs
<1>2. CASE Len(routes[i].path) <= Len(routes[j].path)
  <2>1. \E k \in DOMAIN Priority(routes, i) \cap DOMAIN Priority(routes, j) : Priority(routes, i)[k] # Priority(routes, j)[k]
    BY <1>2, PrioritiesDiffer
  <2>q. QED
    BY <1>1, <2>1, OneIsBefore
<1>3. CASE Len(routes[j].path) <= Len(routes[i].path)
  <2>1. \E k \in DOMAIN Priority(routes, j) \cap DOMAIN Priority(routes, i) : Priority(routes, j)[k] # Priority(routes, i)[k]
    BY <1>3, PrioritiesDiffer
  <2>2. Before(Priority(routes, j), Priority(routes, i)) \/ Before(Priority(routes, i), Priority(routes, j))
    BY <1>1, <2>1, OneIsBefore
  <2>q. QED
    BY <2>2
<1>q. QED
  BY <1>1, <1>2, <1>3

(* Any of them have a first.                                               *)
IsFirst(routes, i, T) == i \in T /\ \A j \in T \ {i} : Before(Priority(routes, i), Priority(routes, j))

(* Of any routes one is tried before all the others.                       *)
LEMMA OneIsFirst ==
  ASSUME NEW routes, Ranked(routes), NEW T, T \subseteq DOMAIN routes, T # {}
  PROVE  \E i \in T : IsFirst(routes, i, T)
<1> DEFINE U(n) == {i \in T : i <= n}
<1> DEFINE Odd == {n \in Nat : U(n) # {} /\ ~\E i \in U(n) : IsFirst(routes, i, U(n))}
<1>1. Len(routes) \in Nat /\ T \subseteq 1..Len(routes)
  BY DEF Ranked
<1>2. Odd = {}
  <2>1. SUFFICES ASSUME Odd # {} PROVE FALSE
    OBVIOUS
  <2>2. PICK n \in Odd : \A m \in Odd : n <= m
    <3>1. Odd \subseteq Nat
      OBVIOUS
    <3> HIDE DEF Odd
    <3>q. QED
      BY <2>1, <3>1, LeastNumber
  <2>3. n \in Nat /\ U(n) # {} /\ ~\E i \in U(n) : IsFirst(routes, i, U(n))
    BY <2>2
  <2>4. n # 0
    BY <1>1, <2>3
  <2>5. n - 1 \in Nat /\ n - 1 \notin Odd
    BY <2>2, <2>3, <2>4
  <2>6. \A i \in U(n) : i \in U(n - 1) \/ i = n
    BY <1>1, <2>3
  <2>7. U(n - 1) \subseteq U(n) /\ \A i \in U(n - 1) : i # n
    BY <1>1, <2>3
  <2>8. CASE U(n - 1) = {}
    <3>1. n \in U(n) /\ U(n) \subseteq {n}
      BY <2>3, <2>6, <2>8
    <3>2. IsFirst(routes, n, U(n))
      BY <3>1 DEF IsFirst
    <3>q. QED
      BY <2>3, <3>1, <3>2
  <2>9. CASE U(n - 1) # {}
    <3>1. PICK f \in U(n - 1) : IsFirst(routes, f, U(n - 1))
      BY <2>5, <2>9
    <3>2. CASE n \notin T
      <4>1. U(n) = U(n - 1)
        BY <2>6, <2>7, <3>2
      <4>q. QED
        BY <2>3, <3>1, <4>1
    <3>3. CASE n \in T
      <4>1. f \in T /\ f \in DOMAIN routes /\ n \in DOMAIN routes /\ f # n /\ n \in U(n) /\ f \in U(n)
        BY <2>3, <2>7, <3>1, <3>3
      <4>2. Before(Priority(routes, f), Priority(routes, n)) \/ Before(Priority(routes, n), Priority(routes, f))
        BY <4>1, OneRouteIsBefore
      <4>3. CASE Before(Priority(routes, f), Priority(routes, n))
        <5>1. \A j \in U(n) \ {f} : Before(Priority(routes, f), Priority(routes, j))
          BY <2>6, <3>1, <4>3 DEF IsFirst
        <5>2. IsFirst(routes, f, U(n))
          BY <4>1, <5>1 DEF IsFirst
        <5>q. QED
          BY <2>3, <4>1, <5>2
      <4>4. CASE Before(Priority(routes, n), Priority(routes, f))
        <5>1. \A j \in U(n) \ {n} : Before(Priority(routes, n), Priority(routes, j))
          <6> TAKE j \in U(n) \ {n}
          <6>1. j \in U(n - 1) /\ j \in DOMAIN routes
            BY <2>6
          <6>2. CASE j = f
            BY <4>4, <6>2
          <6>3. CASE j # f
            <7>1. Before(Priority(routes, f), Priority(routes, j))
              BY <3>1, <6>1, <6>3 DEF IsFirst
            <7>2. Priority(routes, n) \in Seq(Int) /\ Priority(routes, f) \in Seq(Int) /\ Priority(routes, j) \in Seq(Int)
              BY <4>1, <6>1, RoutePriorityIs
            <7>q. QED
              BY <4>4, <7>1, <7>2, BeforeThose
          <6>q. QED
            BY <6>2, <6>3
        <5>2. IsFirst(routes, n, U(n))
          BY <4>1, <5>1 DEF IsFirst
        <5>q. QED
          BY <2>3, <4>1, <5>2
      <4>q. QED
        BY <4>2, <4>3, <4>4
    <3>q. QED
      BY <3>2, <3>3
  <2>q. QED
    BY <2>8, <2>9
<1>3. U(Len(routes)) = T
  BY <1>1
<1>4. Len(routes) \notin Odd
  BY <1>2
<1>q. QED
  BY <1>1, <1>3, <1>4

(* The route that serves a request: the first of those that can.           *)
Able(routes, method, url) == {j \in DOMAIN routes : Matches_(routes[j].path, url) /\ method \in Methods(routes[j])}

(* A request is served by the first of the routes that can, if any can.    *)
LEMMA DispatchIs ==
  ASSUME NEW routes, Ranked(routes), NEW method, NEW url
  PROVE  LET T == Able(routes, method, url)
             i == Dispatch(routes, method, url)
         IN  /\ T = {} => i = 0
             /\ T # {} => i \in DOMAIN routes /\ IsFirst(routes, i, T)
<1> DEFINE T == Able(routes, method, url)
<1> DEFINE able == Serving(routes, method, url)
<1>1. able = {[to |-> j, priority |-> Priority(routes, j)] : j \in T}
  BY DEF Serving, Able, Priority
<1>2. T \subseteq DOMAIN routes
  BY DEF Able
<1> DEFINE Chosen(first) == \A other \in able \ {first} : Before(first.priority, other.priority)
<1>3. Dispatch(routes, method, url) = IF able = {} THEN 0 ELSE (CHOOSE first \in able : Chosen(first)).to
  BY DEF Dispatch
<1> HIDE DEF T, able
<1>4. ASSUME T # {} PROVE Dispatch(routes, method, url) \in DOMAIN routes /\ IsFirst(routes, Dispatch(routes, method, url), T)
  <2>1. PICK i \in T : IsFirst(routes, i, T)
    BY <1>2, <1>4, OneIsFirst
  <2> DEFINE r == [to |-> i, priority |-> Priority(routes, i)]
  <2>2. r \in able
    BY <1>1
  <2>3. Chosen(r)
    <3> TAKE other \in able \ {r}
    <3>1. PICK j \in T : other = [to |-> j, priority |-> Priority(routes, j)]
      BY <1>1
    <3>2. j # i
      BY <3>1
    <3>3. Before(Priority(routes, i), Priority(routes, j))
      BY <2>1, <3>2 DEF IsFirst
    <3>q. QED
      BY <3>1, <3>3
  <2> HIDE DEF r
  <2> DEFINE f == CHOOSE first \in able : Chosen(first)
  <2>4. f \in able /\ Chosen(f)
    <3> HIDE DEF Chosen
    <3>q. QED
      BY <2>2, <2>3
  <2>5. Dispatch(routes, method, url) = f.to
    BY <1>3, <2>2
  <2> HIDE DEF f
  <2>6. PICK k \in T : f = [to |-> k, priority |-> Priority(routes, k)]
    BY <1>1, <2>4
  <2>7. \A j \in T \ {k} : Before(Priority(routes, k), Priority(routes, j))
    <3> TAKE j \in T \ {k}
    <3> DEFINE other == [to |-> j, priority |-> Priority(routes, j)]
    <3>1. other \in able /\ other # f
      BY <1>1, <2>6
    <3>2. Before(f.priority, other.priority)
      BY <2>4, <3>1
    <3>q. QED
      BY <2>6, <3>2
  <2>8. IsFirst(routes, k, T)
    BY <2>7 DEF IsFirst
  <2>q. QED
    BY <1>2, <2>5, <2>6, <2>8
<1>5. ASSUME T = {} PROVE Dispatch(routes, method, url) = 0
  BY <1>1, <1>3, <1>5
<1>q. QED
  BY <1>4, <1>5 DEF T

(* A route whose path has no parameters serves its own URL: no other route *)
(* is tried before it.                                                     *)
LEMMA LiteralIsServed ==
  ASSUME NEW routes, Ranked(routes), NEW i \in DOMAIN routes, Parameters(routes[i].path) = {},
         NEW url, Matches_(routes[i].path, url)
  PROVE  Dispatch(routes, routes[i].method, url) = i
<1> DEFINE method == routes[i].method
<1> DEFINE T == Able(routes, method, url)
<1> DEFINE f == Dispatch(routes, method, url)
<1>1. i \in T
  BY DEF Able, Methods
<1>2. f \in DOMAIN routes /\ IsFirst(routes, f, T)
  BY <1>1, DispatchIs
<1> HIDE DEF f
<1>3. SUFFICES ASSUME f # i PROVE FALSE
  BY DEF f
<1>4. Before(Priority(routes, f), Priority(routes, i))
  BY <1>1, <1>2, <1>3 DEF IsFirst
<1>5. Matches_(routes[f].path, url) /\ (routes[f].method = method \/ (method = "HEAD" /\ routes[f].method = "GET"))
  <2>1. f \in T
    BY <1>2 DEF IsFirst
  <2>q. QED
    BY <2>1 DEF Able, Methods
<1> DEFINE p == Priority(routes, i)
<1> DEFINE q == Priority(routes, f)
<1> DEFINE n == Len(routes[i].path)
<1> DEFINE m == Len(routes[f].path)
<1> DEFINE A == {k \in DOMAIN routes[i].path : routes[i].path[k].kind = "literal"}
<1> DEFINE B == {k \in DOMAIN routes[f].path : routes[f].path[k].kind = "literal"}
<1>6. /\ p \in Seq(Int) /\ Len(p) = n + 8 /\ n \in Nat /\ DOMAIN routes[i].path = 1..n
      /\ p[1] = (IF method = "HEAD" THEN 0 ELSE 1) /\ p[2] = 0 - Cardinality(A)
  BY RoutePriorityIs
<1>7. /\ q \in Seq(Int) /\ Len(q) = m + 8 /\ m \in Nat /\ DOMAIN routes[f].path = 1..m
      /\ q[1] = (IF routes[f].method = "HEAD" THEN 0 ELSE 1) /\ q[2] = 0 - Cardinality(B)
  BY <1>2, RoutePriorityIs
<1>8. A = 1..n /\ \A k \in 1..n : routes[i].path[k].kind = "literal"
  BY <1>6 DEF Parameters
<1>9. Len(url) = n /\ \A k \in 1..n : url[k] = routes[i].path[k].text
  <2>1. ~(n > 0 /\ routes[i].path[n].kind = "parameter")
    <3>1. n > 0 => n \in 1..n
      BY <1>6
    <3> HIDE DEF n
    <3>q. QED
      BY <1>8, <3>1
  <2>2. Len(url) = n
    BY <2>1 DEF Matches_
  <2>3. \A k \in 1..n : url[k] = routes[i].path[k].text
    BY <1>6, <1>8 DEF Matches_
  <2>q. QED
    BY <2>2, <2>3
<1>10. m <= n /\ \A k \in B : url[k] = routes[f].path[k].text
  <2>1. Len(url) >= m \/ Len(url) = m
    BY <1>5 DEF Matches_
  <2>2. \A k \in B : url[k] = routes[f].path[k].text
    BY <1>5 DEF Matches_
  <2>q. QED
    BY <1>6, <1>7, <1>9, <2>1, <2>2
<1>11. Cardinality(A) = n
  <2> HIDE DEF n, A
  <2>1. Cardinality(1..n) = IF 1 > n THEN 0 ELSE n - 1 + 1
    BY <1>6, FS_Interval
  <2>q. QED
    BY <1>6, <1>8, <2>1
<1>12. Cardinality(B) \in Nat /\ Cardinality(B) <= m /\ (Cardinality(B) = m => B = 1..m)
  <2> HIDE DEF m, B
  <2>1. IsFiniteSet(1..m) /\ Cardinality(1..m) = IF 1 > m THEN 0 ELSE m - 1 + 1
    BY <1>7, FS_Interval
  <2>2. B \in SUBSET (1..m)
    BY <1>7 DEF B, m
  <2>3. IsFiniteSet(B) /\ Cardinality(B) <= Cardinality(1..m) /\ (Cardinality(1..m) = Cardinality(B) => 1..m = B)
    BY <2>1, <2>2, FS_Subset
  <2>4. Cardinality(1..m) = m
    BY <1>7, <2>1
  <2>q. QED
    BY <2>3, <2>4, FS_CardinalityType
<1>13. Before(p, q)
  <2>1. DOMAIN p = 1..(n + 8) /\ DOMAIN q = 1..(m + 8)
    <3> HIDE DEF p, q, n, m
    <3>q. QED
      BY <1>6, <1>7, LenProperties, Zenon
  <2>2. 1 \in DOMAIN p \cap DOMAIN q /\ 2 \in DOMAIN p \cap DOMAIN q
    BY <1>6, <1>7, <2>1
  <2>3. CASE method = "HEAD" /\ routes[f].method = "GET"
    <3>1. p[1] = 0 /\ q[1] = 1
      BY <1>6, <1>7, <2>3
    <3>q. QED
      BY <2>2, <3>1 DEF Before
  <2>4. CASE routes[f].method = method
    <3>1. p[1] = q[1]
      BY <1>6, <1>7, <2>4
    <3>2. Cardinality(B) # n
      <4>1. SUFFICES ASSUME Cardinality(B) = n PROVE FALSE
        OBVIOUS
      <4>2. m = n /\ B = 1..n
        <5> HIDE DEF m, n, B
        <5>q. QED
          BY <1>6, <1>7, <1>10, <1>12, <4>1
      <4>3. \A k \in 1..n : routes[f].path[k].kind = "literal" /\ routes[f].path[k].text = routes[i].path[k].text
        BY <1>9, <1>10, <4>2
      <4>4. DOMAIN routes[f].path = 1..n
        BY <1>7, <4>2
      <4>5. _document_path(routes[i].path) = [k \in 1..n |-> <<"literal", routes[i].path[k].text>>]
        BY <1>6, <1>8 DEF _document_path
      <4>6. _document_path(routes[f].path) = [k \in 1..n |-> <<"literal", routes[i].path[k].text>>]
        BY <4>3, <4>4 DEF _document_path
      <4>q. QED
        BY <1>2, <1>3, <2>4, <4>5, <4>6 DEF Ranked, _validate_route_identities
    <3>3. p[2] < q[2]
      <4> HIDE DEF m, n, A, B, p, q
      <4>q. QED
        BY <1>6, <1>7, <1>10, <1>11, <1>12, <3>2
    <3>4. \A k \in 1..(2 - 1) : p[k] = q[k]
      BY <3>1
    <3>q. QED
      BY <2>2, <3>3, <3>4 DEF Before
  <2>q. QED
    BY <1>5, <2>3, <2>4
<1>q. QED
  BY <1>4, <1>6, <1>7, <1>13, NotBothBefore

(* What composing an application has checked of each of its routes.        *)
LEMMA ComposedIs ==
  ASSUME NEW a \in DOMAIN Applications, Composes[a]
  PROVE  /\ Ranked(Routes[a])
         /\ \A i \in DOMAIN Routes[a] :
              /\ contract(Routes[a][i])
              /\ _check_params_match_path(Routes[a][i])
              /\ _contract_adapters(Routes[a][i])
<1>1. create_app(Applications[a], Routes[a])
  BY DEF Composes
<1>2. \A i \in DOMAIN Routes[a] :
        /\ contract(Routes[a][i])
        /\ _check_params_match_path(Routes[a][i])
        /\ _contract_adapters(Routes[a][i])
  BY <1>1 DEF create_app
<1>3. _validate_route_identities(Routes[a])
  BY <1>1 DEF create_app
<1>4. Routes[a] \in Seq(Range(Routes[a]))
  BY ApplicationsAssumption
<1>5. \A i \in DOMAIN Routes[a] :
        /\ Compiles(Routes[a][i].path)
        /\ PathRank[Routes[a][i].path] \in Int /\ MethodRank[Routes[a][i].method] \in Int
        /\ \A k \in DOMAIN Routes[a][i].path : Routes[a][i].path[k].kind # "parameter" => Length[Routes[a][i].path[k].text] \in Nat
  BY ApplicationsAssumption
<1>6. \A i, j \in DOMAIN Routes[a] :
        /\ PathRank[Routes[a][i].path] = PathRank[Routes[a][j].path] => Routes[a][i].path = Routes[a][j].path
        /\ MethodRank[Routes[a][i].method] = MethodRank[Routes[a][j].method] => Routes[a][i].method = Routes[a][j].method
  BY ApplicationsAssumption
<1>q. QED
  BY <1>2, <1>3, <1>4, <1>5, <1>6 DEF Ranked

(* The phases before a request has a route, while it is handled, and       *)
(* after.                                                                  *)
Unserved == {"declared", "refused", "serving", "not_sent", "sent"}
Handling == {"dispatched", "verified", "invoked"}
Answered == {"answered", "read"}

(* What is built is what was declared, and nothing is there before its     *)
(* phase.                                                                  *)
PhaseFits ==
  /\ application \in DOMAIN Applications
  /\ phase \in Unserved \cup Handling \cup Answered
  /\ phase \notin {"declared", "refused"} =>
       Composes[application] /\ app = [routes |-> Routes[application], limit |-> Applications[application].limit]
  /\ phase \in Unserved => served = 0
  /\ phase \in Unserved \cup {"dispatched", "verified"} => received = Missing
  /\ phase \in Unserved \cup Handling => raised = Missing /\ answered = Missing /\ replaced = FALSE
  /\ replaced \in BOOLEAN

(* A client's request is what its call was made into.                      *)
CallMade ==
  /\ asked.route \in DOMAIN app.routes
  /\ ErrorsAgree(app.routes[asked.route].errors \cup client.errors)
  /\ Sendable(Request(app.routes[asked.route], asked))
  /\ wire = [Request(app.routes[asked.route], asked) EXCEPT !.url = Normalised(@)]
CallFits == client # Missing /\ phase \in {"sent"} \cup Handling \cup Answered => CallMade

(* The route that serves the request is the one it is dispatched to.       *)
DispatchFits ==
  /\ phase \in Handling => served \in DOMAIN app.routes
  /\ phase \in Handling \cup Answered => served = Dispatch(app.routes, wire.method, wire.url)

(* What the use case was given was read from the request, all of it valid, *)
(* of the media type and within the limit; and a webhook had its bytes     *)
(* approved.                                                               *)
Accepted ==
  /\ served \in DOMAIN app.routes
  /\ received = [Arguments EXCEPT !.request = RequestBody]
  /\ Arguments.params # Invalid /\ Arguments.query # Invalid /\ Arguments.headers # Invalid /\ RequestBody # Invalid
  /\ C.request # Missing => MediaMatches /\ _read_body
Approved == C.webhook => approved = wire.body
ReceivedFits ==
  /\ phase = "verified" => C.webhook /\ Approved
  /\ phase = "invoked" => Accepted /\ Approved
  /\ received # Missing => Accepted /\ Approved

(* Why a response is what it is: no route, a refused request, an error     *)
(* that was raised, an answer of a definition, or a response that was      *)
(* passed through.                                                         *)
NotRouted == served = 0 /\ response \in {not_found, method_not_allowed}
MediaRefused ==
  /\ response = unsupported_media_type /\ (C.webhook \/ C.request # Missing)
  /\ ~MediaMatches \/ (is_text_media_type(C.media) /\ text_charset(wire.media) \notin Codecs)
InputRefused ==
  /\ response = validation_error
  /\ Arguments.params = Invalid \/ Arguments.query = Invalid \/ Arguments.headers = Invalid \/ RequestBody = Invalid
Refused_ == MediaRefused \/ InputRefused \/ response = request_too_large
ErrorRaised ==
  /\ raised \in ErrorDefs
  /\ response = IF raised \in C.errors THEN Answer(raised.status, "app", raised.code) ELSE internal_server_error
Ordinarily ==
  \E i \in DOMAIN Definitions(C) : \E body, headers :
    answered = Meant(i, body) /\ response = OrdinaryResponse(Definitions(C)[i], body, headers)
PassedThrough ==
  /\ answered.definition \in DOMAIN C.responses /\ C.responses[answered.definition].passthrough
  /\ response.source = "none"
(* Every response has one of these reasons, or is a proxy's.               *)
AnsweredFits ==
  phase \in Answered =>
    IF replaced THEN response \in Intruders
    ELSE \/ raised = Missing /\ answered = Missing /\ (NotRouted \/ Refused_)
         \/ answered = Missing /\ ErrorRaised
         \/ raised = Missing /\ (response = internal_server_error \/ Ordinarily \/ PassedThrough)

(* What a client makes of the response is made of it alone.                *)
Understanding ==
  LET contract_ == app.routes[asked.route]
      selected == SelectInSeq(Definitions(contract_), LAMBDA d : d.status = response.status)
  IN  IF selected # 0 THEN ReadSuccess(Definitions(contract_)[selected])
      ELSE _raise_for_error(contract_.errors \cup client.errors)
ReadFits == phase = "read" => client # Missing /\ read = Understanding

(* Together they are inductive.                                            *)
HttpInv == PhaseFits /\ CallFits /\ DispatchFits /\ ReceivedFits /\ AnsweredFits /\ ReadFits

(* A call stays what was made of it while the caller and its request do.   *)
LEMMA CallStays == CallMade /\ UNCHANGED <<app, client, asked, wire>> => CallMade'
<1> SUFFICES ASSUME CallMade, UNCHANGED <<app, client, asked, wire>> PROVE CallMade'
  OBVIOUS
<1> DEFINE c == app.routes[asked.route]
<1>1. app' = app /\ client' = client /\ asked' = asked /\ wire' = wire
  OBVIOUS
<1>2. (Request(app.routes[asked.route], asked))' = Request(app.routes[asked.route], asked)
  BY <1>1, Zenon DEF Request, _build_query, _build_headers, EffectiveHeaders, Sent
<1>q. QED
  BY <1>1, <1>2, Zenon DEF CallMade, Sendable

(* So does what the server reads of a request.                             *)
LEMMA RequestStays ==
  UNCHANGED <<app, wire, served>> =>
    /\ C' = C /\ MediaMatches' = MediaMatches /\ _read_body' = _read_body
    /\ Arguments' = Arguments /\ RequestBody' = RequestBody
<1> SUFFICES ASSUME UNCHANGED <<app, wire, served>>
    PROVE  /\ C' = C /\ MediaMatches' = MediaMatches /\ _read_body' = _read_body
           /\ Arguments' = Arguments /\ RequestBody' = RequestBody
  OBVIOUS
<1>1. app' = app /\ wire' = wire /\ served' = served
  OBVIOUS
<1>2. C' = C
  BY <1>1 DEF C
<1>3. MediaMatches' = MediaMatches
  BY <1>1, <1>2, Zenon DEF MediaMatches
<1>4. _read_body' = _read_body
  <2>1. BodyLimit' = BodyLimit
    BY <1>1, <1>2, Zenon DEF BodyLimit
  <2>q. QED
    BY <1>1, <2>1 DEF _read_body
<1>5. Arguments' = Arguments
  BY <1>1, <1>2, Zenon DEF Arguments
<1>6. RequestBody' = RequestBody
  BY <1>1, <1>2, Zenon DEF RequestBody
<1>q. QED
  BY <1>2, <1>3, <1>4, <1>5, <1>6

(* Initially nothing has happened.                                         *)
LEMMA HttpInitial == HttpInit => HttpInv
  BY DEF HttpInit, HttpInv, PhaseFits, CallFits, DispatchFits, ReceivedFits, AnsweredFits, ReadFits, Unserved, Handling, Answered

(* create_app builds the application or refuses to.                        *)
LEMMA ComposeStep == HttpInv /\ Compose => HttpInv'
<1> SUFFICES ASSUME HttpInv, Compose PROVE HttpInv'
  OBVIOUS
<1>1. PhaseFits'
  BY DEF HttpInv, Compose, PhaseFits, Unserved, Handling, Answered
<1>2. CallFits' /\ DispatchFits' /\ AnsweredFits' /\ ReadFits'
  BY DEF HttpInv, Compose, CallFits, DispatchFits, AnsweredFits, ReadFits, Handling, Answered
<1>3. ReceivedFits'
  BY DEF HttpInv, Compose, PhaseFits, ReceivedFits, Unserved
<1>q. QED
  BY <1>1, <1>2, <1>3 DEF HttpInv

(* The client sends a request, or refuses to.                              *)
LEMMA PerformStep ==
  ASSUME HttpInv, NEW i \in DOMAIN app.routes, NEW arguments, _perform_call(i, arguments)
  PROVE  HttpInv'
<1> DEFINE c == app.routes[i]
<1>1. /\ phase = "serving" /\ phase' \in {"sent", "not_sent"}
      /\ UNCHANGED <<application, app, client, served, approved, received, raised, answered, response, replaced, read>>
  BY DEF _perform_call
<1>2. PhaseFits'
  BY <1>1 DEF HttpInv, PhaseFits, Unserved, Handling, Answered
<1>3. CallFits'
  <2>1. SUFFICES ASSUME phase' = "sent" PROVE CallMade'
    BY <1>1 DEF CallFits, Handling, Answered
  <2>2. /\ asked' = [route |-> i, params |-> arguments.params, query |-> arguments.query,
                     headers |-> arguments.headers, request |-> arguments.request]
        /\ ErrorsAgree(c.errors \cup client.errors)
        /\ Sendable(Request(c, arguments))
        /\ wire' = [Request(c, arguments) EXCEPT !.url = Normalised(@)]
    BY <2>1 DEF _perform_call
  <2>3. /\ asked'.route = i /\ asked'.params = arguments.params /\ asked'.query = arguments.query
        /\ asked'.headers = arguments.headers /\ asked'.request = arguments.request
    BY <2>2
  <2>4. app' = app /\ client' = client
    BY <1>1
  <2>5. (Request(app.routes[asked.route], asked))' = Request(c, arguments)
    <3>1. (Request(app.routes[asked.route], asked))' = Request(app.routes[asked'.route], asked')
      BY <2>4, Zenon DEF Request, _build_query, _build_headers, EffectiveHeaders, Sent
    <3>2. Request(c, asked') = Request(c, arguments)
      BY <2>3, Zenon DEF Request
    <3>q. QED
      BY <2>3, <3>1, <3>2, Zenon
  <2>q. QED
    BY <2>2, <2>3, <2>4, <2>5, Zenon DEF CallMade, Sendable
<1>4. DispatchFits' /\ AnsweredFits' /\ ReadFits'
  BY <1>1 DEF DispatchFits, AnsweredFits, ReadFits, Handling, Answered
<1>5. ReceivedFits'
  BY <1>1 DEF HttpInv, PhaseFits, ReceivedFits, Unserved
<1>q. QED
  BY <1>2, <1>3, <1>4, <1>5 DEF HttpInv

(* Another peer sends one.                                                 *)
LEMMA SendRawStep ==
  ASSUME HttpInv, NEW request, SendRaw(request)
  PROVE  HttpInv'
<1>1. /\ phase = "serving" /\ phase' = "sent" /\ client' = Missing
      /\ UNCHANGED <<application, app, asked, served, approved, received, raised, answered, response, replaced, read>>
  BY DEF SendRaw
<1>2. PhaseFits'
  BY <1>1 DEF HttpInv, PhaseFits, Unserved, Handling, Answered
<1>3. CallFits' /\ DispatchFits' /\ AnsweredFits' /\ ReadFits'
  BY <1>1 DEF CallFits, DispatchFits, AnsweredFits, ReadFits, Handling, Answered
<1>4. ReceivedFits'
  BY <1>1 DEF HttpInv, PhaseFits, ReceivedFits, Unserved
<1>q. QED
  BY <1>2, <1>3, <1>4 DEF HttpInv

(* The request is dispatched, or no route is found.                        *)
LEMMA ArriveStep == HttpInv /\ Arrive => HttpInv'
<1> SUFFICES ASSUME HttpInv, Arrive PROVE HttpInv'
  OBVIOUS
<1>1. /\ phase = "sent" /\ phase' \in {"dispatched", "answered"}
      /\ served' = Dispatch(app.routes, wire.method, wire.url)
      /\ UNCHANGED <<application, app, client, asked, wire, approved, received, raised, answered, replaced, read>>
      /\ phase' = "dispatched" => served' # 0
      /\ phase' = "answered" => served' = 0 /\ response' \in {not_found, method_not_allowed}
  BY DEF Arrive, Respond
<1>2. received = Missing /\ raised = Missing /\ answered = Missing /\ replaced = FALSE
  BY <1>1 DEF HttpInv, PhaseFits, Unserved
<1>3. PhaseFits'
  BY <1>1, <1>2 DEF HttpInv, PhaseFits, Unserved, Handling, Answered
<1>4. CallFits'
  <2>1. client # Missing => CallMade
    BY <1>1 DEF HttpInv, CallFits
  <2>q. QED
    BY <1>1, <2>1, CallStays DEF CallFits
<1>5. DispatchFits'
  <2>1. Ranked(app.routes)
    <3>1. application \in DOMAIN Applications /\ Composes[application] /\ app.routes = Routes[application]
      BY <1>1 DEF HttpInv, PhaseFits
    <3>q. QED
      BY <3>1, ComposedIs
  <2>2. served' # 0 => served' \in DOMAIN app.routes
    BY <1>1, <2>1, DispatchIs
  <2>q. QED
    BY <1>1, <2>2 DEF DispatchFits, Handling, Answered
<1>6. ReceivedFits'
  BY <1>1, <1>2 DEF ReceivedFits
<1>7. AnsweredFits'
  BY <1>1, <1>2 DEF AnsweredFits, NotRouted, Answered, not_found, method_not_allowed
<1>8. ReadFits'
  BY <1>1 DEF ReadFits
<1>q. QED
  BY <1>3, <1>4, <1>5, <1>6, <1>7, <1>8 DEF HttpInv

(* What handling a request leaves alone.                                   *)
LEMMA ServerKeeps ==
  ASSUME HttpInv, phase \in Handling \cup Answered, phase' \in Handling \cup Answered, phase' \in Handling => phase \in Handling,
         UNCHANGED <<application, app, client, asked, wire, served>>
  PROVE  /\ CallFits' /\ DispatchFits'
         /\ phase \in Handling => served \in DOMAIN app.routes
<1>1. CallFits'
  <2>1. client # Missing => CallMade
    BY DEF HttpInv, CallFits
  <2>q. QED
    BY <2>1, CallStays DEF CallFits
<1>2. DispatchFits'
  BY DEF HttpInv, DispatchFits, Handling, Answered
<1>q. QED
  BY <1>1, <1>2 DEF HttpInv, DispatchFits

(* A webhook's media type, size and bytes are checked.                     *)
LEMMA VerifyStep == HttpInv /\ VerifyWebhook => HttpInv'
<1> SUFFICES ASSUME HttpInv, VerifyWebhook PROVE HttpInv'
  OBVIOUS
<1>1. /\ phase = "dispatched" /\ C.webhook /\ phase' \in {"verified", "answered"}
      /\ UNCHANGED <<application, app, client, asked, wire, served, received, raised, answered, replaced, read>>
      /\ phase' = "verified" => approved' = wire.body
      /\ phase' = "answered" => (response' = unsupported_media_type /\ ~MediaMatches) \/ response' = request_too_large
  BY DEF VerifyWebhook, Respond
<1>2. received = Missing /\ raised = Missing /\ answered = Missing /\ replaced = FALSE
  BY <1>1 DEF HttpInv, PhaseFits, Handling
<1>3. PhaseFits'
  BY <1>1, <1>2 DEF HttpInv, PhaseFits, Unserved, Handling, Answered
<1>4. CallFits' /\ DispatchFits'
  BY <1>1, ServerKeeps DEF Handling, Answered
<1>5. C' = C /\ MediaMatches' = MediaMatches
  BY <1>1, RequestStays
<1>6. ReceivedFits'
  BY <1>1, <1>2, <1>5 DEF ReceivedFits, Approved
<1>7. AnsweredFits'
  <2>1. SUFFICES ASSUME phase' = "answered" PROVE Refused_'
    BY <1>1, <1>2 DEF AnsweredFits, Answered
  <2>q. QED
    BY <1>1, <1>5, <2>1 DEF Refused_, MediaRefused, unsupported_media_type, request_too_large
<1>8. ReadFits'
  BY <1>1 DEF ReadFits
<1>q. QED
  BY <1>3, <1>4, <1>6, <1>7, <1>8 DEF HttpInv

(* Parameters, media type, size and body, in this order.                   *)
LEMMA ValidateInputsStep == HttpInv /\ ValidateInputs => HttpInv'
<1> SUFFICES ASSUME HttpInv, ValidateInputs PROVE HttpInv'
  OBVIOUS
<1>1. /\ phase = (IF C.webhook THEN "verified" ELSE "dispatched") /\ phase' \in {"invoked", "answered"}
      /\ UNCHANGED <<application, app, client, asked, wire, served, approved, raised, answered, replaced, read>>
  BY DEF ValidateInputs, Respond
<1>2. received = Missing /\ raised = Missing /\ answered = Missing /\ replaced = FALSE
  BY <1>1 DEF HttpInv, PhaseFits, Handling
<1>3. phase' = "invoked" =>
        /\ received' = [Arguments EXCEPT !.request = RequestBody]
        /\ Arguments.params # Invalid /\ Arguments.query # Invalid /\ Arguments.headers # Invalid /\ RequestBody # Invalid
        /\ C.request # Missing => MediaMatches /\ _read_body
  BY DEF ValidateInputs, Respond
<1>4. phase' = "answered" =>
        /\ received' = received
        /\ \/ /\ response' = validation_error
              /\ Arguments.params = Invalid \/ Arguments.query = Invalid \/ Arguments.headers = Invalid \/ RequestBody = Invalid
           \/ response' = unsupported_media_type /\ C.request # Missing /\ ~MediaMatches
           \/ response' = request_too_large
           \/ /\ response' = unsupported_media_type /\ C.request # Missing
              /\ is_text_media_type(C.media) /\ text_charset(wire.media) \notin Codecs
  BY DEF ValidateInputs, Respond
<1>5. /\ C' = C /\ MediaMatches' = MediaMatches /\ _read_body' = _read_body
      /\ Arguments' = Arguments /\ RequestBody' = RequestBody
  BY <1>1, RequestStays
<1>6. PhaseFits'
  BY <1>1, <1>2 DEF HttpInv, PhaseFits, Unserved, Handling, Answered
<1>7. CallFits' /\ DispatchFits' /\ served \in DOMAIN app.routes
  BY <1>1, ServerKeeps DEF Handling, Answered
<1>8. Approved'
  <2>1. C.webhook => approved = wire.body
    BY <1>1 DEF HttpInv, ReceivedFits, Approved
  <2>q. QED
    BY <1>1, <1>5, <2>1 DEF Approved
<1>9. ReceivedFits'
  <2>1. CASE phase' = "invoked"
    <3>1. Accepted'
      BY <1>1, <1>3, <1>5, <1>7, <2>1 DEF Accepted
    <3>q. QED
      BY <1>8, <2>1, <3>1 DEF ReceivedFits
  <2>2. CASE phase' = "answered"
    BY <1>2, <1>4, <2>2 DEF ReceivedFits
  <2>q. QED
    BY <1>1, <2>1, <2>2
<1>10. AnsweredFits'
  <2>1. SUFFICES ASSUME phase' = "answered" PROVE Refused_'
    BY <1>1, <1>2 DEF AnsweredFits, Answered
  <2>2. CASE /\ response' = validation_error
             /\ Arguments.params = Invalid \/ Arguments.query = Invalid \/ Arguments.headers = Invalid \/ RequestBody = Invalid
    <3>1. InputRefused'
      BY <1>5, <2>2 DEF InputRefused, validation_error
    <3>q. QED
      BY <3>1 DEF Refused_
  <2>3. CASE response' = unsupported_media_type /\ C.request # Missing /\ ~MediaMatches
    <3>1. MediaRefused'
      BY <1>5, <2>3 DEF MediaRefused, unsupported_media_type
    <3>q. QED
      BY <3>1 DEF Refused_
  <2>4. CASE response' = request_too_large
    BY <2>4 DEF Refused_, request_too_large
  <2>5. CASE /\ response' = unsupported_media_type /\ C.request # Missing
             /\ is_text_media_type(C.media) /\ text_charset(wire.media) \notin Codecs
    <3>1. MediaRefused'
      BY <1>1, <1>5, <2>5 DEF MediaRefused, unsupported_media_type
    <3>q. QED
      BY <3>1 DEF Refused_
  <2>q. QED
    BY <1>4, <2>1, <2>2, <2>3, <2>4, <2>5
<1>11. ReadFits'
  BY <1>1 DEF ReadFits
<1>q. QED
  BY <1>6, <1>7, <1>9, <1>10, <1>11 DEF HttpInv

(* What the application's answers leave alone.                             *)
LEMMA AnswerKeeps ==
  ASSUME HttpInv, phase \in {"verified", "invoked"}, phase' = "answered",
         UNCHANGED <<application, app, client, asked, wire, served, approved, received, replaced, read>>
  PROVE  /\ PhaseFits' /\ CallFits' /\ DispatchFits' /\ ReceivedFits' /\ ReadFits'
         /\ C' = C /\ replaced' = FALSE /\ raised = Missing /\ answered = Missing
<1>1. replaced = FALSE /\ raised = Missing /\ answered = Missing
  BY DEF HttpInv, PhaseFits, Handling
<1>2. PhaseFits'
  BY <1>1 DEF HttpInv, PhaseFits, Unserved, Handling, Answered
<1>3. CallFits' /\ DispatchFits'
  BY ServerKeeps DEF Handling, Answered
<1>4. /\ C' = C /\ MediaMatches' = MediaMatches /\ _read_body' = _read_body
      /\ Arguments' = Arguments /\ RequestBody' = RequestBody
  BY RequestStays
<1>5. ReceivedFits'
  <2>1. SUFFICES ASSUME received # Missing PROVE Accepted' /\ Approved'
    BY DEF ReceivedFits
  <2>2. Accepted /\ Approved
    BY <2>1 DEF HttpInv, ReceivedFits
  <2>q. QED
    BY <1>4, <2>2 DEF Accepted, Approved
<1>6. ReadFits'
  BY DEF ReadFits
<1>q. QED
  BY <1>1, <1>2, <1>3, <1>4, <1>5, <1>6

(* An application error is answered as declared, or as a server error.     *)
LEMMA RaiseStep ==
  ASSUME HttpInv, NEW definition \in ErrorDefs, RaiseAppError(definition)
  PROVE  HttpInv'
<1>1. /\ phase \in {"verified", "invoked"} /\ phase' = "answered" /\ raised' = definition
      /\ response' = IF definition \in C.errors THEN Answer(definition.status, "app", definition.code) ELSE internal_server_error
      /\ UNCHANGED <<application, app, client, asked, wire, served, approved, received, answered, replaced, read>>
  BY DEF RaiseAppError, Respond, declares_error
<1>2. /\ PhaseFits' /\ CallFits' /\ DispatchFits' /\ ReceivedFits' /\ ReadFits'
      /\ C' = C /\ replaced' = FALSE /\ raised = Missing /\ answered = Missing
  BY <1>1, AnswerKeeps
<1>3. ErrorRaised'
  BY <1>1, <1>2 DEF ErrorRaised, internal_server_error, Answer
<1>4. AnsweredFits'
  BY <1>1, <1>2, <1>3 DEF AnsweredFits
<1>q. QED
  BY <1>2, <1>4 DEF HttpInv

(* The use case's result is answered in the contract's only definition.    *)
LEMMA SingularStep ==
  ASSUME HttpInv, NEW result, NEW headers, AnswerSingular(result, headers)
  PROVE  HttpInv'
<1>1. /\ phase = "invoked" /\ phase' = "answered" /\ C.responses = <<>>
      /\ response' = OrdinaryResponse(C.response, result, headers)
      /\ answered' = Meant(1, result)
      /\ UNCHANGED <<application, app, client, asked, wire, served, approved, received, raised, replaced, read>>
  BY DEF AnswerSingular, Respond
<1>2. /\ PhaseFits' /\ CallFits' /\ DispatchFits' /\ ReceivedFits' /\ ReadFits'
      /\ C' = C /\ replaced' = FALSE /\ raised = Missing /\ answered = Missing
  BY <1>1, AnswerKeeps
<1>3. Definitions(C) = <<C.response>> /\ 1 \in DOMAIN Definitions(C) /\ Definitions(C)[1] = C.response
  BY <1>1 DEF Definitions
<1>4. (Meant(1, result))' = Meant(1, result)
  BY <1>2 DEF Meant
<1>5. (OrdinaryResponse(Definitions(C)[1], result, headers))' = OrdinaryResponse(Definitions(C)[1], result, headers)
  BY <1>2, Zenon DEF OrdinaryResponse, internal_server_error, FrameworkError, Answer
<1>6. Ordinarily'
  <2>1. 1 \in DOMAIN Definitions(C') /\ answered' = (Meant(1, result))'
        /\ response' = (OrdinaryResponse(Definitions(C)[1], result, headers))'
    BY <1>1, <1>2, <1>3, <1>4, <1>5
  <2>q. QED
    BY <2>1 DEF Ordinarily
<1>7. AnsweredFits'
  BY <1>1, <1>2, <1>6 DEF AnsweredFits
<1>q. QED
  BY <1>2, <1>7 DEF HttpInv

(* Or a presenter chooses the definition.                                  *)
LEMMA PresentStep ==
  ASSUME HttpInv, NEW i, i = 0 \/ i \in DOMAIN C.responses, NEW body, NEW headers, PresentResult(i, body, headers)
  PROVE  HttpInv'
<1>1. /\ phase = "invoked" /\ phase' = "answered" /\ C.responses # <<>>
      /\ response' = _presented_response(IF i = 0 THEN Missing ELSE C.responses[i], body, headers)
      /\ answered' = IF i = 0 THEN Missing ELSE Meant(i, body)
      /\ UNCHANGED <<application, app, client, asked, wire, served, approved, received, raised, replaced, read>>
  BY DEF PresentResult, Respond
<1>2. /\ PhaseFits' /\ CallFits' /\ DispatchFits' /\ ReceivedFits' /\ ReadFits'
      /\ C' = C /\ replaced' = FALSE /\ raised = Missing /\ answered = Missing
  BY <1>1, AnswerKeeps
<1>3. response' = internal_server_error \/ Ordinarily'
  <2>1. CASE i = 0
    BY <1>1, <2>1 DEF _presented_response
  <2>2. CASE i # 0
    <3>1. Definitions(C) = C.responses /\ i \in DOMAIN Definitions(C)
      BY <1>1, <2>2 DEF Definitions
    <3>2. response' = internal_server_error \/ response' = OrdinaryResponse(Definitions(C)[i], body, headers)
      BY <1>1, <2>2, <3>1, Zenon DEF _presented_response
    <3>3. (Meant(i, body))' = Meant(i, body)
      BY <1>2 DEF Meant
    <3>4. (OrdinaryResponse(Definitions(C)[i], body, headers))' = OrdinaryResponse(Definitions(C)[i], body, headers)
      BY <1>2, Zenon DEF OrdinaryResponse, internal_server_error, FrameworkError, Answer
    <3>5. i \in DOMAIN Definitions(C') /\ answered' = (Meant(i, body))'
      BY <1>1, <1>2, <2>2, <3>1, <3>3
    <3>q. QED
      BY <3>2, <3>4, <3>5 DEF Ordinarily
  <2>q. QED
    BY <2>1, <2>2
<1>4. AnsweredFits'
  BY <1>1, <1>2, <1>3 DEF AnsweredFits, internal_server_error
<1>q. QED
  BY <1>2, <1>4 DEF HttpInv

(* Or passes a response of its own through.                                *)
LEMMA PassStep ==
  ASSUME HttpInv, NEW i \in DOMAIN C.responses, NEW raw \in RawResponses, PassThrough(i, raw)
  PROVE  HttpInv'
<1>1. /\ phase = "invoked" /\ phase' = "answered" /\ C.responses[i].passthrough
      /\ response' = IF _validate_passthrough(C.responses[i], raw) THEN [raw EXCEPT !.source = "none"] ELSE internal_server_error
      /\ answered' = [definition |-> i, body |-> Missing]
      /\ UNCHANGED <<application, app, client, asked, wire, served, approved, received, raised, replaced, read>>
  BY DEF PassThrough, Respond
<1>2. /\ PhaseFits' /\ CallFits' /\ DispatchFits' /\ ReceivedFits' /\ ReadFits'
      /\ C' = C /\ replaced' = FALSE /\ raised = Missing /\ answered = Missing
  BY <1>1, AnswerKeeps
<1>3. "source" \in DOMAIN raw
  BY ApplicationsAssumption
<1>4. response' = internal_server_error \/ PassedThrough'
  <2>1. SUFFICES ASSUME response' = [raw EXCEPT !.source = "none"] PROVE PassedThrough'
    BY <1>1
  <2>2. response'.source = "none"
    BY <1>3, <2>1
  <2>3. answered'.definition = i
    BY <1>1
  <2>q. QED
    BY <1>1, <1>2, <2>2, <2>3 DEF PassedThrough
<1>5. AnsweredFits'
  BY <1>1, <1>2, <1>4 DEF AnsweredFits, internal_server_error
<1>q. QED
  BY <1>2, <1>5 DEF HttpInv

(* What follows an answer leaves what led to it alone.                     *)
LEMMA AfterwardsKeeps ==
  ASSUME HttpInv, phase = "answered", phase' \in Answered,
         UNCHANGED <<application, app, client, asked, wire, served, approved, received, raised, answered>>
  PROVE  CallFits' /\ DispatchFits' /\ ReceivedFits' /\ C' = C
<1>1. CallFits' /\ DispatchFits'
  BY ServerKeeps DEF Handling, Answered
<1>2. /\ C' = C /\ MediaMatches' = MediaMatches /\ _read_body' = _read_body
      /\ Arguments' = Arguments /\ RequestBody' = RequestBody
  BY RequestStays
<1>3. ReceivedFits'
  <2>1. SUFFICES ASSUME received # Missing PROVE Accepted' /\ Approved'
    BY DEF ReceivedFits, Answered
  <2>2. Accepted /\ Approved
    BY <2>1 DEF HttpInv, ReceivedFits
  <2>q. QED
    BY <1>2, <2>2 DEF Accepted, Approved
<1>q. QED
  BY <1>1, <1>2, <1>3

(* A proxy's response takes the place of the server's.                     *)
LEMMA IntrudeStep ==
  ASSUME HttpInv, NEW r \in Intruders, Intrude(r)
  PROVE  HttpInv'
<1>1. /\ phase = "answered" /\ phase' = phase /\ response' = r /\ replaced' = TRUE
      /\ UNCHANGED <<application, app, client, asked, wire, served, approved, received, raised, answered, read>>
  BY DEF Intrude
<1>2. CallFits' /\ DispatchFits' /\ ReceivedFits'
  BY <1>1, AfterwardsKeeps DEF Answered
<1>3. PhaseFits' /\ AnsweredFits' /\ ReadFits'
  BY <1>1 DEF HttpInv, PhaseFits, AnsweredFits, ReadFits, Unserved, Handling, Answered
<1>q. QED
  BY <1>2, <1>3 DEF HttpInv

(* An answer stays what it is while nothing of it changes.                 *)
LEMMA AnswerStays ==
  ASSUME AnsweredFits, phase \in Answered, UNCHANGED <<app, wire, served, raised, answered, response, replaced>>
  PROVE  AnsweredFits'
<1>1. /\ C' = C /\ MediaMatches' = MediaMatches /\ _read_body' = _read_body
      /\ Arguments' = Arguments /\ RequestBody' = RequestBody
  BY RequestStays
<1>2. NotRouted => NotRouted'
  BY DEF NotRouted, not_found, method_not_allowed
<1>3. Refused_ => Refused_'
  BY <1>1 DEF Refused_, MediaRefused, InputRefused, unsupported_media_type, validation_error, request_too_large
<1>4. ErrorRaised => ErrorRaised'
  BY <1>1 DEF ErrorRaised, internal_server_error
<1>5. Ordinarily => Ordinarily'
  <2>1. SUFFICES ASSUME NEW i \in DOMAIN Definitions(C), NEW body, NEW headers, answered = Meant(i, body),
                        response = OrdinaryResponse(Definitions(C)[i], body, headers)
        PROVE Ordinarily'
    BY DEF Ordinarily
  <2>2. (Meant(i, body))' = Meant(i, body)
    BY <1>1 DEF Meant
  <2>3. (OrdinaryResponse(Definitions(C)[i], body, headers))' = OrdinaryResponse(Definitions(C)[i], body, headers)
    BY <1>1, Zenon DEF OrdinaryResponse, internal_server_error, FrameworkError, Answer
  <2>4. i \in DOMAIN Definitions(C') /\ answered' = (Meant(i, body))'
        /\ response' = (OrdinaryResponse(Definitions(C)[i], body, headers))'
    BY <1>1, <2>1, <2>2, <2>3
  <2>q. QED
    BY <2>4 DEF Ordinarily
<1>6. PassedThrough => PassedThrough'
  BY <1>1 DEF PassedThrough
<1>7. replaced' = replaced /\ raised' = raised /\ answered' = answered /\ response' = response
  OBVIOUS
<1>8. IF replaced THEN response \in Intruders
      ELSE \/ raised = Missing /\ answered = Missing /\ (NotRouted \/ Refused_)
           \/ answered = Missing /\ ErrorRaised
           \/ raised = Missing /\ (response = internal_server_error \/ Ordinarily \/ PassedThrough)
  BY DEF AnsweredFits
<1>q. QED
  BY <1>2, <1>3, <1>4, <1>5, <1>6, <1>7, <1>8 DEF AnsweredFits, internal_server_error

(* So does what the client makes of it.                                    *)
LEMMA UnderstandingStays == UNCHANGED <<app, client, asked, response>> => Understanding' = Understanding
<1> SUFFICES ASSUME UNCHANGED <<app, client, asked, response>> PROVE Understanding' = Understanding
  OBVIOUS
<1>1. app' = app /\ client' = client /\ asked' = asked /\ response' = response
  OBVIOUS
<1> DEFINE definitions == Definitions(app.routes[asked.route])
           selected == SelectInSeq(definitions, LAMBDA d : d.status = response.status)
           errors == app.routes[asked.route].errors \cup client.errors
<1>2. definitions' = definitions /\ errors' = errors
  BY <1>1
<1>3. selected' = selected
  BY <1>1, <1>2, Zenon DEF SelectInSeq
<1>4. (ReadSuccess(definitions[selected]))' = ReadSuccess(definitions[selected])
  <2> HIDE DEF definitions, selected
  <2>1. (ReadBody(definitions[selected]))' = ReadBody(definitions[selected])
    BY <1>1, <1>2, <1>3, Zenon DEF ReadBody, _decode_text_response
  <2>2. (ReadHeaders(definitions[selected]))' = ReadHeaders(definitions[selected])
    BY <1>1, <1>2, <1>3, Zenon DEF ReadHeaders
  <2>q. QED
    BY <2>1, <2>2, Zenon DEF ReadSuccess, Unexpected
<1>5. (_raise_for_error(errors))' = _raise_for_error(errors)
  <2> HIDE DEF definitions, selected, errors
  <2> DEFINE matching == {e \in errors : e.code = response.code /\ e.status = response.status /\ response.source = "app"}
  <2>1. matching' = matching
    BY <1>1, <1>2
  <2>2. NoEnvelope' = NoEnvelope
    BY <1>1 DEF NoEnvelope
  <2>3. _raise_for_error(errors) =
          IF NoEnvelope \/ matching = {} THEN Unexpected
          ELSE [as |-> "app_error", body |-> CHOOSE e \in matching : TRUE, headers |-> Missing]
    BY Zenon DEF _raise_for_error
  <2>4. (_raise_for_error(errors))' =
          IF NoEnvelope' \/ matching' = {} THEN Unexpected
          ELSE [as |-> "app_error", body |-> CHOOSE e \in matching' : TRUE, headers |-> Missing]
    BY Zenon DEF _raise_for_error, Unexpected
  <2> HIDE DEF matching
  <2>q. QED
    BY <2>1, <2>2, <2>3, <2>4
<1>6. Understanding = IF selected # 0 THEN ReadSuccess(definitions[selected]) ELSE _raise_for_error(errors)
  BY Zenon DEF Understanding
<1>7. Understanding' = IF selected' # 0 THEN (ReadSuccess(definitions[selected]))' ELSE (_raise_for_error(errors))'
  BY Zenon DEF Understanding
<1> HIDE DEF definitions, selected, errors
<1>q. QED
  BY <1>3, <1>4, <1>5, <1>6, <1>7, Zenon

(* The client reads what arrived.                                          *)
LEMMA ReadStep == HttpInv /\ Read_ => HttpInv'
<1> SUFFICES ASSUME HttpInv, Read_ PROVE HttpInv'
  OBVIOUS
<1>1. /\ phase = "answered" /\ client # Missing /\ phase' = "read"
      /\ read' = Understanding
      /\ UNCHANGED <<application, app, client, asked, wire, served, approved, received, raised, answered, response, replaced>>
  BY DEF Read_, Understanding
<1>2. CallFits' /\ DispatchFits' /\ ReceivedFits'
  BY <1>1, AfterwardsKeeps DEF Answered
<1>3. PhaseFits'
  BY <1>1 DEF HttpInv, PhaseFits, Unserved, Handling, Answered
<1>4. AnsweredFits'
  BY <1>1, AnswerStays DEF HttpInv, Answered
<1>5. ReadFits'
  <2>1. Understanding' = Understanding
    BY <1>1, UnderstandingStays
  <2>q. QED
    BY <1>1, <2>1 DEF ReadFits
<1>q. QED
  BY <1>2, <1>3, <1>4, <1>5 DEF HttpInv

(* Nothing changes.                                                        *)
LEMMA HttpStays == HttpInv /\ UNCHANGED httpVars => HttpInv'
<1> SUFFICES ASSUME HttpInv, UNCHANGED httpVars PROVE HttpInv'
  OBVIOUS
<1>1. UNCHANGED <<application, app, client, phase, asked, wire, served, approved, received, raised, answered, response, replaced, read>>
  BY DEF httpVars
<1>2. PhaseFits'
  BY <1>1 DEF HttpInv, PhaseFits
<1>3. CallFits'
  BY <1>1, CallStays DEF HttpInv, CallFits
<1>4. DispatchFits'
  BY <1>1 DEF HttpInv, DispatchFits
<1>5. ReceivedFits'
  <2>1. /\ C' = C /\ MediaMatches' = MediaMatches /\ _read_body' = _read_body
        /\ Arguments' = Arguments /\ RequestBody' = RequestBody
    BY <1>1, RequestStays
  <2>2. (Accepted => Accepted') /\ (Approved => Approved')
    BY <1>1, <2>1 DEF Accepted, Approved
  <2>q. QED
    BY <1>1, <2>1, <2>2 DEF HttpInv, ReceivedFits
<1>6. AnsweredFits'
  <2>1. CASE phase \in Answered
    BY <1>1, <2>1, AnswerStays DEF HttpInv
  <2>2. CASE phase \notin Answered
    BY <1>1, <2>2 DEF AnsweredFits
  <2>q. QED
    BY <2>1, <2>2
<1>7. ReadFits'
  BY <1>1, UnderstandingStays DEF HttpInv, ReadFits
<1>q. QED
  BY <1>2, <1>3, <1>4, <1>5, <1>6, <1>7 DEF HttpInv

(* Every step keeps the invariant.                                         *)
LEMMA HttpInductive == HttpInv /\ [HttpNext]_httpVars => HttpInv'
<1> SUFFICES ASSUME HttpInv, [HttpNext]_httpVars PROVE HttpInv'
  OBVIOUS
<1>1. CASE UNCHANGED httpVars
  BY <1>1, HttpStays
<1>2. CASE Compose
  BY <1>2, ComposeStep
<1>3. CASE CallRoute
  BY <1>3, PerformStep DEF CallRoute
<1>4. CASE \E request \in RawRequests : SendRaw(request)
  BY <1>4, SendRawStep
<1>5. CASE Arrive
  BY <1>5, ArriveStep
<1>6. CASE VerifyWebhook
  BY <1>6, VerifyStep
<1>7. CASE ValidateInputs
  BY <1>7, ValidateInputsStep
<1>8. CASE Conclude
  <2>1. CASE \E definition \in ErrorDefs : RaiseAppError(definition)
    BY <2>1, RaiseStep
  <2>2. CASE \E result \in Values, headers \in Inputs(C.response.headers) : AnswerSingular(result, headers)
    BY <2>2, SingularStep
  <2>3. CASE \E i \in DOMAIN C.responses, body \in {Missing} \cup Values : \E headers \in Inputs(C.responses[i].headers) :
               PresentResult(i, body, headers)
    BY <2>3, PresentStep
  <2>4. CASE PresentResult(0, Missing, Missing)
    BY <2>4, PresentStep
  <2>5. CASE \E i \in DOMAIN C.responses, raw \in RawResponses : PassThrough(i, raw)
    BY <2>5, PassStep
  <2>q. QED
    BY <1>8, <2>1, <2>2, <2>3, <2>4, <2>5 DEF Conclude
<1>9. CASE \E r \in Intruders : Intrude(r)
  BY <1>9, IntrudeStep
<1>10. CASE Read_
  BY <1>10, ReadStep
<1>q. QED
  BY <1>1, <1>2, <1>3, <1>4, <1>5, <1>6, <1>7, <1>8, <1>9, <1>10 DEF HttpNext

(* A status that one definition has selects that definition.               *)
LEMMA StatusSelects ==
  ASSUME NEW ds, NEW S, ds \in Seq(S), NEW status, \A i, j \in DOMAIN ds : ds[i].status = ds[j].status => i = j
  PROVE  LET selected == SelectInSeq(ds, LAMBDA d : d.status = status)
         IN  /\ \A i \in DOMAIN ds : ds[i].status = status => selected = i
             /\ selected # 0 => selected \in DOMAIN ds /\ ds[selected].status = status
<1> DEFINE I == {i \in 1..Len(ds) : ds[i].status = status}
           selected == SelectInSeq(ds, LAMBDA d : d.status = status)
<1>1. DOMAIN ds = 1..Len(ds)
  OBVIOUS
<1>2. selected = IF I # {} THEN (CHOOSE i \in I : \A j \in I : i <= j) ELSE 0
  BY DEF SelectInSeq, Min
<1>3. \A i \in I : I = {i}
  BY <1>1
<1>4. I # {} => (CHOOSE i \in I : \A j \in I : i <= j) \in I
  <2>1. SUFFICES ASSUME NEW k \in I PROVE (CHOOSE i \in I : \A j \in I : i <= j) \in I
    OBVIOUS
  <2>2. k \in Int /\ k <= k
    OBVIOUS
  <2>3. \A j \in I : k <= j
    BY <1>3, <2>2
  <2>q. QED
    BY <2>3
<1> HIDE DEF selected
<1>5. \A i \in DOMAIN ds : ds[i].status = status => selected = i
  <2>1. SUFFICES ASSUME NEW i \in DOMAIN ds, ds[i].status = status PROVE selected = i
    OBVIOUS
  <2>2. i \in I
    BY <1>1, <2>1
  <2>q. QED
    BY <1>2, <1>3, <1>4, <2>2
<1>6. selected # 0 => selected \in DOMAIN ds /\ ds[selected].status = status
  <2>1. SUFFICES ASSUME selected # 0 PROVE selected \in I
    BY <1>1
  <2>q. QED
    BY <1>2, <1>4, <2>1
<1>q. QED
  BY <1>5, <1>6 DEF selected

(* The application that was composed, and the route that served the call.  *)
LEMMA ServedIs ==
  ASSUME HttpInv, phase \in Handling \cup Answered \cup {"sent"}
  PROVE  /\ application \in DOMAIN Applications
         /\ app.routes = Routes[application] /\ app.limit = Applications[application].limit
         /\ Ranked(app.routes)
         /\ \A i \in DOMAIN app.routes :
              /\ contract(app.routes[i]) /\ _check_params_match_path(app.routes[i]) /\ _contract_adapters(app.routes[i])
              /\ Compiles(app.routes[i].path)
<1>1. application \in DOMAIN Applications /\ Composes[application]
      /\ app = [routes |-> Routes[application], limit |-> Applications[application].limit]
  BY DEF HttpInv, PhaseFits, Handling, Answered
<1>2. app.routes = Routes[application] /\ app.limit = Applications[application].limit
  BY <1>1
<1>3. Ranked(app.routes)
      /\ \A i \in DOMAIN app.routes :
           contract(app.routes[i]) /\ _check_params_match_path(app.routes[i]) /\ _contract_adapters(app.routes[i])
  BY <1>1, <1>2, ComposedIs
<1>4. \A i \in DOMAIN app.routes : Compiles(app.routes[i].path)
  BY <1>3 DEF Ranked
<1>q. QED
  BY <1>1, <1>2, <1>3, <1>4

(* A served contract's definitions have a status each, and what composing  *)
(* checked of them.                                                        *)
LEMMA DefinitionsAre ==
  ASSUME HttpInv, phase \in Handling \cup Answered \cup {"sent"}, NEW n \in DOMAIN app.routes
  PROVE  LET ds == Definitions(app.routes[n])
         IN  /\ \E S : ds \in Seq(S)
             /\ \A i, j \in DOMAIN ds : ds[i].status = ds[j].status => i = j
             /\ \A i \in DOMAIN ds :
                  /\ _validate_response_definition(ds[i]) /\ _bind_response(ds[i])
                  /\ ReadsBack(ds[i].body) /\ HasValues(ds[i].headers)
<1> DEFINE c == app.routes[n]
           ds == Definitions(c)
<1>1. contract(c) /\ _contract_adapters(c)
  BY ServedIs
<1>2. \A i \in DOMAIN ds : _bind_response(ds[i])
  BY <1>1 DEF _contract_adapters
<1>3. c.responses \in Seq(Range(c.responses)) /\ \A i \in DOMAIN ds : ReadsBack(ds[i].body) /\ HasValues(ds[i].headers)
  <2>1. application \in DOMAIN Applications /\ app.routes = Routes[application]
    BY ServedIs
  <2>2. n \in DOMAIN Routes[application] /\ c = Routes[application][n]
    BY <2>1
  <2> HIDE DEF c
  <2>q. QED
    BY <2>1, <2>2, ApplicationsAssumption
<1>4. CASE c.responses = <<>>
  <2>1. ds = <<c.response>> /\ DOMAIN ds = {1} /\ ds[1] = c.response /\ ds \in Seq({c.response})
    BY <1>4 DEF Definitions
  <2>2. _validate_response_definition(c.response)
    BY <1>1, <1>4 DEF contract
  <2>q. QED
    BY <1>2, <1>3, <2>1, <2>2
<1>5. CASE c.responses # <<>>
  <2>1. ds = c.responses
    BY <1>5 DEF Definitions
  <2>2. _validated_response_defs(ds)
    BY <1>1, <1>5, <2>1 DEF contract
  <2>q. QED
    BY <1>2, <1>3, <2>1, <2>2 DEF _validated_response_defs
<1>q. QED
  BY <1>4, <1>5

(* An answer of a definition, whose payload and headers were valid.        *)
Written_(d, body, headers) ==
  /\ _validated_payload(d, body) # Invalid /\ response.body = _validated_payload(d, body)
  /\ _validated_response_headers(d.headers, headers) # Invalid
  /\ response.headers = _validated_response_headers(d.headers, headers)
  /\ response.media = IF d.body = Missing THEN Missing ELSE d.media

(* What a codec encodes it decodes.                                        *)
LEMMA CodecsDecode ==
  \A charset \in Codecs : \A t \in DOMAIN Encode[charset] :
    Encode[charset][t] \in DOMAIN Decode[charset] /\ Decode[charset][Encode[charset][t]] = t
  BY Zenon, TextsAssumption

(* The client reads the body that the server wrote, if its type accepts    *)
(* what it writes.                                                         *)
LEMMA BodyIsRead ==
  ASSUME NEW d, NEW body, NEW headers, Written_(d, body, headers), _validate_response_definition(d), ReadsBack(d.body),
         d.body # Missing => Legible(d.body, d.media)
  PROVE  /\ ReadBody(d) # Invalid
         /\ d.body # Missing => body \in DOMAIN d.body.validate
         /\ d.body # Missing /\ Faithful(d.body, d.media) => ReadBody(d) = d.body.validate[body]
<1> DEFINE value == d.body.validate[body]
<1>1. CASE d.body = Missing
  <2>1. response.body = ""
    BY <1>1 DEF Written_, _validated_payload
  <2>q. QED
    BY <1>1, <2>1, TextsAssumption DEF ReadBody
<1>2. CASE d.body # Missing
  <2>1. /\ body \in DOMAIN d.body.validate
        /\ response.body = _validated_payload(d, body) /\ _validated_payload(d, body) # Invalid
        /\ response.media = d.media /\ response.media # Missing /\ media_type_matches(d.media, response.media)
    BY <1>2 DEF Written_, _validated_payload, _validate_response_definition, media_type_matches
  <2>2. value \in Range(d.body.validate)
    BY <2>1 DEF Range
  <2>3. \A b \in DOMAIN d.body.reads : d.body.reads[b] # Invalid
    BY <1>2 DEF ReadsBack, Range
  <2>4. \A v \in DOMAIN d.body.validate : d.body.validate[v] # Invalid
    BY <1>2 DEF ReadsBack, Range
  <2>5. CASE is_json_media_type(d.media)
    <3>1. ReadBody(d) = Parsed(response.body, d.body.reads)
      BY <1>2, <2>1, <2>5 DEF ReadBody
    <3>2. response.body = d.body.dump[value] /\ d.body.dump[value] \in DOMAIN d.body.reads
      BY <1>2, <2>1, <2>5 DEF _validated_payload
    <3>3. Faithful(d.body, d.media) => d.body.reads[d.body.dump[value]] = value
      BY <2>2, <2>5 DEF Faithful
    <3>q. QED
      BY <2>1, <2>3, <3>1, <3>2, <3>3 DEF Parsed
  <2>6. CASE ~is_json_media_type(d.media) /\ is_text_media_type(d.media)
    <3> DEFINE charset == text_charset(d.media)
    <3>1. ReadBody(d) = Parsed(_decode_text_response, d.body.validate)
      BY <1>2, <2>1, <2>6 DEF ReadBody
    <3>2. value.py \in {"str", "bytes"}
      BY <1>2, <2>1, <2>6 DEF _validated_payload
    <3>3. value.py = "str" /\ Str(value.is[1]) \in DOMAIN d.body.validate
      BY <1>2, <2>2, <2>6, <3>2 DEF Legible, Writable, Raw
    <3>4. response.body = Parsed(value.is[1], Encode[charset]) /\ response.body # Invalid
      BY <1>2, <2>1, <2>6, <3>3 DEF _validated_payload, Encoded
    <3>5. value.is[1] \in DOMAIN Encode[charset] /\ response.body = Encode[charset][value.is[1]]
      BY <3>4 DEF Parsed
    <3>6. charset \in Codecs
      BY <1>2, <2>1, <2>6 DEF _validate_response_definition, validate_media_type
    <3>7. _decode_text_response = Str(value.is[1])
      <4> HIDE DEF charset
      <4>1. response.body \in DOMAIN Decode[charset] /\ Decode[charset][response.body] = value.is[1]
        BY <3>5, <3>6, CodecsDecode
      <4>q. QED
        BY <2>1, <3>6, <4>1 DEF _decode_text_response, charset
    <3>8. Faithful(d.body, d.media) => d.body.validate[Str(value.is[1])] = value
      BY <2>2, <2>6, <3>3 DEF Faithful, Raw, Writable
    <3> HIDE DEF charset
    <3>q. QED
      BY <2>1, <2>4, <3>1, <3>3, <3>7, <3>8 DEF Parsed
  <2>7. CASE ~is_json_media_type(d.media) /\ ~is_text_media_type(d.media)
    <3>1. ReadBody(d) = Parsed(Bytes(response.body), d.body.validate)
      BY <1>2, <2>1, <2>7 DEF ReadBody
    <3>2. value.py \in {"str", "bytes"}
      BY <1>2, <2>1, <2>7 DEF _validated_payload
    <3>3. Raw(value, d.media) = Bytes(response.body)
      <4>1. CASE value.py = "str"
        BY <1>2, <2>1, <2>7, <4>1 DEF _validated_payload, Encoded, Parsed, Raw
      <4>2. CASE value.py = "bytes"
        BY <1>2, <2>1, <2>7, <4>2 DEF _validated_payload, Raw
      <4>q. QED
        BY <3>2, <4>1, <4>2
    <3>4. Bytes(response.body) \in DOMAIN d.body.validate
      BY <1>2, <2>2, <2>7, <3>2, <3>3 DEF Legible, Writable
    <3>5. Faithful(d.body, d.media) => d.body.validate[Bytes(response.body)] = value
      BY <2>2, <2>7, <3>2, <3>3 DEF Faithful, Writable
    <3>q. QED
      BY <2>1, <2>4, <3>1, <3>4, <3>5 DEF Parsed
  <2>q. QED
    BY <2>5, <2>6, <2>7
<1>q. QED
  BY <1>1, <1>2

(* What a slot gives is a value of each of its fields.                     *)
LEMMA ValidatedIs ==
  ASSUME NEW slot, NEW input
  PROVE  LET validated == Validated(slot, input)
         IN  validated # Invalid =>
               /\ validated = [f \in DOMAIN slot.fields |->
                                 IF f \in DOMAIN input THEN slot.fields[f].validate[input[f]] ELSE slot.fields[f].default]
               /\ \A f \in DOMAIN slot.fields : validated[f] \in Validates(slot.fields[f])
<1> DEFINE validated == Validated(slot, input)
<1> SUFFICES ASSUME validated # Invalid
    PROVE  /\ validated = [f \in DOMAIN slot.fields |->
                             IF f \in DOMAIN input THEN slot.fields[f].validate[input[f]] ELSE slot.fields[f].default]
           /\ \A f \in DOMAIN slot.fields : validated[f] \in Validates(slot.fields[f])
  OBVIOUS
<1>1. validated = [f \in DOMAIN slot.fields |->
                     IF f \in DOMAIN input THEN slot.fields[f].validate[input[f]] ELSE slot.fields[f].default]
      /\ \A f \in DOMAIN slot.fields :
           IF f \in DOMAIN input THEN input[f] \in DOMAIN slot.fields[f].validate ELSE ~slot.fields[f].required
  BY Zenon DEF Validated
<1>2. ASSUME NEW f \in DOMAIN slot.fields PROVE validated[f] \in Validates(slot.fields[f])
  <2> HIDE DEF validated
  <2>q. QED
    BY <1>1 DEF Validates, Range
<1>q. QED
  BY <1>1, <1>2

(* Each header that is written, under its name.                            *)
HeaderIsOf(slot, validated, f) ==
  \E g \in DOMAIN slot.fields :
    /\ slot.fields[g].writtenAs = f /\ validated[g].py # "none"
    /\ HeaderTextsOf(Serialized(slot, validated, FALSE))[WireName[f]] = Text(slot.fields[g].dump[validated[g]])

(* Every rendered header is the text of a field that is written under its  *)
(* name.                                                                   *)
LEMMA HeadersAreWritten ==
  ASSUME NEW slot, NEW validated, DOMAIN validated = DOMAIN slot.fields,
         NEW f \in DOMAIN slot.fields, DOMAIN Written(slot) = DOMAIN slot.fields,
         \A g, h \in DOMAIN slot.fields : WireName[g] = WireName[h] => g = h,
         WireName[f] \in DOMAIN HeaderTextsOf(Serialized(slot, validated, FALSE))
  PROVE  HeaderIsOf(slot, validated, f)
<1> DEFINE kept == {g \in DOMAIN validated : FALSE \/ validated[g].py # "none"}
           By(name) == CHOOSE g \in kept : slot.fields[g].writtenAs = name
           written == Serialized(slot, validated, FALSE)
           w == CHOOSE x \in DOMAIN written : WireName[x] = WireName[f]
<1>1. written = [name \in {slot.fields[g].writtenAs : g \in kept} |-> slot.fields[By(name)].dump[validated[By(name)]]]
  BY DEF Serialized
<1>2. HeaderTextsOf(written) = [name \in {WireName[x] : x \in DOMAIN written} |->
                                  Text(written[CHOOSE x \in DOMAIN written : WireName[x] = name])]
  BY DEF HeaderTextsOf
<1>a. WireName[f] \in DOMAIN HeaderTextsOf(written)
  OBVIOUS
<1> HIDE DEF written
<1>3. w \in DOMAIN written /\ WireName[w] = WireName[f]
  <2>1. DOMAIN HeaderTextsOf(written) = {WireName[x] : x \in DOMAIN written}
    BY <1>2
  <2>2. \E x \in DOMAIN written : WireName[x] = WireName[f]
    BY <1>a, <2>1
  <2>q. QED
    BY <2>2
<1>4. HeaderTextsOf(written)[WireName[f]] = Text(written[w])
  BY <1>2, <1>3
<1> HIDE DEF w
<1>5. DOMAIN written = {slot.fields[g].writtenAs : g \in kept}
  BY <1>1
<1>6. PICK g \in kept : slot.fields[g].writtenAs = w
  BY <1>3, <1>5
<1>7. w \in DOMAIN Written(slot)
  BY <1>6 DEF Written
<1>8. w = f
  BY <1>3, <1>7
<1>9. By(f) \in kept /\ slot.fields[By(f)].writtenAs = f
  BY <1>6, <1>8
<1>10. written[f] = slot.fields[By(f)].dump[validated[By(f)]]
  <2> HIDE DEF By
  <2>q. QED
    BY <1>1, <1>3, <1>5, <1>8
<1> HIDE DEF By
<1>q. QED
  BY <1>4, <1>8, <1>9, <1>10 DEF written, HeaderIsOf

(* The client reads the headers that the server wrote.                     *)
LEMMA HeadersAreRead ==
  ASSUME NEW d, NEW body, NEW headers, Written_(d, body, headers), _bind_response(d), HasValues(d.headers),
         d.headers # Missing => HeadersLegible(d.headers)
  PROVE  ReadHeaders(d) # Invalid
<1>1. CASE d.headers = Missing
  BY <1>1, TextsAssumption DEF ReadHeaders
<1>2. CASE d.headers # Missing
  <2> DEFINE slot == d.headers
             validated == Validated(slot, headers)
             rendered == HeaderTextsOf(Serialized(slot, validated, FALSE))
             input == _encoded_header_input(slot, response.headers)
  <2>1. /\ response.headers = rendered /\ validated # Invalid
        /\ {WireName[f] : f \in RequiredFields(slot)} \subseteq DOMAIN rendered
    BY <1>2 DEF Written_, _validated_response_headers
  <2>2. /\ DOMAIN validated = DOMAIN slot.fields
        /\ \A f \in DOMAIN slot.fields : validated[f] \in Validates(slot.fields[f])
    BY <2>1, ValidatedIs
  <2>3. /\ DOMAIN Written(slot) = DOMAIN slot.fields
        /\ \A g, h \in DOMAIN slot.fields : WireName[g] = WireName[h] => g = h
    BY <1>2 DEF _bind_response, _response_header_fields
  <2>4. input = [f \in {g \in DOMAIN slot.fields : WireName[g] \in DOMAIN response.headers} |-> Str(response.headers[WireName[f]])]
    BY DEF _encoded_header_input
  <2>5. HeadersLegible(slot)
    BY <1>2
  <2> HIDE DEF slot, validated, input, rendered
  <2>6. ASSUME NEW f \in DOMAIN input PROVE input[f] \in DOMAIN slot.fields[f].validate
    <3>1. f \in DOMAIN slot.fields /\ WireName[f] \in DOMAIN rendered /\ input[f] = Str(rendered[WireName[f]])
      BY <2>1, <2>4
    <3>2. PICK g \in DOMAIN slot.fields :
             /\ slot.fields[g].writtenAs = f /\ validated[g].py # "none"
             /\ rendered[WireName[f]] = Text(slot.fields[g].dump[validated[g]])
      <4>1. WireName[f] \in DOMAIN HeaderTextsOf(Serialized(slot, validated, FALSE))
        BY <3>1 DEF rendered
      <4>2. HeaderIsOf(slot, validated, f)
        BY <2>2, <2>3, <3>1, <4>1, HeadersAreWritten
      <4>q. QED
        BY <4>2 DEF rendered, HeaderIsOf
    <3>3. Str(Text(slot.fields[g].dump[validated[g]])) \in DOMAIN slot.fields[f].validate
      BY <2>2, <2>5, <3>2 DEF HeadersLegible
    <3>q. QED
      BY <3>1, <3>2, <3>3
  <2>7. DOMAIN input \subseteq DOMAIN slot.fields
    BY <2>4
  <2>8. ASSUME NEW f \in DOMAIN slot.fields, f \notin DOMAIN input PROVE ~slot.fields[f].required
    BY <2>1, <2>4, <2>8 DEF RequiredFields
  <2>9. Validated(slot, input) = [f \in DOMAIN slot.fields |->
                                    IF f \in DOMAIN input THEN slot.fields[f].validate[input[f]] ELSE slot.fields[f].default]
    BY <2>6, <2>7, <2>8 DEF Validated
  <2>10. ASSUME NEW f \in DOMAIN slot.fields
         PROVE  (IF f \in DOMAIN input THEN slot.fields[f].validate[input[f]] ELSE slot.fields[f].default) \in Validates(slot.fields[f])
    BY <2>6, <2>8 DEF Validates, Range
  <2>11. Validated(slot, input) \in [DOMAIN slot.fields -> UNION {Validates(slot.fields[f]) : f \in DOMAIN slot.fields}]
    BY <2>9, <2>10
  <2>12. Invalid \notin [DOMAIN slot.fields -> UNION {Validates(slot.fields[f]) : f \in DOMAIN slot.fields}]
    BY <1>2 DEF HasValues, slot
  <2>q. QED
    BY <1>2, <2>11, <2>12 DEF ReadHeaders, slot, input
<1>q. QED
  BY <1>1, <1>2

(* The statuses of answers of the framework's own and of definitions.      *)
LEMMA OrdinaryAnswer ==
  ASSUME NEW d, NEW body, NEW headers, response = OrdinaryResponse(d, body, headers), response.source = "none"
  PROVE  Written_(d, body, headers) /\ response.status = d.status
<1>1. _validated_payload(d, body) # Invalid /\ _validated_response_headers(d.headers, headers) # Invalid
  BY Zenon DEF OrdinaryResponse, internal_server_error, FrameworkError, Answer
<1>2. response = [status |-> d.status, source |-> "none", code |-> Missing,
                  headers |-> _validated_response_headers(d.headers, headers), body |-> _validated_payload(d, body),
                  media |-> IF d.body = Missing THEN Missing ELSE d.media]
  BY <1>1, Zenon DEF OrdinaryResponse
<1>q. QED
  BY <1>1, <1>2 DEF Written_

(* A success is an answer of a definition's, or a response passed through. *)
LEMMA AnsweredIs ==
  ASSUME HttpInv, phase \in Answered, ~replaced, response.source = "none", answered # Missing
  PROVE  \/ PassedThrough
         \/ \E i \in DOMAIN Definitions(C) : \E body, headers :
              answered = Meant(i, body) /\ response = OrdinaryResponse(Definitions(C)[i], body, headers)
<1>1. \/ raised = Missing /\ answered = Missing /\ (NotRouted \/ Refused_)
      \/ answered = Missing /\ ErrorRaised
      \/ raised = Missing /\ (response = internal_server_error \/ Ordinarily \/ PassedThrough)
  BY DEF HttpInv, AnsweredFits
<1>2. response # internal_server_error
  BY DEF internal_server_error, FrameworkError, Answer
<1>q. QED
  BY <1>1, <1>2 DEF Ordinarily

(* An application's error is one that the contract declares.               *)
LEMMA AppErrorIs ==
  ASSUME HttpInv, phase \in Answered, response.source = "app"
  PROVE  /\ ~replaced /\ raised \in C.errors /\ raised \in ErrorDefs
         /\ response = Answer(raised.status, "app", raised.code)
<1>1. ~replaced
  BY ApplicationsAssumption DEF HttpInv, AnsweredFits
<1>2. \/ raised = Missing /\ answered = Missing /\ (NotRouted \/ Refused_)
      \/ answered = Missing /\ ErrorRaised
      \/ raised = Missing /\ (response = internal_server_error \/ Ordinarily \/ PassedThrough)
  BY <1>1 DEF HttpInv, AnsweredFits
<1>3. response # internal_server_error /\ ~NotRouted /\ ~Refused_
  BY DEF NotRouted, Refused_, MediaRefused, InputRefused, not_found, method_not_allowed, request_too_large,
         unsupported_media_type, validation_error, internal_server_error, FrameworkError, Answer
<1>4. ~PassedThrough
  BY DEF PassedThrough
<1>5. ~Ordinarily
  <2>1. SUFFICES ASSUME NEW d, NEW body, NEW headers, response = OrdinaryResponse(d, body, headers) PROVE FALSE
    BY DEF Ordinarily
  <2>2. OrdinaryResponse(d, body, headers) = internal_server_error \/ OrdinaryResponse(d, body, headers).source = "none"
    BY DEF OrdinaryResponse
  <2>q. QED
    BY <1>3, <2>1, <2>2
<1>q. QED
  BY <1>1, <1>2, <1>3, <1>4, <1>5 DEF ErrorRaised

(* Successes and errors have statuses of their own.                        *)
LEMMA ErrorsAreNotSuccesses ==
  ASSUME HttpInv, phase = "read", OwnRoute, response.status \in 400..599
  PROVE  read = _raise_for_error(C.errors \cup client.errors)
<1> DEFINE ds == Definitions(C)
           selected == SelectInSeq(ds, LAMBDA d : d.status = response.status)
<1>1. client # Missing /\ read = Understanding /\ CallMade
  BY DEF HttpInv, ReadFits, CallFits, Answered
<1>2. C = app.routes[asked.route] /\ served \in DOMAIN app.routes
  BY <1>1 DEF CallMade, OwnRoute, C
<1>3. /\ \E S : ds \in Seq(S)
      /\ \A i, j \in DOMAIN ds : ds[i].status = ds[j].status => i = j
      /\ \A i \in DOMAIN ds : _validate_response_definition(ds[i])
  BY <1>2, DefinitionsAre DEF C, Answered
<1>4. selected # 0 => selected \in DOMAIN ds /\ ds[selected].status = response.status
  <2> HIDE DEF ds
  <2>q. QED
    BY <1>3, StatusSelects
<1>5. Understanding = IF selected # 0 THEN ReadSuccess(ds[selected]) ELSE _raise_for_error(C.errors \cup client.errors)
  BY <1>2, Zenon DEF Understanding
<1> HIDE DEF ds, selected
<1>6. selected = 0
  <2>1. SUFFICES ASSUME selected # 0 PROVE FALSE
    OBVIOUS
  <2>2. selected \in DOMAIN ds /\ ds[selected].status = response.status
    BY <1>4, <2>1
  <2>3. ds[selected].status \in 200..399
    <3>1. _validate_response_definition(ds[selected])
      BY <1>3, <2>2
    <3>q. QED
      BY <3>1 DEF _validate_response_definition
  <2>4. PICK status : status = response.status
    OBVIOUS
  <2>5. status \in 400..599
    BY <2>4
  <2>6. status \in 200..399
    BY <2>2, <2>3, <2>4
  <2>q. QED
    BY <2>5, <2>6
<1>q. QED
  BY <1>1, <1>5, <1>6

(* The client returns an ordinary success, as the definition that was      *)
(* chosen.                                                                 *)
LEMMA SuccessIsUnderstood ==
  ASSUME HttpInv, phase = "read", OwnRoute, response.source = "none", ~replaced, answered # Missing
  PROVE  LET d == Definitions(C)[answered.definition]
         IN  ~d.passthrough /\ (d.body # Missing => Legible(d.body, d.media)) /\ (d.headers # Missing => HeadersLegible(d.headers)) =>
               /\ read.as = "response"
               /\ response.status = d.status
               /\ d.body # Missing /\ Faithful(d.body, d.media) => read.body = answered.body
<1> DEFINE d == Definitions(C)[answered.definition]
<1> SUFFICES ASSUME ~d.passthrough, d.body # Missing => Legible(d.body, d.media), d.headers # Missing => HeadersLegible(d.headers)
    PROVE  /\ read.as = "response"
           /\ response.status = d.status
           /\ d.body # Missing /\ Faithful(d.body, d.media) => read.body = answered.body
  OBVIOUS
<1>1. client # Missing /\ read = Understanding /\ CallMade
  BY DEF HttpInv, ReadFits, CallFits, Answered
<1>2. C = app.routes[asked.route] /\ served \in DOMAIN app.routes
  BY <1>1 DEF CallMade, OwnRoute, C
<1>3. /\ \E S : Definitions(C) \in Seq(S)
      /\ \A i, j \in DOMAIN Definitions(C) : Definitions(C)[i].status = Definitions(C)[j].status => i = j
      /\ \A i \in DOMAIN Definitions(C) :
           /\ _validate_response_definition(Definitions(C)[i]) /\ _bind_response(Definitions(C)[i])
           /\ ReadsBack(Definitions(C)[i].body) /\ HasValues(Definitions(C)[i].headers)
  BY <1>2, DefinitionsAre DEF C, Answered
<1>4. ~PassedThrough
  <2>1. SUFFICES ASSUME PassedThrough PROVE FALSE
    OBVIOUS
  <2>2. answered.definition \in DOMAIN C.responses /\ C.responses[answered.definition].passthrough
    BY <2>1 DEF PassedThrough
  <2>3. C.responses # <<>>
    BY <2>2
  <2>4. Definitions(C) = C.responses
    BY <2>3 DEF Definitions
  <2>q. QED
    BY <2>2, <2>4
<1>5. PICK i \in DOMAIN Definitions(C) : \E body, headers :
         answered = Meant(i, body) /\ response = OrdinaryResponse(Definitions(C)[i], body, headers)
  BY <1>4, AnsweredIs DEF Answered
<1>6. PICK body, headers : answered = Meant(i, body) /\ response = OrdinaryResponse(Definitions(C)[i], body, headers)
  BY <1>5
<1>7. answered.definition = i /\ d = Definitions(C)[i]
  BY <1>6 DEF Meant
<1> HIDE DEF d
<1>8. Written_(d, body, headers) /\ response.status = d.status
  BY <1>6, <1>7, OrdinaryAnswer
<1>9. /\ ReadBody(d) # Invalid
      /\ d.body # Missing => body \in DOMAIN d.body.validate
      /\ d.body # Missing /\ Faithful(d.body, d.media) => ReadBody(d) = d.body.validate[body]
  BY <1>3, <1>7, <1>8, BodyIsRead
<1>10. ReadHeaders(d) # Invalid
  BY <1>3, <1>7, <1>8, HeadersAreRead
<1>11. SelectInSeq(Definitions(C), LAMBDA x : x.status = response.status) = i
  <2>1. PICK S : Definitions(C) \in Seq(S)
    BY <1>3
  <2>2. Definitions(C)[i].status = response.status
    BY <1>7, <1>8
  <2>q. QED
    BY <1>3, <2>1, <2>2, StatusSelects
<1>12. 0 \notin DOMAIN Definitions(C)
  BY <1>3
<1>13. Understanding = ReadSuccess(d)
  BY <1>2, <1>5, <1>7, <1>11, <1>12, Zenon DEF Understanding
<1>14. read = [as |-> "response", body |-> ReadBody(d), headers |-> ReadHeaders(d)]
  BY <1>1, <1>9, <1>10, <1>13 DEF ReadSuccess
<1>15. d.body # Missing => answered.body = d.body.validate[body]
  BY <1>6, <1>7, <1>9 DEF Meant
<1>q. QED
  BY <1>8, <1>9, <1>14, <1>15

(* What the client makes of an answer follows from why it was given.       *)
LEMMA UnderstoodFromInv == HttpInv => WhatIsAnsweredIsUnderstood
<1> SUFFICES ASSUME HttpInv, phase = "read", OwnRoute
    PROVE  /\ response.source = "none" /\ ~replaced /\ answered # Missing =>
                LET d == Definitions(C)[answered.definition]
                IN  ~d.passthrough /\ (d.body # Missing => Legible(d.body, d.media)) /\ (d.headers # Missing => HeadersLegible(d.headers)) =>
                      /\ read.as = "response"
                      /\ response.status = d.status
                      /\ d.body # Missing /\ Faithful(d.body, d.media) => read.body = answered.body
           /\ raised # Missing /\ raised \in C.errors /\ ~replaced => read.as = "app_error"
           /\ read.as = "app_error" => ~replaced /\ raised = read.body /\ raised \in C.errors
  BY Zenon DEF WhatIsAnsweredIsUnderstood
<1> DEFINE errors == C.errors \cup client.errors
           matching == {e \in errors : e.code = response.code /\ e.status = response.status /\ response.source = "app"}
<1>1. client # Missing /\ read = Understanding /\ CallMade
  BY DEF HttpInv, ReadFits, CallFits, Answered
<1>2. C = app.routes[asked.route] /\ ErrorsAgree(errors)
  BY <1>1 DEF CallMade, OwnRoute, C
<1>3. _raise_for_error(errors) =
        IF NoEnvelope \/ matching = {} THEN Unexpected
        ELSE [as |-> "app_error", body |-> CHOOSE e \in matching : TRUE, headers |-> Missing]
  BY Zenon DEF _raise_for_error
<1>4. ASSUME raised # Missing, raised \in C.errors, ~replaced PROVE read.as = "app_error"
  <2>1. raised \in ErrorDefs /\ response = Answer(raised.status, "app", raised.code)
    BY <1>4 DEF HttpInv, AnsweredFits, ErrorRaised, Answered
  <2>2. /\ response.status = raised.status /\ response.code = raised.code /\ response.source = "app" /\ response.media = Json
        /\ raised.status \in 400..599 /\ raised.code # Missing
    BY <2>1, ApplicationsAssumption DEF Answer
  <2>3. read = _raise_for_error(errors)
    BY <2>2, ErrorsAreNotSuccesses
  <2>4. raised \in matching
    BY <1>4, <2>2
  <2>5. ~NoEnvelope
    BY <2>2 DEF NoEnvelope
  <2> HIDE DEF matching
  <2>q. QED
    BY <1>3, <2>3, <2>4, <2>5
<1>5. ASSUME read.as = "app_error" PROVE ~replaced /\ raised = read.body /\ raised \in C.errors
  <2>1. read = _raise_for_error(errors)
    <3>1. \A d : ReadSuccess(d).as \in {"response", "unexpected"}
      BY DEF ReadSuccess, Unexpected
    <3>2. \/ \E d : Understanding = ReadSuccess(d)
          \/ Understanding = _raise_for_error(errors)
      BY <1>2, Zenon DEF Understanding
    <3>q. QED
      BY <1>1, <1>5, <3>1, <3>2
  <2>2. matching # {} /\ read.body = CHOOSE e \in matching : TRUE
    <3> HIDE DEF matching
    <3>q. QED
      BY <1>3, <1>5, <2>1 DEF Unexpected
  <2>3. read.body \in matching
    <3> HIDE DEF matching
    <3>q. QED
      BY <2>2
  <2>4. response.source = "app" /\ read.body \in errors /\ read.body.code = response.code
    BY <2>3
  <2>5. ~replaced /\ raised \in C.errors /\ response = Answer(raised.status, "app", raised.code)
    BY <2>4, AppErrorIs DEF Answered
  <2>6. response.code = raised.code
    BY <2>5 DEF Answer
  <2>q. QED
    BY <1>2, <2>4, <2>5, <2>6 DEF ErrorsAgree
<1>q. QED
  BY <1>4, <1>5, SuccessIsUnderstood

(* What is assumed of a route's declarations.                              *)
LEMMA RouteAssumed ==
  ASSUME HttpInv, phase \in Handling \cup Answered \cup {"sent"}, NEW n \in DOMAIN app.routes
  PROVE  LET c == app.routes[n]
         IN  /\ c.media # Missing /\ ReadsBack(c.request)
             /\ c.params # Missing => \A f \in DOMAIN c.params.fields :
                  /\ Validates(c.params.fields[f]) \subseteq DOMAIN c.params.fields[f].dump
                  /\ \A v \in Range(c.params.fields[f].dump) : Spelling(v) \in DOMAIN Segments
             /\ c.headers # Missing => \A f \in DOMAIN c.headers.fields : NonEmptyString(c.headers.fields[f].read) =>
                  \A v \in Range(c.headers.fields[f].validate) : v.py = "str" /\ v.is # <<"">>
<1>1. application \in DOMAIN Applications /\ app.routes = Routes[application]
  BY ServedIs
<1>2. n \in DOMAIN Routes[application] /\ app.routes[n] = Routes[application][n]
  BY <1>1
<1>3. PICK c : c = Routes[application][n]
  OBVIOUS
<1>4. c.media # Missing /\ ReadsBack(c.request)
  BY <1>1, <1>2, <1>3, ApplicationsAssumption
<1>5. c.params # Missing => \A f \in DOMAIN c.params.fields :
        /\ Validates(c.params.fields[f]) \subseteq DOMAIN c.params.fields[f].dump
        /\ \A v \in Range(c.params.fields[f].dump) : Spelling(v) \in DOMAIN Segments
  BY <1>1, <1>2, <1>3, ApplicationsAssumption
<1>6. c.headers # Missing => \A f \in DOMAIN c.headers.fields : NonEmptyString(c.headers.fields[f].read) =>
        \A v \in Range(c.headers.fields[f].validate) : v.py = "str" /\ v.is # <<"">>
  BY <1>1, <1>2, <1>3, ApplicationsAssumption
<1>q. QED
  BY <1>2, <1>3, <1>4, <1>5, <1>6

(* The parts of a client's request.                                        *)
LEMMA WireIs ==
  ASSUME CallMade
  PROVE  LET c == app.routes[asked.route]
         IN  /\ asked.route \in DOMAIN app.routes
             /\ _build_path(c, asked.params) # Invalid /\ _build_query(c, asked.query) # Invalid
             /\ _build_headers(c, asked.headers) # Invalid /\ _build_body(c, asked.request) # Invalid
             /\ wire.method = c.method
             /\ wire.url = Normalised(_build_path(c, asked.params))
             /\ wire.query = _build_query(c, asked.query)
             /\ wire.headers = Sent(_build_headers(c, asked.headers))
             /\ wire.body = _build_body(c, asked.request)
             /\ wire.media = IF c.request = Missing THEN Missing ELSE c.media
<1> DEFINE c == app.routes[asked.route]
           own == _build_headers(c, asked.headers)
           b == _build_body(c, asked.request)
<1>1. asked.route \in DOMAIN app.routes
  BY DEF CallMade
<1>2. Request(c, asked) =
        [method |-> c.method, url |-> _build_path(c, asked.params), query |-> _build_query(c, asked.query),
         headers |-> IF own = Invalid THEN Invalid ELSE Sent(own), body |-> b,
         media |-> IF c.request = Missing THEN Missing ELSE c.media,
         declared |-> IF b = Invalid THEN Missing ELSE Size[b]]
  BY Zenon DEF Request
<1>3. /\ Sendable(Request(c, asked))
      /\ wire = [Request(c, asked) EXCEPT !.url = Normalised(Request(c, asked).url)]
  BY DEF CallMade
<1> HIDE DEF c, own, b
<1>4. _build_path(c, asked.params) # Invalid /\ _build_query(c, asked.query) # Invalid /\ own # Invalid /\ b # Invalid
  BY <1>2, <1>3 DEF Sendable
<1>5. /\ wire.method = c.method
      /\ wire.url = Normalised(_build_path(c, asked.params))
      /\ wire.query = _build_query(c, asked.query)
      /\ wire.headers = Sent(own)
      /\ wire.body = b
      /\ wire.media = IF c.request = Missing THEN Missing ELSE c.media
  BY <1>2, <1>3, <1>4
<1>q. QED
  BY <1>1, <1>4, <1>5 DEF c, own, b

(* The texts of a path's parameters, and the URL that they fill.           *)
PathTexts(c, params, text) ==
  /\ DOMAIN text = ParameterNames(c.path)
  /\ Fills(c.path, text)
  /\ _build_path(c, params) = Filled(c.path, text)
  /\ c.params # Missing =>
       /\ Validated(c.params, params) # Invalid
       /\ Validated(c.params, [name \in DOMAIN text |-> Str(text[name])]) = Validated(c.params, params)

(* Each parameter of a path that is built has a text that its segment      *)
(* admits.                                                                 *)
LEMMA PathIsFilled ==
  ASSUME NEW c, NEW params, _build_path(c, params) # Invalid, _check_params_match_path(c), _contract_adapters(c),
         c.params # Missing => \A f \in DOMAIN c.params.fields :
           /\ Validates(c.params.fields[f]) \subseteq DOMAIN c.params.fields[f].dump
           /\ \A v \in Range(c.params.fields[f].dump) : Spelling(v) \in DOMAIN Segments
  PROVE  \E text : PathTexts(c, params, text)
<1>1. CASE c.params = Missing
  <2>1. ParameterNames(c.path) = {}
    BY <1>1 DEF _check_params_match_path
  <2>2. Parameters(c.path) = {}
    BY <2>1 DEF ParameterNames
  <2>3. _build_path(c, params) = Filled(c.path, <<>>)
    BY <1>1 DEF _build_path
  <2>4. Fills(c.path, <<>>) /\ DOMAIN <<>> = ParameterNames(c.path)
    BY <2>1, <2>2 DEF Fills
  <2>q. QED
    BY <1>1, <2>3, <2>4 DEF PathTexts
<1>2. CASE c.params # Missing
  <2> DEFINE slot == c.params
             validated == Validated(slot, params)
             kept == {f \in DOMAIN validated : TRUE \/ validated[f].py # "none"}
             By(name) == CHOOSE f \in kept : slot.fields[f].writtenAs = name
             written == Serialized(slot, validated, TRUE)
             text == [name \in DOMAIN written |-> Spelling(written[name])]
  <2>1. /\ validated # Invalid
        /\ \A name \in DOMAIN text : FillsPath(c.path, name, text[name])
        /\ _validate_parameter_round_trip(slot, validated, [name \in DOMAIN text |-> Str(text[name])])
        /\ ParameterNames(c.path) \subseteq DOMAIN text
        /\ _build_path(c, params) = Filled(c.path, text)
    BY <1>2, Zenon DEF _build_path
  <2>2. /\ DOMAIN validated = DOMAIN slot.fields
        /\ \A f \in DOMAIN slot.fields : validated[f] \in Validates(slot.fields[f])
    BY <2>1, ValidatedIs
  <2>3. written = [name \in {slot.fields[f].writtenAs : f \in kept} |-> slot.fields[By(name)].dump[validated[By(name)]]]
    BY Zenon DEF Serialized
  <2>4. DOMAIN Written(slot) = DOMAIN slot.fields
    <3>1. {_request_parameter_wire_name("path", f) : f \in DOMAIN slot.fields}
            = {_request_parameter_wire_name("path", f) : f \in DOMAIN Written(slot)}
      BY <1>2 DEF _contract_adapters, _request_parameter_fields
    <3>2. \A f : _request_parameter_wire_name("path", f) = f
      BY DEF _request_parameter_wire_name
    <3>q. QED
      BY <3>1, <3>2
  <2>5. DOMAIN slot.fields = ParameterNames(c.path)
    BY <1>2 DEF _check_params_match_path
  <2>6. DOMAIN Written(slot) = {slot.fields[f].writtenAs : f \in DOMAIN slot.fields}
    BY DEF Written
  <2>7. \A f \in DOMAIN slot.fields :
          /\ Validates(slot.fields[f]) \subseteq DOMAIN slot.fields[f].dump
          /\ \A v \in Range(slot.fields[f].dump) : Spelling(v) \in DOMAIN Segments
    BY <1>2
  <2>8. kept = DOMAIN slot.fields
    BY <2>2
  <2>9. text = [name \in DOMAIN written |-> Spelling(written[name])] /\ DOMAIN text = DOMAIN written
    OBVIOUS
  <2>10. \A name : By(name) = CHOOSE f \in kept : slot.fields[f].writtenAs = name
    OBVIOUS
  <2>11. _validate_parameter_round_trip(slot, validated, [name \in DOMAIN text |-> Str(text[name])])
           = (Validated(slot, [name \in DOMAIN text |-> Str(text[name])]) = validated)
    BY Zenon DEF _validate_parameter_round_trip
  <2> HIDE DEF written, text, By, kept
  <2>12. DOMAIN text = ParameterNames(c.path)
    <3>1. DOMAIN written = {slot.fields[f].writtenAs : f \in kept}
      BY <2>3
    <3>q. QED
      BY <2>4, <2>5, <2>6, <2>8, <2>9, <3>1
  <2>13. ASSUME NEW name \in DOMAIN text PROVE text[name] \in DOMAIN Segments
    <3>1. name \in {slot.fields[f].writtenAs : f \in kept} /\ text[name] = Spelling(written[name])
      BY <2>3, <2>9
    <3>2. By(name) \in kept
      BY <2>10, <3>1
    <3>3. written[name] = slot.fields[By(name)].dump[validated[By(name)]]
      BY <2>3, <3>1
    <3>4. written[name] \in Range(slot.fields[By(name)].dump)
      BY <2>2, <2>7, <2>8, <3>2, <3>3 DEF Range
    <3>q. QED
      BY <2>7, <2>8, <3>1, <3>2, <3>4
  <2>14. Fills(c.path, text)
    <3>1. ASSUME NEW i \in Parameters(c.path)
          PROVE  LET t == text[c.path[i].name]
                 IN  t \in DOMAIN Segments /\ t # "" /\ Range(Segments[t]) \cap DotSegments = {} /\ Admits(c.path[i], t)
      <4>1. c.path[i].name \in DOMAIN text
        BY <2>12 DEF ParameterNames
      <4>q. QED
        BY <2>1, <2>13, <4>1 DEF FillsPath
    <3>q. QED
      BY <3>1 DEF Fills
  <2>15. PathTexts(c, params, text)
    BY <2>1, <2>11, <2>12, <2>14 DEF PathTexts
  <2>q. QED
    BY <2>15
<1>q. QED
  BY <1>1, <1>2

(* A request of the client's own matches the path that it called.          *)
LEMMA CallArrives ==
  ASSUME HttpInv, phase \in Handling \cup Answered, CallMade
  PROVE  LET c == app.routes[asked.route]
         IN  \E text :
               /\ PathTexts(c, asked.params, text)
               /\ Matches_(c.path, wire.url)
               /\ \A i \in Parameters(c.path) : PathText(c.path, wire.url, c.path[i].name) = Segments[text[c.path[i].name]]
<1> DEFINE c == app.routes[asked.route]
<1>1. asked.route \in DOMAIN app.routes /\ _build_path(c, asked.params) # Invalid
      /\ wire.url = Normalised(_build_path(c, asked.params))
  BY WireIs
<1>2. _check_params_match_path(c) /\ _contract_adapters(c) /\ Compiles(c.path)
  BY <1>1, ServedIs
<1>3. c.params # Missing => \A f \in DOMAIN c.params.fields :
        /\ Validates(c.params.fields[f]) \subseteq DOMAIN c.params.fields[f].dump
        /\ \A v \in Range(c.params.fields[f].dump) : Spelling(v) \in DOMAIN Segments
  BY <1>1, RouteAssumed
<1> HIDE DEF c
<1>4. PICK text : PathTexts(c, asked.params, text)
  BY <1>1, <1>2, <1>3, PathIsFilled
<1>5. Fills(c.path, text) /\ wire.url = Normalised(Filled(c.path, text))
  BY <1>1, <1>4 DEF PathTexts
<1>6. /\ wire.url = Filled(c.path, text)
      /\ Matches_(c.path, Filled(c.path, text))
      /\ \A i \in Parameters(c.path) : PathText(c.path, Filled(c.path, text), c.path[i].name) = Segments[text[c.path[i].name]]
  BY <1>2, <1>5, FilledIs
<1>q. QED
  BY <1>4, <1>6 DEF c

(* Texts differ in their segments.                                         *)
LEMMA SegmentsDiffer == \A s, t \in DOMAIN Segments : Segments[s] = Segments[t] => s = t
  BY Zenon, TextsAssumption

(* Inputs that a slot reads alike.                                         *)
LEMMA ReadAlike ==
  ASSUME NEW slot, NEW plain, NEW input, DOMAIN plain = DOMAIN input, Validated(slot, plain) # Invalid,
         \A f \in DOMAIN slot.fields \cap DOMAIN plain : plain[f] \in DOMAIN slot.fields[f].validate =>
           input[f] \in DOMAIN slot.fields[f].validate /\ slot.fields[f].validate[input[f]] = slot.fields[f].validate[plain[f]]
  PROVE  Validated(slot, input) = Validated(slot, plain)
<1>1. /\ \A f \in DOMAIN slot.fields :
           IF f \in DOMAIN plain THEN plain[f] \in DOMAIN slot.fields[f].validate ELSE ~slot.fields[f].required
      /\ slot.forbid => DOMAIN plain \subseteq DOMAIN slot.fields
      /\ Validated(slot, plain) = [f \in DOMAIN slot.fields |->
                                     IF f \in DOMAIN plain THEN slot.fields[f].validate[plain[f]] ELSE slot.fields[f].default]
  BY Zenon DEF Validated
<1>2. /\ \A f \in DOMAIN slot.fields :
           IF f \in DOMAIN input THEN input[f] \in DOMAIN slot.fields[f].validate ELSE ~slot.fields[f].required
      /\ slot.forbid => DOMAIN input \subseteq DOMAIN slot.fields
  BY <1>1
<1>3. Validated(slot, input) = [f \in DOMAIN slot.fields |->
                                  IF f \in DOMAIN input THEN slot.fields[f].validate[input[f]] ELSE slot.fields[f].default]
  BY <1>2, Zenon DEF Validated
<1>4. \A f \in DOMAIN slot.fields :
        (IF f \in DOMAIN input THEN slot.fields[f].validate[input[f]] ELSE slot.fields[f].default)
          = IF f \in DOMAIN plain THEN slot.fields[f].validate[plain[f]] ELSE slot.fields[f].default
  BY <1>1
<1>q. QED
  BY <1>1, <1>3, <1>4

(* The texts of the path's parameters are read as the caller's own.        *)
LEMMA ParamsArrive ==
  ASSUME HttpInv, phase \in Handling \cup Answered, CallMade, OwnRoute
  PROVE  /\ Intended.params # Invalid
         /\ NumbersRead(C) => Arguments.params = Intended.params
<1> DEFINE slot == C.params
           path == C.path
<1>1. C = app.routes[asked.route] /\ Intended.params = Reads(C.params, asked.params)
      /\ Arguments.params = Reads(C.params, PathInput(path, wire.url))
  BY DEF OwnRoute, C, Intended, Arguments
<1>2. PICK text :
        /\ PathTexts(C, asked.params, text)
        /\ Matches_(path, wire.url)
        /\ \A i \in Parameters(path) : PathText(path, wire.url, path[i].name) = Segments[text[path[i].name]]
  BY <1>1, CallArrives
<1>3. Compiles(path) /\ _check_params_match_path(C)
  BY <1>1, ServedIs, WireIs
<1>4. CASE slot = Missing
  BY <1>1, <1>4, TextsAssumption DEF Reads
<1>5. CASE slot # Missing
  <2> DEFINE plain == [name \in DOMAIN text |-> Str(text[name])]
             input == PathInput(path, wire.url)
  <2>1. /\ DOMAIN text = ParameterNames(path) /\ Fills(path, text)
        /\ Validated(slot, asked.params) # Invalid /\ Validated(slot, plain) = Validated(slot, asked.params)
    BY <1>2, <1>5 DEF PathTexts
  <2>2. Intended.params # Invalid
    BY <1>1, <1>5, <2>1 DEF Reads
  <2>3. ASSUME NumbersRead(C) PROVE Arguments.params = Intended.params
    <3>1. ASSUME NEW name \in ParameterNames(path), plain[name] \in DOMAIN slot.fields[name].validate
          PROVE  /\ input[name] \in DOMAIN slot.fields[name].validate
                 /\ slot.fields[name].validate[input[name]] = slot.fields[name].validate[plain[name]]
      <4> DEFINE i == CHOOSE k \in Parameters(path) : path[k].name = name
                 t == CHOOSE x \in DOMAIN Segments : Segments[x] = PathText(path, wire.url, name)
      <4>1. i \in Parameters(path) /\ path[i].name = name
        BY DEF ParameterNames
      <4>2. input[name] = IF path[i].kind = "parameter" /\ path[i].converter = "int" THEN Numeral(Number[t]) ELSE Str(t)
        BY DEF PathInput
      <4> HIDE DEF i
      <4>3. text[name] \in DOMAIN Segments /\ Segments[text[name]] = PathText(path, wire.url, name)
        BY <1>2, <2>1, <4>1 DEF Fills
      <4>4. t \in DOMAIN Segments /\ Segments[t] = PathText(path, wire.url, name)
        BY <4>3
      <4> HIDE DEF t
      <4>5. t = text[name]
        BY <4>3, <4>4, SegmentsDiffer
      <4>6. plain[name] = Str(t)
        BY <2>1, <4>5
      <4>7. CASE path[i].kind = "parameter" /\ path[i].converter = "int"
        <5>1. Admits(path[i], t)
          BY <2>1, <4>1, <4>5 DEF Fills
        <5>2. t \in Digits
          BY <4>7, <5>1 DEF Admits
        <5> HIDE DEF input, plain
        <5>3. /\ Numeral(Number[t]) \in DOMAIN slot.fields[name].validate
              /\ slot.fields[name].validate[Numeral(Number[t])] = slot.fields[name].validate[Str(t)]
          BY <2>3, <3>1, <4>1, <4>6, <4>7, <5>2 DEF NumbersRead
        <5>q. QED
          BY <4>2, <4>6, <4>7, <5>3
      <4>8. CASE ~(path[i].kind = "parameter" /\ path[i].converter = "int")
        <5> HIDE DEF input, plain
        <5>q. QED
          BY <3>1, <4>2, <4>6, <4>8
      <4>q. QED
        BY <4>7, <4>8
    <3>2. DOMAIN input = DOMAIN plain /\ DOMAIN plain = ParameterNames(path)
      BY <2>1 DEF PathInput
    <3> HIDE DEF input, plain
    <3>3. Validated(slot, input) = Validated(slot, plain)
      BY <2>1, <3>1, <3>2, ReadAlike
    <3>q. QED
      BY <1>1, <1>5, <2>1, <3>3 DEF Reads, input
  <2>q. QED
    BY <2>2, <2>3
<1>q. QED
  BY <1>4, <1>5

(* The query that arrives is read as the caller's own, the client's        *)
(* defaults included.                                                      *)
LEMMA QueryArrives ==
  ASSUME CallMade, OwnRoute
  PROVE  Intended.query # Invalid /\ Arguments.query = Intended.query
<1> DEFINE slot == C.query
           validated == Validated(slot, asked.query)
           effective == QueryTexts(Serialized(slot, validated, FALSE)) @@ client.query
<1>1. /\ C = app.routes[asked.route]
      /\ Intended.query = Reads(slot, IF asked.query = Missing THEN _query_dict(slot, client.query) ELSE asked.query)
      /\ Arguments.query = Reads(slot, _query_dict(slot, wire.query))
  BY DEF OwnRoute, C, Intended, Arguments
<1>2. wire.query = _build_query(C, asked.query) /\ wire.query # Invalid
  BY <1>1, WireIs
<1>3. CASE slot = Missing
  BY <1>1, <1>3, TextsAssumption DEF Reads
<1>4. CASE slot # Missing /\ asked.query = Missing
  <2>1. Validated(slot, _query_dict(slot, client.query)) # Invalid /\ wire.query = client.query
    BY <1>2, <1>4, Zenon DEF _build_query
  <2>q. QED
    BY <1>1, <1>4, <2>1 DEF Reads
<1>5. CASE slot # Missing /\ asked.query # Missing
  <2>1. /\ validated # Invalid /\ _validate_parameter_round_trip(slot, validated, _query_dict(slot, effective))
        /\ wire.query = effective
    BY <1>2, <1>5, Zenon DEF _build_query
  <2> HIDE DEF effective
  <2>2. Validated(slot, _query_dict(slot, wire.query)) = validated
    BY <2>1 DEF _validate_parameter_round_trip
  <2>q. QED
    BY <1>1, <1>5, <2>1, <2>2 DEF Reads
<1>q. QED
  BY <1>3, <1>4, <1>5

(* So are the headers, the client's and the transport's own included.      *)
LEMMA HeadersArrive ==
  ASSUME CallMade, OwnRoute
  PROVE  Intended.headers # Invalid /\ Arguments.headers = Intended.headers
<1> DEFINE slot == C.headers
           input == IF asked.headers = Missing THEN _encoded_header_input(slot, client.headers) ELSE asked.headers
           validated == Validated(slot, input)
           rendered == HeaderTextsOf(Serialized(slot, validated, FALSE))
<1>1. /\ C = app.routes[asked.route]
      /\ Intended.headers = Reads(slot, input)
      /\ Arguments.headers = Reads(slot, _encoded_header_input(slot, wire.headers))
  BY DEF OwnRoute, C, Intended, Arguments
<1>2. wire.headers = Sent(_build_headers(C, asked.headers)) /\ _build_headers(C, asked.headers) # Invalid
  BY <1>1, WireIs
<1>3. CASE slot = Missing
  BY <1>1, <1>3, TextsAssumption DEF Reads
<1>4. CASE slot # Missing
  <2>1. /\ validated # Invalid
        /\ _validate_parameter_round_trip(slot, validated, _encoded_header_input(slot, EffectiveHeaders(rendered)))
        /\ _build_headers(C, asked.headers) = rendered
    BY <1>2, <1>4, Zenon DEF _build_headers
  <2> HIDE DEF rendered, input
  <2>2. Validated(slot, _encoded_header_input(slot, wire.headers)) = validated
    BY <1>2, <2>1 DEF _validate_parameter_round_trip, EffectiveHeaders
  <2>q. QED
    BY <1>1, <1>4, <2>1, <2>2 DEF Reads
<1>q. QED
  BY <1>3, <1>4

(* The body that arrives is read as the value it was written from.         *)
LEMMA BodyArrives ==
  ASSUME HttpInv, phase \in Handling \cup Answered, CallMade, OwnRoute, C.request # Missing
  PROVE  /\ MediaMatches
         /\ is_text_media_type(C.media) => text_charset(wire.media) \in Codecs
         /\ Faithful(C.request, C.media) =>
              RequestBody = C.request.validate[asked.request] /\ RequestBody # Invalid
<1> DEFINE body == C.request
           media == C.media
           value == body.validate[asked.request]
           charset == text_charset(media)
<1>1. C = app.routes[asked.route] /\ asked.route \in DOMAIN app.routes
  BY WireIs DEF OwnRoute, C
<1>2. wire.body = _build_body(C, asked.request) /\ wire.body # Invalid /\ wire.media = media
  BY <1>1, WireIs
<1>3. media # Missing /\ ReadsBack(body)
  BY <1>1, RouteAssumed
<1>4. validate_media_type(media)
  BY <1>1, ServedIs DEF contract
<1>5. MediaMatches
  BY <1>2, <1>3 DEF MediaMatches, media_type_matches
<1>6. is_text_media_type(media) => charset \in Codecs
  BY <1>4 DEF validate_media_type
<1>7. /\ asked.request \in DOMAIN body.validate
      /\ wire.body = IF is_json_media_type(media) THEN Parsed(value, body.dump)
                     ELSE IF value.py = "bytes" THEN value.is[1]
                     ELSE IF value.py = "str" THEN Encoded(value.is[1], media)
                     ELSE Invalid
  BY <1>2, Zenon DEF _build_body
<1>8. value \in Range(body.validate) /\ value # Invalid
  BY <1>3, <1>7 DEF Range, ReadsBack
<1>9. ASSUME Faithful(body, media) PROVE RequestBody = value
  <2>1. CASE is_json_media_type(media)
    <3>1. RequestBody = Parsed(wire.body, body.reads)
      BY <2>1, Zenon DEF RequestBody
    <3>2. wire.body = body.dump[value]
      BY <1>2, <1>7, <2>1 DEF Parsed
    <3>3. body.dump[value] \in DOMAIN body.reads /\ body.reads[body.dump[value]] = value
      BY <1>8, <1>9, <2>1 DEF Faithful
    <3>q. QED
      BY <3>1, <3>2, <3>3 DEF Parsed
  <2>2. CASE ~is_json_media_type(media)
    <3>1. Writable(value)
      BY <1>2, <1>7, <2>2 DEF Writable
    <3>2. /\ is_text_media_type(media) => value.py = "str"
          /\ Raw(value, media) \in DOMAIN body.validate
          /\ body.validate[Raw(value, media)] = value
      BY <1>8, <1>9, <2>2, <3>1 DEF Faithful, Legible
    <3>3. CASE is_text_media_type(media)
      <4>1. wire.body = Parsed(value.is[1], Encode[charset])
        BY <1>7, <2>2, <3>2, <3>3 DEF Encoded
      <4>2. value.is[1] \in DOMAIN Encode[charset] /\ wire.body = Encode[charset][value.is[1]]
        BY <1>2, <4>1 DEF Parsed
      <4> HIDE DEF charset, value
      <4>3. wire.body \in DOMAIN Decode[charset] /\ Decode[charset][wire.body] = value.is[1]
        BY <1>6, <3>3, <4>2, CodecsDecode
      <4>4. RequestBody = Parsed(Str(value.is[1]), body.validate)
        BY <1>2, <2>2, <3>3, <4>3, Zenon DEF RequestBody, charset
      <4>5. Raw(value, media) = Str(value.is[1])
        BY <3>3 DEF Raw
      <4>q. QED
        BY <3>2, <4>4, <4>5 DEF Parsed
    <3>4. CASE ~is_text_media_type(media)
      <4>1. RequestBody = Parsed(Bytes(wire.body), body.validate)
        BY <2>2, <3>4, Zenon DEF RequestBody
      <4>2. Raw(value, media) = Bytes(wire.body)
        <5>1. CASE value.py = "bytes"
          BY <1>7, <2>2, <3>4, <5>1 DEF Raw
        <5>2. CASE value.py = "str"
          BY <1>2, <1>7, <2>2, <3>4, <5>2 DEF Raw, Encoded, Parsed
        <5>q. QED
          BY <3>1, <5>1, <5>2 DEF Writable
      <4>q. QED
        BY <3>2, <4>1, <4>2 DEF Parsed
    <3>q. QED
      BY <3>3, <3>4
  <2>q. QED
    BY <2>1, <2>2
<1>q. QED
  BY <1>2, <1>5, <1>6, <1>8, <1>9

(* A call that was sent is found.                                          *)
LEMMA CallIsServed ==
  ASSUME HttpInv, phase \in Handling \cup Answered, CallMade
  PROVE  /\ served # 0
         /\ ParameterNames(app.routes[asked.route].path) = {} => OwnRoute
<1> DEFINE c == app.routes[asked.route]
<1>1. asked.route \in DOMAIN app.routes /\ wire.method = c.method
  BY WireIs
<1>2. Matches_(c.path, wire.url)
  BY CallArrives
<1>3. Ranked(app.routes)
  BY ServedIs
<1>4. served = Dispatch(app.routes, wire.method, wire.url)
  BY DEF HttpInv, DispatchFits
<1>5. asked.route \in Able(app.routes, wire.method, wire.url)
  BY <1>1, <1>2 DEF Able, Methods
<1>6. served \in DOMAIN app.routes
  BY <1>3, <1>4, <1>5, DispatchIs
<1>7. served # 0
  BY <1>3, <1>6 DEF Ranked
<1>8. ASSUME ParameterNames(c.path) = {} PROVE OwnRoute
  <2>1. Parameters(c.path) = {}
    BY <1>8 DEF ParameterNames
  <2>q. QED
    BY <1>1, <1>2, <1>3, <1>4, <2>1, LiteralIsServed DEF OwnRoute
<1>q. QED
  BY <1>7, <1>8

(* Every answer of the framework's own has its reason.                     *)
LEMMA FrameworkAnswer ==
  ASSUME HttpInv, phase \in Answered, ~replaced, response.source = "framework"
  PROVE  NotRouted \/ Refused_ \/ response = internal_server_error
<1>1. \/ raised = Missing /\ answered = Missing /\ (NotRouted \/ Refused_)
      \/ answered = Missing /\ ErrorRaised
      \/ raised = Missing /\ (response = internal_server_error \/ Ordinarily \/ PassedThrough)
  BY DEF HttpInv, AnsweredFits
<1>2. ~PassedThrough
  BY DEF PassedThrough
<1>3. Ordinarily => response = internal_server_error
  <2>1. SUFFICES ASSUME NEW d, NEW body, NEW headers, response = OrdinaryResponse(d, body, headers)
        PROVE  response = internal_server_error
    BY DEF Ordinarily
  <2>2. OrdinaryResponse(d, body, headers) = internal_server_error \/ OrdinaryResponse(d, body, headers).source = "none"
    BY DEF OrdinaryResponse
  <2>q. QED
    BY <2>1, <2>2
<1>4. ErrorRaised => response = internal_server_error
  BY DEF ErrorRaised, Answer
<1>q. QED
  BY <1>1, <1>2, <1>3, <1>4

(* A client's call is refused for its size only, at its own route.         *)
LEMMA OwnCallRefused ==
  ASSUME HttpInv, ByClient, phase = "answered", response.source = "framework", ~replaced
  PROVE  /\ response \notin {not_found, method_not_allowed}
         /\ OwnRoute => response # unsupported_media_type
         /\ OwnRoute /\ NumbersRead(C) /\ (C.request # Missing => Faithful(C.request, C.media)) => response # validation_error
<1>1. phase \in Handling \cup Answered /\ phase \in Answered /\ CallMade
  BY DEF HttpInv, CallFits, ByClient, Answered
<1>2. NotRouted \/ Refused_ \/ response = internal_server_error
  BY <1>1, FrameworkAnswer
<1>3. ~NotRouted
  BY <1>1, CallIsServed DEF NotRouted
<1>4. /\ not_found.status = 404 /\ method_not_allowed.status = 405 /\ request_too_large.status = 413
      /\ unsupported_media_type.status = 415 /\ validation_error.status = 422 /\ internal_server_error.status = 500
  BY DEF not_found, method_not_allowed, request_too_large, unsupported_media_type, validation_error, internal_server_error,
         FrameworkError, Answer
<1>5. \/ MediaRefused /\ response.status = 415
      \/ InputRefused /\ response.status = 422
      \/ response.status \in {413, 500}
  BY <1>2, <1>3, <1>4 DEF Refused_, MediaRefused, InputRefused
<1>6. response \notin {not_found, method_not_allowed}
  BY <1>4, <1>5
<1>7. ASSUME OwnRoute PROVE response # unsupported_media_type
  <2>1. SUFFICES ASSUME MediaRefused PROVE FALSE
    BY <1>4, <1>5
  <2>2. contract(C)
    BY <1>1, <1>7, ServedIs, WireIs DEF C, OwnRoute
  <2>3. C.request # Missing
    BY <2>1, <2>2 DEF MediaRefused, contract
  <2>q. QED
    BY <1>1, <1>7, <2>1, <2>3, BodyArrives DEF MediaRefused
<1>8. ASSUME OwnRoute, NumbersRead(C), C.request # Missing => Faithful(C.request, C.media) PROVE response # validation_error
  <2>1. SUFFICES ASSUME InputRefused PROVE FALSE
    BY <1>4, <1>5
  <2>2. Arguments.params # Invalid /\ Arguments.query # Invalid /\ Arguments.headers # Invalid
    BY <1>1, <1>8, ParamsArrive, QueryArrives, HeadersArrive
  <2>3. RequestBody # Invalid
    <3>1. CASE C.request = Missing
      BY <3>1, TextsAssumption DEF RequestBody
    <3>2. CASE C.request # Missing
      BY <1>1, <1>8, <3>2, BodyArrives
    <3>q. QED
      BY <3>1, <3>2
  <2>q. QED
    BY <2>1, <2>2, <2>3 DEF InputRefused
<1>q. QED
  BY <1>6, <1>7, <1>8

(* Whoever the peer is, the use case's body and key are what they must be. *)
LEMMA ReceivedIs ==
  ASSUME HttpInv, received # Missing
  PROVE  /\ C.request # Missing => MediaMatches /\ (BodyLimit # Missing => Size[wire.body] <= BodyLimit)
         /\ C.webhook => approved = wire.body
         /\ C.idempotent => \E f \in DOMAIN received.headers :
              WireName[f] = "idempotency-key" /\ received.headers[f].py = "str" /\ received.headers[f].is # <<"">>
<1>1. Accepted /\ Approved
  BY DEF HttpInv, ReceivedFits
<1>2. phase \in Handling \cup Answered
  BY DEF HttpInv, PhaseFits
<1>3. C.request # Missing => MediaMatches /\ (BodyLimit # Missing => Size[wire.body] <= BodyLimit)
  BY <1>1 DEF Accepted, _read_body
<1>4. C.webhook => approved = wire.body
  BY <1>1 DEF Approved
<1>5. ASSUME C.idempotent
      PROVE  \E f \in DOMAIN received.headers :
               WireName[f] = "idempotency-key" /\ received.headers[f].py = "str" /\ received.headers[f].is # <<"">>
  <2> DEFINE slot == C.headers
             input == _encoded_header_input(slot, wire.headers)
             validated == Validated(slot, input)
  <2>1. served \in DOMAIN app.routes /\ contract(C) /\ _contract_adapters(C)
    BY <1>1, <1>2, ServedIs DEF Accepted, C
  <2>2. slot # Missing /\ _validate_idempotency_key_header(slot)
    BY <1>5, <2>1 DEF contract, _validate_idempotency_declaration, _contract_adapters
  <2>3. \A f \in DOMAIN slot.fields : NonEmptyString(slot.fields[f].read) =>
          \A v \in Range(slot.fields[f].validate) : v.py = "str" /\ v.is # <<"">>
    BY <1>2, <2>1, <2>2, RouteAssumed DEF C
  <2>4. received = [Arguments EXCEPT !.request = RequestBody] /\ Arguments.headers # Invalid
    BY <1>1 DEF Accepted
  <2>5. Arguments.headers = validated
    BY <2>2 DEF Arguments, Reads
  <2>6. received.headers = validated /\ validated # Invalid
    BY <2>4, <2>5 DEF Arguments
  <2>7. PICK f \in RequiredFields(slot) : WireName[f] = "idempotency-key" /\ NonEmptyString(slot.fields[f].read)
    BY <2>2 DEF _validate_idempotency_key_header
  <2>8. f \in DOMAIN slot.fields /\ slot.fields[f].required
    BY <2>7 DEF RequiredFields
  <2> HIDE DEF input, slot, validated
  <2>9. /\ validated = [g \in DOMAIN slot.fields |->
                          IF g \in DOMAIN input THEN slot.fields[g].validate[input[g]] ELSE slot.fields[g].default]
        /\ f \in DOMAIN input /\ input[f] \in DOMAIN slot.fields[f].validate
    BY <2>6, <2>8, Zenon DEF Validated, validated
  <2>10. f \in DOMAIN validated /\ validated[f] \in Range(slot.fields[f].validate)
    BY <2>8, <2>9 DEF Range
  <2>q. QED
    BY <2>3, <2>6, <2>7, <2>8, <2>10
<1>q. QED
  BY <1>3, <1>4, <1>5

(* And what its use case is given is what the caller meant.                *)
LEMMA OwnCallReceived ==
  ASSUME HttpInv, ByClient, received # Missing, OwnRoute
  PROVE  /\ NumbersRead(C) => received.params = Intended.params
         /\ received.query = Intended.query /\ received.headers = Intended.headers
         /\ C.request # Missing /\ Faithful(C.request, C.media) => received.request = C.request.validate[asked.request]
<1>1. Accepted
  BY DEF HttpInv, ReceivedFits
<1>2. phase \in Handling \cup Answered /\ CallMade
  BY DEF HttpInv, PhaseFits, CallFits, ByClient, Unserved, Handling, Answered
<1>3. received = [Arguments EXCEPT !.request = RequestBody]
  BY <1>1 DEF Accepted
<1>4. /\ received.params = Arguments.params /\ received.query = Arguments.query /\ received.headers = Arguments.headers
      /\ received.request = RequestBody
  BY <1>3 DEF Arguments
<1>q. QED
  BY <1>2, <1>4, ParamsArrive, QueryArrives, HeadersArrive, BodyArrives

(* What the use case is given follows from the request.                    *)
LEMMA ReceivedFromInv == HttpInv => WhatIsSentIsReceived
<1> SUFFICES ASSUME HttpInv PROVE WhatIsSentIsReceived
  OBVIOUS
<1>1. ASSUME ByClient, served # 0, ParameterNames(app.routes[asked.route].path) = {} PROVE OwnRoute
  <2>1. phase \in Handling \cup Answered /\ CallMade
    BY <1>1 DEF HttpInv, PhaseFits, CallFits, ByClient, Unserved, Handling, Answered
  <2>q. QED
    BY <1>1, <2>1, CallIsServed
<1>q. QED
  BY <1>1, ReceivedIs, OwnCallReceived, OwnCallRefused, Zenon DEF WhatIsSentIsReceived

(* An exchange, without the fairness that nothing here needs.              *)
HttpSpec == HttpInit /\ [][HttpNext]_httpVars

(* For every application that create_app builds, every client, peer and    *)
(* proxy: the use case gets what its caller meant, or does not run; a call *)
(* that was sent is found, and refused at its own route for its size only; *)
(* and no body passes its limit, its media type or its verifier.           *)
THEOREM SentIsReceived == HttpSpec => []WhatIsSentIsReceived
  BY HttpInitial, HttpInductive, ReceivedFromInv, PTL DEF HttpSpec

(* And for every answer: the client returns a success of the definition    *)
(* that was chosen, raises an application's error that was raised and is   *)
(* declared, and takes nothing of the framework's or of a proxy's for      *)
(* either.                                                                 *)
THEOREM AnsweredIsUnderstood == HttpSpec => []WhatIsAnsweredIsUnderstood
  BY HttpInitial, HttpInductive, UnderstoodFromInv, PTL DEF HttpSpec
=============================================================================
