------------------------------ MODULE RateLimit ------------------------------
(***************************************************************************)
(* enforce_rate_limit over a store of fixed windows.                       *)
(*                                                                         *)
(* The stores decide under a lock (asyncio.Lock in memory, SQLite's writer *)
(* lock in taskboard) and read their clock while they hold it, so a call   *)
(* is one step.  The memory store's clock is monotonic; taskboard's is the *)
(* wall clock, which an administrator may set back.  elapsed is the time   *)
(* that has really passed.                                                 *)
(***************************************************************************)
EXTENDS FixedWindow

CONSTANTS
  Identities,   \* (namespace, scope)
  Rules,        \* the limits and window lengths callers use
  Costs,        \* the costs callers use
  Stores,       \* "memory", "sqlite" or both
  SetBacks,     \* by how many ticks the store's clock may be set back
  Horizon       \* how long the store is watched

ASSUME RateLimitAssumption ==
  /\ Rules \subseteq Policies
  /\ Costs \subseteq Nat \ {0}
  /\ Stores \subseteq {"memory", "sqlite"}
  /\ SetBacks \subseteq Nat \ {0}
  /\ Horizon \in Nat

VARIABLES
  store,     \* which store the application uses
  windows,   \* _windows, or the rows of rate_limit_windows
  storeClock, \* what the store's clock reads
  elapsed,   \* time since the start
  rule,      \* the rule the application has for each identity
  spent,     \* each identity's grants since its rule last made a difference (a ghost)
  reply,     \* what the last step answered, or None
  setBack    \* the store's clock has been set back

rateVars == <<store, windows, storeClock, elapsed, rule, spent, reply, setBack>>

RateInit ==
  /\ store \in Stores
  /\ windows = [i \in Identities |-> None]
  /\ storeClock = 0
  /\ elapsed = 0
  /\ rule \in [Identities -> Rules]
  /\ spent = [i \in Identities |-> [rule |-> None, by |-> [t \in 0..Horizon |-> 0]]]
  /\ reply = None
  /\ setBack = FALSE

(* consume deletes the expired windows of all identities. *)
Pruned(i, w) ==
  [j \in Identities |-> IF j = i THEN w ELSE Current(windows[j], storeClock)]

(* What a raised error leaves in the store: taskboard's rolls back. *)
Kept(ws) == IF store = "sqlite" THEN windows ELSE ws

(* The store answers, and enforce_rate_limit accepts the decision.  After  *)
(* the clock was set back a window may have more time left than its rule   *)
(* allows: the memory store raises, the SQLite store's decision is         *)
(* validated and, if rejected, its transaction rolled back.                *)
Accepted(i, cost) ==
  LET w == Current(windows[i], storeClock) IN
  /\ store = "memory" /\ ~Opens(w, rule[i]) => w.resets - storeClock <= rule[i].length
  /\ Valid(Decision(w, rule[i], cost, storeClock), rule[i], cost)

(* by[t] is what has been granted up to time t under the rule.            *)
Credited(s, p, cost) ==
  [rule |-> p,
   by |-> [t \in 0..Horizon |-> (IF s.rule = p THEN s.by[t] ELSE 0) + (IF t >= elapsed THEN cost ELSE 0)]]

Permit(i, cost) ==
  /\ cost <= rule[i].limit
  /\ Accepted(i, cost)
  /\ Decision(windows[i], rule[i], cost, storeClock).got = "permit"
  /\ windows' = Pruned(i, Window(windows[i], rule[i], cost, storeClock))
  /\ spent' = [spent EXCEPT ![i] = Credited(@, rule[i], cost)]
  /\ reply' = [got |-> "permit"]
  /\ UNCHANGED <<store, storeClock, elapsed, rule, setBack>>

Refuse(i, cost) ==
  LET w == Window(windows[i], rule[i], cost, storeClock)
      d == Decision(windows[i], rule[i], cost, storeClock)
  IN /\ cost <= rule[i].limit
     /\ Accepted(i, cost)
     /\ d.got = "exceeded"
     /\ windows' = Kept(Pruned(i, w))
     /\ reply' = [got |-> "exceeded", until |-> storeClock + d.wait * Second,
                  resets |-> w.resets]
     /\ UNCHANGED <<store, storeClock, elapsed, rule, spent, setBack>>

StoreError(i, cost) ==
  /\ cost <= rule[i].limit
  /\ ~Accepted(i, cost)
  /\ windows' = Kept(Pruned(i, Current(windows[i], storeClock)))
  /\ reply' = [got |-> "store_error"]
  /\ UNCHANGED <<store, storeClock, elapsed, rule, spent, setBack>>

(* A new version of the application brings another rule. *)
ChangeRule(i) ==
  /\ \E p \in Rules \ {rule[i]} : rule' = [rule EXCEPT ![i] = p]
  /\ reply' = None
  /\ UNCHANGED <<store, windows, storeClock, elapsed, spent, setBack>>

RateTick ==
  /\ elapsed < Horizon
  /\ elapsed' = elapsed + 1
  /\ storeClock' = storeClock + 1
  /\ reply' = None
  /\ UNCHANGED <<store, windows, rule, spent, setBack>>

SetBack ==
  /\ ~setBack
  /\ \E d \in SetBacks : storeClock' = storeClock - d
  /\ setBack' = TRUE
  /\ reply' = None
  /\ UNCHANGED <<store, windows, elapsed, rule, spent>>

RateNext ==
  \/ \E i \in Identities, c \in Costs : Permit(i, c) \/ Refuse(i, c) \/ StoreError(i, c)
  \/ \E i \in Identities : ChangeRule(i)
  \/ RateTick
  \/ SetBack
-----------------------------------------------------------------------------
GrantedBy(s, t) == IF t < 0 THEN 0 ELSE s.by[IF t < Horizon THEN t ELSE Horizon]
Granted(s, from, to) == GrantedBy(s, to) - GrantedBy(s, from - 1)

(* Within any stretch of time as long as a window, at most two windows'    *)
(* worth is granted under one rule, and a clock that is set back never     *)
(* lets more through (RateLimitStore).                                     *)
BurstsAreBounded ==
  \A i \in Identities : spent[i].rule # None =>
    \A t \in 0..Horizon :
      Granted(spent[i], t, t + spent[i].rule.length - 1) <= 2 * spent[i].rule.limit

(* A caller who was refused is told to come back when the window that      *)
(* refused it is over, and not a whole second later (RateLimitExceeded).   *)
RetryAfterIsExact ==
  reply # None /\ reply.got = "exceeded" =>
    reply.until \in reply.resets..(reply.resets + Second - 1)
=============================================================================
