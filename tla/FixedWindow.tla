----------------------------- MODULE FixedWindow -----------------------------
(***************************************************************************)
(* One rate-limit window and what a consume call makes of it.  The memory  *)
(* store and taskboard's SQLite store decide alike; how they make the      *)
(* decision atomic is left to the modules that use this one.               *)
(***************************************************************************)
EXTENDS Integers

CONSTANTS
  Second,   \* ticks per second: Retry-After counts whole seconds
  None

(* A limit and a window length in ticks, as _validate_request accepts them. *)
Policies == [limit : Nat \ {0}, length : Nat \ {0}]

(* A window that is open: _Window, or a row of rate_limit_windows.          *)
Windows == [limit : Nat \ {0}, length : Nat \ {0}, used : Nat, resets : Int]

ASSUME FixedWindowAssumption ==
  /\ Second \in Nat \ {0}
  /\ None \notin Int /\ None \notin Policies /\ None \notin Windows

(* What is left of a window once the expired ones have been deleted. *)
Current(w, now) == IF w # None /\ w.resets > now THEN w ELSE None

(* A changed policy starts a new window. *)
Opens(w, p) == w # None => w.limit # p.limit \/ w.length # p.length

Opened(p, cost, now) ==
  [limit |-> p.limit, length |-> p.length, used |-> cost, resets |-> now + p.length]

Overspends(w, cost) == w.used + cost > w.limit

RetryAfter_Floor(w, now) ==
  LET s == (w.resets - now) \div Second IN IF s >= 1 THEN s ELSE 1

(* max(1, ceil(resets_at - now)) *)
RetryAfter(w, now) ==
  LET s == (w.resets - now + Second - 1) \div Second IN IF s >= 1 THEN s ELSE 1

Window_Overwrites(w, p, cost, now) ==
  LET c == Current(w, now) IN
  IF Opens(c, p) THEN Opened(p, cost, now)
  ELSE IF Overspends(c, cost) THEN c
  ELSE [c EXCEPT !.used = cost]

(* The window after consume has been called with policy p at time now. *)
Window(w, p, cost, now) ==
  LET c == Current(w, now) IN
  IF Opens(c, p) THEN Opened(p, cost, now)
  ELSE IF Overspends(c, cost) THEN c
  ELSE [c EXCEPT !.used = @ + cost]

(* The decision consume returns. *)
Decision(w, p, cost, now) ==
  LET c == Current(w, now) IN
  IF Opens(c, p)
  THEN [got |-> "permit", remaining |-> p.limit - cost, wait |-> p.length]
  ELSE IF Overspends(c, cost)
  THEN [got |-> "exceeded", remaining |-> 0, wait |-> RetryAfter(c, now)]
  ELSE [got |-> "permit", remaining |-> p.limit - c.used - cost, wait |-> c.resets - now]

(* _validate_permit and _validate_exceeded: what enforce_rate_limit takes  *)
(* from a store.                                                           *)
Valid(d, p, cost) ==
  IF d.got = "permit"
  THEN d.remaining \in 0..(p.limit - cost) /\ d.wait \in 1..p.length
  ELSE d.wait \in 1..((p.length + Second - 1) \div Second)
=============================================================================
