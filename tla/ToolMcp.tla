------------------------------- MODULE ToolMcp -------------------------------
(***************************************************************************)
(* The application's tools over MCP: concurrent tools/call requests, each  *)
(* authenticated by its own headers, checked for visibility, validated,    *)
(* and, when the tool is destructive, shown to an approver before the very *)
(* input it was shown is run.  Every callback is awaited: meanwhile other  *)
(* calls run and the application's policy changes.  The approver may take  *)
(* what it is shown apart.  Schemas, request ids and tools/list, which     *)
(* changes nothing, are left out.                                          *)
(***************************************************************************)
EXTENDS Integers, FiniteSets

CONSTANTS
  Callers,       \* tools/call requests
  Credentials,   \* [Callers -> Principals \cup {Nobody}]: who the headers of a request name
  Principals,
  Nobody,
  Tools,
  Destructive,   \* the tools declared destructive
  Arguments,     \* what clients send
  Normal,        \* [Arguments -> value, or Invalid]: validation by the declaration
  Invalid,
  MaxChanges     \* bound: how often the visibility policy changes

VARIABLES
  at,            \* where call_tool is
  asking,        \* the request: [tool, arguments]
  principal,     \* its locals
  kwargs,
  visible,       \* the application's policy: {<<principal, tool>>}
  changes,
  hasApprover,   \* an approve callback is configured
  granted,       \* {<<principal, tool, value>>} approved (a ghost)
  flight,        \* the result, or what is being raised, on its way out of ToolRunner._invoke
  verdict,       \* what the use case and the validation of its result came to (a ghost)
  effects,       \* committed: {[caller, principal, tool, value]}
  answer         \* "none", "ok", the kind of the failure, "error" (ToolError), "dropped" (cancelled)

toolVars == <<at, asking, principal, kwargs, visible, changes, hasApprover, granted, flight, verdict, effects, answer>>

ASSUME ToolAssumption ==
  /\ Credentials \in [Callers -> Principals \cup {Nobody}]
  /\ Destructive \subseteq Tools
  /\ MaxChanges \in Nat
  /\ Invalid \notin Arguments

Values == {Normal[a] : a \in Arguments} \ {Invalid}
NoRequest == [tool |-> "none", arguments |-> "none"]

ToolInit ==
  /\ at = [c \in Callers |-> "arriving"]
  /\ asking = [c \in Callers |-> NoRequest]
  /\ principal = [c \in Callers |-> Nobody]
  /\ kwargs = [c \in Callers |-> Invalid]
  /\ visible = Principals \X Tools
  /\ changes = 0
  /\ hasApprover \in BOOLEAN
  /\ granted = {} /\ effects = {}
  /\ flight = [c \in Callers |-> "none"]
  /\ verdict = [c \in Callers |-> "none"]
  /\ answer = [c \in Callers |-> "none"]

Goes(c, from, to) == at[c] = from /\ at' = [at EXCEPT ![c] = to]
Ends(c, from, kind) == Goes(c, from, "done") /\ answer' = [answer EXCEPT ![c] = kind]

CallTool(c) ==
  /\ Goes(c, "arriving", "authenticating")
  /\ \E t \in Tools, a \in Arguments : asking' = [asking EXCEPT ![c] = [tool |-> t, arguments |-> a]]
  /\ UNCHANGED <<principal, kwargs, visible, changes, hasApprover, granted, flight, verdict, effects, answer>>

(* _principal: who the headers of this very request name.                  *)
_principal(c) ==
  /\ IF Credentials[c] # Nobody
     THEN /\ Goes(c, "authenticating", "authenticated")
          /\ principal' = [principal EXCEPT ![c] = Credentials[c]]
          /\ UNCHANGED answer
     ELSE Ends(c, "authenticating", "error") /\ UNCHANGED principal
  /\ UNCHANGED <<asking, kwargs, visible, changes, hasApprover, granted, flight, verdict, effects>>

_is_allowed(c) ==
  LET isVisible == <<principal[c], asking[c].tool>> \in visible IN
  /\ \/ isVisible /\ Goes(c, "authenticated", "allowed") /\ UNCHANGED answer
     \/ ~isVisible /\ Ends(c, "authenticated", "error")
  /\ UNCHANGED <<asking, principal, kwargs, visible, changes, hasApprover, granted, flight, verdict, effects>>

Validate(c) ==
  LET value == Normal[asking[c].arguments]
      gated == asking[c].tool \in Destructive /\ ~hasApprover IN
  /\ at[c] = "allowed"
  /\ \/ value = Invalid /\ Ends(c, "allowed", "invalid_input")
     \/ value # Invalid /\ gated /\ Ends(c, "allowed", "approval_required")
     \/ value # Invalid /\ Ends(c, "allowed", "failed")   \* a validator raises, or it has no JSON form
     \/ value # Invalid /\ ~gated /\ Goes(c, "allowed", "preparing") /\ UNCHANGED answer
  /\ kwargs' = [kwargs EXCEPT ![c] = value]
  /\ UNCHANGED <<asking, principal, visible, changes, hasApprover, granted, flight, verdict, effects>>

(* The runner factory is awaited, and may give a runner of other tools.    *)
_runner(c) ==
  /\ \/ /\ Goes(c, "preparing", IF asking[c].tool \in Destructive THEN "approving" ELSE "ready")
        /\ UNCHANGED answer
     \/ Ends(c, "preparing", "error")
  /\ UNCHANGED <<asking, principal, kwargs, visible, changes, hasApprover, granted, flight, verdict, effects>>

(* The approver is shown a deep copy of the JSON form, and may change it.  *)
_approved_Shared(c) ==
  /\ at[c] = "approving"
  /\ \/ /\ Goes(c, "approving", "ready")
        /\ granted' = granted \cup {<<principal[c], asking[c].tool, kwargs[c]>>}
        /\ UNCHANGED answer
     \/ Ends(c, "approving", "approval_denied") /\ UNCHANGED granted
     \/ Ends(c, "approving", "error") /\ UNCHANGED granted
  /\ \E v \in Values : kwargs' = [kwargs EXCEPT ![c] = v]
  /\ UNCHANGED <<asking, principal, visible, changes, hasApprover, flight, verdict, effects>>

_approved(c) ==
  /\ at[c] = "approving"
  /\ \/ /\ Goes(c, "approving", "ready")
        /\ granted' = granted \cup {<<principal[c], asking[c].tool, kwargs[c]>>}
        /\ UNCHANGED answer
     \/ Ends(c, "approving", "approval_denied") /\ UNCHANGED granted
     \/ Ends(c, "approving", "error") /\ UNCHANGED granted
  /\ UNCHANGED <<asking, principal, kwargs, visible, changes, hasApprover, flight, verdict, effects>>

-----------------------------------------------------------------------------
(* ToolRunner._invoke.  The result is validated inside the context, which  *)
(* commits when it is left with a result, and rolls back when something    *)
(* raises in it.  Whatever application code raises is told as "failed",    *)
(* or, when the tool declares it, as an "application_error".               *)
Raised == {"application_error", "failed"}

RunUseCase(c) ==
  /\ \/ \E outcome \in Raised \cup {"ok", "invalid_result"} :
          /\ Goes(c, "ready", "returned")
          /\ flight' = [flight EXCEPT ![c] = outcome]
          /\ verdict' = [verdict EXCEPT ![c] = outcome]
          /\ UNCHANGED answer
     \/ \E error \in Raised :    \* the context cannot be opened
          /\ Goes(c, "ready", "closed")
          /\ flight' = [flight EXCEPT ![c] = error]
          /\ UNCHANGED <<verdict, answer>>
     \/ \E error \in Raised :    \* nor the lifespan
          Ends(c, "ready", error) /\ UNCHANGED <<flight, verdict>>
  /\ UNCHANGED <<asking, principal, kwargs, visible, changes, hasApprover, granted, effects>>

Committed(c) == effects \cup {[caller |-> c, principal |-> principal[c], tool |-> asking[c].tool, value |-> kwargs[c]]}

(* The context's exit: what it raises, before or after it has committed,   *)
(* takes the place of the result.                                          *)
CloseContext(c) ==
  /\ Goes(c, "returned", "closed")
  /\ \/ UNCHANGED flight
     \/ \E error \in Raised : flight' = [flight EXCEPT ![c] = error]
  /\ \/ flight[c] = "ok" /\ effects' = Committed(c)
     \/ flight'[c] # "ok" /\ UNCHANGED effects
  /\ UNCHANGED <<asking, principal, kwargs, visible, changes, hasApprover, granted, verdict, answer>>

(* Observers are awaited, whose exceptions are dropped, then the end of    *)
(* the lifespan, whose exception takes the place of the result.            *)
_invoke(c) ==
  /\ \E kind \in Raised \cup {flight[c]} : Ends(c, "closed", kind)
  /\ flight' = [flight EXCEPT ![c] = "none"]
  /\ UNCHANGED <<asking, principal, kwargs, visible, changes, hasApprover, granted, verdict, effects>>

(* The client gives up: CancelledError passes through everything, and the  *)
(* context it meets rolls back, unless it has already begun to commit.     *)
CancelCall(c) ==
  /\ at[c] \notin {"arriving", "done"}
  /\ at' = [at EXCEPT ![c] = "done"]
  /\ answer' = [answer EXCEPT ![c] = "dropped"]
  /\ \/ UNCHANGED effects
     \/ at[c] = "returned" /\ flight[c] = "ok" /\ effects' = Committed(c)
  /\ flight' = [flight EXCEPT ![c] = "none"]
  /\ UNCHANGED <<asking, principal, kwargs, visible, changes, hasApprover, granted, verdict>>

ChangePolicy ==
  /\ changes < MaxChanges
  /\ changes' = changes + 1
  /\ \E rule \in Principals \X Tools :
       visible' = (visible \ {rule}) \cup ({rule} \ visible)
  /\ UNCHANGED <<at, asking, principal, kwargs, hasApprover, granted, flight, verdict, effects, answer>>

ToolNext ==
  \/ ChangePolicy
  \/ \E c \in Callers :
       \/ CallTool(c) \/ _principal(c) \/ _is_allowed(c) \/ Validate(c) \/ _runner(c) \/ _approved(c)
       \/ RunUseCase(c) \/ CloseContext(c) \/ _invoke(c) \/ CancelCall(c)

Refusals == {"invalid_input", "approval_required", "approval_denied", "error"}

(* "Destructive tools are denied unless approve ... returns True for that  *)
(* exact principal, declaration, and normalized JSON representation": what *)
(* a destructive call committed was approved for the principal its own     *)
(* headers name, and is what its own arguments say, whatever the approver  *)
(* did to what it was shown and whoever called meanwhile.                  *)
ApprovedIsRun ==
  \A e \in effects :
    /\ e.principal = Credentials[e.caller]
    /\ e.tool = asking[e.caller].tool
    /\ e.value = Normal[asking[e.caller].arguments]
    /\ e.tool \in Destructive => <<e.principal, e.tool, e.value>> \in granted

(* An answer tells what was done, as far as it can: "ok" that the call     *)
(* was committed; a refusal and "invalid_result" that it was not.  A call  *)
(* that was dropped, failed, or ended in an application error while it was *)
(* being closed may have been; but only one whose use case returned a      *)
(* valid result ever is, so that an error the use case raised itself is an *)
(* answer that nothing was.                                                *)
AnswersTell ==
  /\ \A c \in Callers :
       /\ answer[c] = "ok" => \E e \in effects : e.caller = c
       /\ answer[c] \in Refusals \cup {"invalid_result"} => \A e \in effects : e.caller # c
  /\ \A e \in effects : verdict[e.caller] = "ok"

(* What tools did is what was allowed, and what callers are told.          *)
ToolCallsAreSound == ApprovedIsRun /\ AnswersTell
=============================================================================
