------------------------------- MODULE Binding -------------------------------
(***************************************************************************)
(* How a plain async function becomes a tool, a job's handler, a task, a   *)
(* route's use case or the subject of execute: its signature and           *)
(* annotations are checked, its runner is wired, and a call's input and    *)
(* context become keyword arguments.  What an application wrote is a       *)
(* record of Wirings; parameters are in a signature's own order, so that   *)
(* a signature is a function from names to how the parameter is taken.     *)
(***************************************************************************)
EXTENDS Naturals, FiniteSets, SequencesExt

CONSTANTS
  Wirings,     \* what applications wrote
  Types,       \* annotations that are types
  Unusable,    \* the types Pydantic cannot build an adapter for
  Names,       \* annotations that are strings: forward references
  Empty,       \* no annotation
  Unbound,     \* what a name without a global resolves to
  Payloads,      \* inputs, as Python values or as JSON
  Accepts,     \* [Types -> SUBSET Payloads]: what validation admits
  Strict,      \* [Types -> SUBSET Payloads]: what strict JSON validation admits
  Dump,        \* [Types -> [Payloads -> Payloads]]: a value's JSON
  EmptyObject, \* {}
  Unset        \* no input

VARIABLES
  wiring,   \* the application
  progress, \* "written" .. "presented", or how it was refused
  given,    \* [how, value]: the input of the call
  kwargs,   \* the keyword arguments of the use case
  opened    \* the scopes entered: "lifespan", "context"

bindingVars == <<wiring, progress, given, kwargs, opened>>

ASSUME BindingAssumption ==
  /\ Unusable \subseteq Types
  /\ Accepts \in [Types -> SUBSET Payloads]
  /\ \A t \in Types : Strict[t] \subseteq Accepts[t]
  /\ Unset \notin Payloads /\ EmptyObject \in Payloads
  /\ IsFiniteSet(Names) /\ Names \cap Types = {} /\ Unbound \notin Names \cup Types

Addressable == {"positional_or_keyword", "keyword_only"}
Positional == {"positional_only", "positional_or_keyword"}
Variadic == {"var_positional", "var_keyword"}

----------------------------------------------------------------------------
(* Python's own rules: whether a call with these keywords, or with n       *)
(* positional arguments, binds a signature.                                *)
Required(parameters) ==
  {n \in DOMAIN parameters : parameters[n].kind \notin Variadic /\ ~parameters[n].default}
TakesAny(parameters) == \E n \in DOMAIN parameters : parameters[n].kind = "var_keyword"
Binds(parameters, keywords) ==
  /\ \A n \in Required(parameters) : parameters[n].kind \in Addressable /\ n \in keywords
  /\ \A n \in keywords :
       \/ n \in DOMAIN parameters /\ parameters[n].kind \in Addressable
       \/ TakesAny(parameters)
BindsPositional(callable, n) ==
  /\ callable.least <= n /\ n <= callable.most
  /\ ~callable.keywordOnly

----------------------------------------------------------------------------
(* An annotation that is a string is evaluated in its function's globals,  *)
(* again while that gives a string.  A name that comes back, or one that   *)
(* is unbound, cannot be resolved.                                         *)
_resolved_annotation(globals, note) ==
  LET chain[i \in 0..Cardinality(Names)] ==
        IF i = 0 THEN note
        ELSE IF chain[i - 1] \in Names THEN globals[chain[i - 1]] ELSE chain[i - 1]
  IN  chain[Cardinality(Names)]
Resolves(globals, note) == _resolved_annotation(globals, note) \in Types

(* "must be annotated", resolvable, and equal to what was declared         *)
Matches(globals, note, declared) == Resolves(globals, note) /\ _resolved_annotation(globals, note) = declared

OthersOptional_Positional(parameters, passed) ==
  \A n \in Required(parameters) \ passed : parameters[n].kind = "keyword_only"
OthersOptional(parameters, passed) == Required(parameters) \subseteq passed
AddressableIfThere(parameters, names) ==
  \A n \in names \cap DOMAIN parameters : parameters[n].kind \in Addressable

_validate_handler_shape(parameters, expected) ==
  /\ DOMAIN parameters = expected
  /\ \A n \in expected : parameters[n].kind \in Addressable
_validate_tool_handler(w) ==
  LET parameters == w.use_case.parameters
  IN  /\ w.use_case.async
      /\ _validate_handler_shape(parameters, {"context"} \cup DOMAIN w.declared)
      /\ \A n \in DOMAIN w.declared : Matches(w.globals, parameters[n].note, w.declared[n])
      /\ Matches(w.globals, w.use_case.returns, w.result)

_validate_job_handler(w) ==
  LET parameters == w.use_case.parameters
  IN  /\ w.use_case.async
      /\ {"request", "context"} \subseteq DOMAIN parameters
      /\ AddressableIfThere(parameters, {"request", "context"})
      /\ OthersOptional(parameters, {"request", "context"})
      /\ Matches(w.globals, parameters["request"].note, w.declared["request"])
      /\ Matches(w.globals, w.use_case.returns, w.result)

(* A task and execute share these; a task's declarations are its           *)
(* annotations.                                                            *)
_validate_use_case_shape(w) ==
  LET parameters == w.use_case.parameters
  IN  /\ w.use_case.async
      /\ AddressableIfThere(parameters, {"request", "context"})
      /\ "context" \in DOMAIN parameters \/ TakesAny(parameters)
      /\ OthersOptional(parameters, {"request", "context"})

RequestNote(w) == w.use_case.parameters["request"].note
Usable(w, note) == Resolves(w.globals, note) /\ _resolved_annotation(w.globals, note) \notin Unusable
task(w) ==
  /\ _validate_use_case_shape(w)
  /\ "request" \in DOMAIN w.use_case.parameters => Usable(w, RequestNote(w))
  /\ Usable(w, w.use_case.returns)

Declarable == {"params", "query", "headers", "request"}
(* Only the context may arrive through **kwargs: "**kwargs cannot prove    *)
(* the contract type agrees".                                              *)
_check_type_coherence(w) ==
  LET parameters == w.use_case.parameters
  IN  /\ Declarable \cap DOMAIN parameters = DOMAIN w.declared
      /\ \A n \in DOMAIN w.declared : Matches(w.globals, parameters[n].note, w.declared[n])
      /\ IF w.responses THEN Resolves(w.globals, w.use_case.returns)
         ELSE Matches(w.globals, w.use_case.returns, w.result)

(* A presenter or a projector of response headers: synchronous, of one     *)
(* positional parameter annotated with what it is given.                   *)
ProjectsFrom(w, source, target) ==
  /\ w.projector.given /\ ~w.projector.async
  /\ w.projector.count = 1 /\ w.projector.kind \in Positional
  /\ Matches(w.globals, w.projector.note, source)
  /\ Matches(w.globals, w.projector.returns, target)
_check_presenter(w) ==
  ProjectsFrom(w, _resolved_annotation(w.globals, w.use_case.returns), w.presented)
_check_response_headers_projector(w) ==
  IF w.presented = Empty THEN ~w.projector.given ELSE ProjectsFrom(w, w.result, w.presented)

route(w) ==
  LET parameters == w.use_case.parameters
      passed == {"context"} \cup DOMAIN w.declared
  IN  /\ w.use_case.async
      /\ passed \subseteq DOMAIN parameters \/ TakesAny(parameters)
      /\ AddressableIfThere(parameters, passed)
      /\ OthersOptional(parameters, passed)
      /\ _check_type_coherence(w)
      /\ IF w.responses THEN _check_presenter(w) ELSE _check_response_headers_projector(w)

(* What a contract can declare, where names lead, and that the application *)
(* has the handler that is called: tool(), Job and Contract take no more.  *)
ASSUME WiringsAssumption ==
  \A w \in Wirings :
    /\ w.entry \in {"tool", "job", "task", "execute", "route"}
    /\ w.declared \in [DOMAIN w.declared -> Types]
    /\ w.entry = "tool" => DOMAIN w.declared \in {{}, {"request"}}
    /\ w.entry = "job" => DOMAIN w.declared = {"request"}
    /\ w.globals \in [Names -> Names \cup Types \cup {Unbound}]
    /\ w.items \in Seq(Seq([name : STRING, ours : BOOLEAN]))
    /\ \E i \in DOMAIN w.items : [name |-> "own", ours |-> TRUE] \in ToSet(w.items[i])

Bind ==
  /\ progress = "written" /\ wiring.entry # "execute"
  /\ progress' = IF CASE wiring.entry = "tool" -> _validate_tool_handler(wiring)
                      [] wiring.entry = "job" -> _validate_job_handler(wiring)
                      [] wiring.entry = "task" -> task(wiring)
                      [] wiring.entry = "route" -> route(wiring)
                 THEN "bound" ELSE "refused"
  /\ UNCHANGED <<wiring, given, kwargs, opened>>

----------------------------------------------------------------------------
(* A factory is inspected as a function of no argument first, then of one: *)
(* the lifespan's state.                                                   *)
_context_factory_takes_state(factory) == ~BindsPositional(factory, 0)
_require_call_shape(callable, n) == BindsPositional(callable, n)
ConfiguresRunner(w) ==
  /\ w.factory.form # "value"
  /\ BindsPositional(w.factory, 0) \/ BindsPositional(w.factory, 1)
  /\ _context_factory_takes_state(w.factory) => w.lifespan.given
  /\ w.lifespan.given => _require_call_shape(w.lifespan, 0)

(* A group flattens what it is given and refuses a second handler of a     *)
(* name; a call goes to the first handler of its name.  A job is           *)
(* dispatched, and execute called, with a context source of the caller's:  *)
(* there is no runner.                                                     *)
_append_handlers(items) == FlattenSeq(items)
UniqueNames(handlers) == \A i, j \in DOMAIN handlers : handlers[i].name = handlers[j].name => i = j
Selected(name) == SelectInSeq(_append_handlers(wiring.items), LAMBDA h : h.name = name)
Register ==
  /\ \/ progress = "bound" /\ wiring.entry # "execute"
     \/ progress = "written" /\ wiring.entry = "execute"
  /\ progress' = IF /\ UniqueNames(_append_handlers(wiring.items))
                    /\ wiring.entry \in {"tool", "task", "route"} => ConfiguresRunner(wiring)
                 THEN "ready" ELSE "refused"
  /\ UNCHANGED <<wiring, given, kwargs, opened>>

----------------------------------------------------------------------------
(* The producer's side of a job.                                           *)
_serialized_job_payload(t, v) == Dump[t][v] \in Strict[t]
job_message(v) ==
  LET t == wiring.declared["request"]
  IN  /\ progress = "ready" /\ wiring.entry = "job"
      /\ v \in Accepts[t] /\ _serialized_job_payload(t, v)
      /\ given' = [how |-> "message", value |-> Dump[t][v]]
      /\ progress' = "called"
      /\ UNCHANGED <<wiring, kwargs, opened>>

(* Someone calls: with nothing, a Python value, JSON, or by mistake both.  *)
Give(how, v) ==
  /\ progress = "ready"
  /\ wiring.entry \in {"job", "route"} => how = "json"
  /\ (how = "nothing") = (v = Unset)
  /\ given' = [how |-> how, value |-> v]
  /\ progress' = "called"
  /\ UNCHANGED <<wiring, kwargs, opened>>

Supplied == given.how # "nothing"
Passed(arguments) == [verdict |-> "validated", arguments |-> arguments]
Refused(why) == [verdict |-> why, arguments |-> <<>>]
Keyword(t) == IF given.value \in Accepts[t] THEN Passed([request |-> given.value]) ELSE Refused("invalid")
_tool_kwargs ==
  IF given.how = "both" THEN Refused("usage")
  ELSE IF DOMAIN wiring.declared = {}
    THEN IF Supplied /\ given.value # EmptyObject THEN Refused("invalid") ELSE Passed(<<>>)
  ELSE IF ~Supplied THEN Refused("usage")
  ELSE Keyword(wiring.declared["request"])
_task_kwargs ==
  LET parameters == wiring.use_case.parameters
  IN  IF given.how = "both" THEN Refused("usage")
      ELSE IF "request" \notin DOMAIN parameters THEN IF Supplied THEN Refused("usage") ELSE Passed(<<>>)
      ELSE IF ~Supplied THEN IF parameters["request"].default THEN Passed(<<>>) ELSE Refused("usage")
      ELSE Keyword(_resolved_annotation(wiring.globals, RequestNote(wiring)))
(* execute checks the signature at the call, and the annotation only if    *)
(* there is an input.                                                      *)
_validated_kwargs ==
  IF ~_validate_use_case_shape(wiring) THEN Refused("miswired")
  ELSE IF Supplied /\ given.how # "both" /\ "request" \in DOMAIN wiring.use_case.parameters
          /\ ~Usable(wiring, RequestNote(wiring)) THEN Refused("miswired")
  ELSE _task_kwargs
RouteKwargs ==
  IF \E n \in DOMAIN wiring.declared : given.value \notin Accepts[wiring.declared[n]] THEN Refused("invalid")
  ELSE Passed([n \in DOMAIN wiring.declared |-> given.value])

Keywords ==
  CASE wiring.entry = "tool" -> _tool_kwargs
    [] wiring.entry = "task" -> _task_kwargs
    [] wiring.entry = "execute" -> _validated_kwargs
    [] wiring.entry = "job" -> Keyword(wiring.declared["request"])
    [] wiring.entry = "route" -> RouteKwargs
Rejections == {"usage", "invalid", "miswired"}

(* A route's context is open when its inputs are validated: its hooks ran  *)
(* in between.                                                             *)
Validate ==
  /\ progress = IF wiring.entry = "route" THEN "opened" ELSE "called"
  /\ progress' = Keywords.verdict
  /\ kwargs' = Keywords.arguments
  /\ UNCHANGED <<wiring, given, opened>>

_open_lifespan ==
  /\ progress = IF wiring.entry = "route" THEN "called" ELSE "validated"
  /\ IF wiring.entry \in {"tool", "task", "route"} /\ wiring.lifespan.given
     THEN IF wiring.lifespan.gives = "async_cm"
          THEN progress' = "running" /\ opened' = opened \cup {"lifespan"}
          ELSE progress' = "not_a_scope" /\ UNCHANGED opened
     ELSE progress' = "running" /\ UNCHANGED opened
  /\ UNCHANGED <<wiring, given, kwargs>>

(* functools.partial(factory, state) is never a class.                     *)
TakesState == wiring.entry \in {"tool", "task", "route"} /\ _context_factory_takes_state(wiring.factory)
_context_value ==
  \/ wiring.factory.form = "value"
  \/ /\ wiring.factory.form = "class" => TakesState
     /\ BindsPositional(wiring.factory, IF TakesState THEN 1 ELSE 0)
open_context ==
  /\ progress = "running"
  /\ IF _context_value /\ wiring.factory.gives \in {"value", "async_cm"}
     THEN progress' = "opened" /\ opened' = opened \cup {"context"}
     ELSE progress' = "not_a_scope" /\ UNCHANGED opened
  /\ UNCHANGED <<wiring, given, kwargs>>

(* The call: a TypeError is Python's answer to arguments that do not bind. *)
Invoke ==
  /\ progress = IF wiring.entry = "route" THEN "validated" ELSE "opened"
  /\ progress' = IF Binds(wiring.use_case.parameters, {"context"} \cup DOMAIN kwargs) THEN "invoked" ELSE "type_error"
  /\ UNCHANGED <<wiring, given, kwargs, opened>>

Project ==
  /\ progress = "invoked" /\ wiring.entry = "route" /\ wiring.projector.given
  /\ progress' = IF wiring.projector.count = 1 /\ wiring.projector.kind \in Positional THEN "presented" ELSE "type_error"
  /\ UNCHANGED <<wiring, given, kwargs, opened>>

BindingInit ==
  /\ wiring \in Wirings
  /\ progress = "written"
  /\ given = [how |-> "nothing", value |-> Unset]
  /\ kwargs = <<>>
  /\ opened = {}

BindingNext ==
  \/ Bind \/ Register \/ Validate \/ _open_lifespan \/ open_context \/ Invoke \/ Project
  \/ \E how \in {"nothing", "python", "json", "both"}, v \in Payloads \cup {Unset} : Give(how, v)
  \/ \E v \in Payloads : job_message(v)

----------------------------------------------------------------------------
(* What an annotation means: the type in every set of annotations that     *)
(* holds it and, with each name, what the name is bound to.                *)
Meaning(note) ==
  {t \in Types : \A S \in SUBSET (Names \cup Types \cup {note, Unbound}) :
     note \in S /\ (\A a \in S \cap Names : wiring.globals[a] \in S) => t \in S}

(* Wiring mistakes never wait for a call, except execute's, and a refused  *)
(* input never starts a unit of work: what was bound and registered can be *)
(* called with what it is passed, the request it is passed is one its own  *)
(* annotation means, in a context that was opened; what was refused opened *)
(* no lifespan and no context, save the context a route's hooks need; and  *)
(* a payload the producer was allowed to enqueue is not refused.           *)
BoundCallsFit ==
  /\ progress # "type_error"
  /\ progress = "invoked" =>
       /\ "context" \in opened
       /\ TakesState => "lifespan" \in opened
       /\ _append_handlers(wiring.items)[Selected("own")].ours
       /\ \A n \in DOMAIN kwargs :
            /\ Meaning(wiring.use_case.parameters[n].note) # {}
            /\ \A t \in Meaning(wiring.use_case.parameters[n].note) : kwargs[n] \in Accepts[t] \ {Unset}
  /\ progress \in Rejections =>
       /\ opened \subseteq IF wiring.entry = "route" THEN {"lifespan", "context"} ELSE {}
       /\ given.how # "message"
=============================================================================
