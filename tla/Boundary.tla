------------------------------ MODULE Boundary ------------------------------
(***************************************************************************)
(* The gate a change of a public boundary passes: the HTTP operations, the *)
(* tools, the durable job messages and the evaluation policies of a        *)
(* release are compared with those of the release before, and the change   *)
(* is merged when nothing in it is breaking or unknown.  Programs written  *)
(* from an earlier release go on using the one that is deployed.           *)
(***************************************************************************)
EXTENDS OpenApi, EvaluationCompatibility

CONSTANTS
  Documents,    \* Documents[kind]: what a working tree can declare
  Results,      \* the results evaluations can have
  Raisable,     \* the errors hooks, use cases and contexts can raise
  AnyCode       \* the code of an error envelope that documents none

VARIABLES
  kind,       \* the boundary: "openapi" | "tools" | "jobs" | "evaluations"
  known,      \* the release a client, a caller, a producer or a team was built from
  deployed    \* the release that runs, and the snapshot the next change is compared with

vars == <<kind, known, deployed>>

Added(b, a)   == DOMAIN a \ DOMAIN b
Removed(b, a) == DOMAIN b \ DOMAIN a
Kept(b, a)    == DOMAIN b \cap DOMAIN a

-----------------------------------------------------------------------------
(* OpenAPI.  An operation is [security, webhook, idempotency, timeout,     *)
(* parameters, body, responses]; a parameter or a header [required,        *)
(* schema]; a body [required, content], content a function of media types; *)
(* a response [content, headers, codes].  "codes" is None for an answer of *)
(* a schema, AnyCode for a bare error envelope, and else the set of codes. *)
_is_public_security(security) == security \in {None, "public"}

_effective_security(document, operation) ==
  IF operation.security = None THEN document.security ELSE operation.security

_compare_security(before, after) ==
  IF before = after \/ (_is_public_security(before) /\ _is_public_security(after)) THEN {}
  ELSE IF _is_public_security(before) THEN {"breaking"}
  ELSE IF _is_public_security(after) THEN {"additive"} ELSE {"unknown"}

_compare_webhook_requirement(before, after) ==
  IF before.webhook = after.webhook THEN {} ELSE IF after.webhook THEN {"breaking"} ELSE {"additive"}

_has_idempotency_key_parameter(document, operation) ==
  LET key == Field(operation.parameters, "key", None) IN
  /\ key # None
  /\ key.required
  /\ _schema_json_types(document.schemas, key.schema) = {"string"}
  /\ _schema_requires_non_empty_string(document.schemas, key.schema)

_compare_idempotency_guarantee(baseline, current, before, after) ==
  IF before.idempotency = after.idempotency THEN {}
  ELSE IF after.idempotency /\ _has_idempotency_key_parameter(current, after) THEN {"additive"}
  ELSE IF before.idempotency /\ _has_idempotency_key_parameter(baseline, before) THEN {"breaking"}
  ELSE {"unknown"}

_schema(baseline, current, before, after, direction) ==
  compare_schema(before, after, direction, baseline.schemas, current.schemas)

_compare_parameters(baseline, current, before, after) ==
  {IF after[name].required THEN "breaking" ELSE "additive" : name \in Added(before, after)}
  \cup {"breaking" : name \in Removed(before, after)}
  \cup UNION {(IF before[name].required = after[name].required THEN {}
               ELSE IF after[name].required THEN {"breaking"} ELSE {"additive"})
              \cup _schema(baseline, current, before[name].schema, after[name].schema, "input") :
                name \in Kept(before, after)}

_compare_content(baseline, current, before, after, direction) ==
  {IF direction = "input" THEN "additive" ELSE "breaking" : media \in Added(before, after)}
  \cup {"breaking" : media \in Removed(before, after)}
  \cup UNION {_schema(baseline, current, before[media], after[media], direction) : media \in Kept(before, after)}

_compare_request_body(baseline, current, before, after) ==
  IF before = None /\ after = None THEN {}
  ELSE IF before = None THEN IF after.required THEN {"breaking"} ELSE {"additive"}
  ELSE IF after = None THEN {"breaking"}
  ELSE (IF before.required = after.required THEN {}
        ELSE IF after.required THEN {"breaking"} ELSE {"additive"})
       \cup _compare_content(baseline, current, before.content, after.content, "input")

_compare_headers(baseline, current, before, after) ==
  {"additive" : name \in Added(before, after)}
  \cup {"breaking" : name \in Removed(before, after)}
  \cup UNION {(IF before[name].required = after[name].required THEN {}
               ELSE IF after[name].required THEN {"additive"} ELSE {"breaking"})
              \cup _schema(baseline, current, before[name].schema, after[name].schema, "output") :
                name \in Kept(before, after)}

(* Errors of the framework's envelope are compared by their codes; an      *)
(* envelope that became another schema, or the other way round, is not     *)
(* proven to be either.                                                    *)
_is_legacy_tenchi_error(response) == response.codes = AnyCode

_compare_tenchi_error_content(before, after) ==
  IF _is_legacy_tenchi_error(before) THEN {"additive"}
  ELSE IF _is_legacy_tenchi_error(after) THEN {"breaking"}
  ELSE {"breaking" : code \in after.codes \ before.codes} \cup {"additive" : code \in before.codes \ after.codes}

_compare_response(baseline, current, before, after) ==
  (IF before.codes = after.codes
   THEN _compare_content(baseline, current, before.content, after.content, "output")
   ELSE IF before.codes = None \/ after.codes = None THEN {"unknown"}
   ELSE _compare_tenchi_error_content(before, after))
  \cup _compare_headers(baseline, current, before.headers, after.headers)

(* The answer to an unexpected failure, which the framework gives whether  *)
(* or not it is documented.                                                *)
FrameworkSource == [required |-> TRUE, schema |-> SourceSchema({"framework"})]

_documents_framework_internal_error(response) ==
  /\ response.codes = {"INTERNAL_SERVER_ERROR"}
  /\ response.headers = [source |-> FrameworkSource]

_compare_responses(baseline, current, before, after) ==
  {IF status = "500" /\ _documents_framework_internal_error(after[status]) THEN "metadata" ELSE "breaking" :
     status \in Added(before, after)}
  \cup {"breaking" : status \in Removed(before, after)}
  \cup UNION {_compare_response(baseline, current, before[status], after[status]) : status \in Kept(before, after)}

_compare_operation(baseline, current, before, after) ==
  (IF before.timeout = after.timeout THEN {} ELSE {"unknown"})
  \cup _compare_webhook_requirement(before, after)
  \cup _compare_idempotency_guarantee(baseline, current, before, after)
  \cup _compare_security(_effective_security(baseline, before), _effective_security(current, after))
  \cup _compare_parameters(baseline, current, before.parameters, after.parameters)
  \cup _compare_request_body(baseline, current, before.body, after.body)
  \cup _compare_responses(baseline, current, before.responses, after.responses)

analyze_openapi_compatibility(baseline, current) ==
  (IF baseline.schemes = current.schemes THEN {} ELSE {"unknown"})
  \cup {"additive" : op \in Added(baseline.operations, current.operations)}
  \cup {"breaking" : op \in Removed(baseline.operations, current.operations)}
  \cup UNION {_compare_operation(baseline, current, baseline.operations[op], current.operations[op]) :
                op \in Kept(baseline.operations, current.operations)}

-----------------------------------------------------------------------------
(* Tools, jobs and evaluations.  Each schema of a manifest brings its own  *)
(* definitions: [schema, defs].                                            *)
CompareOwn(before, after, direction) ==
  compare_schema(before.schema, after.schema, direction, before.defs, after.defs)

_compare_annotations(before, after) ==
  LET safer == [read_only |-> TRUE, destructive |-> FALSE, idempotent |-> TRUE, open_world |-> FALSE] IN
  {IF after[name] = safer[name] THEN "additive" ELSE "breaking" :
     name \in {n \in DOMAIN safer : before[n] # after[n]}}

_compare_tool(before, after) ==
  CompareOwn(before.input, after.input, "input")
  \cup CompareOwn(before.output, after.output, "output")
  \cup {"breaking" : code \in after.errors \ before.errors}
  \cup {"additive" : code \in before.errors \ after.errors}
  \cup _compare_annotations(before.annotations, after.annotations)

CompareItems(before, after, Compare(_, _)) ==
  {"additive" : name \in Added(before, after)}
  \cup {"breaking" : name \in Removed(before, after)}
  \cup UNION {Compare(before[name], after[name]) : name \in Kept(before, after)}

CompareJob(before, after) == CompareOwn(before, after, "input")

analyze_manifest_compatibility(baseline, current) ==
  IF baseline.schema_version # current.schema_version THEN {"unknown"}
  ELSE CASE kind = "tools"       -> CompareItems(baseline.items, current.items, _compare_tool)
         [] kind = "jobs"        -> CompareItems(baseline.items, current.items, CompareJob)
         [] kind = "evaluations" -> CompareItems(baseline.items, current.items, _compare_evaluation)

(* A release of contracts is compared by the document built from it.       *)
Document(release) == IF kind = "contracts" THEN openapi_schema(release) ELSE release

Report(baseline, current) ==
  IF kind \in {"openapi", "contracts"} THEN analyze_openapi_compatibility(Document(baseline), Document(current))
  ELSE analyze_manifest_compatibility(baseline, current)

-----------------------------------------------------------------------------
(* What releases are made of.                                              *)
IsOwned(s) == s.schema \in Schemas /\ s.defs \in Registries

IsField(field) == field.required \in BOOLEAN /\ field.schema \in Schemas

IsResponse(response) ==
  /\ response.codes = None => \A media \in DOMAIN response.content : response.content[media] \in Schemas
  /\ response.codes \notin {None, AnyCode} => response.codes # {}
  /\ \A name \in DOMAIN response.headers : IsField(response.headers[name])

IsOperation(operation) ==
  /\ operation.webhook \in BOOLEAN /\ operation.idempotency \in BOOLEAN
  /\ \A name \in DOMAIN operation.parameters : IsField(operation.parameters[name])
  /\ operation.body # None =>
       /\ operation.body.required \in BOOLEAN
       /\ \A media \in DOMAIN operation.body.content : operation.body.content[media] \in Schemas
  /\ \A status \in DOMAIN operation.responses : IsResponse(operation.responses[status])

IsApi(document) ==
  /\ document.schemas \in Registries
  /\ \A op \in DOMAIN document.operations : IsOperation(document.operations[op])

(* The errors of a contract have codes.                                    *)
IsContract(contract) ==
  \A status \in DOMAIN _responses(contract) :
    LET codes == _responses(contract)[status].codes IN
    /\ codes # AnyCode
    /\ (\E e \in contract.errors \cup FrameworkErrors(contract) : e.status = status) => codes # None

IsTool(tool) ==
  /\ IsOwned(tool.input) /\ IsOwned(tool.output)
  /\ \A hint \in {"read_only", "destructive", "idempotent", "open_world"} : tool.annotations[hint] \in BOOLEAN

IsPolicy(policy) ==
  /\ policy.cases \in Seq(Names(policy.cases))
  /\ policy.timeout_seconds \in Int
  /\ policy.max_tokens \in Int \cup {NoLimit} /\ policy.max_cost_usd \in Int \cup {NoLimit}
  /\ \A name \in DOMAIN policy.metrics : policy.metrics[name] \in Int

(* A run reports a total of every metric of the policy it ran for.         *)
IsResult(r, policy) ==
  /\ r.slowest \in Int /\ r.tokens \in Int /\ r.cost \in Int
  /\ \A name \in DOMAIN policy.metrics : r.total[name] \in Int

IsRelease(boundary, release) ==
  CASE boundary = "openapi" -> IsApi(release)
    [] boundary = "contracts" -> IsApi(openapi_schema(release)) /\ \A op \in DOMAIN release : IsContract(release[op])
    [] boundary = "tools" -> \A name \in DOMAIN release.items : IsTool(release.items[name])
    [] boundary = "jobs" -> \A name \in DOMAIN release.items : IsOwned(release.items[name])
    [] boundary = "evaluations" ->
         \A name \in DOMAIN release.items :
           IsPolicy(release.items[name]) /\ \A r \in Results : IsResult(r, release.items[name])

ASSUME DocumentsAssumption ==
  /\ None # AnyCode /\ {"INTERNAL_SERVER_ERROR"} \notin {None, AnyCode}
  /\ \A boundary \in DOMAIN Documents :
       /\ boundary \in {"openapi", "contracts", "tools", "jobs", "evaluations"}
       /\ \A release \in Documents[boundary] : IsRelease(boundary, release)

-----------------------------------------------------------------------------
(* The gate.  A working tree imports only when its contracts are valid: a  *)
(* documented idempotency key is a header no caller can leave empty.       *)
_validate_idempotency_key_header(document) ==
  \A op \in DOMAIN document.operations :
    document.operations[op].idempotency => _has_idempotency_key_parameter(document, document.operations[op])

(* Documents the comparison takes: of a tool, annotations that do not      *)
(* contradict each other; of a policy, cases that differ, at least one     *)
(* metric, and limits that mean something.  Others end the operation.      *)
_tool_manifest_document(manifest) ==
  \A name \in DOMAIN manifest.items :
    LET a == manifest.items[name].annotations IN a.read_only => ~ a.destructive /\ a.idempotent

_evaluation_manifest_document(manifest) ==
  \A name \in DOMAIN manifest.items :
    LET p == manifest.items[name] IN
    /\ p.cases # <<>> /\ Cardinality(Names(p.cases)) = Len(p.cases)
    /\ p.metrics # <<>> /\ \A m \in DOMAIN p.metrics : p.metrics[m] \in 0..100
    /\ p.timeout_seconds > 0
    /\ \A budget \in {p.max_tokens, p.max_cost_usd} \ {NoLimit} : budget > 0

_document(release) ==
  /\ kind = "tools" => _tool_manifest_document(release)
  /\ kind = "evaluations" => _evaluation_manifest_document(release)

Imports(release) == kind \in {"openapi", "contracts"} => _validate_idempotency_key_header(Document(release))

Init ==
  /\ kind \in DOMAIN Documents
  /\ deployed \in {d \in Documents[kind] : Imports(d) /\ _document(d)}
  /\ known = deployed

Merge ==
  \E d \in Documents[kind] :
    /\ Imports(d)
    /\ _document(deployed) /\ _document(d)
    /\ compatible(Report(deployed, d))
    /\ deployed' = d
    /\ UNCHANGED <<kind, known>>

(* A program is built from the release that runs.                          *)
Build == known' = deployed /\ UNCHANGED <<kind, deployed>>

Next == Merge \/ Build
Spec == Init /\ [][Next]_vars

-----------------------------------------------------------------------------
(* The reference: what a program built from k still finds in d.            *)
Takes(k, d, sk, sd) == \A v \in Values : Speaks(k, sk, v) => Speaks(d, sd, v)
Gives(k, d, sk, sd) == \A v \in Values : Speaks(d, sd, v) => Speaks(k, sk, v)

ParametersTaken(k, d, pk, pd) ==
  /\ \A name \in DOMAIN pk :
       /\ name \in DOMAIN pd
       /\ pd[name].required => pk[name].required
       /\ Takes(k.schemas, d.schemas, pk[name].schema, pd[name].schema)
  /\ \A name \in Added(pk, pd) : ~ pd[name].required

BodyTaken(k, d, bk, bd) ==
  /\ bk # None =>
       /\ bd # None
       /\ \A media \in DOMAIN bk.content :
            /\ media \in DOMAIN bd.content
            /\ Takes(k.schemas, d.schemas, bk.content[media], bd.content[media])
  /\ (bk = None \/ ~ bk.required) => (bd = None \/ ~ bd.required)

CallTaken(k, d, ok, od) ==
  /\ _is_public_security(_effective_security(k, ok)) => _is_public_security(_effective_security(d, od))
  /\ od.webhook => ok.webhook
  /\ ParametersTaken(k, d, ok.parameters, od.parameters)
  /\ BodyTaken(k, d, ok.body, od.body)

CallsTaken(k, d) ==
  \A op \in DOMAIN k.operations :
    op \in DOMAIN d.operations /\ CallTaken(k, d, k.operations[op], d.operations[op])

ResponseRead(k, d, rk, rd) ==
  /\ CASE rk.codes = AnyCode -> rd.codes # None
       [] rk.codes = None -> rd.codes = None /\ \A media \in DOMAIN rd.content :
            /\ media \in DOMAIN rk.content
            /\ Gives(k.schemas, d.schemas, rk.content[media], rd.content[media])
       [] OTHER -> rd.codes \notin {None, AnyCode} /\ rd.codes \subseteq rk.codes
  /\ \A name \in DOMAIN rk.headers :
       /\ name \in DOMAIN rd.headers
       /\ rk.headers[name].required => rd.headers[name].required
       /\ Gives(k.schemas, d.schemas, rk.headers[name].schema, rd.headers[name].schema)

ResponsesRead(k, d, rk, rd) ==
  \A status \in DOMAIN rd :
    \/ status \notin DOMAIN rk /\ status = "500" /\ rd[status].codes = {"INTERNAL_SERVER_ERROR"}
    \/ status \in DOMAIN rk /\ ResponseRead(k, d, rk[status], rd[status])

AnswersRead(k, d) ==
  \A op \in DOMAIN k.operations \cap DOMAIN d.operations :
    ResponsesRead(k, d, k.operations[op].responses, d.operations[op].responses)

ErrorRead(responses, answer) ==
  /\ answer.status \in DOMAIN responses
  /\ answer.code \in responses[answer.status].codes
  /\ SourceSchema({answer.source}).enum \subseteq responses[answer.status].headers["source"].schema.enum

(* Of manifests, whose schemas have their own definitions.                 *)
OwnTaken(sk, sd) == Takes(sk.defs, sd.defs, sk.schema, sd.schema)
OwnGiven(sk, sd) == Gives(sk.defs, sd.defs, sk.schema, sd.schema)

HintsKept(k, d) ==
  /\ d.destructive => k.destructive
  /\ d.open_world => k.open_world
  /\ k.read_only => d.read_only
  /\ k.idempotent => d.idempotent

Holds(policy, r) ==
  /\ r.slowest < policy.timeout_seconds
  /\ WithinBudget(policy.max_tokens, r.tokens)
  /\ WithinBudget(policy.max_cost_usd, r.cost)

PolicyKept(k, d) ==
  /\ Names(k.cases) \subseteq Names(d.cases)
  /\ \A r \in Results : Holds(d, r) => Holds(k, r)
  /\ k.cases = d.cases => \A r \in Results : Passes(d, r) => Passes(k, r)

(* Whatever a program built from an earlier release sends, the release     *)
(* that runs takes: every operation, tool and job is still there, with no  *)
(* new demand, and every value the earlier document declares is valid, and *)
(* declared.  The gate looks only at neighbouring releases                 *)
(* (CompatibilityReport).                                                  *)
OldCallsAreServed ==
  CASE kind \in {"openapi", "contracts"} -> CallsTaken(Document(known), Document(deployed))
    [] kind = "tools" ->
         \A name \in DOMAIN known.items :
           name \in DOMAIN deployed.items /\ OwnTaken(known.items[name].input, deployed.items[name].input)
    [] kind = "jobs" ->
         \A name \in DOMAIN known.items :
           name \in DOMAIN deployed.items /\ OwnTaken(known.items[name], deployed.items[name])
    [] OTHER -> TRUE

(* Whatever the release that runs answers, a program built from an earlier *)
(* one can read, and the only status it may not know is the framework's    *)
(* own internal error (_compare_responses, _compare_tool); and whatever    *)
(* error the server answers for a contract, the document of any earlier    *)
(* compatible release tells (openapi._responses, server.endpoint).         *)
NewAnswersAreUnderstood ==
  CASE kind = "openapi" -> AnswersRead(known, deployed)
    [] kind = "contracts" ->
         \A op \in DOMAIN known \cap DOMAIN deployed :
           \A answer \in endpoint_errors(deployed[op], Raisable) :
             ErrorRead(Document(known).operations[op].responses, answer)
    [] kind = "tools" ->
         \A name \in DOMAIN known.items \cap DOMAIN deployed.items :
           /\ OwnGiven(known.items[name].output, deployed.items[name].output)
           /\ deployed.items[name].errors \subseteq known.items[name].errors
    [] OTHER -> TRUE

(* What an earlier release promised beyond its schemas still holds: a call *)
(* retried with a key runs once, and no caller can leave the key empty; a  *)
(* host that asks before destructive tools and retries idempotent ones is  *)
(* right to go by what it knows; and results an earlier evaluation policy  *)
(* refuses, the policy that runs refuses too (the average of a metric only *)
(* as long as no case was added).                                          *)
PromisesAreKept ==
  CASE kind \in {"openapi", "contracts"} ->
         \A op \in DOMAIN Document(known).operations \cap DOMAIN Document(deployed).operations :
           LET d == Document(deployed).operations[op] IN
           /\ Document(known).operations[op].idempotency => d.idempotency
           /\ d.idempotency =>
                /\ d.parameters["key"].required
                /\ \A v \in Values :
                     Admits(Document(deployed).schemas, d.parameters["key"].schema, v) => v.kind = "string" /\ v.num > 0
    [] kind = "tools" ->
         \A name \in DOMAIN known.items \cap DOMAIN deployed.items :
           HintsKept(known.items[name].annotations, deployed.items[name].annotations)
    [] kind = "evaluations" ->
         \A name \in DOMAIN known.items :
           name \in DOMAIN deployed.items /\ PolicyKept(known.items[name], deployed.items[name])
    [] OTHER -> TRUE
=============================================================================
