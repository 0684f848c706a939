------------------------------ MODULE OpenApi ------------------------------
(***************************************************************************)
(* The document openapi_schema builds from contracts, and the errors the   *)
(* server answers for them.  A contract is [request, query, headers,       *)
(* idempotency_key, webhook, public, timeout, responses, errors]: schemas  *)
(* or None, functions from parameter names to [required, schema], and a    *)
(* set of [status, code].  Its operation is described in Boundary.         *)
(***************************************************************************)
EXTENDS SchemaCompatibility

CONSTANT None

(* The header that tells who answered an error.                            *)
SourceSchema(sources) ==
  [type |-> {"string"},
   enum |-> {IF source = "app" THEN Scalar("string", 3) ELSE Scalar("string", 9) : source \in sources}]

ErrorDef(status, code) == [status |-> status, code |-> code]
validation_error       == ErrorDef("422", "VALIDATION_ERROR")
request_too_large      == ErrorDef("413", "REQUEST_TOO_LARGE")
unsupported_media_type == ErrorDef("415", "UNSUPPORTED_MEDIA_TYPE")
request_timeout        == ErrorDef("504", "REQUEST_TIMEOUT")
internal_server_error  == ErrorDef("500", "INTERNAL_SERVER_ERROR")

has_validated_input(contract) ==
  contract.request # None \/ contract.query # <<>> \/ contract.headers # <<>>

(* An error the contract declares at the same status taken for the         *)
(* framework's own.                                                        *)
FrameworkErrors_Suppressed(contract) ==
  (IF has_validated_input(contract) /\ ~ \E e \in contract.errors : e.status = "422" THEN {validation_error} ELSE {})
  \cup (IF contract.request # None THEN {request_too_large, unsupported_media_type} ELSE {})
  \cup (IF contract.timeout # None THEN {request_timeout} ELSE {})
  \cup {internal_server_error}

FrameworkErrors(contract) ==
  (IF has_validated_input(contract) THEN {validation_error} ELSE {})
  \cup (IF contract.request # None THEN {request_too_large, unsupported_media_type} ELSE {})
  \cup (IF contract.timeout # None THEN {request_timeout} ELSE {})
  \cup {internal_server_error}

_error_response(app, framework) ==
  [content |-> [json |-> <<>>],
   headers |-> [source |-> [required |-> TRUE,
                            schema |-> SourceSchema((IF app # {} THEN {"app"} ELSE {})
                                                    \cup (IF framework # {} THEN {"framework"} ELSE {}))]],
   codes |-> {e.code : e \in app \cup framework}]

_responses(contract) ==
  LET at(errors, status) == {e \in errors : e.status = status}
      framework == FrameworkErrors(contract)
      statuses == {e.status : e \in contract.errors \cup framework} IN
  [status \in statuses \cup DOMAIN contract.responses |->
     IF status \in statuses THEN _error_response(at(contract.errors, status), at(framework, status))
     ELSE [content |-> [json |-> contract.responses[status]], headers |-> <<>>, codes |-> None]]

_operation(contract) ==
  [security    |-> IF contract.public THEN "public" ELSE None,
   webhook     |-> contract.webhook,
   idempotency |-> contract.idempotency_key,
   timeout     |-> contract.timeout,
   parameters  |-> [name \in DOMAIN contract.query \cup DOMAIN contract.headers |->
                      IF name \in DOMAIN contract.query THEN contract.query[name] ELSE contract.headers[name]],
   body        |-> IF contract.request = None THEN None
                   ELSE [required |-> TRUE, content |-> [json |-> contract.request]],
   responses   |-> _responses(contract)]

openapi_schema(contracts) ==
  [schemas |-> <<>>, schemes |-> 1, security |-> "bearer",
   operations |-> [op \in DOMAIN contracts |-> _operation(contracts[op])]]

-----------------------------------------------------------------------------
(* The errors a request can be answered with, where dispatch and endpoint  *)
(* return or raise them.  "undeclared" is an AppError the contract does    *)
(* not declare, or any other exception.                                    *)
ErrorAnswer(e, source) == [status |-> e.status, code |-> e.code, source |-> source]

RequestRefused(contract) ==
  IF contract.request = None THEN {}
  ELSE {ErrorAnswer(unsupported_media_type, "framework"), ErrorAnswer(request_too_large, "framework")}

InputRefused(contract) ==
  IF contract.request = None /\ contract.query = <<>> /\ contract.headers = <<>> THEN {}
  ELSE {ErrorAnswer(validation_error, "framework")}

endpoint_errors(contract, raisable) ==
  RequestRefused(contract) \cup InputRefused(contract)
  \cup {IF e \in contract.errors THEN ErrorAnswer(e, "app") ELSE ErrorAnswer(internal_server_error, "framework") :
          e \in raisable}
  \cup (IF contract.timeout = None THEN {} ELSE {ErrorAnswer(request_timeout, "framework")})
=============================================================================
