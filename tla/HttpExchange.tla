----------------------------- MODULE HttpExchange -----------------------------
(***************************************************************************)
(* One HTTP call, from a typed client or from any other peer, to an        *)
(* application built of contracts: what the declarations must satisfy for  *)
(* the application to be built, what the client sends, what the server     *)
(* makes of it, what it answers and what the client makes of that.         *)
(*                                                                         *)
(* A Python value is [py |-> its type, is |-> its text or texts].  A type  *)
(* is the function of what it validates, and of what it serializes to.     *)
(* Names of header fields are lower case.  A body is a token with a size.  *)
(***************************************************************************)
EXTENDS HttpParameters, Routing

CONSTANTS
  Applications,  \* name -> what an application declares
  Clients,       \* [query, headers, implicit, errors]: how clients are configured
  Values,        \* Python values of callers and use cases
  RawRequests,   \* what other peers send
  RawResponses,  \* responses presenters pass through
  Intruders,     \* responses of proxies on the way
  ErrorDefs,     \* [code, status]
  Segments,      \* a text, split at /
  Capitals,      \* str() of a boolean, from its JSON
  Number,        \* the text of a numeral, without zeros before it
  HeaderTexts,   \* texts a request header may have
  LatinTexts,    \* texts a response header may have
  Encode, Decode,\* [charset -> [text -> bytes]], [charset -> [bytes -> text]]
  Size,          \* of a body
  Invalid        \* an exception

VARIABLES
  application, \* whose declarations they are
  app,         \* what create_app makes of them: [routes, limit]
  client,      \* the configuration of the caller, Missing for another peer
  phase,       \* "declared", "serving", "sent", ..., "read"
  asked,       \* [route, params, query, headers, request] of the client
  wire,        \* the request
  served,      \* the route the request was dispatched to
  approved,    \* the bytes a webhook's verifier approved
  received,    \* what the use case was given
  raised,      \* the application's error
  answered,    \* what the use case's answer means: [definition, body]
  response,    \* what travels back
  replaced,    \* whether a proxy's response is what arrived
  read         \* what the client made of it: [as, value]

httpVars == <<application, app, client, phase, asked, wire, served, approved, received, raised, answered, response, replaced, read>>

Str(text) == [py |-> "str", is |-> <<text>>]
Numeral(text) == [py |-> "int", is |-> <<text>>]
Bytes(token) == [py |-> "bytes", is |-> <<token>>]
List(texts) == [py |-> "list", is |-> texts]
IsList(v) == v.py \in {"list", "ints"}
(* A scalar's text in a query or a header, and in a path; null has none.   *)
Text(v) == IF v.py = "none" THEN "" ELSE v.is[1]
Spelling(v) == IF v.py = "bool" THEN Capitals[v.is[1]] ELSE Text(v)
Json == [essence |-> "json", parameters |-> {}]

Routes == [a \in DOMAIN Applications |-> route_group(Applications[a].items, Applications[a].prefix, Applications[a].errors)]
Definitions(contract) == IF contract.responses = <<>> THEN <<contract.response>> ELSE contract.responses

----------------------------------------------------------------------------
(* Declarations.                                                           *)
NoBodyStatuses == {204, 205, 304}
_validate_response_definition(d) ==
  /\ d.status \in 200..399
  /\ d.body # Missing => d.media # Missing /\ d.status \notin NoBodyStatuses
  /\ d.media # Missing => validate_media_type(d.media)
  /\ d.body # Missing /\ ~d.passthrough => validate_body_media_type(d.body.note, d.media, TRUE)
_validated_response_defs(ds) ==
  /\ \A i \in DOMAIN ds : _validate_response_definition(ds[i])
  /\ \A i, j \in DOMAIN ds : ds[i].status = ds[j].status => i = j
Singular(d) == ~d.passthrough
Default(d) == d.status = 200 /\ d.media = Json /\ d.body = Missing /\ d.headers = Missing

_validate_idempotency_declaration(c) ==
  c.idempotent => c.method \notin {"GET", "HEAD", "OPTIONS", "TRACE"} /\ c.headers # Missing
_validate_body_media_pairings(c) ==
  c.request # Missing => validate_body_media_type(c.request.note, c.media, FALSE)
contract(c) ==
  /\ validate_media_type(c.media)
  /\ c.request = Missing => c.limit = Missing /\ ~c.webhook
  /\ c.limit # Missing => c.limit > 0
  /\ _validate_idempotency_declaration(c)
  /\ _validate_body_media_pairings(c)
  /\ ErrorsAgree(c.errors)
  /\ Singular(c.response)
  /\ IF c.responses = <<>> THEN _validate_response_definition(c.response)
     ELSE Default(c.response) /\ _validated_response_defs(c.responses)

_check_params_match_path(c) ==
  IF c.params = Missing THEN ParameterNames(c.path) = {}
  ELSE _request_parameter_fields(c.params, "path") /\ DOMAIN c.params.fields = ParameterNames(c.path)

NonEmptyString(node) == node.kind = "type" /\ node.types = {"string"} /\ node.nonEmpty
_validate_idempotency_key_header(slot) ==
  \E f \in RequiredFields(slot) : \E g \in DOMAIN Written(slot) :
    /\ WireName[f] = "idempotency-key" /\ WireName[g] = "idempotency-key"
    /\ NonEmptyString(slot.fields[f].read) /\ NonEmptyString(slot.fields[Written(slot)[g]].write)

(* A field of a response body is written under a name its type also reads. *)
_check_field(field) ==
  field.excluded \/ field.writtenAs \in
    (IF field.validation = {} \/ field.byName THEN {field.name} ELSE {}) \cup (IF field.byAlias THEN field.validation ELSE {})
validate_response_aliases(body) == \A field \in body.aliases : _check_field(field)

_bind_response(d) ==
  /\ d.body # Missing => validate_response_aliases(d.body)
  /\ d.headers # Missing => _response_header_fields(d.headers)
(* The client's preflight asks the same before it sends anything.          *)
_contract_adapters(c) ==
  /\ c.params # Missing => _request_parameter_fields(c.params, "path")
  /\ c.query # Missing => _request_parameter_fields(c.query, "query")
  /\ c.headers # Missing => _request_parameter_fields(c.headers, "header")
  /\ c.idempotent => _validate_idempotency_key_header(c.headers)
  /\ \A i \in DOMAIN Definitions(c) : _bind_response(Definitions(c)[i])

create_app(a, routes) ==
  /\ _validated_prefix(a.prefix)
  /\ \A i \in DOMAIN routes :
       /\ contract(routes[i])
       /\ _check_params_match_path(routes[i])
       /\ _contract_adapters(routes[i])
  /\ _validate_route_identities(routes)
  /\ _validated_webhooks(routes, a.webhooks)

Composes == [a \in DOMAIN Applications |-> create_app(Applications[a], Routes[a])]

Compose ==
  /\ phase = "declared"
  /\ IF Composes[application]
     THEN phase' = "serving" /\ app' = [routes |-> Routes[application], limit |-> Applications[application].limit]
     ELSE phase' = "refused" /\ UNCHANGED app
  /\ UNCHANGED <<application, client, asked, wire, served, approved, received, raised, answered, response, replaced, read>>

----------------------------------------------------------------------------
(* Pydantic: fields are validated by name; what is absent has its default. *)
Validated(slot, input) ==
  IF /\ \A f \in DOMAIN slot.fields :
          IF f \in DOMAIN input THEN input[f] \in DOMAIN slot.fields[f].validate ELSE ~slot.fields[f].required
     /\ slot.forbid => DOMAIN input \subseteq DOMAIN slot.fields
  THEN [f \in DOMAIN slot.fields |->
          IF f \in DOMAIN input THEN slot.fields[f].validate[input[f]] ELSE slot.fields[f].default]
  ELSE Invalid
Serialized(slot, validated, withNone) ==
  LET kept == {f \in DOMAIN validated : withNone \/ validated[f].py # "none"}
      By(name) == CHOOSE f \in kept : slot.fields[f].writtenAs = name
  IN  [name \in {slot.fields[f].writtenAs : f \in kept} |-> slot.fields[By(name)].dump[validated[By(name)]]]
_validate_parameter_round_trip(slot, validated, input) == Validated(slot, input) = validated

(* The path: each text fits its segment and survives the URL.              *)
DotSegments == {".", ".."}
Admits(segment, text) ==
  CASE segment.kind = "mixed" -> text \in DOMAIN segment.spells
    [] segment.converter = "int" -> text \in Digits
    [] segment.converter = "path" -> TRUE
    [] OTHER -> Len(Segments[text]) = 1
FillsPath(path, name, text) ==
  /\ text # ""
  /\ Range(Segments[text]) \cap DotSegments = {}
  /\ \A i \in Parameters(path) : path[i].name = name => Admits(path[i], text)
Filled(path, text) ==
  FlattenSeq([i \in DOMAIN path |->
    CASE path[i].kind = "literal" -> <<path[i].text>>
      [] path[i].kind = "mixed" -> <<path[i].spells[text[path[i].name]]>>
      [] OTHER -> Segments[text[path[i].name]]])
_build_path(c, params) ==
  LET slot == c.params
      validated == Validated(slot, params)
      written == Serialized(slot, validated, TRUE)
      text == [name \in DOMAIN written |-> Spelling(written[name])]
  IN  IF slot = Missing THEN Filled(c.path, <<>>)
      ELSE IF /\ params # Missing /\ validated # Invalid
              /\ \A name \in DOMAIN text : FillsPath(c.path, name, text[name])
              /\ _validate_parameter_round_trip(slot, validated, [name \in DOMAIN text |-> Str(text[name])])
              /\ ParameterNames(c.path) \subseteq DOMAIN text
           THEN Filled(c.path, text) ELSE Invalid

(* The query: the client's own parameters, unless the call has the name.   *)
QueryTexts(written) ==
  [name \in DOMAIN written |-> IF IsList(written[name]) THEN written[name].is ELSE <<Text(written[name])>>]
Repeats(slot, name) == name \in DOMAIN slot.fields /\ _query_parameter_is_sequence(slot, name)
_query_dict(slot, texts) ==
  [name \in {n \in DOMAIN texts : texts[n] # <<>>} |->
     IF Len(texts[name]) = 1 /\ ~Repeats(slot, name) THEN Str(texts[name][1]) ELSE List(texts[name])]
_build_query(c, query) ==
  LET slot == c.query
      validated == Validated(slot, query)
      effective == QueryTexts(Serialized(slot, validated, FALSE)) @@ client.query
  IN  IF slot = Missing THEN client.query
      ELSE IF query = Missing THEN
        IF Validated(slot, _query_dict(slot, client.query)) = Invalid THEN Invalid ELSE client.query
      ELSE IF validated # Invalid /\ _validate_parameter_round_trip(slot, validated, _query_dict(slot, effective))
        THEN effective ELSE Invalid

(* The headers: the transport has some of its own, and the client's        *)
(* configuration some; the call has the last word by name.                 *)
_encoded_header_input(slot, texts) ==
  [f \in {g \in DOMAIN slot.fields : WireName[g] \in DOMAIN texts} |-> Str(texts[WireName[f]])]
HeaderTextsOf(written) ==
  [name \in {WireName[w] : w \in DOMAIN written} |->
     Text(written[CHOOSE w \in DOMAIN written : WireName[w] = name])]
Sent(own) == own @@ client.headers @@ client.implicit   \* httpx merges by name
EffectiveHeaders_Configured(rendered) == rendered @@ client.headers
EffectiveHeaders(rendered) == Sent(rendered)
_build_headers(c, headers) ==
  LET slot == c.headers
      validated == Validated(slot, IF headers = Missing THEN _encoded_header_input(slot, client.headers) ELSE headers)
      rendered == HeaderTextsOf(Serialized(slot, validated, FALSE))
  IN  IF slot = Missing THEN <<>>
      ELSE IF /\ validated # Invalid
              /\ Range(rendered) \subseteq HeaderTexts
              /\ _validate_parameter_round_trip(slot, validated, _encoded_header_input(slot, EffectiveHeaders(rendered)))
           THEN rendered ELSE Invalid

(* What a function gives, or an exception.                                 *)
Parsed(v, of) == IF v \in DOMAIN of THEN of[v] ELSE Invalid
(* Text in the charset of a media type, or in UTF-8.                       *)
Encoded(text, media) ==
  LET charset == IF is_text_media_type(media) THEN text_charset(media) ELSE "utf8"
  IN  Parsed(text, Encode[charset])
_build_body(c, request) ==
  LET validated == c.request.validate[request]
  IN  IF c.request = Missing THEN ""
      ELSE IF request = Missing \/ request \notin DOMAIN c.request.validate THEN Invalid
      ELSE IF is_json_media_type(c.media) THEN Parsed(validated, c.request.dump)
      ELSE IF validated.py = "bytes" THEN validated.is[1]
      ELSE IF validated.py = "str" THEN Encoded(validated.is[1], c.media)
      ELSE Invalid

_reject_undeclared(c, arguments) ==
  /\ arguments.params # Missing => c.params # Missing
  /\ arguments.query # Missing => c.query # Missing
  /\ arguments.headers # Missing => c.headers # Missing
  /\ arguments.request # Missing => c.request # Missing

Request(c, arguments) ==
  [method |-> c.method, url |-> _build_path(c, arguments.params), query |-> _build_query(c, arguments.query),
   headers |-> LET own == _build_headers(c, arguments.headers) IN IF own = Invalid THEN Invalid ELSE Sent(own),
   body |-> _build_body(c, arguments.request),
   media |-> IF c.request = Missing THEN Missing ELSE c.media,
   declared |-> LET b == _build_body(c, arguments.request) IN IF b = Invalid THEN Missing ELSE Size[b]]
Sendable(request) ==
  request.url # Invalid /\ request.query # Invalid /\ request.headers # Invalid /\ request.body # Invalid

(* The transport resolves dot segments.                                    *)
Normalised(url) ==
  LET path[i \in 0..Len(url)] ==
        IF i = 0 THEN <<>>
        ELSE IF url[i] = "." THEN path[i - 1]
        ELSE IF url[i] = ".." THEN SubSeq(path[i - 1], 1, Len(path[i - 1]) - 1)
        ELSE Append(path[i - 1], url[i])
  IN  path[Len(url)]
(* Inputs a caller may try: any fields, any values; or none at all.        *)
Inputs(slot) == {Missing} \cup IF slot = Missing THEN {} ELSE UNION {[names -> Values] : names \in SUBSET DOMAIN slot.fields}
_perform_call(i, arguments) ==
  LET c == app.routes[i]
      request == Request(c, arguments)
  IN  /\ phase = "serving"
      /\ asked' = [route |-> i, params |-> arguments.params, query |-> arguments.query,
                   headers |-> arguments.headers, request |-> arguments.request]
      /\ IF /\ _reject_undeclared(c, arguments)
            /\ ErrorsAgree(c.errors \cup client.errors)
            /\ Sendable(request)
         THEN phase' = "sent" /\ wire' = [request EXCEPT !.url = Normalised(@)]
         ELSE phase' = "not_sent" /\ UNCHANGED wire
      /\ UNCHANGED <<application, app, client, served, approved, received, raised, answered, response, replaced, read>>

SendRaw(request) ==
  /\ phase = "serving"
  /\ wire' = request
  /\ client' = Missing
  /\ phase' = "sent"
  /\ UNCHANGED <<application, app, asked, served, approved, received, raised, answered, response, replaced, read>>

----------------------------------------------------------------------------
(* The server.  Every way to end a request early is an answer of its own.  *)
Answer(status, source, code) ==
  [status |-> status, source |-> source, code |-> code, media |-> Json, headers |-> <<>>, body |-> "error"]
FrameworkError(status, code) == Answer(status, "framework", code)
not_found == FrameworkError(404, "NOT_FOUND")
method_not_allowed == FrameworkError(405, "METHOD_NOT_ALLOWED")
request_too_large == FrameworkError(413, "REQUEST_TOO_LARGE")
unsupported_media_type == FrameworkError(415, "UNSUPPORTED_MEDIA_TYPE")
validation_error == FrameworkError(422, "VALIDATION_ERROR")
internal_server_error == FrameworkError(500, "INTERNAL_SERVER_ERROR")
Respond(r) == phase' = "answered" /\ response' = r

C == app.routes[served]
Arrive ==
  /\ phase = "sent"
  /\ served' = Dispatch(app.routes, wire.method, wire.url)
  /\ IF served' # 0 THEN phase' = "dispatched" /\ UNCHANGED response
     ELSE Respond(IF Allowed(app.routes, wire.url) = {} THEN not_found ELSE method_not_allowed)
  /\ UNCHANGED <<application, app, client, asked, wire, approved, received, raised, answered, replaced, read>>

MediaMatches == wire.media # Missing /\ media_type_matches(C.media, wire.media)
BodyLimit == IF C.limit # Missing THEN C.limit ELSE app.limit
(* The declared length is refused unread; a stream is counted as it comes. *)
_read_body == BodyLimit # Missing =>
  (wire.declared # Missing => wire.declared <= BodyLimit) /\ Size[wire.body] <= BodyLimit

(* A signed webhook: media, size and the exact bytes, before any parsing.  *)
VerifyWebhook ==
  /\ phase = "dispatched" /\ C.webhook
  /\ IF ~MediaMatches THEN Respond(unsupported_media_type) /\ UNCHANGED approved
     ELSE IF ~_read_body THEN Respond(request_too_large) /\ UNCHANGED approved
     ELSE phase' = "verified" /\ approved' = wire.body /\ UNCHANGED response
  /\ UNCHANGED <<application, app, client, asked, wire, served, received, raised, answered, replaced, read>>

PathInput(path, url) ==
  [name \in ParameterNames(path) |->
     LET i == CHOOSE k \in Parameters(path) : path[k].name = name
         segments == PathText(path, url, name)
         text == CHOOSE t \in DOMAIN Segments : Segments[t] = segments
     IN  IF path[i].kind = "parameter" /\ path[i].converter = "int" THEN Numeral(Number[text]) ELSE Str(text)]
Reads(slot, input) == IF slot = Missing THEN Missing ELSE Validated(slot, input)
(* The request's body, or how it could not be read.                        *)
RequestBody ==
  LET charset == text_charset(wire.media)
  IN  IF C.request = Missing THEN Missing
      ELSE IF is_json_media_type(C.media) THEN Parsed(wire.body, C.request.reads)
      ELSE IF is_text_media_type(C.media)
        THEN IF wire.body \in DOMAIN Decode[charset] THEN Parsed(Str(Decode[charset][wire.body]), C.request.validate) ELSE Invalid
      ELSE Parsed(Bytes(wire.body), C.request.validate)
Arguments ==
  [params |-> Reads(C.params, PathInput(C.path, wire.url)),
   query |-> Reads(C.query, _query_dict(C.query, wire.query)),
   headers |-> Reads(C.headers, _encoded_header_input(C.headers, wire.headers)),
   request |-> Missing]
ValidateInputs ==
  /\ phase = IF C.webhook THEN "verified" ELSE "dispatched"
  /\ IF Arguments.params = Invalid \/ Arguments.query = Invalid \/ Arguments.headers = Invalid
     THEN Respond(validation_error) /\ UNCHANGED received
     ELSE IF C.request # Missing /\ ~MediaMatches THEN Respond(unsupported_media_type) /\ UNCHANGED received
     ELSE IF C.request # Missing /\ ~_read_body THEN Respond(request_too_large) /\ UNCHANGED received
     ELSE IF C.request # Missing /\ is_text_media_type(C.media) /\ text_charset(wire.media) \notin Codecs
       THEN Respond(unsupported_media_type) /\ UNCHANGED received
     ELSE IF RequestBody = Invalid THEN Respond(validation_error) /\ UNCHANGED received
     ELSE phase' = "invoked" /\ received' = [Arguments EXCEPT !.request = RequestBody] /\ UNCHANGED response
  /\ UNCHANGED <<application, app, client, asked, wire, served, approved, raised, answered, replaced, read>>

(* A verifier, the use case or the presenter raises an application error.  *)
declares_error(definition) == definition \in C.errors
RaiseAppError(definition) ==
  /\ phase = "invoked" \/ (phase = "verified" /\ C.webhook)
  /\ raised' = definition
  /\ Respond(IF declares_error(definition) THEN Answer(definition.status, "app", definition.code) ELSE internal_server_error)
  /\ UNCHANGED <<application, app, client, asked, wire, served, approved, received, answered, replaced, read>>

----------------------------------------------------------------------------
(* What the use case means to answer, made into a response.                *)
(* Checked against the schema that was published, and read again.          *)
response_schema_validator(body, payload) == payload \in body.publishes
_validated_payload(d, result) ==
  LET body == d.body
      value == body.validate[result]
  IN  IF body = Missing THEN ""
      ELSE IF result \notin DOMAIN body.validate THEN Invalid
      ELSE IF is_json_media_type(d.media)
        THEN IF /\ value \in DOMAIN body.dump
                /\ response_schema_validator(body, body.dump[value])
                /\ body.dump[value] \in DOMAIN body.reads
             THEN body.dump[value] ELSE Invalid
      ELSE IF value.py = "str" THEN Encoded(value.is[1], d.media)
      ELSE IF value.py = "bytes" THEN value.is[1]
      ELSE Invalid

_validated_response_headers(slot, value) ==
  LET validated == Validated(slot, value)
      rendered == HeaderTextsOf(Serialized(slot, validated, FALSE))
  IN  IF slot = Missing THEN <<>>
      ELSE IF /\ value # Missing /\ validated # Invalid
              /\ Range(rendered) \subseteq LatinTexts
              /\ {WireName[f] : f \in RequiredFields(slot)} \subseteq DOMAIN rendered
           THEN rendered ELSE Invalid

OrdinaryResponse(d, body, headers) ==
  LET payload == _validated_payload(d, body)
      rendered == _validated_response_headers(d.headers, headers)
  IN  IF payload = Invalid \/ rendered = Invalid THEN internal_server_error
      ELSE [status |-> d.status, source |-> "none", code |-> Missing, headers |-> rendered, body |-> payload,
            media |-> IF d.body = Missing THEN Missing ELSE d.media]
Meant(i, body) ==
  LET d == Definitions(C)[i]
  IN  [definition |-> i, body |-> IF d.body # Missing /\ body \in DOMAIN d.body.validate THEN d.body.validate[body] ELSE Missing]

AnswerSingular(result, headers) ==
  /\ phase = "invoked" /\ C.responses = <<>>
  /\ Respond(OrdinaryResponse(C.response, result, headers))
  /\ answered' = Meant(1, result)
  /\ UNCHANGED <<application, app, client, asked, wire, served, approved, received, raised, replaced, read>>

(* A presenter selects a definition: one of the contract's, by identity,   *)
(* with a body and headers exactly where the definition has them.          *)
_presented_response(d, body, headers) ==
  IF d = Missing THEN internal_server_error
  ELSE IF d.passthrough \/ (d.body = Missing) # (body = Missing) \/ (d.headers = Missing) # (headers = Missing)
    THEN internal_server_error
  ELSE OrdinaryResponse(d, body, headers)
PresentResult(i, body, headers) ==
  /\ phase = "invoked" /\ C.responses # <<>>
  /\ Respond(_presented_response(IF i = 0 THEN Missing ELSE C.responses[i], body, headers))
  /\ answered' = IF i = 0 THEN Missing ELSE Meant(i, body)
  /\ UNCHANGED <<application, app, client, asked, wire, served, approved, received, raised, replaced, read>>

(* A response of Starlette's own keeps its body, unread; what it may say   *)
(* of the framework is taken out.                                          *)
_validate_passthrough(d, raw) ==
  /\ raw.status = d.status
  /\ Range(raw.headers) \subseteq LatinTexts
  /\ d.body = Missing => raw.body = ""
  /\ d.body # Missing => raw.media # Missing /\ media_type_matches(d.media, raw.media)
  /\ IF d.headers = Missing THEN DOMAIN raw.headers = {}
     ELSE /\ Validated(d.headers, _encoded_header_input(d.headers, raw.headers)) # Invalid
          /\ DOMAIN raw.headers \subseteq {WireName[f] : f \in DOMAIN d.headers.fields}
PassThrough(i, raw) ==
  /\ phase = "invoked" /\ C.responses[i].passthrough
  /\ Respond(IF _validate_passthrough(C.responses[i], raw) THEN [raw EXCEPT !.source = "none"] ELSE internal_server_error)
  /\ answered' = [definition |-> i, body |-> Missing]
  /\ UNCHANGED <<application, app, client, asked, wire, served, approved, received, raised, replaced, read>>

(* A proxy, or middleware, answers in the application's place.             *)
Intrude(r) ==
  /\ phase = "answered" /\ client # Missing /\ ~replaced
  /\ response' = r /\ replaced' = TRUE
  /\ UNCHANGED <<application, app, client, phase, asked, wire, served, approved, received, raised, answered, read>>

----------------------------------------------------------------------------
(* The client reads the definition of the status that arrived.             *)
Unexpected == [as |-> "unexpected", body |-> Missing, headers |-> Missing]
_decode_text_response ==
  LET charset == text_charset(response.media)
  IN  IF charset \in Codecs /\ response.body \in DOMAIN Decode[charset] THEN Str(Decode[charset][response.body]) ELSE Invalid
ReadBody(d) ==
  IF d.body = Missing THEN IF response.body = "" THEN Missing ELSE Invalid
  ELSE IF response.media = Missing \/ ~media_type_matches(d.media, response.media) THEN Invalid
  ELSE IF is_json_media_type(d.media) THEN Parsed(response.body, d.body.reads)
  ELSE IF is_text_media_type(d.media) THEN Parsed(_decode_text_response, d.body.validate)
  ELSE Parsed(Bytes(response.body), d.body.validate)
ReadHeaders(d) ==
  IF d.headers = Missing THEN Missing ELSE Validated(d.headers, _encoded_header_input(d.headers, response.headers))
ReadSuccess(d) ==
  IF ReadBody(d) = Invalid \/ ReadHeaders(d) = Invalid THEN Unexpected
  ELSE [as |-> "response", body |-> ReadBody(d), headers |-> ReadHeaders(d)]

NoEnvelope == response.status >= 400 /\ (response.media # Json \/ response.code = Missing)
_raise_for_error_Unsourced(definitions) ==
  LET matching == {e \in definitions : e.code = response.code /\ e.status = response.status}
  IN  IF NoEnvelope \/ matching = {} THEN Unexpected
      ELSE [as |-> "app_error", body |-> CHOOSE e \in matching : TRUE, headers |-> Missing]
_raise_for_error(definitions) ==
  LET matching == {e \in definitions : e.code = response.code /\ e.status = response.status /\ response.source = "app"}
  IN  IF NoEnvelope \/ matching = {} THEN Unexpected
      ELSE [as |-> "app_error", body |-> CHOOSE e \in matching : TRUE, headers |-> Missing]

Read_ ==
  LET contract_ == app.routes[asked.route]
      selected == SelectInSeq(Definitions(contract_), LAMBDA d : d.status = response.status)
  IN  /\ phase = "answered" /\ client # Missing
      /\ read' = IF selected # 0 THEN ReadSuccess(Definitions(contract_)[selected])
                 ELSE _raise_for_error(contract_.errors \cup client.errors)
      /\ phase' = "read"
      /\ UNCHANGED <<application, app, client, asked, wire, served, approved, received, raised, answered, response, replaced>>

----------------------------------------------------------------------------
(* What Python, Starlette and httpx make of texts: a text is split at /,   *)
(* and what a codec encodes it decodes.                                    *)
ASSUME TextsAssumption ==
  /\ \A t \in DOMAIN Segments :
       /\ Segments[t] \in Seq(Range(Segments[t])) /\ Segments[t] # <<>>
       /\ Len(Segments[t]) = 1 => Segments[t] = <<t>>
  /\ \A s, t \in DOMAIN Segments : Segments[s] = Segments[t] => s = t
  /\ \A t \in Digits : t \in DOMAIN Segments /\ Len(Segments[t]) = 1
  /\ \A charset \in Codecs : \A t \in DOMAIN Encode[charset] :
       Encode[charset][t] \in DOMAIN Decode[charset] /\ Decode[charset][Encode[charset][t]] = t
  /\ "utf8" \in Codecs /\ Invalid # Missing

(* A path that Starlette compiles, without segments a transport resolves;  *)
(* a parameter that takes the rest of the path is its last segment.        *)
Compiles(path) ==
  /\ path \in Seq(Range(path))
  /\ \A i \in DOMAIN path :
       \/ path[i].kind = "literal" /\ path[i].text \notin DotSegments
       \/ path[i].kind = "parameter" /\ (path[i].converter = "path" => i = Len(path))
       \/ /\ path[i].kind = "mixed" /\ path[i].converter = "str"
          /\ Range(path[i].spells) \cap DotSegments = {}
          /\ \A s, t \in DOMAIN path[i].spells : path[i].spells[s] = path[i].spells[t] => s = t
          /\ \A t \in DOMAIN path[i].spells : t \in DOMAIN Segments /\ Len(Segments[t]) = 1
  /\ \A i, j \in Parameters(path) : path[i].name = path[j].name => i = j

(* The values of a field; a body and headers that are valid are values.    *)
Validates(field) == Range(field.validate) \cup IF field.required THEN {} ELSE {field.default}
ReadsBack(body) == body # Missing => Invalid \notin Range(body.validate) \cup Range(body.reads)
HasValues(slot) == slot # Missing =>
  Invalid \notin [DOMAIN slot.fields -> UNION {Validates(slot.fields[f]) : f \in DOMAIN slot.fields}]

ASSUME ApplicationsAssumption ==
  /\ \A a \in DOMAIN Applications :
       /\ Routes[a] \in Seq(Range(Routes[a]))
       /\ \A i \in DOMAIN Routes[a] :
            LET c == Routes[a][i]
            IN  /\ Compiles(c.path)
                /\ PathRank[c.path] \in Int /\ MethodRank[c.method] \in Int
                /\ \A j \in DOMAIN Routes[a] :
                     /\ PathRank[c.path] = PathRank[Routes[a][j].path] => c.path = Routes[a][j].path
                     /\ MethodRank[c.method] = MethodRank[Routes[a][j].method] => c.method = Routes[a][j].method
                /\ \A k \in DOMAIN c.path : c.path[k].kind # "parameter" => Length[c.path[k].text] \in Nat
                /\ c.media # Missing /\ ReadsBack(c.request)
                /\ c.params # Missing => \A f \in DOMAIN c.params.fields :
                     /\ Validates(c.params.fields[f]) \subseteq DOMAIN c.params.fields[f].dump
                     /\ \A v \in Range(c.params.fields[f].dump) : Spelling(v) \in DOMAIN Segments
                /\ c.headers # Missing => \A f \in DOMAIN c.headers.fields : NonEmptyString(c.headers.fields[f].read) =>
                     \A v \in Range(c.headers.fields[f].validate) : v.py = "str" /\ v.is # <<"">>
                /\ c.responses \in Seq(Range(c.responses))
                /\ \A k \in DOMAIN Definitions(c) : ReadsBack(Definitions(c)[k].body) /\ HasValues(Definitions(c)[k].headers)
  /\ \A e \in ErrorDefs : e.status \in 400..599 /\ e.code # Missing
  /\ \A r \in Intruders : r.source # "app"
  /\ \A r \in RawResponses : "source" \in DOMAIN r

HttpInit ==
  /\ application \in DOMAIN Applications
  /\ app = Missing
  /\ client \in Clients
  /\ phase = "declared"
  /\ served = 0 /\ replaced = FALSE
  /\ asked = Missing /\ wire = Missing /\ approved = Missing /\ received = Missing
  /\ raised = Missing /\ answered = Missing /\ response = Missing /\ read = Missing

CallRoute ==
  \E i \in DOMAIN app.routes :
    \E params \in Inputs(app.routes[i].params), query \in Inputs(app.routes[i].query), headers \in Inputs(app.routes[i].headers),
       request \in {Missing} \cup IF app.routes[i].request = Missing THEN {} ELSE Values :
      _perform_call(i, [params |-> params, query |-> query, headers |-> headers, request |-> request])
Conclude ==
  \/ \E definition \in ErrorDefs : RaiseAppError(definition)
  \/ \E result \in Values, headers \in Inputs(C.response.headers) : AnswerSingular(result, headers)
  \/ \E i \in DOMAIN C.responses, body \in {Missing} \cup Values : \E headers \in Inputs(C.responses[i].headers) :
       PresentResult(i, body, headers)
  \/ (C.responses # <<>> /\ PresentResult(0, Missing, Missing))   \* a definition of another contract
  \/ \E i \in DOMAIN C.responses, raw \in RawResponses : PassThrough(i, raw)
HttpNext ==
  \/ Compose \/ (phase = "serving" /\ CallRoute) \/ (\E request \in RawRequests : SendRaw(request))
  \/ Arrive
  \/ (phase = "dispatched" /\ VerifyWebhook) \/ (phase \in {"dispatched", "verified"} /\ ValidateInputs)
  \/ (phase \in {"verified", "invoked"} /\ Conclude)
  \/ (\E r \in Intruders : Intrude(r)) \/ Read_

----------------------------------------------------------------------------
(* What a caller meant by its call, said without the wire.                 *)
Intended ==
  LET c == app.routes[asked.route]
  IN  [params |-> Reads(c.params, asked.params),
       query |-> Reads(c.query, IF asked.query = Missing THEN _query_dict(c.query, client.query) ELSE asked.query),
       headers |-> Reads(c.headers, IF asked.headers = Missing THEN _encoded_header_input(c.headers, client.headers) ELSE asked.headers)]
(* A type behind the int converter reads the number as it reads its text.  *)
NumbersRead(c) ==
  \A i \in Parameters(c.path) : c.path[i].kind = "parameter" /\ c.path[i].converter = "int" =>
    LET validate == c.params.fields[c.path[i].name].validate
    IN  \A text \in Digits : Str(text) \in DOMAIN validate =>
          Numeral(Number[text]) \in DOMAIN validate /\ validate[Numeral(Number[text])] = validate[Str(text)]
(* A body type that accepts, and one that gives back, what it writes: what *)
(* is not JSON is given to it as text or as bytes, by the media type.      *)
Raw(v, media) ==
  IF is_text_media_type(media) THEN Str(v.is[1]) ELSE Bytes(IF v.py = "str" THEN Encode["utf8"][v.is[1]] ELSE v.is[1])
Writable(v) == v.py \in {"str", "bytes"}
Legible(body, media) ==
  is_json_media_type(media) \/ \A v \in Range(body.validate) :
    Writable(v) => (is_text_media_type(media) => v.py = "str") /\ Raw(v, media) \in DOMAIN body.validate
Faithful(body, media) ==
  /\ Legible(body, media)
  /\ \A v \in Range(body.validate) :
       IF is_json_media_type(media) THEN v \in DOMAIN body.dump /\ body.dump[v] \in DOMAIN body.reads /\ body.reads[body.dump[v]] = v
       ELSE Writable(v) => body.validate[Raw(v, media)] = v
(* A header type that accepts what it writes, under the name it writes.    *)
HeadersLegible(slot) ==
  \A f \in DOMAIN slot.fields : \A v \in Validates(slot.fields[f]) :
    v.py # "none" => Str(Text(slot.fields[f].dump[v])) \in DOMAIN slot.fields[slot.fields[f].writtenAs].validate
ByClient == client # Missing /\ asked # Missing
OwnRoute == served = asked.route

(* The use case gets what its caller meant, or does not run: the path, the *)
(* query and the headers that arrive are the values that the caller's own  *)
(* were validated to, whatever the client and the transport are configured *)
(* to add; so is the body, of a type that reads what it writes; a call     *)
(* that was sent is never not found, never served by another route if its  *)
(* path has no parameters, and at its own route is refused for its size    *)
(* only; and whoever the peer is, a body is within the limit, of the       *)
(* declared media type, and the one that a webhook's verifier saw.         *)
WhatIsSentIsReceived ==
  /\ received # Missing =>
       /\ C.request # Missing => MediaMatches /\ (BodyLimit # Missing => Size[wire.body] <= BodyLimit)
       /\ C.webhook => approved = wire.body
       /\ C.idempotent => \E f \in DOMAIN received.headers :
            WireName[f] = "idempotency-key" /\ received.headers[f].py = "str" /\ received.headers[f].is # <<"">>
  /\ ByClient /\ served # 0 /\ ParameterNames(app.routes[asked.route].path) = {} => OwnRoute
  /\ ByClient /\ received # Missing /\ OwnRoute =>
       /\ NumbersRead(C) => received.params = Intended.params
       /\ received.query = Intended.query /\ received.headers = Intended.headers
       /\ C.request # Missing /\ Faithful(C.request, C.media) => received.request = C.request.validate[asked.request]
  /\ ByClient /\ phase = "answered" /\ response.source = "framework" /\ ~replaced =>
       /\ response \notin {not_found, method_not_allowed}
       /\ OwnRoute => response # unsupported_media_type
       /\ OwnRoute /\ NumbersRead(C) /\ (C.request # Missing => Faithful(C.request, C.media)) => response # validation_error

(* What the server answers its client understands, and nothing else: an    *)
(* ordinary success is returned, of the definition that the presenter      *)
(* chose, if its types accept what they write, with the body that the use  *)
(* case's result was validated to, if it reads what it writes; an          *)
(* application error that reaches the caller is declared and was raised;   *)
(* and a framework's error, or what a proxy answers, is never taken for    *)
(* one.                                                                    *)
WhatIsAnsweredIsUnderstood ==
  phase = "read" /\ OwnRoute =>
    /\ response.source = "none" /\ ~replaced /\ answered # Missing =>
         LET d == Definitions(C)[answered.definition]
         IN  ~d.passthrough /\ (d.body # Missing => Legible(d.body, d.media)) /\ (d.headers # Missing => HeadersLegible(d.headers)) =>
               /\ read.as = "response"
               /\ response.status = d.status
               /\ d.body # Missing /\ Faithful(d.body, d.media) => read.body = answered.body
    /\ raised # Missing /\ raised \in C.errors /\ ~replaced => read.as = "app_error"
    /\ read.as = "app_error" => ~replaced /\ raised = read.body /\ raised \in C.errors
=============================================================================
