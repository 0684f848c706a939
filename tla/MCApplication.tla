---------------------------- MODULE MCApplication ----------------------------
(***************************************************************************)
(* Applications, in two catalogues: what may be written for an entrypoint, *)
(* and what may be declared of a route and tried on it; and a call of a    *)
(* use case through an entrypoint.  A behaviour is about a member of one   *)
(* of the catalogues, or about one call.                                   *)
(***************************************************************************)
EXTENDS Binding, HttpExchange, Entrypoint, TLC

CONSTANTS prose, number, broken, forward, backward, word, digits

VARIABLE subject  \* "binding" | "exchange" | "call"

----------------------------------------------------------------------------
(* Wirings.                                                                *)
ParameterKinds == {"positional_only", "positional_or_keyword", "keyword_only", "var_positional", "var_keyword"}
Param(k, d, n) == [kind |-> k, default |-> d, note |-> n]
(* What a signature may say of a name, or that it does not have it.        *)
Taken(n) == {Param(k, d, n) : k \in ParameterKinds \ Variadic, d \in BOOLEAN} \cup {Param(k, FALSE, n) : k \in Variadic}
Legal(ps) ==
  /\ \A k \in Variadic : Cardinality({n \in DOMAIN ps : ps[n].kind = k}) <= 1
  /\ \A m, n \in DOMAIN ps : ps[m].kind = "positional_only" /\ ps[n].kind = "positional_or_keyword" => (ps[m].default => ps[n].default)
Signatures(names, note) ==
  {ps \in UNION {[ns -> Taken(note)] : ns \in SUBSET names} : Legal(ps)}
Ordinary(note) == [n \in {"request", "context"} |-> Param("keyword_only", FALSE, note)]

Callable(least, most) == [form |-> "function", least |-> least, most |-> most, keywordOnly |-> FALSE, gives |-> "async_cm"]
NoLifespan == [given |-> FALSE, least |-> 0, most |-> 0, keywordOnly |-> FALSE, gives |-> "async_cm"]
NoProjector == [given |-> FALSE, async |-> FALSE, count |-> 1, kind |-> "positional_only", note |-> Empty, returns |-> Empty]
Own == [name |-> "own", ours |-> TRUE]
Wired(entry) ==
  [entry |-> entry,
   use_case |-> [async |-> TRUE, parameters |-> Ordinary(prose), returns |-> prose],
   declared |-> [n \in {"request"} |-> prose],
   result |-> prose,
   globals |-> [n \in Names |-> Unbound],
   factory |-> Callable(0, 0), lifespan |-> NoLifespan,
   responses |-> FALSE, projector |-> NoProjector, presented |-> Empty,
   items |-> <<<<Own>>>>]
Entries == {"tool", "job", "task", "execute", "route"}
Declarations(entry) ==
  CASE entry = "job" -> {[n \in {"request"} |-> prose]}
    [] entry = "tool" -> {[n \in {"request"} |-> prose], <<>>}
    [] entry = "route" -> {[n \in {"request"} |-> prose], [n \in {"request", "query"} |-> prose], <<>>}
    [] OTHER -> {<<>>}
(* Every legal signature of the names a call may pass and one more; every  *)
(* chain of annotations; every factory and lifespan; two handlers in the   *)
(* orders and under the names they may have; every projector.              *)
Signed ==
  UNION {{[Wired(e) EXCEPT !.use_case.parameters = ps, !.declared = d] :
    ps \in Signatures({"request", "context", IF e = "route" THEN "query" ELSE "extra"}, prose), d \in Declarations(e)} : e \in Entries}
  \cup {[Wired(e) EXCEPT !.use_case.async = FALSE] : e \in Entries}
Annotated ==
  {[Wired(e) EXCEPT !.use_case.parameters["request"].note = n, !.use_case.returns = r, !.globals = g,
                    !.declared = IF e \in {"task", "execute"} THEN <<>> ELSE @] :
     e \in Entries, n \in {prose, number, broken, forward, Empty}, r \in {prose, forward, backward, Empty},
     g \in [Names -> {prose, number, forward, backward, Unbound}]}
Scoped ==
  {[Wired(e) EXCEPT !.factory = [form |-> f, least |-> s[1], most |-> s[2], keywordOnly |-> s[3], gives |-> y],
                    !.lifespan = l] :
     e \in Entries, f \in {"function", "class", "value"}, y \in {"value", "async_cm", "sync_cm", "async_gen"},
     s \in {<<0, 0, FALSE>>, <<0, 1, FALSE>>, <<1, 1, FALSE>>, <<2, 2, FALSE>>, <<0, 0, TRUE>>},
     l \in {NoLifespan} \cup {[given |-> TRUE, least |-> n, most |-> 1, keywordOnly |-> FALSE, gives |-> x] :
                               n \in {0, 1}, x \in {"async_cm", "sync_cm"}}}
Grouping == {[Wired(e) EXCEPT !.items = i] : e \in Entries,
   i \in {<<<<Own>>, <<[name |-> n, ours |-> FALSE]>>>> : n \in {"own", "other"}} \cup {<<<<[name |-> n, ours |-> FALSE], Own>>>> : n \in {"own", "other"}}}
Projected ==
  {[Wired("route") EXCEPT !.responses = r, !.presented = p, !.result = IF r THEN Empty ELSE prose, !.use_case.returns = u,
     !.projector = [given |-> TRUE, async |-> a, count |-> c, kind |-> k, note |-> n, returns |-> t]] :
     r \in BOOLEAN, p \in {Empty, number}, u \in {prose, number}, a \in BOOLEAN, c \in 0..2,
     k \in Positional \cup {"keyword_only"}, n \in {prose, number, Empty}, t \in {number, Empty}}
MCWirings == Signed \cup Annotated \cup Scoped \cup Grouping \cup Projected
MCAccepts == (prose :> {word, digits}) @@ (number :> {digits}) @@ (broken :> {})
MCStrict == (prose :> {word}) @@ (number :> {digits}) @@ (broken :> {})
MCDump == (prose :> [v \in Payloads |-> v]) @@ (number :> [v \in Payloads |-> v]) @@ (broken :> [v \in Payloads |-> v])

----------------------------------------------------------------------------
(* Exchanges.                                                              *)
Texts == {"", "7", "07", "x", "a/b", "..", "accent", "snow", "true", "True", " x", "httpx", "archived"}
MCSegments == [t \in Texts \cup {"todos", "7.json", "api"} |-> IF t = "a/b" THEN <<"a", "b">> ELSE <<t>>] @@ ("a" :> <<"a">>) @@ ("b" :> <<"b">>)
None == [py |-> "none", is |-> <<>>]
True == [py |-> "bool", is |-> <<"true">>]
IntList == [py |-> "ints", is |-> <<"7">>]
MCValues == {Str(t) : t \in {"", "7", "x", "a/b", "..", "accent", "snow", " x"}}
            \cup {Numeral("7"), True, None, List(<<>>), List(<<"x">>), List(<<"x", "7">>), IntList, Bytes("x"), Bytes("accent-utf8")}

MCEncode == [c \in {"utf8", "latin1"} |->
  IF c = "utf8" THEN [t \in Texts |-> CASE t = "accent" -> "accent-utf8" [] OTHER -> t]
  ELSE [t \in Texts \ {"snow"} |-> IF t = "accent" THEN "accent-latin1" ELSE t]]
Ascii == Texts \ {"accent", "snow"}
MCDecode == [c \in {"utf8", "latin1"} |->
  IF c = "utf8" THEN [b \in Ascii \cup {"accent-utf8", "snow"} |-> IF b = "accent-utf8" THEN "accent" ELSE b]
  ELSE [b \in Ascii \cup {"accent-latin1", "accent-utf8"} |-> CASE b = "accent-latin1" -> "accent" [] b = "accent-utf8" -> "snow" [] OTHER -> b]]

(* Schemas.                                                                *)
Type(types) == [kind |-> "type", types |-> types, items |-> {}, prefix |-> {}, closed |-> FALSE, nonEmpty |-> FALSE]
ArrayOf(node) == [Type({"array"}) EXCEPT !.items = {node}]
Union(nodes) == [kind |-> "union", of |-> nodes]
NonEmpty == [Type({"string"}) EXCEPT !.nonEmpty = TRUE]
Same(vs) == [v \in vs |-> v]
Strings == {Str(t) : t \in Texts}
Field(node, required, validate, dump, default) ==
  [read |-> node, write |-> node, required |-> required, writtenAs |-> "", validate |-> validate, dump |-> dump, default |-> default]
AStr == Field(Type({"string"}), TRUE, Same(Strings), Same(Strings), Missing)
AKey == Field(NonEmpty, TRUE, Same(Strings \ {Str("")}), Same(Strings), Missing)
AnInt == Field(Type({"integer"}), TRUE, [v \in {Numeral("7"), Str("7"), Str("07")} |-> Numeral("7")], Same({Numeral("7")}), Missing)
ABool == Field(Type({"boolean"}), TRUE, [v \in {True, Str("true"), Str("True")} |-> True], Same({True}), Missing)
Optional == Field(Union({Type({"string"}), Type({"null"})}), FALSE, Same(Strings \cup {None}), Same(Strings \cup {None}), None)
Tags == Field(ArrayOf(Type({"string"})), FALSE, Same({List(<<>>), List(<<"x">>), List(<<"x", "7">>), List(<<"7">>)}), Same({List(<<>>), List(<<"x">>), List(<<"x", "7">>), List(<<"7">>)}), List(<<>>))
Counts == Field(ArrayOf(Type({"integer"})), TRUE, [v \in {IntList, List(<<"7">>)} |-> IntList], Same({IntList}), Missing)
Stripped == Field(Type({"string"}), TRUE, Same(Strings), [v \in Strings |-> IF v = Str(" x") THEN Str("x") ELSE v], Missing)
Nested == Field([kind |-> "type", types |-> {"object"}, items |-> {}, prefix |-> {}, closed |-> FALSE, nonEmpty |-> FALSE], TRUE, <<>>, <<>>, Missing)
Slot(fields) == [object |-> TRUE, extra |-> FALSE, forbid |-> FALSE, defs |-> <<>>,
                 fields |-> [f \in DOMAIN fields |-> [fields[f] EXCEPT !.writtenAs = IF @ = "" THEN f ELSE @]]]
One(name, field) == Slot(name :> field)

(* Bodies.                                                                 *)
Body(note, validate, reads, dump, publishes) ==
  [note |-> note, validate |-> validate, reads |-> reads, dump |-> dump, publishes |-> publishes, aliases |-> {}]
Of(py) == [kind |-> "type", of |-> py]
Tokens == Texts \cup {"accent-utf8", "accent-latin1", "error", "html"}
IntBody == Body(Of("other"), AnInt.validate, "7" :> Numeral("7"), Numeral("7") :> "7", {"7"})
LossyBody == Body(Of("other"), Same({Numeral("7"), True}), ("7" :> Numeral("7")), [v \in {Numeral("7"), True} |-> "7"], {"7"})
PickyBody == Body(Of("other"), Same({Numeral("7"), True}), ("7" :> Numeral("7")), (Numeral("7") :> "7") @@ (True :> "x"), {"7", "x"})
OffSchema == Body(Of("other"), Same({Numeral("7"), True}), ("7" :> Numeral("7")) @@ ("x" :> True), (Numeral("7") :> "7") @@ (True :> "x"), {"7"})
StrBody == Body(Of("str"), Same(Strings) @@ [v \in {Bytes(b) : b \in DOMAIN MCDecode["utf8"]} |-> Str(MCDecode["utf8"][v.is[1]])], [t \in Texts |-> Str(t)], [v \in Strings |-> v.is[1]], Texts)
BytesBody == Body(Of("bytes"), Same({Bytes(t) : t \in Tokens}), [t \in Tokens |-> Bytes(t)], [v \in {Bytes(t) : t \in Tokens} |-> v.is[1]], Tokens)
EitherBody == Body([kind |-> "union", of |-> {Of("str"), Of("bytes")}], Same({Bytes(t) : t \in Tokens} \cup Strings),
                   [t \in Texts |-> Str(t)], [v \in {Bytes(t) : t \in Tokens} \cup Strings |-> v.is[1]], Texts \cup Tokens)
AliasedBody(field) == [IntBody EXCEPT !.aliases = {field}]
Aliased(written, validation, byName, byAlias) ==
  [name |-> "n", writtenAs |-> written, validation |-> validation, byName |-> byName, byAlias |-> byAlias, excluded |-> FALSE]
Media(e) == [essence |-> e, parameters |-> {}]
Charset_(c) == [essence |-> "text", parameters |-> {<<"charset", c>>}]

Define(status, body, media, headers, passthrough) ==
  [status |-> status, body |-> body, media |-> media, headers |-> headers, passthrough |-> passthrough]
Plain == Define(200, Missing, Json, Missing, FALSE)
L(t) == Literal(t)
P(c) == Parameter("id", c)
Mixed == [kind |-> "mixed", text |-> ".json", name |-> "id", converter |-> "str", spells |-> "7" :> "7.json"]
Todos == <<L("todos")>>
Todo == <<L("todos"), P("str")>>
Archived == <<L("todos"), L("archived")>>
Base(path, method) ==
  [path |-> path, method |-> method, params |-> Missing, query |-> Missing, headers |-> Missing, request |-> Missing,
   media |-> Json, response |-> Plain, responses |-> <<>>, errors |-> {}, limit |-> Missing, webhook |-> FALSE, idempotent |-> FALSE, key |-> "k"]
Solo(c) == [items |-> <<<<c>>>>, prefix |-> <<>>, errors |-> {}, webhooks |-> <<>>, limit |-> 3]

NotFoundError == [code |-> "TODO_NOT_FOUND", status |-> 404]
Posing == [code |-> "VALIDATION_ERROR", status |-> 422]
Hidden == [code |-> "HIDDEN", status |-> 409]
Conflicting == [code |-> "TODO_NOT_FOUND", status |-> 410]
MCErrorDefs == {NotFoundError, Posing, Hidden}
E1 == {NotFoundError, Posing}

GetTodos == Base(Todos, "GET")
PostTodos == Base(Todos, "POST")

F == [str |-> AStr, key |-> AKey, int |-> AnInt, bool |-> ABool, optional |-> Optional, tags |-> Tags, counts |-> Counts,
      stripped |-> Stripped, nested |-> Nested]
B == [int |-> IntBody, lossy |-> LossyBody, picky |-> PickyBody, off |-> OffSchema, str |-> StrBody, bytes |-> BytesBody,
      either |-> EitherBody, none |-> Missing]
M == [json |-> Json, text |-> Media("text"), latin1 |-> Charset_("latin1"), klingon |-> Charset_("klingon"), binary |-> Media("binary")]
S == [str |-> P("str"), int |-> P("int"), path |-> P("path"), mixed |-> Mixed]
Q == [todo |-> Todo, rest |-> <<L("todos"), P("path")>>, any |-> <<P("str"), L("archived")>>, archived |-> Archived, todos |-> Todos]
Queries ==
  [both |-> Slot(("q" :> Optional) @@ ("tags" :> Tags)),
   forbid |-> [One("n", AnInt) EXCEPT !.forbid = TRUE],
   renamed |-> One("n", [AnInt EXCEPT !.writtenAs = "m"])]
Headers ==
  [both |-> Slot(("x_api_key" :> Optional) @@ ("user_agent" :> Optional)),
   twice |-> Slot(("x_api_key" :> Optional) @@ ("X-API-Key" :> Optional)),
   reserved |-> One("content_type", Optional)]
D == [ok |-> Define(200, IntBody, Json, Missing, FALSE), again |-> Define(200, StrBody, M.text, Missing, FALSE),
      text |-> Define(201, StrBody, M.text, One("x_api_key", Optional), FALSE), empty |-> Define(204, Missing, Missing, Missing, FALSE),
      stream |-> Define(202, BytesBody, M.binary, One("x_api_key", Optional), TRUE), bare |-> Define(204, Missing, Missing, Missing, TRUE)]
Grouped == [none |-> {}, hidden |-> {Hidden}, conflict |-> {Conflicting}]

Declared ==
  ({"param"} \X (DOMAIN S) \X {"str", "int", "bool", "stripped", "optional"})
  \cup ({"query"} \X (DOMAIN F \cup DOMAIN Queries))
  \cup ({"header"} \X {"x_api_key", "user_agent"} \X {"str", "int", "optional", "tags"})
  \cup ({"headers"} \X (DOMAIN Headers))
  \cup ({"key"} \X {"GET", "POST"} \X {"str", "key", "optional"})
  \cup ({"body"} \X (DOMAIN B \ {"none"}) \X (DOMAIN M) \X {"limited", "free"})
  \cup ({"answer"} \X {"ok", "empty"} \X (DOMAIN B) \X (DOMAIN M))
  \cup ({"answered"} \X {"x_api_key", "content_type"} \X {"str", "int", "optional", "stripped"})
  \cup ({"alias"} \X {"n", "m"} \X {"", "m"} \X {"byName", "no"} \X {"byAlias", "no"})
  \cup ({"responses"} \X {"three", "clash", "through"})
  \cup ({"routes"} \X {"todo", "rest", "any"} \X {"GET", "POST"} \X {"archived", "todos"} \X {"GET", "HEAD"} \X (DOMAIN Grouped \cup {"api"}))
  \cup ({"webhook"} \X {"webhook", "no"} \X {"int", "none"} \X {"unbound", "bound", "twice", "stray"})

Two(n) ==
  [items |-> <<<<[Base(Q[n[2]], n[3]) EXCEPT !.params = One("id", AStr), !.key = "a"]>>,
               <<[Base(Q[n[4]], n[5]) EXCEPT !.key = "b", !.errors = {NotFoundError}]>>>>,
   prefix |-> IF n[6] = "api" THEN <<"api">> ELSE <<>>, errors |-> IF n[6] = "api" THEN {} ELSE Grouped[n[6]], webhooks |-> <<>>, limit |-> Missing]
Named(n) ==
  CASE n[1] = "param" -> Solo([Base(<<L("todos"), S[n[2]]>>, "GET") EXCEPT !.params = One("id", F[n[3]])])
    [] n[1] = "query" -> Solo([GetTodos EXCEPT !.query = IF n[2] \in DOMAIN F THEN One("q", F[n[2]]) ELSE Queries[n[2]]])
    [] n[1] = "header" -> Solo([GetTodos EXCEPT !.headers = One(n[2], F[n[3]])])
    [] n[1] = "headers" -> Solo([GetTodos EXCEPT !.headers = Headers[n[2]]])
    [] n[1] = "key" -> Solo([Base(Todos, n[2]) EXCEPT !.headers = One("idempotency_key", F[n[3]]), !.idempotent = TRUE])
    [] n[1] = "body" -> Solo([PostTodos EXCEPT !.request = B[n[2]], !.media = M[n[3]], !.limit = IF n[4] = "limited" THEN 1 ELSE Missing, !.errors = E1])
    [] n[1] = "answer" -> Solo([GetTodos EXCEPT !.response = Define(IF n[2] = "ok" THEN 200 ELSE 204, B[n[3]], M[n[4]], Missing, FALSE), !.errors = E1])
    [] n[1] = "answered" -> Solo([GetTodos EXCEPT !.response = Define(200, IntBody, Json, One(n[2], F[n[3]]), FALSE)])
    [] n[1] = "alias" -> Solo([GetTodos EXCEPT !.response = Define(200, AliasedBody(Aliased(n[2], {n[3]} \ {""}, n[4] = "byName", n[5] = "byAlias")), Json, Missing, FALSE)])
    [] n[1] = "responses" -> Solo([GetTodos EXCEPT !.responses =
         CASE n[2] = "three" -> <<D.ok, D.text, D.empty>> [] n[2] = "clash" -> <<D.ok, D.again>> [] OTHER -> <<D.ok, D.stream, D.bare>>])
    [] n[1] = "routes" -> Two(n)
    [] n[1] = "webhook" -> [Solo([PostTodos EXCEPT !.webhook = n[2] = "webhook", !.request = B[n[3]], !.errors = E1])
         EXCEPT !.webhooks = CASE n[4] = "unbound" -> <<>> [] n[4] = "bound" -> <<"k">> [] n[4] = "twice" -> <<"k", "k">> [] OTHER -> <<"z">>]
MCApplications == [n \in Declared |-> Named(n)]

Default_ == [query |-> <<>>, headers |-> <<>>, implicit |-> "user-agent" :> "httpx", errors |-> {}]
MCClients ==
  {Default_,
   [Default_ EXCEPT !.query = ("q" :> <<"x">>) @@ ("tags" :> <<"7">>), !.headers = ("x-api-key" :> "x"), !.errors = {Hidden}]}
MCRawRequests ==
  {[method |-> m, url |-> u, query |-> q, headers |-> h, media |-> t, body |-> b, declared |-> Missing] :
     m \in {"POST"}, u \in {<<"todos">>}, q \in {<<>>}, h \in {<<>>}, t \in {Missing, Json, Media("text"), Charset_("latin1"), Charset_("klingon")}, b \in {"", "7", "accent-latin1"}}
  \cup {[method |-> "POST", url |-> <<"todos">>, query |-> <<>>, headers |-> <<>>, media |-> Json, body |-> b, declared |-> n] : b \in {"7", "html"}, n \in {0, 9}}
  \cup {[method |-> m, url |-> u, query |-> q, headers |-> <<>>, media |-> Missing, body |-> "", declared |-> Missing] :
     m \in {"GET", "HEAD"}, u \in {<<"todos">>, <<"todos", "07">>, <<"todos", "a", "b">>, <<"todos", "archived">>, <<"x">>}, q \in {<<>>, "q" :> <<"x", "7">>}}
MCRawResponses ==
  {[status |-> s, source |-> o, code |-> Missing, media |-> m, headers |-> h, body |-> b] :
     s \in {202, 204}, o \in {"none", "app"}, m \in {Missing, Media("binary")}, h \in {<<>>, "x-api-key" :> "x", "x-other" :> "x"}, b \in {"", "x"}}
MCIntruders ==
  {[Answer(n[1], "none", n[2]) EXCEPT !.media = n[3], !.body = n[4]] :
     n \in {<<200, Missing, Json, "7">>, <<200, Missing, Media("text"), "html">>, <<404, "TODO_NOT_FOUND", Json, "error">>,
            <<422, "VALIDATION_ERROR", Json, "error">>, <<404, "TODO_NOT_FOUND", Media("text"), "html">>, <<502, Missing, Media("text"), "html">>}}

MCWireName ==
  [f \in {"x_api_key", "X-API-Key", "user_agent", "content_type", "idempotency_key", "id", "q", "tags", "n", "m"} |->
    CASE f \in {"x_api_key", "X-API-Key"} -> "x-api-key"
      [] f = "user_agent" -> "user-agent"
      [] f = "content_type" -> "content-type"
      [] f = "idempotency_key" -> "idempotency-key"
      [] OTHER -> f]
MCHeaderNames == Range(MCWireName)
Elements == <<L("api"), L("archived"), L("todos"), Mixed, P("int"), P("path"), P("str")>>
RankOf(segment) == CHOOSE i \in DOMAIN Elements : Elements[i] = segment
MCPathRank ==
  [p \in UNION {{Routes[a][i].path : i \in DOMAIN Routes[a]} : a \in DOMAIN Applications} |->
     FoldLeft(LAMBDA rank, segment : 10 * rank + RankOf(segment), 0, p)]
MCNodes ==
  LET single == {Type({t}) : t \in {"string", "integer", "boolean", "null", "object"}} \cup {NonEmpty}
  IN  single \cup {ArrayOf(Type({t})) : t \in {"string", "integer"}} \cup {Union({Type({"string"}), Type({"null"})})}
MCNotes ==
  LET single == {Of(py) : py \in {"str", "bytes", "other"}}
  IN  single \cup {[kind |-> "union", of |-> {Of("str"), Of("bytes")}]}
MCMethodRank == [m \in {"GET", "HEAD", "POST"} |-> CASE m = "GET" -> 1 [] m = "HEAD" -> 2 [] OTHER -> 3]
MCLength == [t \in {"todos", "archived", "api", ".json"} |-> CASE t = "archived" -> 8 [] t = "api" -> 3 [] OTHER -> 5]
MCSize == [b \in Texts \cup {"accent-utf8", "accent-latin1", "error", "html"} |-> CASE b = "" -> 0 [] b \in {"accent-latin1", "x", "7"} -> 1 [] b \in {"accent-utf8", "07", " x", ".."} -> 2 [] OTHER -> 4]
MCNumber == [t \in {"7", "07"} |-> "7"]
MCCapitals == "true" :> "True"
MCHeaderTexts == Texts \ {"accent", "snow", " x"}
MCLatinTexts == Texts \ {"snow", " x"}
----------------------------------------------------------------------------
(* What is not the subject stays in one of its initial states.             *)
NoWiring   == wiring = Wired("tool")
NoExchange == application = (CHOOSE a \in DOMAIN MCApplications : TRUE) /\ client = Default_
NoCall     == call = [kind |-> "execute", timed |-> FALSE, signed |-> FALSE]

ApplicationInit ==
  /\ \/ subject = "binding" /\ NoExchange /\ NoCall
     \/ subject = "exchange" /\ NoWiring /\ NoCall
     \/ subject = "call" /\ NoWiring /\ NoExchange
  /\ BindingInit /\ HttpInit /\ Init

ApplicationNext ==
  \/ subject = "binding" /\ BindingNext /\ UNCHANGED <<httpVars, vars, subject>>
  \/ subject = "exchange" /\ HttpNext /\ UNCHANGED <<bindingVars, vars, subject>>
  \/ subject = "call" /\ Next /\ UNCHANGED <<bindingVars, httpVars, subject>>

allVars == <<bindingVars, httpVars, vars, subject>>
Calling(A) == subject = "call" /\ A /\ UNCHANGED <<bindingVars, httpVars, subject>>

(* Entrypoint's Fairness, of the behaviours that are about a call.         *)
ApplicationSpec ==
  /\ ApplicationInit /\ [][ApplicationNext]_allVars
  /\ WF_allVars(Calling(Framework))
  /\ WF_allVars(Calling(DeadlineExpires))
  /\ WF_allVars(Calling(deadline = "expired" /\ UserCode))
=============================================================================
