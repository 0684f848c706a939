----------------------------- MODULE MCBoundary -----------------------------
(* Instance of Boundary: documents of one operation, tool, job or policy,  *)
(* each around one schema of the families below.                           *)
EXTENDS Boundary, FiniteSetsExt, TLC

Num(n) == Scalar("integer", n)
Str(n) == Scalar("string", n)
True_  == Scalar("boolean", 1)
Null   == Scalar("null", 0)
List(items) == Value("array", 0, items, <<>>)
Record(fields) == Value("object", 0, <<>>, fields)

MCValues ==
  {Num(0), Num(1), Num(2), Str(0), Str(1), Str(2), True_, Null,
   List(<<>>), List(<<Num(1)>>), List(<<Str(1)>>),
   Record(<<>>), Record([x |-> Num(0)]), Record([x |-> Num(1)]), Record([x |-> Str(1)]), Record([x |-> Null]),
   Record([y |-> Num(1)]), Record([x |-> Num(1), y |-> Num(1)]), Record([x |-> Num(1), y |-> Str(1)]),
   Record([x |-> Num(1), next |-> Null]), Record([next |-> Record([x |-> Num(1)])])}

int    == [type |-> {"integer"}]
str    == [type |-> {"string"}]
null   == [type |-> {"null"}]
Props(p, required) == [type |-> {"object"}, properties |-> p, required |-> required]
Closed(p, required) == [type |-> {"object"}, properties |-> p, required |-> required,
                        additionalProperties |-> [open |-> FALSE]]
MapOf(s) == [type |-> {"object"}, additionalProperties |-> [schema |-> s]]
Ref == [ref |-> "Node"]

Scalars ==
  {int, str, [title |-> "any"], [type |-> {"number"}], [type |-> {"integer", "null"}],
   [anyOf |-> {int, null}], [anyOf |-> {int, str}], [anyOf |-> {int}], [anyOf |-> {int, str, null}],
   [oneOf |-> (int :> 1 @@ str :> 1)], [oneOf |-> (int :> 1 @@ null :> 1)],
   [type |-> {"integer"}, minimum |-> 1], [type |-> {"integer"}, minimum |-> 2],
   [type |-> {"integer"}, maximum |-> 1], [type |-> {"integer"}, maximum |-> 2], [type |-> {"integer"}, minimum |-> 1, maximum |-> 1],
   [type |-> {"string"}, minLength |-> 1], [type |-> {"string"}, minLength |-> 2],
   [type |-> {"string"}, pattern |-> {1}], [type |-> {"string"}, pattern |-> {1, 2}],
   [enum |-> {Num(1), Str(1)}], [enum |-> {Num(1), Str(1), Str(2)}],
   [type |-> {"integer"}, enum |-> {Num(1)}], [type |-> {"integer"}, enum |-> {Num(1), Num(2)}],
   [type |-> {"boolean"}, enum |-> {True_}], [const |-> Num(1), type |-> {"integer"}],
   [const |-> Num(2), type |-> {"integer"}], [const |-> True_, type |-> {"boolean"}],
   [type |-> {"integer"}, default |-> Num(1)], [type |-> {"integer"}, title |-> "n"],
   [type |-> {"integer"}, extra |-> 1]}

Containers ==
  {[type |-> {"array"}], [type |-> {"array"}, items |-> int], [type |-> {"array"}, items |-> str],
   [type |-> {"array"}, items |-> int, minItems |-> 1], MapOf(int), MapOf(str),
   [type |-> {"object"}], [type |-> {"object"}, required |-> {"x"}]}
  \cup {Props(p, r) : p \in {[x |-> int], [x |-> str], [x |-> [anyOf |-> {int, null}]]}, r \in {{}, {"x"}}}
  \cup {Props([x |-> int, y |-> int], r) : r \in {{}, {"x"}, {"x", "y"}}}
  \cup {Closed(<<>>, {}), Closed([x |-> int], {}), Closed([x |-> int], {"x"}), Closed([x |-> int, y |-> int], {"x"})}

(* A linked list, and the ways it can change behind a reference to it.     *)
Nodes ==
  {[Node |-> Props([next |-> [anyOf |-> {Ref, null}], x |-> s], r)] : s \in {int, [type |-> {"integer", "null"}]},
                                                                     r \in {{}, {"x"}}}
Referring == {Ref, [anyOf |-> {Ref, null}], [oneOf |-> (Ref :> 1 @@ null :> 1)], [ref |-> "Node", title |-> "n"]}

Bare(s) == [schema |-> s, defs |-> <<>>]
(* Deeper than the comparison goes.                                        *)
Nested[n \in 0..8] == IF n = 0 THEN int ELSE [type |-> {"array"}, items |-> Nested[n - 1]]

Owned == {Bare(s) : s \in Scalars \cup Containers \cup {Nested[8]}} \cup {[schema |-> s, defs |-> n] : s \in Referring, n \in Nodes}

(* What an idempotency key may be declared as.                             *)
NonEmpty == [type |-> {"string"}, minLength |-> 1]
KeySchemas ==
  {str, NonEmpty, [anyOf |-> {str, null}], [anyOf |-> {NonEmpty, [type |-> {"string"}, enum |-> {Str(2)}]}],
   [anyOf |-> {NonEmpty, str}], [oneOf |-> (NonEmpty :> 1 @@ [const |-> Str(1)] :> 1)],
   [const |-> Str(0)], [const |-> Str(1)], [enum |-> {Str(1), Str(2)}], [enum |-> {Str(1), Num(1)}]}

MCSchemas ==
  LET outer == {<<>>} \cup Scalars \cup Containers \cup Referring \cup KeySchemas
               \cup {definitions.Node : definitions \in Nodes} \cup {Nested[n] : n \in 0..8}
               \cup {SourceSchema(sources) : sources \in SUBSET {"app", "framework"}}
      inner == outer \cup UNION {Subschemas(s) : s \in outer}
  IN  inner \cup UNION {Subschemas(s) : s \in inner}
MCRegistries == {<<>>} \cup Nodes

MCHeight[x \in MCRegistries \X MCSchemas \X MCValues] ==
  Max({0} \cup {1 + MCHeight[<<x[1], next[1], next[2]>>] : next \in Consulted(x[1], x[2], x[3])})

-----------------------------------------------------------------------------
Json(s) == [json |-> s]
Answer(content, headers) == [content |-> content, headers |-> headers, codes |-> None]
Error(codes) == [content |-> Json(<<>>), headers |-> <<>>, codes |-> codes]

Operation == [security |-> None, webhook |-> FALSE, idempotency |-> FALSE, timeout |-> 1,
              parameters |-> <<>>, body |-> None, responses |-> [ok |-> Answer(Json(int), <<>>)]]
Api(defs, operations) == [schemas |-> defs, schemes |-> 1, security |-> None, operations |-> operations]
One(operation) == Api(<<>>, [op |-> operation])
Parameter(required, s) == [required |-> required, schema |-> s]

InBodies == {Api(s.defs, [op |-> [Operation EXCEPT !.body = [required |-> TRUE, content |-> Json(s.schema)]]]) : s \in Owned}
InAnswers == {Api(s.defs, [op |-> [Operation EXCEPT !.responses = [ok |-> Answer(Json(s.schema), <<>>)]]]) : s \in Owned}

Requests ==
  {[Operation EXCEPT !.parameters = p] :
     p \in {<<>>} \cup {[q |-> Parameter(r, s)] : r \in BOOLEAN, s \in {int, str, [type |-> {"integer"}, minimum |-> 1]}}
            \cup {[q |-> Parameter(FALSE, int), z |-> Parameter(r, int)] : r \in BOOLEAN}}
  \cup {[Operation EXCEPT !.body = [required |-> r, content |-> c]] :
          r \in BOOLEAN, c \in {Json(int), [text |-> str], [json |-> int, text |-> str]}}
  \cup {[Operation EXCEPT !.parameters = [key |-> Parameter(r, s)], !.idempotency = i] :
          r \in BOOLEAN, i \in BOOLEAN,
          s \in KeySchemas}
  \cup {[Operation EXCEPT !.security = s, !.webhook = w] : s \in {None, "public", "bearer", "basic"}, w \in BOOLEAN}

Answers ==
  {[ok |-> Answer(c, h)] : c \in {Json(int), [text |-> str], [json |-> int, text |-> str]},
                           h \in {<<>>} \cup {[etag |-> Parameter(r, s)] : r \in BOOLEAN, s \in {str, [type |-> {"string"}, minLength |-> 1]}}}
  \cup {("ok" :> Answer(Json(int), <<>>)) @@ ("404" :> Error(c)) : c \in {None, AnyCode, {"a"}, {"a", "b"}}}
  \cup {("ok" :> Answer(Json(int), <<>>)) @@ ("500" :> [Error(c) EXCEPT !.headers = h]) :
          c \in {AnyCode, {"INTERNAL_SERVER_ERROR"}, {"INTERNAL_SERVER_ERROR", "a"}},
          h \in {<<>>, [source |-> FrameworkSource]}}

Apis ==
  InBodies \cup InAnswers \cup {One(r) : r \in Requests} \cup {One([Operation EXCEPT !.responses = a]) : a \in Answers}
  \cup {Api(<<>>, [op |-> Operation, more |-> Operation]), Api(<<>>, <<>>),
        [One(Operation) EXCEPT !.security = "bearer"], [One(Operation) EXCEPT !.schemes = 2],
        One([Operation EXCEPT !.timeout = 2])}

-----------------------------------------------------------------------------
Plain == [read_only |-> FALSE, destructive |-> FALSE, idempotent |-> FALSE, open_world |-> FALSE]
Annotations ==
  [{"read_only", "destructive", "idempotent", "open_world"} -> BOOLEAN]
Tool == [input |-> Bare(int), output |-> Bare(int), errors |-> {}, annotations |-> Plain]
Manifest(items) == [schema_version |-> 1, items |-> items]

Tools ==
  {Manifest([t |-> t]) :
     t \in {[Tool EXCEPT !.input = Bare(s)] : s \in Containers} \cup {[Tool EXCEPT !.output = s] : s \in Owned}
           \cup {[Tool EXCEPT !.errors = e] : e \in SUBSET {"a", "b"}}
           \cup {[Tool EXCEPT !.annotations = a] : a \in Annotations}}
  \cup {Manifest([t |-> Tool, u |-> Tool]), Manifest(<<>>), [schema_version |-> 2, items |-> <<>>]}

Jobs == {Manifest([j |-> s]) : s \in Owned} \cup {Manifest([j |-> Bare(int), k |-> Bare(int)])}

Policy == [kind |-> "deterministic", cases |-> <<"a", "b">>, case_schema |-> 1, metrics |-> [m |-> 50],
           timeout_seconds |-> 2, max_tokens |-> NoLimit, max_cost_usd |-> NoLimit]
Policies ==
  {[Policy EXCEPT !.timeout_seconds = t, !.max_tokens = tokens, !.max_cost_usd = cost] :
     t \in {1, 2}, tokens \in {NoLimit, 1, 2}, cost \in {NoLimit, 0, 1, 2}}
  \cup {[Policy EXCEPT !.metrics = m] : m \in {[m |-> 0], [m |-> 50], [m |-> 100], [m |-> 101], <<>>, [n |-> 50], [m |-> 50, n |-> 50]}}
  \cup {[Policy EXCEPT !.cases = c] : c \in {<<"b", "a">>, <<"a">>, <<>>, <<"a", "a">>, <<"a", "c", "b">>}}
  \cup {[Policy EXCEPT !.kind = "model"], [Policy EXCEPT !.case_schema = 2]}

MCResults ==
  [slowest : {0, 1, 2}, tokens : {0, 1, 2, 3}, cost : {0, 1, 2, 3},
   total : {[m |-> i, n |-> j] : i \in {0, 50, 100, 200}, j \in {0, 100}}]

MCRaisable == {ErrorDef("404", "A"), ErrorDef("422", "B"), ErrorDef("500", "C")}
Contracts ==
  [request : {None, int}, query : {<<>>, [q |-> Parameter(FALSE, int)], [q |-> Parameter(TRUE, int)]},
   headers : {<<>>}, idempotency_key : {FALSE}, webhook : {FALSE}, public : {TRUE}, timeout : {None, 1},
   responses : {("200" :> int)}, errors : SUBSET MCRaisable]
  \cup [request : {int}, query : {<<>>}, headers : {[key |-> Parameter(TRUE, [type |-> {"string"}, minLength |-> 1])]},
        idempotency_key : BOOLEAN, webhook : BOOLEAN, public : BOOLEAN, timeout : {None},
        responses : {("200" :> int)}, errors : {{}, MCRaisable}]

MCDocuments ==
  [openapi |-> Apis, contracts |-> {("op" :> c) : c \in Contracts}, tools |-> Tools, jobs |-> Jobs, evaluations |-> {Manifest([e |-> p]) : p \in Policies}]
=============================================================================
