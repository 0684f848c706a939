------------------------------- MODULE Routing -------------------------------
(***************************************************************************)
(* Routes: the identities create_app refuses, the order it tries routes    *)
(* in, groups that mount contracts under a prefix, and the bindings of     *)
(* webhooks to them.  A path is a sequence of segments; a segment is a     *)
(* literal, a parameter with a converter, or a literal with a parameter in *)
(* it, which spells the parameter's texts.  A URL is a sequence of decoded *)
(* segments.                                                               *)
(***************************************************************************)
EXTENDS Integers, FiniteSets, SequencesExt

CONSTANTS
  Digits,    \* the segments the int converter admits
  Length,    \* of a literal, in characters
  PathRank, MethodRank, \* of a path, of a method in Python's order of strings
  Missing    \* None, or nothing

Literal(text) == [kind |-> "literal", text |-> text]
Parameter(name, converter) == [kind |-> "parameter", name |-> name, converter |-> converter]

Parameters(path) == {i \in DOMAIN path : path[i].kind # "literal"}
ParameterNames(path) == {path[i].name : i \in Parameters(path)}

(* The OpenAPI spelling of a path has names and no converters; its shape   *)
(* has neither.                                                            *)
_document_path(path) ==
  [i \in DOMAIN path |-> <<path[i].kind, IF path[i].kind = "literal" THEN path[i].text ELSE path[i].name>>]
_route_shape(path) ==
  [i \in DOMAIN path |-> IF path[i].kind = "literal" THEN <<"literal", path[i].text>> ELSE <<path[i].kind>>]

_validate_route_identities(routes) ==
  \A i, j \in DOMAIN routes :
    /\ _route_shape(routes[i].path) = _route_shape(routes[j].path)
         => _document_path(routes[i].path) = _document_path(routes[j].path)
    /\ /\ routes[i].method = routes[j].method
       /\ _document_path(routes[i].path) = _document_path(routes[j].path)
       => i = j

----------------------------------------------------------------------------
SegmentPriority(segment) ==
  CASE segment.kind = "literal" -> 0
    [] segment.kind = "mixed" -> 1
    [] segment.converter = "path" -> 3
    [] segment.converter = "str" -> 2
    [] OTHER -> 1
LiteralCharacters(path) ==
  Cardinality(UNION {{i} \X (1..Length[path[i].text]) : i \in {j \in DOMAIN path : path[j].kind # "parameter"}})

_runtime_route_priority(item) ==
  <<IF item.method = "HEAD" THEN 0 ELSE 1,
    0 - Cardinality({i \in DOMAIN item.path : item.path[i].kind = "literal"})>>
  \o [i \in DOMAIN item.path |-> SegmentPriority(item.path[i])]
  \o <<-1>>   \* a tuple that is a prefix of another comes first
  \o <<0 - LiteralCharacters(item.path), Cardinality(Parameters(item.path)),
       0 - Len(item.path), PathRank[item.path], MethodRank[item.method]>>

Before(p, q) == \E i \in DOMAIN p \cap DOMAIN q : p[i] < q[i] /\ \A j \in 1..i - 1 : p[j] = q[j]

(* Starlette: a GET route answers HEAD as well.                            *)
Methods(item) == IF item.method = "GET" THEN {"GET", "HEAD"} ELSE {item.method}
MatchesConverter(converter, text) ==
  CASE converter = "int" -> text \in Digits
    [] converter = "path" -> TRUE
    [] OTHER -> text # ""
Matches_(path, url) ==
  /\ IF Len(path) > 0 /\ path[Len(path)].kind = "parameter" /\ path[Len(path)].converter = "path"
     THEN Len(url) >= Len(path) ELSE Len(url) = Len(path)
  /\ \A i \in DOMAIN path :
       CASE path[i].kind = "literal" -> url[i] = path[i].text
         [] path[i].kind = "mixed" -> url[i] \in Range(path[i].spells)
         [] OTHER -> MatchesConverter(path[i].converter, url[i])
(* What a parameter of the path is given: one segment, or the rest.        *)
PathText(path, url, name) ==
  LET i == CHOOSE k \in Parameters(path) : path[k].name = name
  IN  IF path[i].kind = "mixed"
      THEN <<CHOOSE text \in DOMAIN path[i].spells : path[i].spells[text] = url[i]>>
      ELSE IF path[i].converter = "path" THEN SubSeq(url, i, Len(url)) ELSE <<url[i]>>

Serving(routes, method, url) ==
  {[to |-> i, priority |-> _runtime_route_priority(routes[i])] :
     i \in {j \in DOMAIN routes : Matches_(routes[j].path, url) /\ method \in Methods(routes[j])}}
Allowed(routes, url) == UNION {Methods(routes[i]) : i \in {j \in DOMAIN routes : Matches_(routes[j].path, url)}}
(* The first in the order serves; none of the path gives 404, none of the  *)
(* method 405.                                                             *)
Dispatch(routes, method, url) ==
  LET able == Serving(routes, method, url)
  IN  IF able = {} THEN 0
      ELSE (CHOOSE first \in able : \A other \in able \ {first} : Before(first.priority, other.priority)).to

----------------------------------------------------------------------------
(* A group mounts its contracts under a prefix and declares errors on      *)
(* them; what a webhook is bound to survives both.                         *)
_validated_prefix(prefix) == \A i \in DOMAIN prefix : prefix[i] # ""
ErrorsAgree(errors) == \A d, e \in errors : d.code = e.code => d = e
_amend(item, prefix, errors) ==
  [item EXCEPT !.path = [i \in DOMAIN prefix |-> Literal(prefix[i])] \o @, !.errors = @ \cup errors]
route_group(items, prefix, errors) ==
  LET flattened == FlattenSeq(items)
  IN  IF prefix = <<>> /\ errors = {} THEN flattened
      ELSE [i \in DOMAIN flattened |-> _amend(flattened[i], prefix, errors)]

(* A webhook binds every route of its contract; each such contract is      *)
(* marked and has a body; and no marked one is left without.               *)
Targets(routes, w) == {i \in DOMAIN routes : routes[i].key = w}
_validated_webhooks(routes, webhooks) ==
  /\ \A i \in DOMAIN webhooks :
       /\ Targets(routes, webhooks[i]) # {}
       /\ \A t \in Targets(routes, webhooks[i]) : routes[t].webhook /\ routes[t].request # Missing
  /\ \A i, j \in DOMAIN webhooks : webhooks[i] = webhooks[j] => i = j
  /\ \A i \in DOMAIN routes : routes[i].webhook => routes[i].key \in Range(webhooks)
=============================================================================
