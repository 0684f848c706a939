---------------------------- MODULE HttpParameters ----------------------------
(***************************************************************************)
(* Which declarations HTTP can carry.  A parameter slot (params, query,    *)
(* headers, response headers) is an object type: its definitions, and its  *)
(* fields with the JSON Schema each is read and written by.  A schema is a *)
(* node: a reference, a union, types, a constant or an enumeration.        *)
(***************************************************************************)
EXTENDS Naturals, FiniteSets

CONSTANTS
  WireName,          \* header names: - for _, in lower case
  HeaderNames,       \* the wire names HTTP's grammar admits
  ReservedRequest,   \* _RESERVED_REQUEST_HEADERS
  ReservedResponse,  \* _RESERVED_RESPONSE_HEADERS
  Codecs,            \* charsets Python knows
  Nodes,             \* schemas, with those in them
  Notes              \* annotations, with those in them

ASSUME SchemasAssumption ==
  /\ \A node \in Nodes :
       /\ node.kind = "union" => node.of \subseteq Nodes
       /\ node.kind = "type" => node.items \cup node.prefix \subseteq Nodes
  /\ \A note \in Notes :
       /\ note.kind = "union" => note.of \subseteq Notes
       /\ note.kind \in {"alias", "newtype", "annotated"} => note.of \in Notes

(* A shape HTTP has no text for.                                           *)
Unsupported == {"unsupported"}
ScalarTypes == {"string", "integer", "number", "boolean"}
ConstantShape(v) == IF v.py = "none" THEN "null" ELSE IF v.py \in {"str", "int", "bool"} THEN "scalar" ELSE "unsupported"
Whole(shapes) == IF "unsupported" \in shapes THEN Unsupported ELSE shapes

(* The shapes a node may have, given those of other nodes.                 *)
_array_items_are_non_null_scalar(shapes, node, seen) ==
  /\ node.items # {} \/ node.prefix # {}
  /\ \A item \in node.items \cup node.prefix : shapes[item, seen] = {"scalar"}
  /\ node.items = {} => node.closed   \* items: false, or maxItems

_parameter_schema_shapes(defs, root) ==
  LET shapes[node \in Nodes, seen \in SUBSET DOMAIN defs] ==
        CASE node.kind = "ref" ->
               IF node.to \in seen \/ node.to \notin DOMAIN defs THEN Unsupported
               ELSE shapes[defs[node.to], seen \cup {node.to}]
          [] node.kind = "union" -> Whole(UNION {shapes[choice, seen] : choice \in node.of})
          [] node.kind = "enum" -> Whole({ConstantShape(v) : v \in node.values})
          [] node.kind = "type" ->
               Whole({IF t = "null" THEN "null"
                      ELSE IF t \in ScalarTypes THEN "scalar"
                      ELSE IF t = "array" /\ _array_items_are_non_null_scalar(shapes, node, seen) THEN "sequence"
                      ELSE "unsupported" : t \in node.types})
          [] OTHER -> Unsupported
  IN  shapes[root, {}]

Shapes(slot, node) == _parameter_schema_shapes(slot.defs, node)
Read(slot) == [f \in DOMAIN slot.fields |-> slot.fields[f].read]
Written(slot) == [f \in {slot.fields[g].writtenAs : g \in DOMAIN slot.fields} |->
                    (CHOOSE g \in DOMAIN slot.fields : slot.fields[g].writtenAs = f)]
RequiredFields(slot) == {f \in DOMAIN slot.fields : slot.fields[f].required}

_request_parameter_wire_name(location, f) == IF location = "header" THEN WireName[f] ELSE f

(* One mode of the type: its fields have text at this location.            *)
_request_parameter_fields_in_schema(slot, nodes, location, checkNullable) ==
  /\ slot.object /\ ~slot.extra
  /\ location = "header" =>
       /\ \A f \in DOMAIN nodes : WireName[f] \in HeaderNames \ ReservedRequest
       /\ \A f, g \in DOMAIN nodes : WireName[f] = WireName[g] => f = g
  /\ \A f \in DOMAIN nodes :
       LET shapes == Shapes(slot, nodes[f])
       IN  /\ shapes \in (SUBSET {"scalar", "sequence", "null"}) \ {{}}
           /\ ("scalar" \in shapes) # ("sequence" \in shapes)
           /\ location # "query" => "scalar" \in shapes
           /\ checkNullable /\ "null" \in shapes => location # "path" /\ f \notin RequiredFields(slot)

(* Both modes, under the same names and of the same shape.                 *)
_request_parameter_fields(slot, location) ==
  /\ _request_parameter_fields_in_schema(slot, Read(slot), location, TRUE)
  /\ _request_parameter_fields_in_schema(slot, [f \in DOMAIN Written(slot) |-> slot.fields[Written(slot)[f]].write], location, FALSE)
  /\ {_request_parameter_wire_name(location, f) : f \in DOMAIN slot.fields}
       = {_request_parameter_wire_name(location, f) : f \in DOMAIN Written(slot)}
  /\ \A f \in DOMAIN slot.fields : \E g \in DOMAIN Written(slot) :
       /\ _request_parameter_wire_name(location, f) = _request_parameter_wire_name(location, g)
       /\ Shapes(slot, slot.fields[f].read) \ {"null"} = Shapes(slot, slot.fields[Written(slot)[g]].write) \ {"null"}

_query_parameter_is_sequence(slot, f) == "sequence" \in Shapes(slot, slot.fields[f].read)

_response_header_fields(slot) ==
  /\ slot.object /\ ~slot.extra
  /\ DOMAIN Written(slot) = DOMAIN slot.fields
  /\ \A f \in DOMAIN slot.fields :
       LET shapes == Shapes(slot, slot.fields[f].write)
       IN  /\ WireName[f] \in HeaderNames \ ReservedResponse
           /\ shapes \in {{"scalar"}, {"scalar", "null"}, {"null"}}
           /\ f \in RequiredFields(slot) => "null" \notin shapes
  /\ \A f, g \in DOMAIN slot.fields : WireName[f] = WireName[g] => f = g

----------------------------------------------------------------------------
(* Media types: an essence and the parameters declared for it.             *)
is_json_media_type(m) == m.essence = "json"
is_text_media_type(m) == m.essence = "text"
Charset(m) == {p \in m.parameters : p[1] = "charset"}
text_charset(m) == IF Charset(m) = {} THEN "utf8" ELSE (CHOOSE p \in Charset(m) : TRUE)[2]
validate_media_type(m) == Charset(m) # {} \/ is_text_media_type(m) => text_charset(m) \in Codecs
media_type_matches(declared, actual) ==
  /\ actual.essence = declared.essence
  /\ declared.parameters \subseteq actual.parameters

(* What values an annotation's root may have; {"unknown"} if only a run    *)
(* can tell: a dynamic annotation, a functional validator.                 *)
_root_body_kinds(root) ==
  LET kinds[note \in Notes] ==
        CASE note.kind = "union" ->
               LET members == UNION {kinds[member] : member \in note.of}
               IN  IF "unknown" \in members THEN {"unknown"} ELSE members
          [] note.kind = "literal" -> {IF v.py \in {"str", "bytes", "none"} THEN v.py ELSE "other" : v \in note.values}
          [] note.kind \in {"alias", "newtype"} -> kinds[note.of]
          [] note.kind = "annotated" -> IF note.custom THEN {"unknown"} ELSE kinds[note.of]
          [] note.kind = "type" -> {note.of}
          [] OTHER -> {"unknown"}
  IN  kinds[root]

validate_body_media_type(note, m, ofResponse) ==
  LET kinds == _root_body_kinds(note)
      optional == IF ofResponse THEN {} ELSE {"none"}
  IN  \/ "unknown" \in kinds
      \/ CASE is_json_media_type(m) -> ofResponse => "bytes" \notin kinds
           [] is_text_media_type(m) -> kinds \subseteq {"str"} \cup optional
           [] OTHER -> kinds \subseteq {"str", "bytes"} \cup optional
=============================================================================
