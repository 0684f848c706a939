------------------------ MODULE SchemaCompatibility ------------------------
(***************************************************************************)
(* The directional comparison of two JSON Schemas, and what a schema says  *)
(* of a value.  A schema is a record of the keywords it has: "type",       *)
(* "required", "enum" and "anyOf" are sets, "oneOf" a bag, "properties" a  *)
(* function of names, "pattern" the lengths of the strings it matches,     *)
(* "additionalProperties" [open] or [schema], "$ref" the name of a         *)
(* definition.  "title" stands for every keyword that is only metadata,    *)
(* "not" for every keyword the comparison does not know.                   *)
(***************************************************************************)
EXTENDS Integers, Sequences, FiniteSets

CONSTANTS
  Schemas,         \* what documents are made of, with the schemas inside
  Registries,      \* the definitions a document can have: functions from names to schemas
  Values,          \* the JSON values of the reference, with those inside
  Height,          \* Height[<<document, s, v>>]: how deep validating v against s descends
  RecursionLimit   \* calls that Python lets nest; one more raises RecursionError

ASSUME RecursionLimitAssumption == RecursionLimit \in Nat

(* A JSON value: a number or the length of a string, the items of an       *)
(* array, the fields of an object.                                         *)
Value(kind, num, items, fields) == [kind |-> kind, num |-> num, items |-> items, fields |-> fields]
Scalar(kind, num) == Value(kind, num, <<>>, <<>>)

_LOWER_BOUNDS == {"minimum", "minLength", "minItems"}
_UPPER_BOUNDS == {"maximum", "maxLength"}
_OPAQUE_RESTRICTIONS == {"pattern"}
_SCHEMA_METADATA == {"title"}
_SCHEMA_KNOWN ==
  {"ref", "type", "enum", "const", "properties", "required", "items", "additionalProperties",
   "anyOf", "oneOf", "default"} \cup _SCHEMA_METADATA \cup _LOWER_BOUNDS \cup _UPPER_BOUNDS \cup _OPAQUE_RESTRICTIONS

Has(s, key) == key \in DOMAIN s
Field(s, key, default) == IF Has(s, key) THEN s[key] ELSE default

(* Python's ==, for which True is 1: how fields of documents are compared. *)
Loosely(v) == IF v.kind = "boolean" THEN [v EXCEPT !.kind = "integer"] ELSE v
PyEqual(key, x, y) ==
  CASE key = "enum" -> {Loosely(v) : v \in x} = {Loosely(v) : v \in y} /\ Cardinality(x) = Cardinality(y)
    [] key \in {"const", "default"} -> Loosely(x) = Loosely(y)
    [] OTHER -> x = y

_field_changed(before, after, key) ==
  \/ Has(before, key) # Has(after, key)
  \/ Has(before, key) /\ ~ PyEqual(key, before[key], after[key])

AnyChanged(before, after, keys) == \E key \in keys : _field_changed(before, after, key)

-----------------------------------------------------------------------------
(* What a schema refers to.  Two values that are written the same, and     *)
(* whose definitions are the same all the way down, expand to the same.    *)
Subschemas(s) ==
  Field(s, "anyOf", {}) \cup DOMAIN Field(s, "oneOf", <<>>)
  \cup {Field(s, "properties", <<>>)[name] : name \in DOMAIN Field(s, "properties", <<>>)}
  \cup (IF Has(s, "items") THEN {s.items} ELSE {})
  \cup (IF Has(s, "additionalProperties") /\ Has(s.additionalProperties, "schema")
        THEN {s.additionalProperties.schema} ELSE {})

Inside(document, s) ==
  Subschemas(s) \cup (IF Has(s, "ref") /\ s.ref \in DOMAIN document THEN {document[s.ref]} ELSE {})

Reached(document, schemas) ==
  LET reached[n \in Nat] ==
        IF n = 0 THEN schemas
        ELSE LET known == reached[n - 1] IN known \cup UNION {Inside(document, s) : s \in known}
  IN  reached[RecursionLimit]

_expanded_value_same(baseline, current, before, after) ==
  /\ before = after
  /\ \A s \in Reached(baseline, before) :
       /\ Inside(baseline, s) \subseteq Reached(baseline, before)
       /\ Has(s, "ref") =>
            /\ s.ref \in DOMAIN baseline <=> s.ref \in DOMAIN current
            /\ s.ref \in DOMAIN baseline => baseline[s.ref] = current[s.ref]

-----------------------------------------------------------------------------
(* Severities.  A restriction that tightens is breaking for what the       *)
(* application takes in, and safe for what it gives out.                   *)
_classify_restriction(direction, tightened) ==
  IF (direction = "input") = tightened THEN {"breaking"} ELSE {"additive"}

_classify_set(direction, before, after) ==
  IF before = after THEN {}
  ELSE IF before \ after # {} /\ after \ before # {} THEN {"breaking"}
  ELSE _classify_restriction(direction, before \ after # {})

_compare_set(direction, before, after, key) ==
  IF ~ _field_changed(before, after, key) THEN {}
  ELSE IF ~ Has(before, key) THEN _classify_restriction(direction, TRUE)
  ELSE IF ~ Has(after, key) THEN _classify_restriction(direction, FALSE)
  ELSE _classify_set(direction, before[key], after[key])

_compare_const(direction, before, after) ==
  IF ~ _field_changed(before, after, "const") THEN {}
  ELSE IF Has(before, "const") /\ Has(after, "const") THEN {"breaking"}
  ELSE _classify_restriction(direction, Has(after, "const"))

_compare_bound_AllLower(direction, before, after, key) ==
  IF ~ _field_changed(before, after, key) THEN {}
  ELSE _classify_restriction(direction, ~ Has(before, key) \/ (Has(after, key) /\ after[key] > before[key]))

_compare_bound(direction, before, after, key) ==
  IF ~ _field_changed(before, after, key) THEN {}
  ELSE _classify_restriction(direction,
         \/ ~ Has(before, key)
         \/ Has(after, key) /\ IF key \in _LOWER_BOUNDS THEN after[key] > before[key] ELSE after[key] < before[key])

_compare_opaque(direction, before, after, key) ==
  IF ~ _field_changed(before, after, key) THEN {}
  ELSE IF Has(before, key) /\ Has(after, key) THEN {"unknown"}
  ELSE _classify_restriction(direction, Has(after, key))

_compare_oneOf(baseline, current, before, after) ==
  LET b == Field(before, "oneOf", <<>>)
      a == Field(after, "oneOf", <<>>) IN
  IF /\ Has(before, "oneOf") = Has(after, "oneOf")
     /\ b = a
     /\ _expanded_value_same(baseline, current, DOMAIN b, DOMAIN a)
  THEN {} ELSE {"unknown"}

(* Properties that came, went, or changed whether they are required.       *)
_compare_names(direction, before, after) ==
  LET b == DOMAIN Field(before, "properties", <<>>)
      a == DOMAIN Field(after, "properties", <<>>)
      required_b == Field(before, "required", {})
      required_a == Field(after, "required", {})
      settled == (required_b \cup required_a) \ ((b \ a) \cup (a \ b)) IN
  {IF direction = "output" \/ name \in required_a THEN "breaking" ELSE "additive" : name \in a \ b}
  \cup {"breaking" : name \in b \ a}
  \cup (UNION {_classify_restriction(direction, TRUE) : name \in settled \cap (required_a \ required_b)})
  \cup UNION {_classify_restriction(direction, FALSE) : name \in settled \cap (required_b \ required_a)}

Properties(s) == Field(s, "properties", <<>>)
More(s) == Field(s, "additionalProperties", [open |-> TRUE])

(* One call of compare, without the calls it makes.                        *)
compare(direction, baseline, current, before, after) ==
  LET keys == DOMAIN before \cup DOMAIN after IN
  IF "ref" \in keys
  THEN (IF AnyChanged(before, after, keys \ {"ref"})
           \/ ~ _expanded_value_same(baseline, current, Subschemas(before), Subschemas(after))
        THEN {"unknown"} ELSE {})
       \cup (IF _field_changed(before, after, "ref") THEN {"breaking"}
             ELSE IF before.ref \notin DOMAIN baseline \cap DOMAIN current THEN {"unknown"} ELSE {})
  ELSE (IF AnyChanged(before, after, _SCHEMA_METADATA) THEN {"metadata"} ELSE {})
       \cup (UNION {_compare_set(direction, before, after, key) : key \in {"type", "enum"}})
       \cup _compare_const(direction, before, after)
       \cup (IF Has(before, "anyOf") # Has(after, "anyOf") THEN {"unknown"}
             ELSE _classify_set(direction, Field(before, "anyOf", {}), Field(after, "anyOf", {})))
       \cup _compare_oneOf(baseline, current, before, after)
       \cup _compare_names(direction, before, after)
       \cup (IF Has(before, "items") # Has(after, "items") THEN {"unknown"} ELSE {})
       \cup (UNION {_compare_bound(direction, before, after, key) : key \in _LOWER_BOUNDS \cup _UPPER_BOUNDS})
       \cup (UNION {_compare_opaque(direction, before, after, key) : key \in _OPAQUE_RESTRICTIONS})
       \cup (IF More(before) = More(after) \/ (Has(More(before), "schema") /\ Has(More(after), "schema")) THEN {}
             ELSE IF Has(More(before), "schema") \/ Has(More(after), "schema") THEN {"unknown"}
             ELSE _classify_restriction(direction, More(before).open))
       \cup (IF ~ _field_changed(before, after, "default") THEN {}
             ELSE IF direction = "input" THEN {"breaking"} ELSE {"unknown"})
       \cup (IF AnyChanged(before, after, keys \ _SCHEMA_KNOWN) THEN {"unknown"} ELSE {})

(* The calls it makes: what it compares next.                              *)
Calls(baseline, current, before, after) ==
  IF Has(before, "ref") \/ Has(after, "ref")
  THEN IF _field_changed(before, after, "ref") \/ before.ref \notin DOMAIN baseline \cap DOMAIN current THEN {}
       ELSE {<<baseline[before.ref], current[before.ref]>>}
  ELSE {<<s, s>> : s \in Field(before, "anyOf", {}) \cap Field(after, "anyOf", {})}
       \cup {<<Properties(before)[name], Properties(after)[name]>> :
               name \in DOMAIN Properties(before) \cap DOMAIN Properties(after)}
       \cup (IF Has(before, "items") /\ Has(after, "items") THEN {<<before.items, after.items>>} ELSE {})
       \cup (IF Has(More(before), "schema") /\ Has(More(after), "schema")
             THEN {<<More(before).schema, More(after).schema>>} ELSE {})

(* All the calls of a comparison.  References that were visited are not    *)
(* followed again: the calls are a set, and a document that refers to      *)
(* itself has an end.                                                      *)
Visited(baseline, current, before, after) ==
  LET visited[n \in Nat] ==
        IF n = 0 THEN {<<before, after>>}
        ELSE LET known == visited[n - 1] IN
             known \cup UNION {Calls(baseline, current, pair[1], pair[2]) : pair \in known}
  IN  visited[RecursionLimit]

(* A document here is the registry of its definitions.  A comparison that  *)
(* nests too deep raises, which no more lets a change pass than one that   *)
(* is unknown.                                                             *)
Ended(baseline, current, visited) ==
  \A pair \in visited : Calls(baseline, current, pair[1], pair[2]) \subseteq visited

compare_schema(before, after, direction, baseline, current) ==
  LET visited == Visited(baseline, current, before, after) IN
  (UNION {compare(direction, baseline, current, pair[1], pair[2]) : pair \in visited})
  \cup (IF Ended(baseline, current, visited) THEN {} ELSE {"unknown"})

-----------------------------------------------------------------------------
(* What contracts read off a header's schema: the types its values can     *)
(* have (None when that cannot be told), and whether they are never empty. *)
_json_value_type(v) == v.kind

Alternatives(s) == IF Field(s, "anyOf", {}) # {} THEN s.anyOf ELSE DOMAIN Field(s, "oneOf", <<>>)

_schema_json_types(root, schema) ==
  LET types[n \in Nat] ==
        [s \in Schemas |->
           IF n = 0 THEN {"unknown"}
           ELSE IF Has(s, "ref") THEN IF s.ref \in DOMAIN root THEN types[n - 1][root[s.ref]] ELSE {"unknown"}
           ELSE IF Alternatives(s) # {} THEN UNION {types[n - 1][c] : c \in Alternatives(s)}
           ELSE IF Has(s, "type") THEN s.type
           ELSE IF Has(s, "const") THEN {_json_value_type(s.const)}
           ELSE IF Field(s, "enum", {}) # {} THEN {_json_value_type(v) : v \in s.enum}
           ELSE {"unknown"}]
  IN  types[RecursionLimit][schema]

_schema_directly_requires_non_empty_string(s) ==
  IF Has(s, "minLength") /\ s.minLength >= 1 THEN TRUE
  ELSE IF Has(s, "const") /\ s.const.kind = "string" THEN s.const.num > 0
  ELSE /\ Field(s, "enum", {}) # {}
       /\ \A v \in s.enum : v.kind = "string" /\ v.num > 0

_schema_requires_non_empty_string(root, schema) ==
  LET requires[n \in Nat] ==
        [s \in Schemas |->
           /\ n > 0
           /\ \/ _schema_directly_requires_non_empty_string(s)
              \/ Has(s, "ref") /\ s.ref \in DOMAIN root /\ requires[n - 1][root[s.ref]]
              \/ Alternatives(s) # {} /\ \A c \in Alternatives(s) : requires[n - 1][c]]
  IN  requires[RecursionLimit][schema]

-----------------------------------------------------------------------------
(* The reference: which values a schema admits.  The values that a program *)
(* written from a document sends or reads are those the document says      *)
(* something of: declared properties, or those of a map with a schema.     *)
Validates(admitted, document, s, v) ==
  /\ Has(s, "ref") => s.ref \in DOMAIN document /\ admitted[<<document, document[s.ref], v>>]
  /\ Has(s, "type") => v.kind \in s.type \/ (v.kind = "integer" /\ "number" \in s.type)
  /\ Has(s, "enum") => v \in s.enum
  /\ Has(s, "const") => v = s.const
  /\ v.kind = "integer" => /\ v.num >= Field(s, "minimum", v.num)
                           /\ v.num <= Field(s, "maximum", v.num)
  /\ v.kind = "string" => /\ v.num >= Field(s, "minLength", v.num)
                          /\ v.num <= Field(s, "maxLength", v.num)
                          /\ v.num \in Field(s, "pattern", {v.num})
  /\ v.kind = "array" => /\ Len(v.items) >= Field(s, "minItems", 0)
                         /\ Has(s, "items") => \A i \in DOMAIN v.items : admitted[<<document, s.items, v.items[i]>>]
  /\ v.kind = "object" =>
       /\ Field(s, "required", {}) \subseteq DOMAIN v.fields
       /\ \A n \in DOMAIN v.fields :
            IF n \in DOMAIN Properties(s) THEN admitted[<<document, Properties(s)[n], v.fields[n]>>]
            ELSE IF Has(More(s), "schema") THEN admitted[<<document, More(s).schema, v.fields[n]>>] ELSE More(s).open
  /\ Has(s, "anyOf") => \E c \in s.anyOf : admitted[<<document, c, v>>]
  /\ Has(s, "oneOf") => \E c \in DOMAIN s.oneOf :
                           /\ s.oneOf[c] = 1
                           /\ admitted[<<document, c, v>>]
                           /\ \A other \in DOMAIN s.oneOf \ {c} : ~ admitted[<<document, other, v>>]

Admitted[x \in Registries \X Schemas \X Values] == Validates(Admitted, x[1], x[2], x[3])
Admits(document, s, v) == Admitted[<<document, s, v>>]

SaysSomethingOf(declared, document, s, v) ==
  /\ Has(s, "ref") => s.ref \in DOMAIN document /\ declared[<<document, document[s.ref], v>>]
  /\ v.kind = "array" /\ Has(s, "items") => \A i \in DOMAIN v.items : declared[<<document, s.items, v.items[i]>>]
  /\ v.kind = "object" /\ (Has(s, "properties") \/ Has(s, "type")) =>
       \A n \in DOMAIN v.fields :
         IF n \in DOMAIN Properties(s) THEN declared[<<document, Properties(s)[n], v.fields[n]>>]
         ELSE Has(More(s), "schema") /\ declared[<<document, More(s).schema, v.fields[n]>>]
  /\ Has(s, "anyOf") => \E c \in s.anyOf : Admits(document, c, v) /\ declared[<<document, c, v>>]
  /\ Has(s, "oneOf") => \E c \in DOMAIN s.oneOf : Admits(document, c, v) /\ declared[<<document, c, v>>]

Declared[x \in Registries \X Schemas \X Values] == SaysSomethingOf(Declared, x[1], x[2], x[3])
Declares(document, s, v) == Declared[<<document, s, v>>]

Speaks(document, s, v) == Admits(document, s, v) /\ Declares(document, s, v)

-----------------------------------------------------------------------------
(* What the constants are.                                                 *)
BoundKeys == _LOWER_BOUNDS \cup _UPPER_BOUNDS

ASSUME ValuesAssumption ==
  \A v \in Values :
    /\ v.num \in Int
    /\ v.items \in Seq(Values)
    /\ \A n \in DOMAIN v.fields : v.fields[n] \in Values

(* As Pydantic writes them: what names properties is an object and says    *)
(* so, and is a record or a map, not both.                                 *)
ASSUME SchemasAssumption ==
  \A s \in Schemas :
    /\ Subschemas(s) \subseteq Schemas
    /\ \A key \in BoundKeys : Has(s, key) => s[key] \in Int
    /\ Has(More(s), "schema") \/ (Has(More(s), "open") /\ More(s).open \in BOOLEAN)
    /\ Has(s, "properties") \/ Has(More(s), "schema") => Has(s, "type")
    /\ Has(More(s), "schema") => DOMAIN Properties(s) = {}

(* Constants and enumerations that Python cannot tell apart, true from 1,  *)
(* have types that it can.                                                 *)
ASSUME LooseEqualityAssumption ==
  \A s, t \in Schemas : \A key \in {"enum", "const"} :
    Has(s, key) /\ Has(t, key) /\ s[key] # t[key] /\ PyEqual(key, s[key], t[key]) =>
      /\ Has(s, "type") /\ Has(t, "type")
      /\ s.type # {} /\ t.type # {} /\ s.type \cap t.type = {}

ASSUME RegistriesAssumption ==
  \A document \in Registries : \A name \in DOMAIN document : document[name] \in Schemas

(* Validation ends: no definition is, or may be, itself.                   *)
Consulted(document, s, v) ==
  {<<t, v>> : t \in (IF Has(s, "ref") /\ s.ref \in DOMAIN document THEN {document[s.ref]} ELSE {})
                    \cup Field(s, "anyOf", {}) \cup DOMAIN Field(s, "oneOf", <<>>)}
  \cup (IF Has(s, "items") THEN {<<s.items, v.items[i]>> : i \in DOMAIN v.items} ELSE {})
  \cup {<<Properties(s)[n], v.fields[n]>> : n \in DOMAIN Properties(s) \cap DOMAIN v.fields}
  \cup (IF Has(More(s), "schema") THEN {<<More(s).schema, v.fields[n]>> : n \in DOMAIN v.fields} ELSE {})

ASSUME HeightAssumption ==
  \A document \in Registries, s \in Schemas, v \in Values :
    /\ Height[<<document, s, v>>] \in Nat
    /\ \A next \in Consulted(document, s, v) : Height[<<document, next[1], next[2]>>] < Height[<<document, s, v>>]
=============================================================================
