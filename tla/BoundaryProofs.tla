--------------------------- MODULE BoundaryProofs ---------------------------
(***************************************************************************)
(* Proofs about Boundary: what a compatible comparison of two schemas says *)
(* of the values they admit, for any documents, recursive or not, and what *)
(* a chain of compatible releases of any length keeps of its first.        *)
(***************************************************************************)
EXTENDS Boundary, FiniteSetTheorems, SequenceTheorems, WellFoundedInduction, TLAPS

-----------------------------------------------------------------------------
(* Recursion.  Every set of naturals has a least: what stands for          *)
(* induction here.                                                         *)
LEMMA LeastNumber ==
  ASSUME NEW T, T \subseteq Nat, T # {}
  PROVE  \E n \in T : \A m \in T : n <= m
<1>1. PICK n \in T : \A m \in T : ~(<<m, n>> \in OpToRel(<, Nat))
  <2> DEFINE R == OpToRel(<, Nat)
  <2>1. IsWellFoundedOn(R, Nat)
    BY NatLessThanWellFounded
  <2> HIDE DEF R
  <2>2. \E n \in T : \A m \in T : ~(<<m, n>> \in R)
    BY <2>1, WFMin
  <2>q. QED
    BY <2>2 DEF R
<1>2. \A m \in T : ~(m < n)
  BY <1>1 DEF OpToRel
<1>q. QED
  BY <1>2

(* One step of a recursion whose arguments go down in rank; and a function *)
(* that keeps to it wherever the rank is below n.                          *)
IsRank(D, rank) == \A x \in D : rank[x] \in Nat

IsStep(G, D, R, rank) ==
  /\ IsRank(D, rank)
  /\ \A x \in D, f \in [D -> R] : G[x][f] \in R
  /\ \A x \in D : \A f, g \in [D -> R] :
       (\A y \in D : rank[y] < rank[x] => f[y] = g[y]) => G[x][f] = G[x][g]

Below(G, D, R, rank, n, f) ==
  f \in [D -> R] /\ \A x \in D : rank[x] < n => f[x] = G[x][f]

(* Such functions agree where both keep to the recursion.                  *)
LEMMA BelowAgree ==
  ASSUME NEW G, NEW D, NEW R, NEW rank, IsStep(G, D, R, rank),
         NEW n \in Nat, NEW f, Below(G, D, R, rank, n, f),
         NEW m \in Nat, NEW g, Below(G, D, R, rank, m, g), n <= m
  PROVE  \A x \in D : rank[x] < n => f[x] = g[x]
<1> DEFINE Bad == {rank[x] : x \in {y \in D : rank[y] < n /\ f[y] # g[y]}}
<1>1. SUFFICES ASSUME Bad # {} PROVE FALSE
  OBVIOUS
<1>2. PICK k \in Bad : \A j \in Bad : k <= j
  <2>1. Bad \subseteq Nat
    BY DEF IsStep, IsRank
  <2> HIDE DEF Bad
  <2>q. QED
    BY <1>1, <2>1, LeastNumber
<1>3. PICK x \in D : rank[x] = k /\ rank[x] < n /\ f[x] # g[x]
  BY <1>2
<1>4. ASSUME NEW y \in D, rank[y] < rank[x] PROVE f[y] = g[y]
  <2>1. rank[y] \in Nat /\ rank[x] \in Nat
    BY DEF IsStep, IsRank
  <2>2. SUFFICES ASSUME f[y] # g[y] PROVE FALSE
    OBVIOUS
  <2>3. rank[y] \in Bad
    BY <1>3, <1>4, <2>1, <2>2
  <2>q. QED
    BY <1>2, <1>3, <1>4, <2>1, <2>3
<1>5. f[x] = G[x][f] /\ g[x] = G[x][g]
  <2>1. rank[x] \in Nat
    BY DEF IsStep, IsRank
  <2>2. rank[x] < m
    BY <1>3, <2>1
  <2>q. QED
    BY <1>3, <2>2 DEF Below
<1>6. f \in [D -> R] /\ g \in [D -> R]
  BY DEF Below
<1>q. QED
  BY <1>3, <1>4, <1>5, <1>6 DEF IsStep

(* A recursion can be followed to any rank.                                *)
LEMMA BelowIs ==
  ASSUME NEW G, NEW D, NEW R, R # {}, NEW rank, IsStep(G, D, R, rank), NEW n \in Nat
  PROVE  \E f : Below(G, D, R, rank, n, f)
<1> DEFINE Endless == {m \in Nat : ~ \E f : Below(G, D, R, rank, m, f)}
<1>1. SUFFICES ASSUME Endless # {} PROVE FALSE
  OBVIOUS
<1>2. PICK m \in Endless : \A k \in Endless : m <= k
  <2>1. Endless \subseteq Nat
    OBVIOUS
  <2> HIDE DEF Endless
  <2>q. QED
    BY <1>1, <2>1, LeastNumber
<1>3. CASE m = 0
  <2>1. PICK r \in R : TRUE
    OBVIOUS
  <2>2. [x \in D |-> r] \in [D -> R]
    OBVIOUS
  <2>3. \A x \in D : ~(rank[x] < 0)
    <3>1. IsRank(D, rank)
      BY DEF IsStep
    <3>q. QED
      BY <3>1 DEF IsRank
  <2>4. Below(G, D, R, rank, 0, [x \in D |-> r])
    BY <2>2, <2>3 DEF Below
  <2>q. QED
    BY <1>3, <2>4
<1>4. CASE m # 0
  <2>1. m \in Nat /\ m - 1 \in Nat /\ m - 1 \notin Endless
    BY <1>2, <1>4
  <2>2. PICK f : Below(G, D, R, rank, m - 1, f)
    BY <2>1
  <2>3. f \in [D -> R]
    BY <2>2 DEF Below
  <2> DEFINE g == [x \in D |-> G[x][f]]
  <2>4. g \in [D -> R]
    BY <2>3 DEF IsStep
  <2>5. ASSUME NEW x \in D, rank[x] < m PROVE g[x] = G[x][g]
    <3>1. ASSUME NEW y \in D, rank[y] < rank[x] PROVE f[y] = g[y]
      <4>1. rank[y] < m - 1
        <5>1. IsRank(D, rank)
          BY DEF IsStep
        <5>2. rank[x] \in Nat /\ rank[y] \in Nat
          BY <5>1 DEF IsRank
        <5>q. QED
          BY <2>1, <2>5, <3>1, <5>2
      <4>q. QED
        BY <2>2, <4>1 DEF Below
    <3> HIDE DEF g
    <3>2. G[x][f] = G[x][g]
      BY <2>3, <2>4, <3>1 DEF IsStep
    <3>q. QED
      BY <3>2 DEF g
  <2>6. Below(G, D, R, rank, m, g)
    <3> HIDE DEF g
    <3>q. QED
      BY <2>4, <2>5 DEF Below
  <2>q. QED
    BY <1>2, <2>6
<1>q. QED
  BY <1>3, <1>4

(* A recursion that goes down in rank defines a function.                  *)
LEMMA RecursionDefines ==
  ASSUME NEW G, NEW D, NEW R, R # {}, NEW rank, IsStep(G, D, R, rank)
  PROVE  \E f \in [D -> R] : \A x \in D : f[x] = G[x][f]
<1> DEFINE upto == [n \in Nat |-> CHOOSE f : Below(G, D, R, rank, n, f)]
           h == [x \in D |-> upto[rank[x] + 1][x]]
<1>1. \A n \in Nat : Below(G, D, R, rank, n, upto[n])
  <2> TAKE n \in Nat
  <2>1. \E f : Below(G, D, R, rank, n, f)
    BY BelowIs
  <2>q. QED
    BY <2>1
<1> HIDE DEF upto
<1>2. \A x \in D : rank[x] \in Nat /\ rank[x] + 1 \in Nat
  <2>1. IsRank(D, rank)
    BY DEF IsStep
  <2>q. QED
    BY <2>1 DEF IsRank
<1>3. h \in [D -> R]
  BY <1>1, <1>2 DEF Below
<1>4. ASSUME NEW x \in D PROVE h[x] = G[x][h]
  <2> DEFINE f == upto[rank[x] + 1]
  <2>1. Below(G, D, R, rank, rank[x] + 1, f)
    BY <1>1, <1>2
  <2>2. ASSUME NEW y \in D, rank[y] < rank[x] PROVE f[y] = h[y]
    <3>1. Below(G, D, R, rank, rank[y] + 1, upto[rank[y] + 1])
      BY <1>1, <1>2
    <3>2. rank[y] + 1 <= rank[x] + 1 /\ rank[y] < rank[y] + 1
      BY <1>2, <2>2
    <3> HIDE DEF f
    <3>3. upto[rank[y] + 1][y] = f[y]
      BY <1>2, <2>1, <3>1, <3>2, BelowAgree
    <3>q. QED
      BY <3>3
  <2>3. f[x] = h[x] /\ f \in [D -> R]
    BY <2>1 DEF Below
  <2>4. f[x] = G[x][f]
    <3>1. rank[x] < rank[x] + 1
      BY <1>2
    <3> HIDE DEF f
    <3>q. QED
      BY <2>1, <3>1 DEF Below
  <2> HIDE DEF f, h
  <2>5. G[x][f] = G[x][h]
    BY <1>3, <2>2, <2>3 DEF IsStep
  <2>q. QED
    BY <2>3, <2>4, <2>5
<1> HIDE DEF h
<1>q. QED
  BY <1>3, <1>4

-----------------------------------------------------------------------------
(* What validating a value against a schema goes on to validate, and lower *)
(* (Validates, SaysSomethingOf).                                           *)
LEMMA ConsultedAre ==
  ASSUME NEW document \in Registries, NEW s \in Schemas, NEW v \in Values
  PROVE  /\ Has(s, "ref") /\ s.ref \in DOMAIN document => <<document[s.ref], v>> \in Consulted(document, s, v)
         /\ Has(s, "anyOf") => \A c \in s.anyOf : <<c, v>> \in Consulted(document, s, v)
         /\ Has(s, "oneOf") => \A c \in DOMAIN s.oneOf : <<c, v>> \in Consulted(document, s, v)
         /\ Has(s, "items") => \A i \in DOMAIN v.items : <<s.items, v.items[i]>> \in Consulted(document, s, v)
         /\ \A n \in DOMAIN v.fields : n \in DOMAIN Properties(s) =>
              <<Properties(s)[n], v.fields[n]>> \in Consulted(document, s, v)
         /\ \A n \in DOMAIN v.fields : Has(More(s), "schema") =>
              <<More(s).schema, v.fields[n]>> \in Consulted(document, s, v)
  BY DEF Consulted, Field, Has

(* All of it is of schemas and values.                                     *)
LEMMA ConsultedIn ==
  ASSUME NEW document \in Registries, NEW s \in Schemas, NEW v \in Values
  PROVE  \A next \in Consulted(document, s, v) :
           /\ next = <<next[1], next[2]>>
           /\ next[1] \in Schemas /\ next[2] \in Values
<1>1. \A t \in Subschemas(s) : t \in Schemas
  BY SchemasAssumption
<1>2. Has(s, "ref") /\ s.ref \in DOMAIN document => document[s.ref] \in Schemas
  BY RegistriesAssumption
<1>3. \A t \in Field(s, "anyOf", {}) \cup DOMAIN Field(s, "oneOf", <<>>) : t \in Schemas
  BY <1>1 DEF Subschemas
<1>4. Has(s, "items") => s.items \in Schemas
  BY <1>1 DEF Subschemas
<1>5. \A n \in DOMAIN Properties(s) : Properties(s)[n] \in Schemas
  BY <1>1 DEF Subschemas, Properties
<1>6. Has(More(s), "schema") => More(s).schema \in Schemas
  <2>1. SUFFICES ASSUME Has(More(s), "schema") PROVE More(s).schema \in Schemas
    OBVIOUS
  <2>2. Has(s, "additionalProperties") /\ More(s) = s.additionalProperties
    <3>1. ~ Has([open |-> TRUE], "schema")
      BY DEF Has
    <3>q. QED
      BY <2>1, <3>1 DEF More, Field
  <2>3. s.additionalProperties.schema \in Subschemas(s)
    BY <2>1, <2>2 DEF Subschemas
  <2>q. QED
    BY <1>1, <2>2, <2>3
<1>7. \A i \in DOMAIN v.items : v.items[i] \in Values
  <2>1. v.items \in Seq(Values)
    BY ValuesAssumption
  <2>q. QED
    BY <2>1
<1>8. \A n \in DOMAIN v.fields : v.fields[n] \in Values
  BY ValuesAssumption
<1>q. QED
  BY <1>2, <1>3, <1>4, <1>5, <1>6, <1>7, <1>8 DEF Consulted

Triples == Registries \X Schemas \X Values

(* The rank by which validation goes down (Height).                        *)
LEMMA HeightIsRank == IsRank(Triples, Height)
<1>1. SUFFICES ASSUME NEW x \in Triples PROVE Height[x] \in Nat
  BY DEF IsRank
<1>2. PICK document \in Registries, s \in Schemas, v \in Values : x = <<document, s, v>>
  BY DEF Triples
<1>q. QED
  BY <1>2, HeightAssumption

(* A reference that means the same in two documents.                       *)
SameRef(X, Y, s) ==
  Has(s, "ref") => /\ s.ref \in DOMAIN X <=> s.ref \in DOMAIN Y
                   /\ s.ref \in DOMAIN X => X[s.ref] = Y[s.ref]

(* Validation asks of what it goes on to validate, and of nothing else of  *)
(* the document.                                                           *)
LEMMA ValidatesAsks ==
  ASSUME NEW X \in Registries, NEW Y \in Registries, NEW s \in Schemas, NEW v \in Values, NEW f, NEW g,
         SameRef(X, Y, s),
         \A next \in Consulted(X, s, v) : f[<<X, next[1], next[2]>>] = g[<<Y, next[1], next[2]>>],
         Validates(f, X, s, v)
  PROVE  Validates(g, Y, s, v)
<1>1. Has(s, "ref") => s.ref \in DOMAIN Y /\ g[<<Y, Y[s.ref], v>>]
  <2>1. SUFFICES ASSUME Has(s, "ref") PROVE s.ref \in DOMAIN Y /\ g[<<Y, Y[s.ref], v>>]
    OBVIOUS
  <2>2. s.ref \in DOMAIN X /\ f[<<X, X[s.ref], v>>]
    BY <2>1 DEF Validates
  <2>3. f[<<X, X[s.ref], v>>] = g[<<Y, X[s.ref], v>>]
    BY <2>1, <2>2, ConsultedAre
  <2>4. s.ref \in DOMAIN Y /\ X[s.ref] = Y[s.ref]
    BY <2>1, <2>2 DEF SameRef
  <2>q. QED
    BY <2>2, <2>3, <2>4
<1>2. /\ Has(s, "type") => v.kind \in s.type \/ (v.kind = "integer" /\ "number" \in s.type)
      /\ Has(s, "enum") => v \in s.enum
      /\ Has(s, "const") => v = s.const
      /\ v.kind = "integer" => v.num >= Field(s, "minimum", v.num) /\ v.num <= Field(s, "maximum", v.num)
      /\ v.kind = "string" => /\ v.num >= Field(s, "minLength", v.num)
                              /\ v.num <= Field(s, "maxLength", v.num)
                              /\ v.num \in Field(s, "pattern", {v.num})
      /\ v.kind = "array" => Len(v.items) >= Field(s, "minItems", 0)
      /\ v.kind = "object" => Field(s, "required", {}) \subseteq DOMAIN v.fields
  BY DEF Validates
<1>3. v.kind = "array" /\ Has(s, "items") => \A i \in DOMAIN v.items : g[<<Y, s.items, v.items[i]>>]
  <2>1. SUFFICES ASSUME v.kind = "array", Has(s, "items"), NEW i \in DOMAIN v.items
                 PROVE  g[<<Y, s.items, v.items[i]>>]
    OBVIOUS
  <2>2. f[<<X, s.items, v.items[i]>>] = g[<<Y, s.items, v.items[i]>>]
    BY <2>1, ConsultedAre
  <2>3. f[<<X, s.items, v.items[i]>>]
    BY <2>1 DEF Validates
  <2>q. QED
    BY <2>2, <2>3
<1>4. ASSUME v.kind = "object", NEW n \in DOMAIN v.fields
      PROVE  IF n \in DOMAIN Properties(s) THEN g[<<Y, Properties(s)[n], v.fields[n]>>]
             ELSE IF Has(More(s), "schema") THEN g[<<Y, More(s).schema, v.fields[n]>>] ELSE More(s).open
  <2>1. n \in DOMAIN Properties(s) =>
          f[<<X, Properties(s)[n], v.fields[n]>>] = g[<<Y, Properties(s)[n], v.fields[n]>>]
    BY <1>4, ConsultedAre
  <2>2. Has(More(s), "schema") =>
          f[<<X, More(s).schema, v.fields[n]>>] = g[<<Y, More(s).schema, v.fields[n]>>]
    BY <1>4, ConsultedAre
  <2>3. IF n \in DOMAIN Properties(s) THEN f[<<X, Properties(s)[n], v.fields[n]>>]
        ELSE IF Has(More(s), "schema") THEN f[<<X, More(s).schema, v.fields[n]>>] ELSE More(s).open
    BY <1>4 DEF Validates
  <2>q. QED
    BY <2>1, <2>2, <2>3
<1>5. Has(s, "anyOf") => \E c \in s.anyOf : g[<<Y, c, v>>]
  <2>1. SUFFICES ASSUME Has(s, "anyOf") PROVE \E c \in s.anyOf : g[<<Y, c, v>>]
    OBVIOUS
  <2>2. PICK c \in s.anyOf : f[<<X, c, v>>]
    BY <2>1 DEF Validates
  <2>3. f[<<X, c, v>>] = g[<<Y, c, v>>]
    BY <2>1, ConsultedAre
  <2>q. QED
    BY <2>2, <2>3
<1>6. Has(s, "oneOf") => \E c \in DOMAIN s.oneOf :
                           /\ s.oneOf[c] = 1
                           /\ g[<<Y, c, v>>]
                           /\ \A other \in DOMAIN s.oneOf \ {c} : ~ g[<<Y, other, v>>]
  <2>1. SUFFICES ASSUME Has(s, "oneOf")
                 PROVE  \E c \in DOMAIN s.oneOf :
                           /\ s.oneOf[c] = 1
                           /\ g[<<Y, c, v>>]
                           /\ \A other \in DOMAIN s.oneOf \ {c} : ~ g[<<Y, other, v>>]
    OBVIOUS
  <2>2. \A c \in DOMAIN s.oneOf : f[<<X, c, v>>] = g[<<Y, c, v>>]
    BY <2>1, ConsultedAre
  <2>3. \E c \in DOMAIN s.oneOf :
                           /\ s.oneOf[c] = 1
                           /\ f[<<X, c, v>>]
                           /\ \A other \in DOMAIN s.oneOf \ {c} : ~ f[<<X, other, v>>]
    BY <2>1 DEF Validates
  <2>q. QED
    BY <2>2, <2>3
<1>q. QED
  BY <1>1, <1>2, <1>3, <1>4, <1>5, <1>6, Zenon DEF Validates

(* So validity is the recursion that Validates describes.                  *)
LEMMA AdmitsIs ==
  ASSUME NEW document \in Registries, NEW s \in Schemas, NEW v \in Values
  PROVE  /\ Admits(document, s, v) \in BOOLEAN
         /\ Admits(document, s, v) <=> Validates(Admitted, document, s, v)
<1> DEFINE G == [x \in Triples |-> [f \in [Triples -> BOOLEAN] |-> Validates(f, x[1], x[2], x[3])]]
<1>1. \A x \in Triples, f \in [Triples -> BOOLEAN] : G[x][f] = Validates(f, x[1], x[2], x[3])
  OBVIOUS
<1>2. \A x, f : Validates(f, x[1], x[2], x[3]) \in BOOLEAN
  BY DEF Validates
<1>3. ASSUME NEW x \in Triples, NEW f \in [Triples -> BOOLEAN], NEW g \in [Triples -> BOOLEAN],
             \A y \in Triples : Height[y] < Height[x] => f[y] = g[y]
      PROVE  Validates(f, x[1], x[2], x[3]) = Validates(g, x[1], x[2], x[3])
  <2>1. PICK d \in Registries, t \in Schemas, w \in Values : x = <<d, t, w>>
    BY DEF Triples
  <2>2. ASSUME NEW next \in Consulted(d, t, w)
        PROVE  f[<<d, next[1], next[2]>>] = g[<<d, next[1], next[2]>>]
    <3>1. <<d, next[1], next[2]>> \in Triples
      BY ConsultedIn DEF Triples
    <3>2. Height[<<d, next[1], next[2]>>] < Height[<<d, t, w>>]
      BY HeightAssumption
    <3>q. QED
      BY <1>3, <2>1, <3>1, <3>2
  <2>3. Validates(f, d, t, w) <=> Validates(g, d, t, w)
    BY <2>2, ValidatesAsks DEF SameRef
  <2>4. Validates(f, d, t, w) \in BOOLEAN /\ Validates(g, d, t, w) \in BOOLEAN
    BY DEF Validates
  <2>q. QED
    BY <2>1, <2>3, <2>4
<1> HIDE DEF G
<1>4. IsStep(G, Triples, BOOLEAN, Height)
  <2>1. ASSUME NEW x \in Triples, NEW f \in [Triples -> BOOLEAN] PROVE G[x][f] \in BOOLEAN
    BY <1>1, <1>2
  <2>2. ASSUME NEW x \in Triples, NEW f \in [Triples -> BOOLEAN], NEW g \in [Triples -> BOOLEAN],
               \A y \in Triples : Height[y] < Height[x] => f[y] = g[y]
        PROVE  G[x][f] = G[x][g]
    BY <1>1, <1>3, <2>2
  <2>q. QED
    BY <2>1, <2>2, HeightIsRank, Zenon DEF IsStep
<1>5. PICK h \in [Triples -> BOOLEAN] : \A x \in Triples : h[x] = G[x][h]
  <2>1. BOOLEAN # {}
    OBVIOUS
  <2>q. QED
    BY <1>4, <2>1, RecursionDefines
<1>6. h = [x \in Triples |-> Validates(h, x[1], x[2], x[3])]
  BY <1>1, <1>5
<1>7. Admitted = [x \in Triples |-> Validates(Admitted, x[1], x[2], x[3])]
  <2>1. Admitted = CHOOSE f : f = [x \in Triples |-> Validates(f, x[1], x[2], x[3])]
    BY DEF Admitted, Triples
  <2>q. QED
    BY <1>6, <2>1
<1>8. <<document, s, v>> \in Triples
  BY DEF Triples
<1>9. Admitted[<<document, s, v>>] = Validates(Admitted, document, s, v)
  BY <1>7, <1>8
<1>10. Validates(Admitted, document, s, v) \in BOOLEAN
  BY DEF Validates
<1>q. QED
  BY <1>9, <1>10 DEF Admits

-----------------------------------------------------------------------------
(* So does what a document says of a value.                                *)
LEMMA SayingAsks ==
  ASSUME NEW X \in Registries, NEW Y \in Registries, NEW s \in Schemas, NEW v \in Values, NEW f, NEW g,
         SameRef(X, Y, s),
         \A next \in Consulted(X, s, v) :
           /\ f[<<X, next[1], next[2]>>] = g[<<Y, next[1], next[2]>>]
           /\ Admits(X, next[1], next[2]) = Admits(Y, next[1], next[2]),
         SaysSomethingOf(f, X, s, v)
  PROVE  SaysSomethingOf(g, Y, s, v)
<1>1. Has(s, "ref") => s.ref \in DOMAIN Y /\ g[<<Y, Y[s.ref], v>>]
  <2>1. SUFFICES ASSUME Has(s, "ref") PROVE s.ref \in DOMAIN Y /\ g[<<Y, Y[s.ref], v>>]
    OBVIOUS
  <2>2. s.ref \in DOMAIN X /\ f[<<X, X[s.ref], v>>]
    BY <2>1 DEF SaysSomethingOf
  <2>3. f[<<X, X[s.ref], v>>] = g[<<Y, X[s.ref], v>>]
    BY <2>1, <2>2, ConsultedAre
  <2>4. s.ref \in DOMAIN Y /\ X[s.ref] = Y[s.ref]
    BY <2>1, <2>2 DEF SameRef
  <2>q. QED
    BY <2>2, <2>3, <2>4
<1>2. v.kind = "array" /\ Has(s, "items") => \A i \in DOMAIN v.items : g[<<Y, s.items, v.items[i]>>]
  <2>1. SUFFICES ASSUME v.kind = "array", Has(s, "items"), NEW i \in DOMAIN v.items
                 PROVE  g[<<Y, s.items, v.items[i]>>]
    OBVIOUS
  <2>2. f[<<X, s.items, v.items[i]>>] = g[<<Y, s.items, v.items[i]>>]
    BY <2>1, ConsultedAre
  <2>3. f[<<X, s.items, v.items[i]>>]
    BY <2>1 DEF SaysSomethingOf
  <2>q. QED
    BY <2>2, <2>3
<1>3. ASSUME v.kind = "object", Has(s, "properties") \/ Has(s, "type"), NEW n \in DOMAIN v.fields
      PROVE  IF n \in DOMAIN Properties(s) THEN g[<<Y, Properties(s)[n], v.fields[n]>>]
             ELSE Has(More(s), "schema") /\ g[<<Y, More(s).schema, v.fields[n]>>]
  <2>1. n \in DOMAIN Properties(s) =>
          f[<<X, Properties(s)[n], v.fields[n]>>] = g[<<Y, Properties(s)[n], v.fields[n]>>]
    BY <1>3, ConsultedAre
  <2>2. Has(More(s), "schema") =>
          f[<<X, More(s).schema, v.fields[n]>>] = g[<<Y, More(s).schema, v.fields[n]>>]
    BY <1>3, ConsultedAre
  <2>3. IF n \in DOMAIN Properties(s) THEN f[<<X, Properties(s)[n], v.fields[n]>>]
        ELSE Has(More(s), "schema") /\ f[<<X, More(s).schema, v.fields[n]>>]
    BY <1>3 DEF SaysSomethingOf
  <2>q. QED
    BY <2>1, <2>2, <2>3
<1>4. Has(s, "anyOf") => \E c \in s.anyOf : Admits(Y, c, v) /\ g[<<Y, c, v>>]
  <2>1. SUFFICES ASSUME Has(s, "anyOf") PROVE \E c \in s.anyOf : Admits(Y, c, v) /\ g[<<Y, c, v>>]
    OBVIOUS
  <2>2. PICK c \in s.anyOf : Admits(X, c, v) /\ f[<<X, c, v>>]
    BY <2>1 DEF SaysSomethingOf
  <2>3. f[<<X, c, v>>] = g[<<Y, c, v>>] /\ Admits(X, c, v) = Admits(Y, c, v)
    BY <2>1, ConsultedAre
  <2>q. QED
    BY <2>2, <2>3
<1>5. Has(s, "oneOf") => \E c \in DOMAIN s.oneOf : Admits(Y, c, v) /\ g[<<Y, c, v>>]
  <2>1. SUFFICES ASSUME Has(s, "oneOf")
                 PROVE  \E c \in DOMAIN s.oneOf : Admits(Y, c, v) /\ g[<<Y, c, v>>]
    OBVIOUS
  <2>2. PICK c \in DOMAIN s.oneOf : Admits(X, c, v) /\ f[<<X, c, v>>]
    BY <2>1 DEF SaysSomethingOf
  <2>3. f[<<X, c, v>>] = g[<<Y, c, v>>] /\ Admits(X, c, v) = Admits(Y, c, v)
    BY <2>1, ConsultedAre
  <2>q. QED
    BY <2>2, <2>3
<1>q. QED
  BY <1>1, <1>2, <1>3, <1>4, <1>5, Zenon DEF SaysSomethingOf

(* What a schema says something of keeps to its definition, a Boolean like *)
(* any validation.                                                         *)
LEMMA DeclaresIs ==
  ASSUME NEW document \in Registries, NEW s \in Schemas, NEW v \in Values
  PROVE  /\ Declares(document, s, v) \in BOOLEAN
         /\ Declares(document, s, v) <=> SaysSomethingOf(Declared, document, s, v)
<1> DEFINE G == [x \in Triples |-> [f \in [Triples -> BOOLEAN] |-> SaysSomethingOf(f, x[1], x[2], x[3])]]
<1>1. \A x \in Triples, f \in [Triples -> BOOLEAN] : G[x][f] = SaysSomethingOf(f, x[1], x[2], x[3])
  OBVIOUS
<1>2. \A x, f : SaysSomethingOf(f, x[1], x[2], x[3]) \in BOOLEAN
  BY DEF SaysSomethingOf
<1>3. ASSUME NEW x \in Triples, NEW f \in [Triples -> BOOLEAN], NEW g \in [Triples -> BOOLEAN],
             \A y \in Triples : Height[y] < Height[x] => f[y] = g[y]
      PROVE  SaysSomethingOf(f, x[1], x[2], x[3]) = SaysSomethingOf(g, x[1], x[2], x[3])
  <2>1. PICK d \in Registries, t \in Schemas, w \in Values : x = <<d, t, w>>
    BY DEF Triples
  <2>2. ASSUME NEW next \in Consulted(d, t, w)
        PROVE  f[<<d, next[1], next[2]>>] = g[<<d, next[1], next[2]>>]
    <3>1. <<d, next[1], next[2]>> \in Triples
      BY ConsultedIn DEF Triples
    <3>2. Height[<<d, next[1], next[2]>>] < Height[<<d, t, w>>]
      BY HeightAssumption
    <3>q. QED
      BY <1>3, <2>1, <3>1, <3>2
  <2>3. SaysSomethingOf(f, d, t, w) <=> SaysSomethingOf(g, d, t, w)
    BY <2>2, SayingAsks DEF SameRef
  <2>4. SaysSomethingOf(f, d, t, w) \in BOOLEAN /\ SaysSomethingOf(g, d, t, w) \in BOOLEAN
    BY DEF SaysSomethingOf
  <2>q. QED
    BY <2>1, <2>3, <2>4
<1> HIDE DEF G
<1>4. IsStep(G, Triples, BOOLEAN, Height)
  <2>1. ASSUME NEW x \in Triples, NEW f \in [Triples -> BOOLEAN] PROVE G[x][f] \in BOOLEAN
    BY <1>1, <1>2
  <2>2. ASSUME NEW x \in Triples, NEW f \in [Triples -> BOOLEAN], NEW g \in [Triples -> BOOLEAN],
               \A y \in Triples : Height[y] < Height[x] => f[y] = g[y]
        PROVE  G[x][f] = G[x][g]
    BY <1>1, <1>3, <2>2
  <2>q. QED
    BY <2>1, <2>2, HeightIsRank, Zenon DEF IsStep
<1>5. PICK h \in [Triples -> BOOLEAN] : \A x \in Triples : h[x] = G[x][h]
  <2>1. BOOLEAN # {}
    OBVIOUS
  <2>q. QED
    BY <1>4, <2>1, RecursionDefines
<1>6. h = [x \in Triples |-> SaysSomethingOf(h, x[1], x[2], x[3])]
  BY <1>1, <1>5
<1>7. Declared = [x \in Triples |-> SaysSomethingOf(Declared, x[1], x[2], x[3])]
  <2>1. Declared = CHOOSE f : f = [x \in Triples |-> SaysSomethingOf(f, x[1], x[2], x[3])]
    BY DEF Declared, Triples
  <2>q. QED
    BY <1>6, <2>1
<1>8. <<document, s, v>> \in Triples
  BY DEF Triples
<1>9. Declared[<<document, s, v>>] = SaysSomethingOf(Declared, document, s, v)
  BY <1>7, <1>8
<1>10. SaysSomethingOf(Declared, document, s, v) \in BOOLEAN
  BY DEF SaysSomethingOf
<1>q. QED
  BY <1>9, <1>10 DEF Declares

-----------------------------------------------------------------------------
(* What a step leads to from a start.                                      *)
Steps(R, start, step) == start \in R /\ step \in [R -> R]

Iterates(R, start, step, g) ==
  /\ g \in [Nat -> R]
  /\ g = [n \in Nat |-> IF n = 0 THEN start ELSE step[g[n - 1]]]

(* A step that can be taken can be iterated.                               *)
LEMMA Iterated ==
  ASSUME NEW R, NEW start, NEW step, Steps(R, start, step)
  PROVE  \E g : Iterates(R, start, step, g)
<1> USE DEF Steps
<1> DEFINE G == [m \in Nat |-> [h \in [Nat -> R] |-> IF m = 0 THEN start ELSE step[h[m - 1]]]]
           rank == [m \in Nat |-> m]
<1>1. \A m \in Nat, h \in [Nat -> R] : G[m][h] = IF m = 0 THEN start ELSE step[h[m - 1]]
  OBVIOUS
<1>2. ASSUME NEW m \in Nat, NEW h \in [Nat -> R] PROVE G[m][h] \in R
  <2>1. CASE m = 0
    BY <1>1, <2>1
  <2>2. CASE m # 0
    <3>1. h[m - 1] \in R
      BY <2>2
    <3>q. QED
      BY <1>1, <2>2, <3>1
  <2>q. QED
    BY <2>1, <2>2
<1>3. ASSUME NEW m \in Nat, NEW h \in [Nat -> R], NEW g \in [Nat -> R],
             \A k \in Nat : rank[k] < rank[m] => h[k] = g[k]
      PROVE  G[m][h] = G[m][g]
  <2>1. m # 0 => h[m - 1] = g[m - 1]
    BY <1>3
  <2>2. /\ G[m][h] = IF m = 0 THEN start ELSE step[h[m - 1]]
        /\ G[m][g] = IF m = 0 THEN start ELSE step[g[m - 1]]
    BY <1>1
  <2>q. QED
    BY <2>1, <2>2
<1>4. IsRank(Nat, rank)
  BY DEF IsRank
<1> HIDE DEF G, rank
<1>5. IsStep(G, Nat, R, rank)
  BY <1>2, <1>3, <1>4, Zenon DEF IsStep
<1>6. PICK g \in [Nat -> R] : \A m \in Nat : g[m] = G[m][g]
  <2> DEFINE N == Nat
  <2>1. R # {}
    OBVIOUS
  <2>2. IsStep(G, N, R, rank)
    BY <1>5
  <2> HIDE DEF N
  <2>3. \E g \in [N -> R] : \A m \in N : g[m] = G[m][g]
    BY <2>1, <2>2, RecursionDefines
  <2>q. QED
    BY <2>3, Zenon DEF N
<1>7. g = [m \in Nat |-> IF m = 0 THEN start ELSE step[g[m - 1]]]
  BY <1>1, <1>6
<1>q. QED
  BY <1>6, <1>7 DEF Iterates

(* A set that grows by steps, from a start and inside a set S: what is     *)
(* reached after any number of steps holds the start and lies in S         *)
(* (Reached, Visited).                                                     *)
Staying(S, start, f) ==
  /\ start \subseteq S
  /\ f[0] = start
  /\ \A n \in Nat : n # 0 /\ f[n - 1] \subseteq S => f[n - 1] \subseteq f[n] /\ f[n] \subseteq S

(* What grows within a set stays within it, and keeps what it began with.  *)
LEMMA GrowingStays ==
  ASSUME NEW S, NEW start, NEW f, Staying(S, start, f), NEW n \in Nat
  PROVE  start \subseteq f[n] /\ f[n] \subseteq S
<1> USE DEF Staying
<1> DEFINE Bad == {m \in Nat : ~ (start \subseteq f[m] /\ f[m] \subseteq S)}
<1>1. SUFFICES ASSUME Bad # {} PROVE FALSE
  OBVIOUS
<1>2. PICK m \in Bad : \A k \in Bad : m <= k
  <2>1. Bad \subseteq Nat
    OBVIOUS
  <2> HIDE DEF Bad
  <2>q. QED
    BY <1>1, <2>1, LeastNumber
<1>3. m # 0
  BY <1>2
<1>4. m - 1 \in Nat /\ m - 1 \notin Bad
  BY <1>2, <1>3
<1>5. start \subseteq f[m - 1] /\ f[m - 1] \subseteq S
  BY <1>4
<1>6. f[m - 1] \subseteq f[m] /\ f[m] \subseteq S
  BY <1>2, <1>3, <1>5
<1>q. QED
  BY <1>2, <1>5, <1>6

(* What a schema of a document refers to is a schema (Subschemas).         *)
LEMMA InsideIn ==
  ASSUME NEW document \in Registries, NEW s \in Schemas
  PROVE  Inside(document, s) \subseteq Schemas
<1>1. \A t \in Subschemas(s) : t \in Schemas
  BY SchemasAssumption
<1>2. Has(s, "ref") /\ s.ref \in DOMAIN document => document[s.ref] \in Schemas
  BY RegistriesAssumption
<1>q. QED
  BY <1>1, <1>2 DEF Inside

(* What _expanded_value_same reaches are schemas, those it starts from     *)
(* among them.                                                             *)
LEMMA ReachedIs ==
  ASSUME NEW document \in Registries, NEW schemas \in SUBSET Schemas
  PROVE  schemas \subseteq Reached(document, schemas) /\ Reached(document, schemas) \subseteq Schemas
<1> DEFINE more == [seen \in SUBSET Schemas |-> seen \cup UNION {Inside(document, s) : s \in seen}]
           reached == CHOOSE f : f = [n \in Nat |-> IF n = 0 THEN schemas
                        ELSE f[n - 1] \cup UNION {Inside(document, s) : s \in f[n - 1]}]
<1>1. more \in [SUBSET Schemas -> SUBSET Schemas]
  BY InsideIn
<1>2. Reached(document, schemas) = reached[RecursionLimit]
  BY DEF Reached
<1>3. PICK g \in [Nat -> SUBSET Schemas] :
         g = [n \in Nat |-> IF n = 0 THEN schemas ELSE more[g[n - 1]]]
  <2>1. Steps(SUBSET Schemas, schemas, more)
    BY <1>1 DEF Steps
  <2> HIDE DEF more
  <2>2. \E g : Iterates(SUBSET Schemas, schemas, more, g)
    BY <2>1, Iterated
  <2>q. QED
    BY <2>2 DEF Iterates
<1>4. g = [n \in Nat |-> IF n = 0 THEN schemas ELSE g[n - 1] \cup UNION {Inside(document, s) : s \in g[n - 1]}]
  <2>1. \A n \in Nat : n # 0 => more[g[n - 1]] = g[n - 1] \cup UNION {Inside(document, s) : s \in g[n - 1]}
    <3>1. SUFFICES ASSUME NEW n \in Nat, n # 0
          PROVE  more[g[n - 1]] = g[n - 1] \cup UNION {Inside(document, s) : s \in g[n - 1]}
      OBVIOUS
    <3>2. g[n - 1] \in SUBSET Schemas
      BY <3>1
    <3>q. QED
      BY <3>2
  <2> HIDE DEF more
  <2>q. QED
    BY <1>3, <2>1
<1>5. reached = [n \in Nat |-> IF n = 0 THEN schemas
                   ELSE reached[n - 1] \cup UNION {Inside(document, s) : s \in reached[n - 1]}]
  BY <1>4
<1> HIDE DEF reached
<1>6. reached[0] = schemas
  BY <1>5
<1>7. ASSUME NEW n \in Nat, n # 0, reached[n - 1] \subseteq Schemas
      PROVE  reached[n - 1] \subseteq reached[n] /\ reached[n] \subseteq Schemas
  <2>1. reached[n] = reached[n - 1] \cup UNION {Inside(document, s) : s \in reached[n - 1]}
    BY <1>5, <1>7
  <2>2. \A s \in reached[n - 1] : Inside(document, s) \subseteq Schemas
    BY <1>7, InsideIn
  <2>q. QED
    BY <1>7, <2>1, <2>2
<1>8. schemas \subseteq reached[RecursionLimit] /\ reached[RecursionLimit] \subseteq Schemas
  <2>1. Staying(Schemas, schemas, reached)
    BY <1>6, <1>7 DEF Staying
  <2>q. QED
    BY <2>1, GrowingStays, RecursionLimitAssumption
<1>q. QED
  BY <1>2, <1>8

-----------------------------------------------------------------------------
(* A comparison visits pairs of schemas, from the first.                   *)
LEMMA CallsIn ==
  ASSUME NEW X \in Registries, NEW Y \in Registries, NEW b \in Schemas, NEW a \in Schemas
  PROVE  Calls(X, Y, b, a) \subseteq Schemas \X Schemas
<1>1. \A s \in Schemas : \A t \in Subschemas(s) : t \in Schemas
  BY SchemasAssumption
<1>2. \A s \in Schemas : \A t \in Field(s, "anyOf", {}) : t \in Schemas
  BY <1>1 DEF Subschemas
<1>3. \A s \in Schemas : \A n \in DOMAIN Properties(s) : Properties(s)[n] \in Schemas
  BY <1>1 DEF Subschemas, Properties
<1>4. \A s \in Schemas : Has(s, "items") => s.items \in Schemas
  BY <1>1 DEF Subschemas
<1>5. ASSUME NEW s \in Schemas, Has(More(s), "schema") PROVE More(s).schema \in Schemas
  <2>1. Has(s, "additionalProperties") /\ More(s) = s.additionalProperties
    <3>1. ~ Has([open |-> TRUE], "schema")
      BY DEF Has
    <3>q. QED
      BY <1>5, <3>1 DEF More, Field
  <2>2. s.additionalProperties.schema \in Subschemas(s)
    BY <1>5, <2>1 DEF Subschemas
  <2>q. QED
    BY <1>1, <2>1, <2>2
<1>6. CASE Has(b, "ref") \/ Has(a, "ref")
  <2>1. SUFFICES ASSUME ~ _field_changed(b, a, "ref"), b.ref \in DOMAIN X \cap DOMAIN Y
                 PROVE  Calls(X, Y, b, a) \subseteq Schemas \X Schemas
    BY <1>6 DEF Calls
  <2>2. Has(b, "ref") /\ Has(a, "ref") /\ b.ref = a.ref
    BY <1>6, <2>1 DEF _field_changed, PyEqual, Has
  <2>3. Calls(X, Y, b, a) = {<<X[b.ref], Y[a.ref]>>}
    BY <1>6, <2>1, <2>2 DEF Calls
  <2>4. X[b.ref] \in Schemas /\ Y[a.ref] \in Schemas
    BY <2>1, <2>2, RegistriesAssumption
  <2>q. QED
    BY <2>3, <2>4
<1>7. CASE ~ (Has(b, "ref") \/ Has(a, "ref"))
  BY <1>2, <1>3, <1>4, <1>5, <1>7 DEF Calls
<1>q. QED
  BY <1>6, <1>7

(* A comparison visits pairs of schemas, the first one among them          *)
(* (compare_schema).                                                       *)
LEMMA VisitedIs ==
  ASSUME NEW X \in Registries, NEW Y \in Registries, NEW b \in Schemas, NEW a \in Schemas
  PROVE  <<b, a>> \in Visited(X, Y, b, a) /\ Visited(X, Y, b, a) \subseteq Schemas \X Schemas
<1> DEFINE Pairs == Schemas \X Schemas
           more == [seen \in SUBSET Pairs |-> seen \cup UNION {Calls(X, Y, p[1], p[2]) : p \in seen}]
           visited == CHOOSE f : f = [n \in Nat |-> IF n = 0 THEN {<<b, a>>}
                        ELSE f[n - 1] \cup UNION {Calls(X, Y, p[1], p[2]) : p \in f[n - 1]}]
<1>1. more \in [SUBSET Pairs -> SUBSET Pairs]
  BY CallsIn
<1>2. Visited(X, Y, b, a) = visited[RecursionLimit]
  BY DEF Visited
<1>3. PICK g \in [Nat -> SUBSET Pairs] :
         g = [n \in Nat |-> IF n = 0 THEN {<<b, a>>} ELSE more[g[n - 1]]]
  <2>1. Steps(SUBSET Pairs, {<<b, a>>}, more)
    <3>1. {<<b, a>>} \in SUBSET Pairs
      OBVIOUS
    <3> HIDE DEF Pairs, more
    <3>q. QED
      BY <1>1, <3>1 DEF Steps
  <2> HIDE DEF more
  <2>2. \E g : Iterates(SUBSET Pairs, {<<b, a>>}, more, g)
    BY <2>1, Iterated
  <2>q. QED
    BY <2>2 DEF Iterates
<1>4. g = [n \in Nat |-> IF n = 0 THEN {<<b, a>>} ELSE g[n - 1] \cup UNION {Calls(X, Y, p[1], p[2]) : p \in g[n - 1]}]
  <2>1. \A n \in Nat : n # 0 => more[g[n - 1]] = g[n - 1] \cup UNION {Calls(X, Y, p[1], p[2]) : p \in g[n - 1]}
    <3>1. SUFFICES ASSUME NEW n \in Nat, n # 0
          PROVE  more[g[n - 1]] = g[n - 1] \cup UNION {Calls(X, Y, p[1], p[2]) : p \in g[n - 1]}
      OBVIOUS
    <3>2. g[n - 1] \in SUBSET Pairs
      BY <3>1
    <3>q. QED
      BY <3>2
  <2> HIDE DEF more
  <2>q. QED
    BY <1>3, <2>1
<1>5. visited = [n \in Nat |-> IF n = 0 THEN {<<b, a>>}
                   ELSE visited[n - 1] \cup UNION {Calls(X, Y, p[1], p[2]) : p \in visited[n - 1]}]
  BY <1>4
<1> HIDE DEF visited
<1>6. visited[0] = {<<b, a>>}
  BY <1>5
<1>7. ASSUME NEW n \in Nat, n # 0, visited[n - 1] \subseteq Pairs
      PROVE  visited[n - 1] \subseteq visited[n] /\ visited[n] \subseteq Pairs
  <2>1. visited[n] = visited[n - 1] \cup UNION {Calls(X, Y, p[1], p[2]) : p \in visited[n - 1]}
    BY <1>5, <1>7
  <2>2. \A p \in visited[n - 1] : Calls(X, Y, p[1], p[2]) \subseteq Pairs
    BY <1>7, CallsIn
  <2>q. QED
    BY <1>7, <2>1, <2>2
<1>8. {<<b, a>>} \subseteq visited[RecursionLimit] /\ visited[RecursionLimit] \subseteq Pairs
  <2>1. Staying(Pairs, {<<b, a>>}, visited)
    BY <1>6, <1>7 DEF Staying
  <2>q. QED
    BY <2>1, GrowingStays, RecursionLimitAssumption
<1>q. QED
  BY <1>2, <1>8

-----------------------------------------------------------------------------
(* What is written the same, and means the same all the way down, admits   *)
(* and declares the same (_expanded_value_same).                           *)
Same(X, Y, E) ==
  /\ E \subseteq Schemas
  /\ \A s \in E : Inside(X, s) \subseteq E /\ SameRef(X, Y, s)

(* What _expanded_value_same finds to be the same is written the same all  *)
(* the way down.                                                           *)
LEMMA ExpandedSame ==
  ASSUME NEW X \in Registries, NEW Y \in Registries, NEW b \in SUBSET Schemas, NEW a \in SUBSET Schemas,
         _expanded_value_same(X, Y, b, a)
  PROVE  b = a /\ \E E : Same(X, Y, E) /\ b \subseteq E
<1> DEFINE E == Reached(X, b)
<1>1. b \subseteq E /\ E \subseteq Schemas
  BY ReachedIs
<1>2. \A s \in E : Inside(X, s) \subseteq E /\ SameRef(X, Y, s)
  BY DEF _expanded_value_same, SameRef
<1>3. Same(X, Y, E)
  BY <1>1, <1>2 DEF Same
<1>q. QED
  BY <1>1, <1>3 DEF _expanded_value_same

(* What validation goes on to is inside the schema.                        *)
LEMMA ConsultedInside ==
  ASSUME NEW document \in Registries, NEW s \in Schemas, NEW v \in Values,
         NEW next \in Consulted(document, s, v)
  PROVE  next[1] \in Inside(document, s)
<1>1. Has(More(s), "schema") => More(s).schema \in Subschemas(s)
  <2>1. SUFFICES ASSUME Has(More(s), "schema") PROVE More(s).schema \in Subschemas(s)
    OBVIOUS
  <2>2. Has(s, "additionalProperties") /\ More(s) = s.additionalProperties
    <3>1. ~ Has([open |-> TRUE], "schema")
      BY DEF Has
    <3>q. QED
      BY <2>1, <3>1 DEF More, Field
  <2>q. QED
    BY <2>1, <2>2 DEF Subschemas
<1>2. \A n \in DOMAIN Properties(s) : Properties(s)[n] \in Subschemas(s)
  BY DEF Subschemas, Properties
<1>3. Field(s, "anyOf", {}) \subseteq Subschemas(s) /\ DOMAIN Field(s, "oneOf", <<>>) \subseteq Subschemas(s)
  BY DEF Subschemas
<1>4. Has(s, "items") => s.items \in Subschemas(s)
  BY DEF Subschemas
<1>q. QED
  BY <1>1, <1>2, <1>3, <1>4 DEF Consulted, Inside

(* What is the same all the way down admits and declares the same values   *)
(* in both documents.                                                      *)
LEMMA SameAdmits ==
  ASSUME NEW X \in Registries, NEW Y \in Registries, NEW E, Same(X, Y, E), NEW s \in E, NEW v \in Values
  PROVE  Admits(X, s, v) = Admits(Y, s, v) /\ Declares(X, s, v) = Declares(Y, s, v)
<1> DEFINE Agree(t, w) == Admits(X, t, w) = Admits(Y, t, w) /\ Declares(X, t, w) = Declares(Y, t, w)
           Bad == {Height[<<X, p[1], p[2]>>] : p \in {q \in E \X Values : ~ Agree(q[1], q[2])}}
<1>1. E \subseteq Schemas
  BY DEF Same
<1>2. SUFFICES ASSUME Bad # {} PROVE FALSE
  <2>1. <<s, v>> \in E \X Values
    OBVIOUS
  <2> HIDE DEF Agree
  <2>2. Agree(s, v)
    BY <1>2, <2>1
  <2>q. QED
    BY <2>2 DEF Agree
<1>3. PICK k \in Bad : \A j \in Bad : k <= j
  <2>1. Bad \subseteq Nat
    <3> HIDE DEF Agree
    <3>q. QED
      BY <1>1, HeightAssumption
  <2> HIDE DEF Bad
  <2>q. QED
    BY <1>2, <2>1, LeastNumber
<1>4. PICK t \in E, w \in Values : k = Height[<<X, t, w>>] /\ ~ Agree(t, w)
  <2> HIDE DEF Agree
  <2>q. QED
    BY <1>3
<1>5. t \in Schemas /\ SameRef(X, Y, t) /\ SameRef(Y, X, t)
  BY <1>1 DEF Same, SameRef
<1>6. ASSUME NEW next \in Consulted(X, t, w) PROVE Agree(next[1], next[2])
  <2>1. next[1] \in E
    BY <1>5, ConsultedInside DEF Same
  <2>2. next[2] \in Values
    BY <1>5, ConsultedIn
  <2>3. Height[<<X, next[1], next[2]>>] < Height[<<X, t, w>>]
    BY <1>5, HeightAssumption
  <2>4. Height[<<X, next[1], next[2]>>] \in Nat /\ Height[<<X, t, w>>] \in Nat
    BY <1>1, <1>5, <2>1, <2>2, HeightAssumption
  <2> HIDE DEF Agree
  <2>5. SUFFICES ASSUME ~ Agree(next[1], next[2]) PROVE FALSE
    OBVIOUS
  <2>6. next = <<next[1], next[2]>> /\ next \in E \X Values
    BY <1>5, <2>1, <2>2, ConsultedIn
  <2>7. Height[<<X, next[1], next[2]>>] \in Bad
    BY <2>5, <2>6
  <2> HIDE DEF Bad
  <2>q. QED
    BY <1>3, <1>4, <2>3, <2>4, <2>7
<1>7. Consulted(Y, t, w) = Consulted(X, t, w)
  BY <1>5 DEF Consulted, SameRef
<1>8. Admits(X, t, w) <=> Admits(Y, t, w)
  <2>1. \A next \in Consulted(X, t, w) :
          Admitted[<<X, next[1], next[2]>>] = Admitted[<<Y, next[1], next[2]>>]
    BY <1>6 DEF Admits
  <2>2. Validates(Admitted, X, t, w) => Validates(Admitted, Y, t, w)
    BY <1>5, <2>1, ValidatesAsks
  <2>3. Validates(Admitted, Y, t, w) => Validates(Admitted, X, t, w)
    BY <1>5, <1>7, <2>1, ValidatesAsks
  <2>q. QED
    BY <1>5, <2>2, <2>3, AdmitsIs
<1>9. Declares(X, t, w) <=> Declares(Y, t, w)
  <2>1. \A next \in Consulted(X, t, w) :
          /\ Declared[<<X, next[1], next[2]>>] = Declared[<<Y, next[1], next[2]>>]
          /\ Admits(X, next[1], next[2]) = Admits(Y, next[1], next[2])
    BY <1>6 DEF Declares
  <2>2. SaysSomethingOf(Declared, X, t, w) => SaysSomethingOf(Declared, Y, t, w)
    BY <1>5, <2>1, SayingAsks
  <2>3. SaysSomethingOf(Declared, Y, t, w) => SaysSomethingOf(Declared, X, t, w)
    BY <1>5, <1>7, <2>1, SayingAsks
  <2>q. QED
    BY <1>5, <2>2, <2>3, DeclaresIs
<1>10. /\ Admits(X, t, w) \in BOOLEAN /\ Admits(Y, t, w) \in BOOLEAN
       /\ Declares(X, t, w) \in BOOLEAN /\ Declares(Y, t, w) \in BOOLEAN
  BY <1>5, AdmitsIs, DeclaresIs
<1>q. QED
  BY <1>4, <1>8, <1>9, <1>10

(* The calls of a comparison without breaking or unknown changes.          *)
Compared(direction, X, Y, Q) ==
  /\ Q \subseteq Schemas \X Schemas
  /\ \A p \in Q : /\ Calls(X, Y, p[1], p[2]) \subseteq Q
                  /\ compatible(compare(direction, X, Y, p[1], p[2]))

(* A comparison that is compatible has made all its calls, each without a  *)
(* breaking or unknown change (compare_schema).                            *)
LEMMA ComparedIs ==
  ASSUME NEW X \in Registries, NEW Y \in Registries, NEW b \in Schemas, NEW a \in Schemas, NEW direction,
         compatible(compare_schema(b, a, direction, X, Y))
  PROVE  \E Q : Compared(direction, X, Y, Q) /\ <<b, a>> \in Q
<1> DEFINE Q == Visited(X, Y, b, a)
<1>1. <<b, a>> \in Q /\ Q \subseteq Schemas \X Schemas
  BY VisitedIs
<1> HIDE DEF Q
<1>2. /\ "unknown" \notin compare_schema(b, a, direction, X, Y)
      /\ "breaking" \notin compare_schema(b, a, direction, X, Y)
  BY DEF compatible
<1>3. \A p \in Q : Calls(X, Y, p[1], p[2]) \subseteq Q
  <2>1. SUFFICES ASSUME ~ \A p \in Q : Calls(X, Y, p[1], p[2]) \subseteq Q PROVE FALSE
    OBVIOUS
  <2>2. "unknown" \in compare_schema(b, a, direction, X, Y)
    <3>1. ~ Ended(X, Y, Q)
      BY <2>1 DEF Ended
    <3>q. QED
      BY <3>1 DEF compare_schema, Q
  <2>q. QED
    BY <1>2, <2>2
<1>4. \A p \in Q : compare(direction, X, Y, p[1], p[2]) \subseteq compare_schema(b, a, direction, X, Y)
  BY DEF compare_schema, Q
<1>5. \A p \in Q : compatible(compare(direction, X, Y, p[1], p[2]))
  BY <1>2, <1>4 DEF compatible
<1>q. QED
  BY <1>1, <1>3, <1>5 DEF Compared

-----------------------------------------------------------------------------
(* What a comparison without breaking or unknown changes makes of a pair:  *)
(* what x says in X is carried by what y says in Y.  Seen from a call the  *)
(* first is the earlier schema, seen from an answer the later one.         *)
CarriedRef(X, Y, Q, x, y) ==
  /\ Has(x, "ref") /\ Has(y, "ref") /\ x.ref = y.ref
  /\ x.ref \in DOMAIN X /\ x.ref \in DOMAIN Y /\ <<X[x.ref], Y[x.ref]>> \in Q
  /\ \A key \in (DOMAIN x \cup DOMAIN y) \ {"ref", "default"} :
       Has(x, key) /\ Has(y, key) /\ x[key] = y[key]
  /\ \E E : Same(X, Y, E) /\ Subschemas(x) \subseteq E

CarriedScalar(x, y) ==
  /\ Has(y, "type") => Has(x, "type") /\ x.type \subseteq y.type
  /\ Has(y, "enum") => Has(x, "enum") /\ x.enum \subseteq y.enum
  /\ Has(y, "const") => Has(x, "const") /\ x.const = y.const
  /\ \A key \in _LOWER_BOUNDS : Has(y, key) => Has(x, key) /\ x[key] >= y[key]
  /\ \A key \in _UPPER_BOUNDS : Has(y, key) => Has(x, key) /\ x[key] <= y[key]
  /\ Has(y, "pattern") => Has(x, "pattern") /\ x.pattern = y.pattern

CarriedInside(X, Y, Q, x, y) ==
  /\ ~ Has(x, "ref") /\ ~ Has(y, "ref")
  /\ Has(x, "anyOf") = Has(y, "anyOf")
  /\ Has(x, "anyOf") => x.anyOf \subseteq y.anyOf /\ \A c \in x.anyOf : <<c, c>> \in Q
  /\ Has(x, "oneOf") = Has(y, "oneOf")
  /\ Has(x, "oneOf") => x.oneOf = y.oneOf /\ \E E : Same(X, Y, E) /\ DOMAIN x.oneOf \subseteq E
  /\ Field(y, "required", {}) \subseteq Field(x, "required", {})
  /\ \A n \in DOMAIN Properties(x) : n \in DOMAIN Properties(y) /\ <<Properties(x)[n], Properties(y)[n]>> \in Q
  /\ Has(x, "items") = Has(y, "items")
  /\ Has(x, "items") => <<x.items, y.items>> \in Q
  /\ Has(More(x), "schema") = Has(More(y), "schema")
  /\ Has(More(x), "schema") => <<More(x).schema, More(y).schema>> \in Q
  /\ ~ Has(More(x), "schema") /\ More(x).open => More(y).open

Carried(X, Y, Q, x, y) ==
  CarriedRef(X, Y, Q, x, y) \/ (CarriedScalar(x, y) /\ CarriedInside(X, Y, Q, x, y))

Carries(X, Y, Q) == Q \subseteq Schemas \X Schemas /\ \A p \in Q : Carried(X, Y, Q, p[1], p[2])

(* Fields that are told apart by how they are written: all but constants   *)
(* and enumerations, whose types then differ.                              *)
LEMMA UnchangedIs ==
  ASSUME NEW b \in Schemas, NEW a \in Schemas, NEW key, key # "default", ~ _field_changed(b, a, key)
  PROVE  /\ Has(b, key) = Has(a, key)
         /\ Has(b, key) => \/ b[key] = a[key]
                           \/ /\ key \in {"enum", "const"} /\ Has(b, "type") /\ Has(a, "type")
                              /\ b.type # {} /\ b.type \cap a.type = {}
<1>1. Has(b, key) = Has(a, key)
  BY DEF _field_changed, Has
<1>2. CASE Has(b, key) /\ b[key] # a[key]
  <2>1. PyEqual(key, b[key], a[key])
    BY <1>1, <1>2 DEF _field_changed
  <2>2. key \in {"enum", "const"}
    BY <1>2, <2>1 DEF PyEqual
  <2>q. QED
    BY <1>1, <1>2, <2>1, <2>2, LooseEqualityAssumption
<1>q. QED
  BY <1>1, <1>2

(* A reference stays the reference it was, and what it refers to is        *)
(* compared (compare).                                                     *)
LEMMA ComparedRef ==
  ASSUME NEW X \in Registries, NEW Y \in Registries, NEW direction, NEW b \in Schemas, NEW a \in Schemas,
         compatible(compare(direction, X, Y, b, a)), Has(b, "ref") \/ Has(a, "ref")
  PROVE  /\ Has(b, "ref") /\ Has(a, "ref") /\ b.ref = a.ref
         /\ b.ref \in DOMAIN X /\ b.ref \in DOMAIN Y
         /\ <<X[b.ref], Y[a.ref]>> \in Calls(X, Y, b, a)
         /\ \A key \in (DOMAIN b \cup DOMAIN a) \ {"ref", "default"} : Has(b, key) /\ Has(a, key) /\ b[key] = a[key]
         /\ Subschemas(b) = Subschemas(a)
         /\ \E E : Same(X, Y, E) /\ Subschemas(b) \subseteq E
<1> DEFINE keys == DOMAIN b \cup DOMAIN a
<1>1. compare(direction, X, Y, b, a) =
        (IF AnyChanged(b, a, keys \ {"ref"}) \/ ~ _expanded_value_same(X, Y, Subschemas(b), Subschemas(a))
         THEN {"unknown"} ELSE {})
        \cup (IF _field_changed(b, a, "ref") THEN {"breaking"}
              ELSE IF b.ref \notin DOMAIN X \cap DOMAIN Y THEN {"unknown"} ELSE {})
  BY DEF compare, Has
<1>2. /\ ~ AnyChanged(b, a, keys \ {"ref"})
      /\ _expanded_value_same(X, Y, Subschemas(b), Subschemas(a))
  BY <1>1 DEF compatible
<1>3. ~ _field_changed(b, a, "ref") /\ b.ref \in DOMAIN X /\ b.ref \in DOMAIN Y
  BY <1>1 DEF compatible
<1>4. Has(b, "ref") /\ Has(a, "ref") /\ b.ref = a.ref
  BY <1>3 DEF _field_changed, PyEqual, Has
<1>5. <<X[b.ref], Y[a.ref]>> \in Calls(X, Y, b, a)
  BY <1>3, <1>4 DEF Calls
<1>6. ASSUME NEW key \in keys \ {"ref", "default"} PROVE Has(b, key) /\ Has(a, key) /\ b[key] = a[key]
  <2>1. ~ _field_changed(b, a, key) /\ key # "default"
    BY <1>2 DEF AnyChanged
  <2>2. Has(b, key) /\ Has(a, key)
    BY <2>1, UnchangedIs DEF Has
  <2>3. Has(b, "type") /\ Has(a, "type") => b.type = a.type
    <3>1. SUFFICES ASSUME Has(b, "type"), Has(a, "type") PROVE b.type = a.type
      OBVIOUS
    <3>2. ~ _field_changed(b, a, "type")
      BY <1>2, <3>1 DEF AnyChanged, Has
    <3>q. QED
      BY <3>1, <3>2 DEF _field_changed, PyEqual
  <2>4. Has(b, "type") /\ Has(a, "type") /\ b.type # {} /\ b.type \cap a.type = {} => FALSE
    BY <2>3
  <2>q. QED
    BY <2>1, <2>2, <2>4, UnchangedIs
<1>7. Subschemas(b) \in SUBSET Schemas /\ Subschemas(a) \in SUBSET Schemas
  BY SchemasAssumption
<1>8. Subschemas(b) = Subschemas(a) /\ \E E : Same(X, Y, E) /\ Subschemas(b) \subseteq E
  BY <1>2, <1>7, ExpandedSame
<1>q. QED
  BY <1>3, <1>4, <1>5, <1>6, <1>8

(* Each part of a call of compare is compatible when the call is.          *)
LEMMA ComparedParts ==
  ASSUME NEW X, NEW Y, NEW direction, NEW b, NEW a,
         compatible(compare(direction, X, Y, b, a)), ~ Has(b, "ref"), ~ Has(a, "ref")
  PROVE  /\ \A key \in {"type", "enum"} : compatible(_compare_set(direction, b, a, key))
         /\ compatible(_compare_const(direction, b, a))
         /\ Has(b, "anyOf") = Has(a, "anyOf")
         /\ compatible(_classify_set(direction, Field(b, "anyOf", {}), Field(a, "anyOf", {})))
         /\ compatible(_compare_oneOf(X, Y, b, a))
         /\ compatible(_compare_names(direction, b, a))
         /\ Has(b, "items") = Has(a, "items")
         /\ \A key \in _LOWER_BOUNDS \cup _UPPER_BOUNDS : compatible(_compare_bound(direction, b, a, key))
         /\ compatible(_compare_opaque(direction, b, a, "pattern"))
         /\ \/ More(b) = More(a)
            \/ Has(More(b), "schema") /\ Has(More(a), "schema")
            \/ /\ ~ Has(More(b), "schema") /\ ~ Has(More(a), "schema")
               /\ compatible(_classify_restriction(direction, More(b).open))
<1> DEFINE keys == DOMAIN b \cup DOMAIN a
           metadata == IF AnyChanged(b, a, _SCHEMA_METADATA) THEN {"metadata"} ELSE {}
           sets == UNION {_compare_set(direction, b, a, key) : key \in {"type", "enum"}}
           const == _compare_const(direction, b, a)
           anyOf == IF Has(b, "anyOf") # Has(a, "anyOf") THEN {"unknown"}
                    ELSE _classify_set(direction, Field(b, "anyOf", {}), Field(a, "anyOf", {}))
           oneOf == _compare_oneOf(X, Y, b, a)
           names == _compare_names(direction, b, a)
           items == IF Has(b, "items") # Has(a, "items") THEN {"unknown"} ELSE {}
           bounds == UNION {_compare_bound(direction, b, a, key) : key \in _LOWER_BOUNDS \cup _UPPER_BOUNDS}
           opaque == UNION {_compare_opaque(direction, b, a, key) : key \in _OPAQUE_RESTRICTIONS}
           more == IF More(b) = More(a) \/ (Has(More(b), "schema") /\ Has(More(a), "schema")) THEN {}
                   ELSE IF Has(More(b), "schema") \/ Has(More(a), "schema") THEN {"unknown"}
                   ELSE _classify_restriction(direction, More(b).open)
           default == IF ~ _field_changed(b, a, "default") THEN {}
                      ELSE IF direction = "input" THEN {"breaking"} ELSE {"unknown"}
           others == IF AnyChanged(b, a, keys \ _SCHEMA_KNOWN) THEN {"unknown"} ELSE {}
<1>1. "ref" \notin keys
  BY DEF Has
<1>2. compare(direction, X, Y, b, a) =
        metadata \cup sets \cup const \cup anyOf \cup oneOf \cup names \cup items \cup bounds \cup opaque
        \cup more \cup default \cup others
  BY <1>1, Zenon DEF compare
<1>3. /\ compatible(sets) /\ compatible(const) /\ compatible(anyOf) /\ compatible(oneOf) /\ compatible(names)
      /\ compatible(items) /\ compatible(bounds) /\ compatible(opaque) /\ compatible(more)
  <2> HIDE DEF metadata, sets, const, anyOf, oneOf, names, items, bounds, opaque, more, default, others
  <2>q. QED
    BY <1>2 DEF compatible
<1>4. \A key \in {"type", "enum"} : compatible(_compare_set(direction, b, a, key))
  BY <1>3 DEF compatible
<1>5. Has(b, "anyOf") = Has(a, "anyOf")
      /\ compatible(_classify_set(direction, Field(b, "anyOf", {}), Field(a, "anyOf", {})))
  BY <1>3 DEF compatible, Has
<1>6. Has(b, "items") = Has(a, "items")
  BY <1>3 DEF compatible, Has
<1>7. \A key \in _LOWER_BOUNDS \cup _UPPER_BOUNDS : compatible(_compare_bound(direction, b, a, key))
  BY <1>3 DEF compatible
<1>8. compatible(_compare_opaque(direction, b, a, "pattern"))
  BY <1>3 DEF compatible, _OPAQUE_RESTRICTIONS
<1>9. \/ More(b) = More(a)
      \/ Has(More(b), "schema") /\ Has(More(a), "schema")
      \/ /\ ~ Has(More(b), "schema") /\ ~ Has(More(a), "schema")
         /\ compatible(_classify_restriction(direction, More(b).open))
  <2> HIDE DEF metadata, sets, const, anyOf, oneOf, names, items, bounds, opaque, default, others
  <2>1. "unknown" \notin more
    BY <1>3 DEF compatible
  <2>q. QED
    BY <1>3, <2>1
<1>q. QED
  BY <1>3, <1>4, <1>5, <1>6, <1>7, <1>8, <1>9

(* What is compatible is no tighter for a call, no looser for an answer.   *)
LEMMA RestrictionIs ==
  ASSUME NEW direction \in {"input", "output"}, NEW tightened \in BOOLEAN,
         compatible(_classify_restriction(direction, tightened))
  PROVE  tightened <=> direction = "output"
  BY DEF compatible, _classify_restriction

(* A set of types, values or alternatives only grows for a call, only      *)
(* shrinks for an answer (_classify_set).                                  *)
LEMMA SetIs ==
  ASSUME NEW direction \in {"input", "output"}, NEW b, NEW a, compatible(_classify_set(direction, b, a))
  PROVE  (direction = "input" => b \subseteq a) /\ (direction = "output" => a \subseteq b)
  BY DEF compatible, _classify_set, _classify_restriction

(* The types (_compare_set).                                               *)
LEMMA ComparedType ==
  ASSUME NEW b \in Schemas, NEW a \in Schemas
  PROVE  /\ compatible(_compare_set("input", b, a, "type")) /\ Has(a, "type") => Has(b, "type") /\ b.type \subseteq a.type
         /\ compatible(_compare_set("output", b, a, "type")) /\ Has(b, "type") => Has(a, "type") /\ a.type \subseteq b.type
<1>1. ~ _field_changed(b, a, "type") => (Has(a, "type") <=> Has(b, "type")) /\ (Has(b, "type") => b.type = a.type)
  BY DEF _field_changed, PyEqual, Has
<1>2. \A direction \in {"input", "output"} :
        compatible(_compare_set(direction, b, a, "type")) /\ _field_changed(b, a, "type") =>
          IF ~ Has(b, "type") THEN direction = "output"
          ELSE IF ~ Has(a, "type") THEN direction = "input"
          ELSE (direction = "input" => b.type \subseteq a.type) /\ (direction = "output" => a.type \subseteq b.type)
  <2> TAKE direction \in {"input", "output"}
  <2>q. QED
    BY RestrictionIs, SetIs DEF _compare_set
<1>q. QED
  BY <1>1, <1>2

(* The enumerated values (_compare_set); where Python's == sees no change  *)
(* the types differ, so that the change of those is seen.                  *)
LEMMA ComparedEnum ==
  ASSUME NEW b \in Schemas, NEW a \in Schemas
  PROVE  /\ /\ compatible(_compare_set("input", b, a, "type")) /\ compatible(_compare_set("input", b, a, "enum"))
            /\ Has(a, "enum")
            => Has(b, "enum") /\ b.enum \subseteq a.enum
         /\ /\ compatible(_compare_set("output", b, a, "type")) /\ compatible(_compare_set("output", b, a, "enum"))
            /\ Has(b, "enum")
            => Has(a, "enum") /\ a.enum \subseteq b.enum
<1>1. ~ _field_changed(b, a, "enum") =>
        /\ Has(b, "enum") = Has(a, "enum")
        /\ Has(b, "enum") =>
             \/ b.enum = a.enum
             \/ Has(b, "type") /\ Has(a, "type") /\ b.type # {} /\ a.type # {} /\ b.type \cap a.type = {}
  <2>1. SUFFICES ASSUME ~ _field_changed(b, a, "enum")
        PROVE  /\ Has(b, "enum") = Has(a, "enum")
               /\ Has(b, "enum") =>
                    \/ b.enum = a.enum
                    \/ Has(b, "type") /\ Has(a, "type") /\ b.type # {} /\ a.type # {} /\ b.type \cap a.type = {}
    OBVIOUS
  <2>2. Has(b, "enum") = Has(a, "enum")
    BY <2>1, UnchangedIs
  <2>3. ASSUME Has(b, "enum"), b.enum # a.enum
        PROVE  Has(b, "type") /\ Has(a, "type") /\ b.type # {} /\ a.type # {} /\ b.type \cap a.type = {}
    <3>1. PyEqual("enum", b.enum, a.enum)
      BY <2>1, <2>3 DEF _field_changed
    <3>q. QED
      BY <2>2, <2>3, <3>1, LooseEqualityAssumption
  <2>q. QED
    BY <2>2, <2>3
<1>2. \A direction \in {"input", "output"} :
        compatible(_compare_set(direction, b, a, "enum")) /\ _field_changed(b, a, "enum") =>
          IF ~ Has(b, "enum") THEN direction = "output"
          ELSE IF ~ Has(a, "enum") THEN direction = "input"
          ELSE (direction = "input" => b.enum \subseteq a.enum) /\ (direction = "output" => a.enum \subseteq b.enum)
  <2> TAKE direction \in {"input", "output"}
  <2>q. QED
    BY RestrictionIs, SetIs DEF _compare_set
<1>q. QED
  BY <1>1, <1>2, ComparedType DEF Has

(* The constant (_compare_const), as ComparedEnum.                         *)
LEMMA ComparedConst ==
  ASSUME NEW b \in Schemas, NEW a \in Schemas
  PROVE  /\ /\ compatible(_compare_set("input", b, a, "type")) /\ compatible(_compare_const("input", b, a))
            /\ Has(a, "const")
            => Has(b, "const") /\ b.const = a.const
         /\ /\ compatible(_compare_set("output", b, a, "type")) /\ compatible(_compare_const("output", b, a))
            /\ Has(b, "const")
            => Has(a, "const") /\ a.const = b.const
<1>1. ~ _field_changed(b, a, "const") =>
        /\ Has(b, "const") = Has(a, "const")
        /\ Has(b, "const") =>
             \/ b.const = a.const
             \/ Has(b, "type") /\ Has(a, "type") /\ b.type # {} /\ a.type # {} /\ b.type \cap a.type = {}
  <2>1. SUFFICES ASSUME ~ _field_changed(b, a, "const")
        PROVE  /\ Has(b, "const") = Has(a, "const")
               /\ Has(b, "const") =>
                    \/ b.const = a.const
                    \/ Has(b, "type") /\ Has(a, "type") /\ b.type # {} /\ a.type # {} /\ b.type \cap a.type = {}
    OBVIOUS
  <2>2. Has(b, "const") = Has(a, "const")
    BY <2>1, UnchangedIs
  <2>3. ASSUME Has(b, "const"), b.const # a.const
        PROVE  Has(b, "type") /\ Has(a, "type") /\ b.type # {} /\ a.type # {} /\ b.type \cap a.type = {}
    <3>1. PyEqual("const", b.const, a.const)
      BY <2>1, <2>3 DEF _field_changed
    <3>q. QED
      BY <2>2, <2>3, <3>1, LooseEqualityAssumption
  <2>q. QED
    BY <2>2, <2>3
<1>2. \A direction \in {"input", "output"} :
        compatible(_compare_const(direction, b, a)) /\ _field_changed(b, a, "const") =>
          /\ ~ (Has(b, "const") /\ Has(a, "const"))
          /\ Has(a, "const") <=> direction = "output"
  <2> TAKE direction \in {"input", "output"}
  <2>1. Has(a, "const") \in BOOLEAN
    BY DEF Has
  <2>q. QED
    BY <2>1, RestrictionIs DEF _compare_const, compatible
<1>3. _field_changed(b, a, "const") => Has(b, "const") \/ Has(a, "const")
  BY DEF _field_changed, Has
<1>q. QED
  BY <1>1, <1>2, <1>3, ComparedType DEF Has

(* The pattern, which may only come or go (_compare_opaque).               *)
LEMMA ComparedPattern ==
  ASSUME NEW b \in Schemas, NEW a \in Schemas
  PROVE  /\ compatible(_compare_opaque("input", b, a, "pattern")) /\ Has(a, "pattern")
            => Has(b, "pattern") /\ b.pattern = a.pattern
         /\ compatible(_compare_opaque("output", b, a, "pattern")) /\ Has(b, "pattern")
            => Has(a, "pattern") /\ a.pattern = b.pattern
<1>1. ~ _field_changed(b, a, "pattern") =>
        Has(b, "pattern") = Has(a, "pattern") /\ (Has(b, "pattern") => b.pattern = a.pattern)
  BY DEF _field_changed, PyEqual, Has
<1>2. \A direction \in {"input", "output"} :
        compatible(_compare_opaque(direction, b, a, "pattern")) /\ _field_changed(b, a, "pattern") =>
          /\ ~ (Has(b, "pattern") /\ Has(a, "pattern"))
          /\ Has(a, "pattern") <=> direction = "output"
  <2> TAKE direction \in {"input", "output"}
  <2>1. Has(a, "pattern") \in BOOLEAN
    BY DEF Has
  <2>q. QED
    BY <2>1, RestrictionIs DEF _compare_opaque, compatible
<1>3. _field_changed(b, a, "pattern") => Has(b, "pattern") \/ Has(a, "pattern")
  BY DEF _field_changed, Has
<1>q. QED
  BY <1>1, <1>2, <1>3 DEF Has

(* The bounds, lower and upper (_compare_bound).                           *)
LEMMA ComparedBound ==
  ASSUME NEW b \in Schemas, NEW a \in Schemas, NEW key \in BoundKeys
  PROVE  /\ key \in _LOWER_BOUNDS /\ compatible(_compare_bound("input", b, a, key)) /\ Has(a, key)
            => Has(b, key) /\ b[key] >= a[key]
         /\ key \in _UPPER_BOUNDS /\ compatible(_compare_bound("input", b, a, key)) /\ Has(a, key)
            => Has(b, key) /\ b[key] <= a[key]
         /\ key \in _LOWER_BOUNDS /\ compatible(_compare_bound("output", b, a, key)) /\ Has(b, key)
            => Has(a, key) /\ a[key] >= b[key]
         /\ key \in _UPPER_BOUNDS /\ compatible(_compare_bound("output", b, a, key)) /\ Has(b, key)
            => Has(a, key) /\ a[key] <= b[key]
<1>1. (Has(b, key) => b[key] \in Int) /\ (Has(a, key) => a[key] \in Int)
  BY SchemasAssumption
<1>2. ~ _field_changed(b, a, key) => (Has(b, key) <=> Has(a, key)) /\ (Has(b, key) => b[key] = a[key])
  <2>1. key \notin {"enum", "const", "default"}
    BY DEF BoundKeys, _LOWER_BOUNDS, _UPPER_BOUNDS
  <2>q. QED
    BY <2>1 DEF _field_changed, PyEqual, Has
<1>3. key \in _LOWER_BOUNDS => key \notin _UPPER_BOUNDS
  BY DEF _LOWER_BOUNDS, _UPPER_BOUNDS
<1> DEFINE tighter == \/ ~ Has(b, key)
                      \/ Has(a, key) /\ IF key \in _LOWER_BOUNDS THEN a[key] > b[key] ELSE a[key] < b[key]
<1>4. \A direction \in {"input", "output"} :
        compatible(_compare_bound(direction, b, a, key)) /\ _field_changed(b, a, key) => (tighter <=> direction = "output")
  <2> TAKE direction \in {"input", "output"}
  <2>1. tighter \in BOOLEAN
    OBVIOUS
  <2>2. _field_changed(b, a, key) => _compare_bound(direction, b, a, key) = _classify_restriction(direction, tighter)
    BY DEF _compare_bound
  <2> HIDE DEF tighter
  <2>q. QED
    BY <2>1, <2>2, RestrictionIs
<1>5. _field_changed(b, a, key) => Has(b, key) \/ Has(a, key)
  BY DEF _field_changed, Has
<1>q. QED
  BY <1>1, <1>2, <1>3, <1>4, <1>5 DEF BoundKeys

(* The properties of an object: for a call none goes and none that is      *)
(* required comes, for an answer none that is declared comes or goes       *)
(* (_compare_names).                                                       *)
LEMMA ComparedNames ==
  ASSUME NEW b, NEW a
  PROVE  /\ compatible(_compare_names("input", b, a)) =>
              /\ DOMAIN Properties(b) \subseteq DOMAIN Properties(a)
              /\ Field(a, "required", {}) \subseteq Field(b, "required", {})
         /\ compatible(_compare_names("output", b, a)) =>
              /\ DOMAIN Properties(b) = DOMAIN Properties(a)
              /\ Field(b, "required", {}) \subseteq Field(a, "required", {})
<1> DEFINE P == DOMAIN Properties(b)
           R == DOMAIN Properties(a)
           required_b == Field(b, "required", {})
           required_a == Field(a, "required", {})
           settled == (required_b \cup required_a) \ ((P \ R) \cup (R \ P))
           added(direction) ==
             {IF direction = "output" \/ name \in required_a THEN "breaking" ELSE "additive" : name \in R \ P}
           removed == {"breaking" : name \in P \ R}
           demanded(direction) ==
             UNION {_classify_restriction(direction, TRUE) : name \in settled \cap (required_a \ required_b)}
           excused(direction) ==
             UNION {_classify_restriction(direction, FALSE) : name \in settled \cap (required_b \ required_a)}
<1>1. \A direction : _compare_names(direction, b, a)
                     = added(direction) \cup removed \cup demanded(direction) \cup excused(direction)
  BY Zenon DEF _compare_names, Properties
<1>2. ASSUME NEW direction \in {"input", "output"}, compatible(_compare_names(direction, b, a))
      PROVE  /\ "breaking" \notin added(direction) /\ P \subseteq R
             /\ "breaking" \notin demanded(direction) /\ "breaking" \notin excused(direction)
  <2>1. /\ "breaking" \notin added(direction) /\ "breaking" \notin removed
        /\ "breaking" \notin demanded(direction) /\ "breaking" \notin excused(direction)
    <3> HIDE DEF added, removed, demanded, excused
    <3>q. QED
      BY <1>1, <1>2 DEF compatible
  <2>q. QED
    BY <2>1
<1> HIDE DEF P, R, required_a, required_b
<1>3. ASSUME compatible(_compare_names("input", b, a)) PROVE P \subseteq R /\ required_a \subseteq required_b
  <2>1. P \subseteq R
    BY <1>2, <1>3
  <2>2. \A name \in R \ P : name \notin required_a
    BY <1>2, <1>3
  <2>3. settled \cap (required_a \ required_b) = {}
    BY <1>2, <1>3 DEF _classify_restriction
  <2>q. QED
    BY <2>1, <2>2, <2>3
<1>4. ASSUME compatible(_compare_names("output", b, a)) PROVE P = R /\ required_b \subseteq required_a
  <2>1. P \subseteq R
    BY <1>2, <1>4
  <2>2. R \subseteq P
    BY <1>2, <1>4
  <2>3. settled \cap (required_b \ required_a) = {}
    BY <1>2, <1>4 DEF _classify_restriction
  <2>q. QED
    BY <2>1, <2>2, <2>3
<1>q. QED
  BY <1>3, <1>4 DEF P, R, required_a, required_b

(* The alternatives of oneOf, which must be the same (_compare_oneOf).     *)
LEMMA ComparedOneOf ==
  ASSUME NEW X \in Registries, NEW Y \in Registries, NEW b \in Schemas, NEW a \in Schemas,
         compatible(_compare_oneOf(X, Y, b, a))
  PROVE  /\ Has(b, "oneOf") = Has(a, "oneOf")
         /\ Has(b, "oneOf") => b.oneOf = a.oneOf /\ \E E : Same(X, Y, E) /\ DOMAIN b.oneOf \subseteq E
<1>1. /\ Has(b, "oneOf") = Has(a, "oneOf")
      /\ Field(b, "oneOf", <<>>) = Field(a, "oneOf", <<>>)
      /\ _expanded_value_same(X, Y, DOMAIN Field(b, "oneOf", <<>>), DOMAIN Field(a, "oneOf", <<>>))
  BY DEF _compare_oneOf, compatible
<1>2. DOMAIN Field(b, "oneOf", <<>>) \in SUBSET Schemas /\ DOMAIN Field(a, "oneOf", <<>>) \in SUBSET Schemas
  BY SchemasAssumption DEF Subschemas
<1>3. \E E : Same(X, Y, E) /\ DOMAIN Field(b, "oneOf", <<>>) \subseteq E
  BY <1>1, <1>2, ExpandedSame
<1>q. QED
  BY <1>1, <1>3 DEF Field

(* Two documents that agree on a set agree on it the other way round.      *)
LEMMA SameTurned ==
  ASSUME NEW X, NEW Y, NEW E, Same(X, Y, E)
  PROVE  Same(Y, X, E)
<1>1. ASSUME NEW s \in E PROVE Inside(Y, s) \subseteq E /\ SameRef(Y, X, s)
  BY DEF Same, SameRef, Inside
<1>q. QED
  BY <1>1 DEF Same

(* What a comparison calls next, of schemas without a reference.           *)
LEMMA CallsAre ==
  ASSUME NEW X, NEW Y, NEW b, NEW a, ~ Has(b, "ref"), ~ Has(a, "ref")
  PROVE  /\ \A c \in Field(b, "anyOf", {}) \cap Field(a, "anyOf", {}) : <<c, c>> \in Calls(X, Y, b, a)
         /\ \A n \in DOMAIN Properties(b) \cap DOMAIN Properties(a) :
              <<Properties(b)[n], Properties(a)[n]>> \in Calls(X, Y, b, a)
         /\ Has(b, "items") /\ Has(a, "items") => <<b.items, a.items>> \in Calls(X, Y, b, a)
         /\ Has(More(b), "schema") /\ Has(More(a), "schema") =>
              <<More(b).schema, More(a).schema>> \in Calls(X, Y, b, a)
  BY DEF Calls

(* A compatible comparison of what is taken in carries the earlier schema  *)
(* to the later one.                                                       *)
LEMMA InputCarried ==
  ASSUME NEW X \in Registries, NEW Y \in Registries, NEW Q, Compared("input", X, Y, Q)
  PROVE  Carries(X, Y, Q)
<1>1. SUFFICES ASSUME NEW b \in Schemas, NEW a \in Schemas, <<b, a>> \in Q PROVE Carried(X, Y, Q, b, a)
  <2>1. \A p \in Q : p = <<p[1], p[2]>> /\ p[1] \in Schemas /\ p[2] \in Schemas
    BY DEF Compared
  <2>q. QED
    BY <1>1, <2>1 DEF Carries, Compared
<1>2. Calls(X, Y, b, a) \subseteq Q /\ compatible(compare("input", X, Y, b, a))
  BY <1>1 DEF Compared
<1>3. CASE Has(b, "ref") \/ Has(a, "ref")
  <2>1. /\ Has(b, "ref") /\ Has(a, "ref") /\ b.ref = a.ref
        /\ b.ref \in DOMAIN X /\ b.ref \in DOMAIN Y
        /\ <<X[b.ref], Y[a.ref]>> \in Calls(X, Y, b, a)
        /\ \A key \in (DOMAIN b \cup DOMAIN a) \ {"ref", "default"} : Has(b, key) /\ Has(a, key) /\ b[key] = a[key]
        /\ \E E : Same(X, Y, E) /\ Subschemas(b) \subseteq E
    BY <1>2, <1>3, ComparedRef
  <2>q. QED
    BY <1>2, <2>1 DEF Carried, CarriedRef
<1>4. CASE ~ Has(b, "ref") /\ ~ Has(a, "ref")
  <2>1. /\ compatible(_compare_set("input", b, a, "type")) /\ compatible(_compare_set("input", b, a, "enum"))
        /\ compatible(_compare_const("input", b, a))
        /\ compatible(_compare_opaque("input", b, a, "pattern"))
        /\ \A key \in BoundKeys : compatible(_compare_bound("input", b, a, key))
    BY <1>2, <1>4, ComparedParts DEF BoundKeys
  <2>2. CarriedScalar(b, a)
    <3>1. Has(a, "type") => Has(b, "type") /\ b.type \subseteq a.type
      BY <2>1, ComparedType
    <3>2. Has(a, "enum") => Has(b, "enum") /\ b.enum \subseteq a.enum
      BY <2>1, ComparedEnum
    <3>3. Has(a, "const") => Has(b, "const") /\ b.const = a.const
      BY <2>1, ComparedConst
    <3>4. \A key \in _LOWER_BOUNDS : Has(a, key) => Has(b, key) /\ b[key] >= a[key]
      BY <2>1, ComparedBound DEF BoundKeys
    <3>5. \A key \in _UPPER_BOUNDS : Has(a, key) => Has(b, key) /\ b[key] <= a[key]
      BY <2>1, ComparedBound DEF BoundKeys
    <3>6. Has(a, "pattern") => Has(b, "pattern") /\ b.pattern = a.pattern
      BY <2>1, ComparedPattern
    <3>q. QED
      BY <3>1, <3>2, <3>3, <3>4, <3>5, <3>6 DEF CarriedScalar
  <2>3. CarriedInside(X, Y, Q, b, a)
    <3>1. /\ Has(b, "anyOf") = Has(a, "anyOf")
          /\ Field(b, "anyOf", {}) \subseteq Field(a, "anyOf", {})
      BY <1>2, <1>4, ComparedParts, SetIs
    <3>2. Has(b, "anyOf") => b.anyOf \subseteq a.anyOf /\ \A c \in b.anyOf : <<c, c>> \in Q
      BY <1>2, <1>4, <3>1, CallsAre DEF Field
    <3>3. /\ Has(b, "oneOf") = Has(a, "oneOf")
          /\ Has(b, "oneOf") => b.oneOf = a.oneOf /\ \E E : Same(X, Y, E) /\ DOMAIN b.oneOf \subseteq E
      BY <1>2, <1>4, ComparedParts, ComparedOneOf
    <3>4. /\ DOMAIN Properties(b) \subseteq DOMAIN Properties(a)
          /\ Field(a, "required", {}) \subseteq Field(b, "required", {})
      BY <1>2, <1>4, ComparedParts, ComparedNames
    <3>5. \A n \in DOMAIN Properties(b) : n \in DOMAIN Properties(a) /\ <<Properties(b)[n], Properties(a)[n]>> \in Q
      BY <1>2, <1>4, <3>4, CallsAre
    <3>6. /\ Has(b, "items") = Has(a, "items")
          /\ Has(b, "items") => <<b.items, a.items>> \in Q
      <4>1. Has(b, "items") = Has(a, "items")
        BY <1>2, <1>4, ComparedParts
      <4>2. Has(b, "items") /\ Has(a, "items") => <<b.items, a.items>> \in Q
        BY <1>2, <1>4, CallsAre
      <4>q. QED
        BY <4>1, <4>2 DEF Has
    <3>7. /\ Has(More(b), "schema") = Has(More(a), "schema")
          /\ Has(More(b), "schema") => <<More(b).schema, More(a).schema>> \in Q
          /\ ~ Has(More(b), "schema") /\ More(b).open => More(a).open
      <4>1. \/ More(b) = More(a)
            \/ Has(More(b), "schema") /\ Has(More(a), "schema")
            \/ /\ ~ Has(More(b), "schema") /\ ~ Has(More(a), "schema")
               /\ compatible(_classify_restriction("input", More(b).open))
        BY <1>2, <1>4, ComparedParts
      <4>2. Has(More(b), "schema") /\ Has(More(a), "schema") => <<More(b).schema, More(a).schema>> \in Q
        BY <1>2, <1>4, CallsAre
      <4>3. ~ Has(More(b), "schema") => More(b).open \in BOOLEAN
        BY SchemasAssumption
      <4>4. ~ Has(More(b), "schema") /\ compatible(_classify_restriction("input", More(b).open)) => ~ More(b).open
        BY <4>3, RestrictionIs
      <4>q. QED
        BY <4>1, <4>2, <4>4 DEF Has
    <3>q. QED
      BY <1>4, <3>1, <3>2, <3>3, <3>4, <3>5, <3>6, <3>7 DEF CarriedInside
  <2>q. QED
    BY <2>2, <2>3 DEF Carried
<1>q. QED
  BY <1>3, <1>4

(* Of what is given out, the later one to the earlier.                     *)
LEMMA OutputCarried ==
  ASSUME NEW X \in Registries, NEW Y \in Registries, NEW Q, Compared("output", X, Y, Q)
  PROVE  Carries(Y, X, {<<p[2], p[1]>> : p \in Q})
<1> DEFINE T == {<<p[2], p[1]>> : p \in Q}
<1>0. \A p \in Q : p = <<p[1], p[2]>> /\ p[1] \in Schemas /\ p[2] \in Schemas
  BY DEF Compared
<1>1. SUFFICES ASSUME NEW b \in Schemas, NEW a \in Schemas, <<b, a>> \in Q PROVE Carried(Y, X, T, a, b)
  <2>1. \A q \in T : \E p \in Q : q[1] = p[2] /\ q[2] = p[1]
    OBVIOUS
  <2>2. \A p \in Q : Carried(Y, X, T, p[2], p[1])
    BY <1>0, <1>1
  <2>3. \A q \in T : Carried(Y, X, T, q[1], q[2])
    <3> HIDE DEF T
    <3>q. QED
      BY <2>1, <2>2
  <2>4. T \subseteq Schemas \X Schemas
    BY <1>0
  <2>q. QED
    BY <2>3, <2>4 DEF Carries
<1>2. Calls(X, Y, b, a) \subseteq Q /\ compatible(compare("output", X, Y, b, a))
  BY <1>1 DEF Compared
<1>3. \A s, t : <<s, t>> \in Calls(X, Y, b, a) => <<t, s>> \in T
  BY <1>2
<1> HIDE DEF T
<1>4. CASE Has(b, "ref") \/ Has(a, "ref")
  <2>1. /\ Has(b, "ref") /\ Has(a, "ref") /\ b.ref = a.ref
        /\ b.ref \in DOMAIN X /\ b.ref \in DOMAIN Y
        /\ <<X[b.ref], Y[a.ref]>> \in Calls(X, Y, b, a)
        /\ \A key \in (DOMAIN b \cup DOMAIN a) \ {"ref", "default"} : Has(b, key) /\ Has(a, key) /\ b[key] = a[key]
        /\ Subschemas(b) = Subschemas(a)
        /\ \E E : Same(X, Y, E) /\ Subschemas(b) \subseteq E
    BY <1>2, <1>4, ComparedRef
  <2>2. \E E : Same(Y, X, E) /\ Subschemas(a) \subseteq E
    BY <2>1, SameTurned
  <2>q. QED
    BY <1>3, <2>1, <2>2 DEF Carried, CarriedRef
<1>5. CASE ~ Has(b, "ref") /\ ~ Has(a, "ref")
  <2>1. /\ compatible(_compare_set("output", b, a, "type")) /\ compatible(_compare_set("output", b, a, "enum"))
        /\ compatible(_compare_const("output", b, a))
        /\ compatible(_compare_opaque("output", b, a, "pattern"))
        /\ \A key \in BoundKeys : compatible(_compare_bound("output", b, a, key))
    BY <1>2, <1>5, ComparedParts DEF BoundKeys
  <2>2. CarriedScalar(a, b)
    <3>1. Has(b, "type") => Has(a, "type") /\ a.type \subseteq b.type
      BY <2>1, ComparedType
    <3>2. Has(b, "enum") => Has(a, "enum") /\ a.enum \subseteq b.enum
      BY <2>1, ComparedEnum
    <3>3. Has(b, "const") => Has(a, "const") /\ a.const = b.const
      BY <2>1, ComparedConst
    <3>4. \A key \in _LOWER_BOUNDS : Has(b, key) => Has(a, key) /\ a[key] >= b[key]
      BY <2>1, ComparedBound DEF BoundKeys
    <3>5. \A key \in _UPPER_BOUNDS : Has(b, key) => Has(a, key) /\ a[key] <= b[key]
      BY <2>1, ComparedBound DEF BoundKeys
    <3>6. Has(b, "pattern") => Has(a, "pattern") /\ a.pattern = b.pattern
      BY <2>1, ComparedPattern
    <3>q. QED
      BY <3>1, <3>2, <3>3, <3>4, <3>5, <3>6 DEF CarriedScalar
  <2>3. CarriedInside(Y, X, T, a, b)
    <3>1. /\ Has(b, "anyOf") = Has(a, "anyOf")
          /\ Field(a, "anyOf", {}) \subseteq Field(b, "anyOf", {})
      BY <1>2, <1>5, ComparedParts, SetIs
    <3>2. Has(a, "anyOf") => a.anyOf \subseteq b.anyOf /\ \A c \in a.anyOf : <<c, c>> \in T
      BY <1>3, <1>5, <3>1, CallsAre DEF Field
    <3>3. /\ Has(b, "oneOf") = Has(a, "oneOf")
          /\ Has(b, "oneOf") => b.oneOf = a.oneOf /\ \E E : Same(X, Y, E) /\ DOMAIN b.oneOf \subseteq E
      BY <1>2, <1>5, ComparedParts, ComparedOneOf
    <3>4. Has(a, "oneOf") => a.oneOf = b.oneOf /\ \E E : Same(Y, X, E) /\ DOMAIN a.oneOf \subseteq E
      BY <3>3, SameTurned
    <3>5. /\ DOMAIN Properties(b) = DOMAIN Properties(a)
          /\ Field(b, "required", {}) \subseteq Field(a, "required", {})
      BY <1>2, <1>5, ComparedParts, ComparedNames
    <3>6. \A n \in DOMAIN Properties(a) : n \in DOMAIN Properties(b) /\ <<Properties(a)[n], Properties(b)[n]>> \in T
      BY <1>3, <1>5, <3>5, CallsAre
    <3>7. /\ Has(b, "items") = Has(a, "items")
          /\ Has(a, "items") => <<a.items, b.items>> \in T
      <4>1. Has(b, "items") = Has(a, "items")
        BY <1>2, <1>5, ComparedParts
      <4>2. Has(b, "items") /\ Has(a, "items") => <<a.items, b.items>> \in T
        BY <1>3, <1>5, CallsAre
      <4>q. QED
        BY <4>1, <4>2 DEF Has
    <3>8. /\ Has(More(b), "schema") = Has(More(a), "schema")
          /\ Has(More(a), "schema") => <<More(a).schema, More(b).schema>> \in T
          /\ ~ Has(More(a), "schema") /\ More(a).open => More(b).open
      <4>1. \/ More(b) = More(a)
            \/ Has(More(b), "schema") /\ Has(More(a), "schema")
            \/ /\ ~ Has(More(b), "schema") /\ ~ Has(More(a), "schema")
               /\ compatible(_classify_restriction("output", More(b).open))
        BY <1>2, <1>5, ComparedParts
      <4>2. Has(More(b), "schema") /\ Has(More(a), "schema") => <<More(a).schema, More(b).schema>> \in T
        BY <1>3, <1>5, CallsAre
      <4>3. ~ Has(More(b), "schema") => More(b).open \in BOOLEAN
        BY SchemasAssumption
      <4>4. ~ Has(More(b), "schema") /\ compatible(_classify_restriction("output", More(b).open)) => More(b).open
        BY <4>3, RestrictionIs
      <4>q. QED
        BY <4>1, <4>2, <4>4 DEF Has
    <3>q. QED
      BY <1>5, <3>1, <3>2, <3>3, <3>4, <3>5, <3>6, <3>7, <3>8 DEF CarriedInside
  <2>q. QED
    BY <2>2, <2>3 DEF Carried
<1>q. QED
  BY <1>4, <1>5

-----------------------------------------------------------------------------
(* What the values of a schema say, seen from one that carries it.         *)
Follows(X, Y, Q, x, v) ==
  \A next \in Consulted(X, x, v) : \A z :
    <<next[1], z>> \in Q /\ Speaks(X, next[1], next[2]) => Speaks(Y, z, next[2])

(* What a document speaks of keeps to the definitions of validation.       *)
LEMMA SpeaksIs ==
  ASSUME NEW document \in Registries, NEW s \in Schemas, NEW v \in Values
  PROVE  Speaks(document, s, v) <=> Validates(Admitted, document, s, v) /\ SaysSomethingOf(Declared, document, s, v)
  BY AdmitsIs, DeclaresIs DEF Speaks

(* The fields of an object, one by one.                                    *)
LEMMA CarriedFields ==
  ASSUME NEW X \in Registries, NEW Y \in Registries, NEW Q, NEW x \in Schemas, NEW y \in Schemas, NEW v \in Values,
         CarriedScalar(x, y), CarriedInside(X, Y, Q, x, y), Follows(X, Y, Q, x, v), Speaks(X, x, v),
         v.kind = "object", NEW n \in DOMAIN v.fields
  PROVE  /\ n \in DOMAIN Properties(y) => Speaks(Y, Properties(y)[n], v.fields[n])
         /\ n \notin DOMAIN Properties(y) /\ Has(More(y), "schema") => Speaks(Y, More(y).schema, v.fields[n])
         /\ n \notin DOMAIN Properties(y) /\ ~ Has(More(y), "schema") => More(y).open
         /\ Has(y, "properties") \/ Has(y, "type") => n \in DOMAIN Properties(y) \/ Has(More(y), "schema")
<1>1. IF n \in DOMAIN Properties(x) THEN Admits(X, Properties(x)[n], v.fields[n])
      ELSE IF Has(More(x), "schema") THEN Admits(X, More(x).schema, v.fields[n]) ELSE More(x).open
  <2>1. Validates(Admitted, X, x, v)
    BY SpeaksIs
  <2>q. QED
    BY <2>1 DEF Validates, Admits
<1>2. Has(x, "properties") \/ Has(x, "type") =>
        IF n \in DOMAIN Properties(x) THEN Declares(X, Properties(x)[n], v.fields[n])
        ELSE Has(More(x), "schema") /\ Declares(X, More(x).schema, v.fields[n])
  <2>1. SaysSomethingOf(Declared, X, x, v)
    BY SpeaksIs
  <2>q. QED
    BY <2>1 DEF SaysSomethingOf, Declares
<1>3. n \in DOMAIN Properties(x) => Has(x, "properties")
  BY DEF Properties, Field
<1>4. n \in DOMAIN Properties(y) => Has(y, "properties")
  BY DEF Properties, Field
<1>5. /\ Has(x, "properties") \/ Has(More(x), "schema") => Has(x, "type")
      /\ Has(y, "properties") \/ Has(More(y), "schema") => Has(y, "type")
      /\ Has(More(x), "schema") => DOMAIN Properties(x) = {}
      /\ Has(More(y), "schema") => DOMAIN Properties(y) = {}
  BY SchemasAssumption
<1>6. Has(y, "type") => Has(x, "type")
  BY DEF CarriedScalar
<1>7. /\ n \in DOMAIN Properties(x) => n \in DOMAIN Properties(y) /\ <<Properties(x)[n], Properties(y)[n]>> \in Q
      /\ Has(More(x), "schema") <=> Has(More(y), "schema")
      /\ Has(More(x), "schema") => <<More(x).schema, More(y).schema>> \in Q
      /\ ~ Has(More(x), "schema") /\ More(x).open => More(y).open
  BY DEF CarriedInside, Has
<1>8. n \in DOMAIN Properties(x) => Speaks(Y, Properties(y)[n], v.fields[n])
  <2>1. SUFFICES ASSUME n \in DOMAIN Properties(x) PROVE Speaks(Y, Properties(y)[n], v.fields[n])
    OBVIOUS
  <2>2. Speaks(X, Properties(x)[n], v.fields[n])
    BY <1>1, <1>2, <1>3, <2>1 DEF Speaks
  <2>3. <<Properties(x)[n], v.fields[n]>> \in Consulted(X, x, v)
    BY <2>1, ConsultedAre
  <2>q. QED
    BY <1>7, <2>1, <2>2, <2>3 DEF Follows
<1>9. Has(More(x), "schema") => Speaks(Y, More(y).schema, v.fields[n])
  <2>1. SUFFICES ASSUME Has(More(x), "schema") PROVE Speaks(Y, More(y).schema, v.fields[n])
    OBVIOUS
  <2>2. n \notin DOMAIN Properties(x) /\ Has(x, "type")
    BY <1>5, <2>1
  <2>3. Speaks(X, More(x).schema, v.fields[n])
    BY <1>1, <1>2, <2>1, <2>2 DEF Speaks
  <2>4. <<More(x).schema, v.fields[n]>> \in Consulted(X, x, v)
    BY <2>1, ConsultedAre
  <2>q. QED
    BY <1>7, <2>1, <2>3, <2>4 DEF Follows
<1>10. n \in DOMAIN Properties(y) => n \in DOMAIN Properties(x)
  BY <1>2, <1>4, <1>5, <1>6, <1>7
<1>11. Has(y, "properties") \/ Has(y, "type") => n \in DOMAIN Properties(y) \/ Has(More(y), "schema")
  BY <1>2, <1>5, <1>6, <1>7
<1>q. QED
  BY <1>1, <1>7, <1>8, <1>9, <1>10, <1>11

(* A value that the carried schema speaks of is valid for the one that     *)
(* carries it.                                                             *)
LEMMA CarriedKeywordsValid ==
  ASSUME NEW X \in Registries, NEW Y \in Registries, NEW Q, NEW x \in Schemas, NEW y \in Schemas, NEW v \in Values,
         CarriedScalar(x, y), CarriedInside(X, Y, Q, x, y), Follows(X, Y, Q, x, v), Speaks(X, x, v)
  PROVE  Validates(Admitted, Y, y, v)
<1>1. Validates(Admitted, X, x, v) /\ SaysSomethingOf(Declared, X, x, v)
  BY SpeaksIs
<1>2. ~ Has(y, "ref")
  BY DEF CarriedInside
<1>3. /\ Has(y, "type") => v.kind \in y.type \/ (v.kind = "integer" /\ "number" \in y.type)
      /\ Has(y, "enum") => v \in y.enum
      /\ Has(y, "const") => v = y.const
  BY <1>1 DEF Validates, CarriedScalar
<1>4. ASSUME v.kind = "integer"
      PROVE  v.num >= Field(y, "minimum", v.num) /\ v.num <= Field(y, "maximum", v.num)
  <2>1. v.num \in Int
    BY ValuesAssumption
  <2>2. /\ Has(y, "minimum") => y.minimum \in Int /\ x.minimum \in Int /\ x.minimum >= y.minimum /\ v.num >= x.minimum
        /\ Has(y, "maximum") => y.maximum \in Int /\ x.maximum \in Int /\ x.maximum <= y.maximum /\ v.num <= x.maximum
    <3>1. {"minimum", "maximum"} \subseteq BoundKeys /\ "minimum" \in _LOWER_BOUNDS /\ "maximum" \in _UPPER_BOUNDS
      BY DEF BoundKeys, _LOWER_BOUNDS, _UPPER_BOUNDS
    <3>2. /\ Has(y, "minimum") => Has(x, "minimum") /\ x.minimum >= y.minimum
          /\ Has(y, "maximum") => Has(x, "maximum") /\ x.maximum <= y.maximum
      BY <3>1 DEF CarriedScalar
    <3>3. \A s \in Schemas : /\ Has(s, "minimum") => s.minimum \in Int
                             /\ Has(s, "maximum") => s.maximum \in Int
      BY <3>1, SchemasAssumption
    <3>4. /\ Has(x, "minimum") => v.num >= x.minimum
          /\ Has(x, "maximum") => v.num <= x.maximum
      BY <1>1, <1>4 DEF Validates, Field
    <3>q. QED
      BY <3>2, <3>3, <3>4
  <2>q. QED
    BY <2>1, <2>2 DEF Field
<1>5. ASSUME v.kind = "string"
      PROVE  /\ v.num >= Field(y, "minLength", v.num) /\ v.num <= Field(y, "maxLength", v.num)
             /\ v.num \in Field(y, "pattern", {v.num})
  <2>1. v.num \in Int
    BY ValuesAssumption
  <2>2. /\ Has(y, "minLength") =>
             y.minLength \in Int /\ x.minLength \in Int /\ x.minLength >= y.minLength /\ v.num >= x.minLength
        /\ Has(y, "maxLength") =>
             y.maxLength \in Int /\ x.maxLength \in Int /\ x.maxLength <= y.maxLength /\ v.num <= x.maxLength
    <3>1. {"minLength", "maxLength"} \subseteq BoundKeys /\ "minLength" \in _LOWER_BOUNDS /\ "maxLength" \in _UPPER_BOUNDS
      BY DEF BoundKeys, _LOWER_BOUNDS, _UPPER_BOUNDS
    <3>2. /\ Has(y, "minLength") => Has(x, "minLength") /\ x.minLength >= y.minLength
          /\ Has(y, "maxLength") => Has(x, "maxLength") /\ x.maxLength <= y.maxLength
      BY <3>1 DEF CarriedScalar
    <3>3. \A s \in Schemas : /\ Has(s, "minLength") => s.minLength \in Int
                             /\ Has(s, "maxLength") => s.maxLength \in Int
      BY <3>1, SchemasAssumption
    <3>4. /\ Has(x, "minLength") => v.num >= x.minLength
          /\ Has(x, "maxLength") => v.num <= x.maxLength
      BY <1>1, <1>5 DEF Validates, Field
    <3>q. QED
      BY <3>2, <3>3, <3>4
  <2>3. Has(y, "pattern") => v.num \in y.pattern
    BY <1>1, <1>5 DEF Validates, CarriedScalar, Field
  <2>q. QED
    BY <2>1, <2>2, <2>3 DEF Field
<1>6. ASSUME v.kind = "array"
      PROVE  /\ Len(v.items) >= Field(y, "minItems", 0)
             /\ Has(y, "items") => \A i \in DOMAIN v.items : Admitted[<<Y, y.items, v.items[i]>>]
  <2>1. Len(v.items) \in Nat
    BY ValuesAssumption
  <2>2. Has(y, "minItems") => y.minItems \in Int /\ x.minItems \in Int /\ x.minItems >= y.minItems
                              /\ Len(v.items) >= x.minItems
    <3>1. "minItems" \in BoundKeys /\ "minItems" \in _LOWER_BOUNDS
      BY DEF BoundKeys, _LOWER_BOUNDS, _UPPER_BOUNDS
    <3>2. Has(y, "minItems") => Has(x, "minItems") /\ x.minItems >= y.minItems
      BY <3>1 DEF CarriedScalar
    <3>3. \A s \in Schemas : Has(s, "minItems") => s.minItems \in Int
      BY <3>1, SchemasAssumption
    <3>4. Has(x, "minItems") => Len(v.items) >= x.minItems
      BY <1>1, <1>6 DEF Validates, Field
    <3>q. QED
      BY <3>2, <3>3, <3>4
  <2>3. Len(v.items) >= Field(y, "minItems", 0)
    BY <2>1, <2>2 DEF Field
  <2>4. ASSUME Has(y, "items"), NEW i \in DOMAIN v.items PROVE Admitted[<<Y, y.items, v.items[i]>>]
    <3>1. Has(x, "items") /\ <<x.items, y.items>> \in Q
      BY <2>4 DEF CarriedInside
    <3>2. Admits(X, x.items, v.items[i])
      BY <1>1, <1>6, <3>1 DEF Validates, Admits
    <3>3. Declares(X, x.items, v.items[i])
      BY <1>1, <1>6, <3>1 DEF SaysSomethingOf, Declares
    <3>4. <<x.items, v.items[i]>> \in Consulted(X, x, v)
      BY <3>1, ConsultedAre
    <3>5. Speaks(Y, y.items, v.items[i])
      BY <3>1, <3>2, <3>3, <3>4 DEF Follows, Speaks
    <3>q. QED
      BY <3>5 DEF Speaks, Admits
  <2>q. QED
    BY <2>3, <2>4
<1>7. ASSUME v.kind = "object"
      PROVE  /\ Field(y, "required", {}) \subseteq DOMAIN v.fields
             /\ \A n \in DOMAIN v.fields :
                  IF n \in DOMAIN Properties(y) THEN Admitted[<<Y, Properties(y)[n], v.fields[n]>>]
                  ELSE IF Has(More(y), "schema") THEN Admitted[<<Y, More(y).schema, v.fields[n]>>] ELSE More(y).open
  <2>1. Field(y, "required", {}) \subseteq DOMAIN v.fields
    BY <1>1, <1>7 DEF Validates, CarriedInside
  <2>2. ASSUME NEW n \in DOMAIN v.fields
        PROVE  IF n \in DOMAIN Properties(y) THEN Admits(Y, Properties(y)[n], v.fields[n])
               ELSE IF Has(More(y), "schema") THEN Admits(Y, More(y).schema, v.fields[n]) ELSE More(y).open
    <3>1. /\ n \in DOMAIN Properties(y) => Speaks(Y, Properties(y)[n], v.fields[n])
          /\ n \notin DOMAIN Properties(y) /\ Has(More(y), "schema") => Speaks(Y, More(y).schema, v.fields[n])
          /\ n \notin DOMAIN Properties(y) /\ ~ Has(More(y), "schema") => More(y).open
      BY <1>7, CarriedFields
    <3>q. QED
      BY <3>1 DEF Speaks
  <2>q. QED
    BY <2>1, <2>2 DEF Admits
<1>8. Has(y, "anyOf") => \E c \in y.anyOf : Admitted[<<Y, c, v>>]
  <2>1. SUFFICES ASSUME Has(y, "anyOf") PROVE \E c \in y.anyOf : Admitted[<<Y, c, v>>]
    OBVIOUS
  <2>2. Has(x, "anyOf") /\ x.anyOf \subseteq y.anyOf /\ \A c \in x.anyOf : <<c, c>> \in Q
    BY <2>1 DEF CarriedInside
  <2>3. PICK c \in x.anyOf : Admits(X, c, v) /\ Declares(X, c, v)
    BY <1>1, <2>2 DEF SaysSomethingOf, Declares
  <2>4. <<c, v>> \in Consulted(X, x, v)
    BY <2>2, ConsultedAre
  <2>5. Speaks(Y, c, v)
    BY <2>2, <2>3, <2>4 DEF Follows, Speaks
  <2>q. QED
    BY <2>2, <2>5 DEF Speaks, Admits
<1>9. Has(y, "oneOf") => \E c \in DOMAIN y.oneOf :
                           /\ y.oneOf[c] = 1
                           /\ Admitted[<<Y, c, v>>]
                           /\ \A other \in DOMAIN y.oneOf \ {c} : ~ Admitted[<<Y, other, v>>]
  <2>1. SUFFICES ASSUME Has(y, "oneOf")
                 PROVE  \E c \in DOMAIN y.oneOf :
                           /\ y.oneOf[c] = 1
                           /\ Admitted[<<Y, c, v>>]
                           /\ \A other \in DOMAIN y.oneOf \ {c} : ~ Admitted[<<Y, other, v>>]
    OBVIOUS
  <2>2. Has(x, "oneOf") /\ x.oneOf = y.oneOf /\ \E E : Same(X, Y, E) /\ DOMAIN x.oneOf \subseteq E
    BY <2>1 DEF CarriedInside
  <2>3. \A c \in DOMAIN x.oneOf : Admitted[<<X, c, v>>] = Admitted[<<Y, c, v>>]
    BY <2>2, SameAdmits DEF Admits
  <2>4. \E c \in DOMAIN x.oneOf :
                           /\ x.oneOf[c] = 1
                           /\ Admitted[<<X, c, v>>]
                           /\ \A other \in DOMAIN x.oneOf \ {c} : ~ Admitted[<<X, other, v>>]
    BY <1>1, <2>2 DEF Validates
  <2>q. QED
    BY <2>2, <2>3, <2>4
<1>q. QED
  BY <1>2, <1>3, <1>4, <1>5, <1>6, <1>7, <1>8, <1>9, Zenon DEF Validates

(* And the one that carries it says something of it.                       *)
LEMMA CarriedKeywordsSay ==
  ASSUME NEW X \in Registries, NEW Y \in Registries, NEW Q, NEW x \in Schemas, NEW y \in Schemas, NEW v \in Values,
         CarriedScalar(x, y), CarriedInside(X, Y, Q, x, y), Follows(X, Y, Q, x, v), Speaks(X, x, v)
  PROVE  SaysSomethingOf(Declared, Y, y, v)
<1>1. Validates(Admitted, X, x, v) /\ SaysSomethingOf(Declared, X, x, v)
  BY SpeaksIs
<1>2. ~ Has(y, "ref")
  BY DEF CarriedInside
<1>3. ASSUME v.kind = "array", Has(y, "items"), NEW i \in DOMAIN v.items
      PROVE  Declared[<<Y, y.items, v.items[i]>>]
  <2>1. Has(x, "items") /\ <<x.items, y.items>> \in Q
    BY <1>3 DEF CarriedInside
  <2>2. Admits(X, x.items, v.items[i])
    BY <1>1, <1>3, <2>1 DEF Validates, Admits
  <2>3. Declares(X, x.items, v.items[i])
    BY <1>1, <1>3, <2>1 DEF SaysSomethingOf, Declares
  <2>4. <<x.items, v.items[i]>> \in Consulted(X, x, v)
    BY <1>3, <2>1, ConsultedAre
  <2>5. Speaks(Y, y.items, v.items[i])
    BY <2>1, <2>2, <2>3, <2>4 DEF Follows, Speaks
  <2>q. QED
    BY <2>5 DEF Speaks, Declares
<1>4. ASSUME v.kind = "object", Has(y, "properties") \/ Has(y, "type"), NEW n \in DOMAIN v.fields
      PROVE  IF n \in DOMAIN Properties(y) THEN Declared[<<Y, Properties(y)[n], v.fields[n]>>]
             ELSE Has(More(y), "schema") /\ Declared[<<Y, More(y).schema, v.fields[n]>>]
  <2>1. /\ n \in DOMAIN Properties(y) => Speaks(Y, Properties(y)[n], v.fields[n])
        /\ n \notin DOMAIN Properties(y) /\ Has(More(y), "schema") => Speaks(Y, More(y).schema, v.fields[n])
        /\ n \in DOMAIN Properties(y) \/ Has(More(y), "schema")
    BY <1>4, CarriedFields
  <2>q. QED
    BY <2>1 DEF Speaks, Declares
<1>5. ASSUME Has(y, "anyOf") PROVE \E c \in y.anyOf : Admits(Y, c, v) /\ Declared[<<Y, c, v>>]
  <2>1. Has(x, "anyOf") /\ x.anyOf \subseteq y.anyOf /\ \A c \in x.anyOf : <<c, c>> \in Q
    BY <1>5 DEF CarriedInside
  <2>2. PICK c \in x.anyOf : Admits(X, c, v) /\ Declares(X, c, v)
    BY <1>1, <2>1 DEF SaysSomethingOf, Declares
  <2>3. <<c, v>> \in Consulted(X, x, v)
    BY <2>1, ConsultedAre
  <2>4. Speaks(Y, c, v)
    BY <2>1, <2>2, <2>3 DEF Follows, Speaks
  <2>q. QED
    BY <2>1, <2>4 DEF Speaks, Declares
<1>6. ASSUME Has(y, "oneOf") PROVE \E c \in DOMAIN y.oneOf : Admits(Y, c, v) /\ Declared[<<Y, c, v>>]
  <2>1. Has(x, "oneOf") /\ x.oneOf = y.oneOf /\ \E E : Same(X, Y, E) /\ DOMAIN x.oneOf \subseteq E
    BY <1>6 DEF CarriedInside
  <2>2. \A c \in DOMAIN x.oneOf : Admits(X, c, v) = Admits(Y, c, v) /\ Declares(X, c, v) = Declares(Y, c, v)
    BY <2>1, SameAdmits
  <2>3. \E c \in DOMAIN x.oneOf : Admits(X, c, v) /\ Declares(X, c, v)
    BY <1>1, <2>1 DEF SaysSomethingOf, Declares
  <2>q. QED
    BY <2>1, <2>2, <2>3 DEF Declares
<1>q. QED
  BY <1>2, <1>3, <1>4, <1>5, <1>6, Zenon DEF SaysSomethingOf

(* A schema that only refers, with what is written beside the reference.   *)
LEMMA CarriedRefSpeaks ==
  ASSUME NEW X \in Registries, NEW Y \in Registries, NEW Q, NEW x \in Schemas, NEW y \in Schemas, NEW v \in Values,
         CarriedRef(X, Y, Q, x, y), Follows(X, Y, Q, x, v), Speaks(X, x, v)
  PROVE  Speaks(Y, y, v)
<1>1. Validates(Admitted, X, x, v) /\ SaysSomethingOf(Declared, X, x, v)
  BY SpeaksIs
<1>2. /\ Has(x, "ref") /\ Has(y, "ref") /\ x.ref = y.ref
      /\ x.ref \in DOMAIN X /\ x.ref \in DOMAIN Y /\ <<X[x.ref], Y[x.ref]>> \in Q
  BY DEF CarriedRef
<1>3. Speaks(Y, Y[y.ref], v)
  <2>1. Admits(X, X[x.ref], v) /\ Declares(X, X[x.ref], v)
    BY <1>1, <1>2 DEF Validates, SaysSomethingOf, Admits, Declares
  <2>2. <<X[x.ref], v>> \in Consulted(X, x, v)
    BY <1>2, ConsultedAre
  <2>q. QED
    BY <1>2, <2>1, <2>2 DEF Follows, Speaks
<1>4. \A key : key \notin {"ref", "default"} => (Has(x, key) <=> Has(y, key)) /\ (Has(x, key) => x[key] = y[key])
  BY DEF CarriedRef, Has
<1>5. PICK E : Same(X, Y, E) /\ Subschemas(x) \subseteq E
  BY DEF CarriedRef
<1>6. ASSUME NEW t \in Subschemas(x), NEW w \in Values
      PROVE  Admits(X, t, w) = Admits(Y, t, w) /\ Declares(X, t, w) = Declares(Y, t, w)
  BY <1>5, <1>6, SameAdmits
<1>7. /\ Properties(y) = Properties(x) /\ More(y) = More(x)
      /\ \A default : /\ Field(y, "required", default) = Field(x, "required", default)
                      /\ Field(y, "minimum", default) = Field(x, "minimum", default)
                      /\ Field(y, "maximum", default) = Field(x, "maximum", default)
                      /\ Field(y, "minLength", default) = Field(x, "minLength", default)
                      /\ Field(y, "maxLength", default) = Field(x, "maxLength", default)
                      /\ Field(y, "pattern", default) = Field(x, "pattern", default)
                      /\ Field(y, "minItems", default) = Field(x, "minItems", default)
  BY <1>4 DEF Properties, More, Field
<1>8. /\ Has(y, "items") => Has(x, "items") /\ x.items = y.items /\ x.items \in Subschemas(x)
      /\ Has(y, "anyOf") => Has(x, "anyOf") /\ x.anyOf = y.anyOf /\ x.anyOf \subseteq Subschemas(x)
      /\ Has(y, "oneOf") => Has(x, "oneOf") /\ x.oneOf = y.oneOf /\ DOMAIN x.oneOf \subseteq Subschemas(x)
      /\ \A n \in DOMAIN Properties(x) : Properties(x)[n] \in Subschemas(x)
      /\ Has(More(x), "schema") => More(x).schema \in Subschemas(x)
  <2>1. Has(More(x), "schema") => More(x).schema \in Subschemas(x)
    <3>1. SUFFICES ASSUME Has(More(x), "schema") PROVE More(x).schema \in Subschemas(x)
      OBVIOUS
    <3>2. Has(x, "additionalProperties") /\ More(x) = x.additionalProperties
      <4>1. ~ Has([open |-> TRUE], "schema")
        BY DEF Has
      <4>q. QED
        BY <3>1, <4>1 DEF More, Field
    <3>q. QED
      BY <3>1, <3>2 DEF Subschemas
  <2>2. \A n \in DOMAIN Properties(x) : Properties(x)[n] \in Subschemas(x)
    BY DEF Subschemas, Properties
  <2>3. Has(y, "items") => Has(x, "items") /\ x.items = y.items /\ x.items \in Subschemas(x)
    BY <1>4 DEF Subschemas
  <2>4. Has(y, "anyOf") => Has(x, "anyOf") /\ x.anyOf = y.anyOf /\ x.anyOf \subseteq Subschemas(x)
    BY <1>4 DEF Subschemas, Field
  <2>5. Has(y, "oneOf") => Has(x, "oneOf") /\ x.oneOf = y.oneOf /\ DOMAIN x.oneOf \subseteq Subschemas(x)
    BY <1>4 DEF Subschemas, Field
  <2>q. QED
    BY <2>1, <2>2, <2>3, <2>4, <2>5
<1>9. Validates(Admitted, Y, y, v)
  <2>1. Has(y, "ref") => y.ref \in DOMAIN Y /\ Admitted[<<Y, Y[y.ref], v>>]
    BY <1>2, <1>3 DEF Speaks, Admits
  <2>2. /\ Has(y, "type") => v.kind \in y.type \/ (v.kind = "integer" /\ "number" \in y.type)
        /\ Has(y, "enum") => v \in y.enum
        /\ Has(y, "const") => v = y.const
    BY <1>1, <1>4 DEF Validates
  <2>3. /\ v.kind = "integer" => v.num >= Field(y, "minimum", v.num) /\ v.num <= Field(y, "maximum", v.num)
        /\ v.kind = "string" => /\ v.num >= Field(y, "minLength", v.num) /\ v.num <= Field(y, "maxLength", v.num)
                                /\ v.num \in Field(y, "pattern", {v.num})
        /\ v.kind = "array" => Len(v.items) >= Field(y, "minItems", 0)
        /\ v.kind = "object" => Field(y, "required", {}) \subseteq DOMAIN v.fields
    BY <1>1, <1>7 DEF Validates
  <2>4. ASSUME v.kind = "array", Has(y, "items"), NEW i \in DOMAIN v.items
        PROVE  Admitted[<<Y, y.items, v.items[i]>>]
    <3>1. Admits(X, x.items, v.items[i])
      BY <1>1, <1>8, <2>4 DEF Validates, Admits
    <3>2. v.items[i] \in Values
      BY <2>4, ValuesAssumption
    <3>q. QED
      BY <1>6, <1>8, <2>4, <3>1, <3>2 DEF Admits
  <2>5. ASSUME v.kind = "object", NEW n \in DOMAIN v.fields
        PROVE  IF n \in DOMAIN Properties(y) THEN Admitted[<<Y, Properties(y)[n], v.fields[n]>>]
               ELSE IF Has(More(y), "schema") THEN Admitted[<<Y, More(y).schema, v.fields[n]>>] ELSE More(y).open
    <3>1. IF n \in DOMAIN Properties(x) THEN Admits(X, Properties(x)[n], v.fields[n])
          ELSE IF Has(More(x), "schema") THEN Admits(X, More(x).schema, v.fields[n]) ELSE More(x).open
      BY <1>1, <2>5 DEF Validates, Admits
    <3>2. v.fields[n] \in Values
      BY <2>5, ValuesAssumption
    <3>3. n \in DOMAIN Properties(x) => Admits(X, Properties(x)[n], v.fields[n]) = Admits(Y, Properties(x)[n], v.fields[n])
      BY <1>6, <1>8, <3>2
    <3>4. Has(More(x), "schema") => Admits(X, More(x).schema, v.fields[n]) = Admits(Y, More(x).schema, v.fields[n])
      BY <1>6, <1>8, <3>2
    <3>q. QED
      BY <1>7, <3>1, <3>3, <3>4 DEF Admits
  <2>6. ASSUME Has(y, "anyOf") PROVE \E c \in y.anyOf : Admitted[<<Y, c, v>>]
    <3>1. PICK c \in x.anyOf : Admits(X, c, v)
      BY <1>1, <1>8, <2>6 DEF Validates, Admits
    <3>q. QED
      BY <1>6, <1>8, <2>6, <3>1 DEF Admits
  <2>7. ASSUME Has(y, "oneOf")
        PROVE  \E c \in DOMAIN y.oneOf :
                  /\ y.oneOf[c] = 1
                  /\ Admitted[<<Y, c, v>>]
                  /\ \A other \in DOMAIN y.oneOf \ {c} : ~ Admitted[<<Y, other, v>>]
    <3>1. \E c \in DOMAIN x.oneOf :
                  /\ x.oneOf[c] = 1
                  /\ Admitted[<<X, c, v>>]
                  /\ \A other \in DOMAIN x.oneOf \ {c} : ~ Admitted[<<X, other, v>>]
      BY <1>1, <1>8, <2>7 DEF Validates
    <3>2. \A c \in DOMAIN x.oneOf : Admitted[<<X, c, v>>] = Admitted[<<Y, c, v>>]
      BY <1>6, <1>8, <2>7 DEF Admits
    <3>q. QED
      BY <1>8, <2>7, <3>1, <3>2
  <2>q. QED
    BY <2>1, <2>2, <2>3, <2>4, <2>5, <2>6, <2>7, Zenon DEF Validates
<1>10. SaysSomethingOf(Declared, Y, y, v)
  <2>1. Has(y, "ref") => y.ref \in DOMAIN Y /\ Declared[<<Y, Y[y.ref], v>>]
    BY <1>2, <1>3 DEF Speaks, Declares
  <2>2. ASSUME v.kind = "array", Has(y, "items"), NEW i \in DOMAIN v.items
        PROVE  Declared[<<Y, y.items, v.items[i]>>]
    <3>1. Declares(X, x.items, v.items[i])
      BY <1>1, <1>8, <2>2 DEF SaysSomethingOf, Declares
    <3>2. v.items[i] \in Values
      BY <2>2, ValuesAssumption
    <3>q. QED
      BY <1>6, <1>8, <2>2, <3>1, <3>2 DEF Declares
  <2>3. ASSUME v.kind = "object", Has(y, "properties") \/ Has(y, "type"), NEW n \in DOMAIN v.fields
        PROVE  IF n \in DOMAIN Properties(y) THEN Declared[<<Y, Properties(y)[n], v.fields[n]>>]
               ELSE Has(More(y), "schema") /\ Declared[<<Y, More(y).schema, v.fields[n]>>]
    <3>1. IF n \in DOMAIN Properties(x) THEN Declares(X, Properties(x)[n], v.fields[n])
          ELSE Has(More(x), "schema") /\ Declares(X, More(x).schema, v.fields[n])
      BY <1>1, <1>4, <2>3 DEF SaysSomethingOf, Declares
    <3>2. v.fields[n] \in Values
      BY <2>3, ValuesAssumption
    <3>3. n \in DOMAIN Properties(x) => Declares(X, Properties(x)[n], v.fields[n]) = Declares(Y, Properties(x)[n], v.fields[n])
      BY <1>6, <1>8, <3>2
    <3>4. Has(More(x), "schema") => Declares(X, More(x).schema, v.fields[n]) = Declares(Y, More(x).schema, v.fields[n])
      BY <1>6, <1>8, <3>2
    <3>q. QED
      BY <1>7, <3>1, <3>3, <3>4 DEF Declares
  <2>4. ASSUME Has(y, "anyOf") PROVE \E c \in y.anyOf : Admits(Y, c, v) /\ Declared[<<Y, c, v>>]
    <3>1. PICK c \in x.anyOf : Admits(X, c, v) /\ Declares(X, c, v)
      BY <1>1, <1>8, <2>4 DEF SaysSomethingOf, Declares
    <3>q. QED
      BY <1>6, <1>8, <2>4, <3>1 DEF Declares
  <2>5. ASSUME Has(y, "oneOf") PROVE \E c \in DOMAIN y.oneOf : Admits(Y, c, v) /\ Declared[<<Y, c, v>>]
    <3>1. PICK c \in DOMAIN x.oneOf : Admits(X, c, v) /\ Declares(X, c, v)
      BY <1>1, <1>8, <2>5 DEF SaysSomethingOf, Declares
    <3>q. QED
      BY <1>6, <1>8, <2>5, <3>1 DEF Declares
  <2>q. QED
    BY <2>1, <2>2, <2>3, <2>4, <2>5, Zenon DEF SaysSomethingOf
<1>q. QED
  BY <1>9, <1>10, SpeaksIs

(* So every value that the first of a pair says something of, the second   *)
(* does.                                                                   *)
LEMMA CarriesSpeaks ==
  ASSUME NEW X \in Registries, NEW Y \in Registries, NEW Q, Carries(X, Y, Q), NEW p \in Q, NEW v \in Values,
         Speaks(X, p[1], v)
  PROVE  Speaks(Y, p[2], v)
<1> DEFINE Lost(q, w) == Speaks(X, q[1], w) /\ ~ Speaks(Y, q[2], w)
           Bad == {n \in Nat : \E q \in Q, w \in Values : n = Height[<<X, q[1], w>>] /\ Lost(q, w)}
<1>1. \A q \in Q : q = <<q[1], q[2]>> /\ q[1] \in Schemas /\ q[2] \in Schemas /\ Carried(X, Y, Q, q[1], q[2])
  BY DEF Carries
<1>2. SUFFICES ASSUME Bad # {} PROVE FALSE
  <2>1. Height[<<X, p[1], v>>] \in Nat
    BY <1>1, HeightAssumption
  <2>2. ~ Lost(p, v)
    BY <1>2, <2>1
  <2>q. QED
    BY <2>2
<1>3. PICK k \in Bad : \A j \in Bad : k <= j
  <2>1. Bad \subseteq Nat
    OBVIOUS
  <2> HIDE DEF Bad
  <2>q. QED
    BY <1>2, <2>1, LeastNumber
<1>4. PICK q \in Q, w \in Values : k = Height[<<X, q[1], w>>] /\ Lost(q, w)
  <2> HIDE DEF Lost
  <2>q. QED
    BY <1>3
<1>5. q[1] \in Schemas /\ q[2] \in Schemas /\ Carried(X, Y, Q, q[1], q[2])
  BY <1>1
<1>6. Follows(X, Y, Q, q[1], w)
  <2>1. SUFFICES ASSUME NEW next \in Consulted(X, q[1], w), NEW z, <<next[1], z>> \in Q, Speaks(X, next[1], next[2]),
                        ~ Speaks(Y, z, next[2])
                 PROVE  FALSE
    BY DEF Follows
  <2>2. next[1] \in Schemas /\ next[2] \in Values
    BY <1>5, ConsultedIn
  <2>3. Height[<<X, next[1], next[2]>>] < Height[<<X, q[1], w>>]
    BY <1>5, HeightAssumption
  <2>4. Height[<<X, next[1], next[2]>>] \in Nat /\ Height[<<X, q[1], w>>] \in Nat
    BY <1>5, <2>2, HeightAssumption
  <2> DEFINE r == <<next[1], z>>
  <2>5. Lost(r, next[2]) /\ r \in Q /\ r[1] = next[1]
    BY <2>1
  <2> HIDE DEF Lost, r
  <2>6. Height[<<X, next[1], next[2]>>] \in Bad
    BY <2>2, <2>4, <2>5
  <2> HIDE DEF Bad
  <2>q. QED
    BY <1>3, <1>4, <2>3, <2>4, <2>6
<1>7. Speaks(X, q[1], w) /\ ~ Speaks(Y, q[2], w)
  BY <1>4
<1>8. CASE CarriedRef(X, Y, Q, q[1], q[2])
  BY <1>5, <1>6, <1>7, <1>8, CarriedRefSpeaks
<1>9. CASE CarriedScalar(q[1], q[2]) /\ CarriedInside(X, Y, Q, q[1], q[2])
  <2>1. Validates(Admitted, Y, q[2], w)
    BY <1>5, <1>6, <1>7, <1>9, CarriedKeywordsValid
  <2>2. SaysSomethingOf(Declared, Y, q[2], w)
    BY <1>5, <1>6, <1>7, <1>9, CarriedKeywordsSay
  <2>q. QED
    BY <1>5, <1>7, <2>1, <2>2, SpeaksIs
<1>q. QED
  BY <1>5, <1>8, <1>9 DEF Carried

(* What the comparison of schemas is for, of schemas as Pydantic writes    *)
(* them (SchemasAssumption) and without untyped enumerations or constants  *)
(* that Python's == confuses (LooseEqualityAssumption: [1, "a"] may become *)
(* [true, "a"] unnoticed).  Of such schemas, a change of what the          *)
(* application takes in passes only when every value the earlier says      *)
(* something of is taken, and said something of, by the later              *)
(* (compare_schema).                                                       *)
THEOREM CompatibleInput ==
  ASSUME NEW X \in Registries, NEW Y \in Registries, NEW b \in Schemas, NEW a \in Schemas,
         compatible(compare_schema(b, a, "input", X, Y))
  PROVE  Takes(X, Y, b, a)
<1>1. PICK Q : Compared("input", X, Y, Q) /\ <<b, a>> \in Q
  BY ComparedIs
<1>2. Carries(X, Y, Q)
  BY <1>1, InputCarried
<1>3. ASSUME NEW v \in Values, Speaks(X, b, v) PROVE Speaks(Y, a, v)
  <2> DEFINE p == <<b, a>>
  <2>1. p \in Q /\ p[1] = b /\ p[2] = a
    BY <1>1
  <2> HIDE DEF p
  <2>q. QED
    BY <1>2, <1>3, <2>1, CarriesSpeaks
<1>q. QED
  BY <1>3 DEF Takes

(* Of what the application gives out, and of schemas under the same two    *)
(* assumptions, every value the later schema says something of is one the  *)
(* earlier says something of (compare_schema).                             *)
THEOREM CompatibleOutput ==
  ASSUME NEW X \in Registries, NEW Y \in Registries, NEW b \in Schemas, NEW a \in Schemas,
         compatible(compare_schema(b, a, "output", X, Y))
  PROVE  Gives(X, Y, b, a)
<1>1. PICK Q : Compared("output", X, Y, Q) /\ <<b, a>> \in Q
  BY ComparedIs
<1> DEFINE T == {<<p[2], p[1]>> : p \in Q}
<1>2. Carries(Y, X, T)
  BY <1>1, OutputCarried
<1>3. ASSUME NEW v \in Values, Speaks(Y, a, v) PROVE Speaks(X, b, v)
  <2> DEFINE p == <<a, b>>
  <2>1. p \in T /\ p[1] = a /\ p[2] = b
    BY <1>1
  <2> HIDE DEF p, T
  <2>q. QED
    BY <1>2, <1>3, <2>1, CarriesSpeaks
<1>q. QED
  BY <1>3 DEF Gives

-----------------------------------------------------------------------------
(* What contracts read off the schema of a header is so of every value     *)
(* that the schema admits (_schema_json_types).                            *)
HasType(types, v) == v.kind \in types \/ (v.kind = "integer" /\ "number" \in types)

(* A value that a schema of alternatives admits is admitted by one of      *)
(* them.                                                                   *)
LEMMA AlternativesAre ==
  ASSUME NEW document \in Registries, NEW s \in Schemas, Alternatives(s) # {}
  PROVE  /\ Alternatives(s) \subseteq Schemas
         /\ \A v \in Values : Admits(document, s, v) => \E c \in Alternatives(s) : Admits(document, c, v)
<1>1. Alternatives(s) \subseteq Schemas
  <2>1. Subschemas(s) \subseteq Schemas
    BY SchemasAssumption
  <2>q. QED
    BY <2>1 DEF Subschemas, Alternatives, Field
<1>2. ASSUME NEW v \in Values, Admits(document, s, v) PROVE \E c \in Alternatives(s) : Admits(document, c, v)
  <2>1. Validates(Admitted, document, s, v)
    BY <1>2, AdmitsIs
  <2>2. CASE Field(s, "anyOf", {}) # {}
    <3>1. Has(s, "anyOf") /\ Alternatives(s) = s.anyOf
      BY <2>2 DEF Alternatives, Field
    <3>q. QED
      BY <2>1, <3>1 DEF Validates, Admits
  <2>3. CASE Field(s, "anyOf", {}) = {}
    <3>1. Alternatives(s) = DOMAIN Field(s, "oneOf", <<>>)
      BY <2>3 DEF Alternatives
    <3>2. Has(s, "oneOf") /\ Alternatives(s) = DOMAIN s.oneOf
      BY <3>1 DEF Field
    <3>q. QED
      BY <2>1, <3>2 DEF Validates, Admits
  <2>q. QED
    BY <2>2, <2>3
<1>q. QED
  BY <1>1, <1>2

(* The types that _schema_json_types tells, when it can tell them, are     *)
(* those of the values admitted.                                           *)
LEMMA TypesAreTold ==
  ASSUME NEW root \in Registries, NEW schema \in Schemas, "unknown" \notin _schema_json_types(root, schema),
         NEW v \in Values, Admits(root, schema, v)
  PROVE  HasType(_schema_json_types(root, schema), v)
<1> DEFINE One(s, below) ==
             IF Has(s, "ref") THEN IF s.ref \in DOMAIN root THEN below[root[s.ref]] ELSE {"unknown"}
             ELSE IF Alternatives(s) # {} THEN UNION {below[c] : c \in Alternatives(s)}
             ELSE IF Has(s, "type") THEN s.type
             ELSE IF Has(s, "const") THEN {_json_value_type(s.const)}
             ELSE IF Field(s, "enum", {}) # {} THEN {_json_value_type(w) : w \in s.enum}
             ELSE {"unknown"}
           T == {"unknown"} \cup (UNION {Field(s, "type", {}) : s \in Schemas})
                \cup {_json_value_type(s.const) : s \in Schemas}
                \cup UNION {{_json_value_type(w) : w \in Field(s, "enum", {})} : s \in Schemas}
           R == [Schemas -> SUBSET T]
           start == [s \in Schemas |-> {"unknown"}]
           step == [below \in R |-> [s \in Schemas |-> One(s, below)]]
           types == CHOOSE t : t = [n \in Nat |-> [s \in Schemas |-> IF n = 0 THEN {"unknown"} ELSE One(s, t[n - 1])]]
<1>1. ASSUME NEW s \in Schemas, NEW below \in R PROVE One(s, below) \subseteq T
  <2>1. Has(s, "ref") /\ s.ref \in DOMAIN root => root[s.ref] \in Schemas
    BY RegistriesAssumption
  <2>2. Alternatives(s) # {} => Alternatives(s) \subseteq Schemas
    BY AlternativesAre
  <2>3. Alternatives(s) # {} => UNION {below[c] : c \in Alternatives(s)} \subseteq T
    BY <2>2
  <2>4. Has(s, "type") => s.type \subseteq T
    BY DEF Field
  <2>5. _json_value_type(s.const) \in T
    OBVIOUS
  <2>6. Field(s, "enum", {}) # {} => {_json_value_type(w) : w \in s.enum} \subseteq T
    BY DEF Field
  <2>7. "unknown" \in T
    OBVIOUS
  <2> HIDE DEF T
  <2>q. QED
    BY <2>1, <2>3, <2>4, <2>5, <2>6, <2>7
<1>2. Steps(R, start, step)
  <2>1. start \in R
    OBVIOUS
  <2>2. step \in [R -> R]
    <3> HIDE DEF One, T
    <3>q. QED
      BY <1>1
  <2>q. QED
    BY <2>1, <2>2 DEF Steps
<1>3. PICK g : Iterates(R, start, step, g)
  <2> HIDE DEF R, start, step
  <2>q. QED
    BY <1>2, Iterated
<1>4. g = [n \in Nat |-> [s \in Schemas |-> IF n = 0 THEN {"unknown"} ELSE One(s, g[n - 1])]]
  <2>0. g \in [Nat -> R]
    BY <1>3 DEF Iterates
  <2>1. g = [n \in Nat |-> IF n = 0 THEN start ELSE step[g[n - 1]]]
    BY <1>3 DEF Iterates
  <2> HIDE DEF One, R
  <2>2. ASSUME NEW n \in Nat PROVE g[n] = [s \in Schemas |-> IF n = 0 THEN {"unknown"} ELSE One(s, g[n - 1])]
    <3>1. CASE n = 0
      BY <2>1, <3>1
    <3>2. CASE n # 0
      <4>1. g[n - 1] \in R
        <5>1. g \in [Nat -> R] /\ n - 1 \in Nat
          BY <2>0, <3>2
        <5>q. QED
          BY <5>1
      <4>2. g[n] = step[g[n - 1]]
        <5> HIDE DEF start, step
        <5>q. QED
          BY <2>1, <3>2
      <4>3. step[g[n - 1]] = [s \in Schemas |-> One(s, g[n - 1])]
        BY <4>1
      <4>q. QED
        BY <3>2, <4>2, <4>3
    <3>q. QED
      BY <3>1, <3>2
  <2>3. g = [n \in Nat |-> g[n]]
    BY <2>0
  <2>q. QED
    BY <2>2, <2>3
<1>5. types = [n \in Nat |-> [s \in Schemas |-> IF n = 0 THEN {"unknown"} ELSE One(s, types[n - 1])]]
  <2> HIDE DEF One
  <2>q. QED
    BY <1>4
<1>6. _schema_json_types(root, schema) = types[RecursionLimit][schema]
  BY Zenon DEF _schema_json_types
<1> HIDE DEF types, One
<1> DEFINE Told(n, s) == "unknown" \notin types[n][s] =>
                           \A w \in Values : Admits(root, s, w) => HasType(types[n][s], w)
           Bad == {n \in Nat : \E s \in Schemas : ~ Told(n, s)}
<1>7. SUFFICES ASSUME Bad # {} PROVE FALSE
  <2>1. Told(RecursionLimit, schema)
    BY <1>7, RecursionLimitAssumption
  <2>q. QED
    BY <1>6, <2>1
<1>8. PICK n \in Bad : \A m \in Bad : n <= m
  <2>1. Bad \subseteq Nat
    OBVIOUS
  <2> HIDE DEF Bad
  <2>q. QED
    BY <1>7, <2>1, LeastNumber
<1>9. PICK s \in Schemas : ~ Told(n, s)
  BY <1>8
<1>10. "unknown" \notin types[n][s]
  BY <1>9
<1>11. PICK w \in Values : Admits(root, s, w) /\ ~ HasType(types[n][s], w)
  BY <1>9
<1>12. n # 0
  BY <1>5, <1>10
<1>13. n - 1 \in Nat /\ \A c \in Schemas : Told(n - 1, c)
  BY <1>8, <1>12
<1>14. types[n][s] = One(s, types[n - 1])
  BY <1>5, <1>8, <1>12
<1>15. Validates(Admitted, root, s, w)
  BY <1>11, AdmitsIs
<1>16. CASE Has(s, "ref")
  <2>1. s.ref \in DOMAIN root /\ Admits(root, root[s.ref], w)
    BY <1>15, <1>16 DEF Validates, Admits
  <2>2. types[n][s] = types[n - 1][root[s.ref]]
    BY <1>14, <1>16, <2>1 DEF One
  <2>3. Told(n - 1, root[s.ref])
    BY <1>13, <2>1, RegistriesAssumption
  <2>q. QED
    BY <1>10, <1>11, <2>1, <2>2, <2>3
<1>17. CASE ~ Has(s, "ref") /\ Alternatives(s) # {}
  <2>1. PICK c \in Alternatives(s) : Admits(root, c, w) /\ c \in Schemas
    BY <1>11, <1>17, AlternativesAre
  <2>2. types[n][s] = UNION {types[n - 1][d] : d \in Alternatives(s)}
    BY <1>14, <1>17 DEF One
  <2>3. types[n - 1][c] \subseteq types[n][s]
    BY <2>2
  <2>4. HasType(types[n - 1][c], w)
    BY <1>10, <1>13, <2>1, <2>3
  <2>q. QED
    BY <1>11, <2>3, <2>4 DEF HasType
<1>18. CASE ~ Has(s, "ref") /\ ~ Alternatives(s) # {} /\ Has(s, "type")
  <2>1. types[n][s] = s.type
    BY <1>14, <1>18 DEF One
  <2>q. QED
    BY <1>11, <1>15, <1>18, <2>1 DEF Validates, HasType
<1>19. CASE ~ Has(s, "ref") /\ ~ Alternatives(s) # {} /\ ~ Has(s, "type") /\ Has(s, "const")
  <2>1. types[n][s] = {_json_value_type(s.const)}
    BY <1>14, <1>19 DEF One
  <2>q. QED
    BY <1>11, <1>15, <1>19, <2>1 DEF Validates, HasType, _json_value_type
<1>20. CASE ~ Has(s, "ref") /\ ~ Alternatives(s) # {} /\ ~ Has(s, "type") /\ ~ Has(s, "const")
  <2>1. Field(s, "enum", {}) # {} /\ types[n][s] = {_json_value_type(d) : d \in s.enum}
    BY <1>10, <1>14, <1>20 DEF One
  <2>2. w \in s.enum
    BY <1>15, <2>1 DEF Validates, Field
  <2>q. QED
    BY <1>11, <2>1, <2>2 DEF HasType, _json_value_type
<1>q. QED
  BY <1>16, <1>17, <1>18, <1>19, <1>20

(* (_schema_requires_non_empty_string.)                                    *)
LEMMA NonEmptyIsRequired ==
  ASSUME NEW root \in Registries, NEW schema \in Schemas, _schema_requires_non_empty_string(root, schema),
         NEW v \in Values, Admits(root, schema, v), v.kind = "string"
  PROVE  v.num > 0
<1> DEFINE One(s, below) ==
             \/ _schema_directly_requires_non_empty_string(s)
             \/ Has(s, "ref") /\ s.ref \in DOMAIN root /\ below[root[s.ref]]
             \/ Alternatives(s) # {} /\ \A c \in Alternatives(s) : below[c]
           R == [Schemas -> BOOLEAN]
           start == [s \in Schemas |-> FALSE]
           step == [below \in R |-> [s \in Schemas |-> One(s, below)]]
           requires == CHOOSE t : t = [n \in Nat |-> [s \in Schemas |-> n > 0 /\ One(s, t[n - 1])]]
<1>1. \A s, below : One(s, below) \in BOOLEAN
  OBVIOUS
<1>2. Steps(R, start, step)
  <2>1. start \in R
    OBVIOUS
  <2>2. step \in [R -> R]
    <3> HIDE DEF One
    <3>q. QED
      BY <1>1
  <2>q. QED
    BY <2>1, <2>2 DEF Steps
<1>3. PICK g : Iterates(R, start, step, g)
  <2> HIDE DEF R, start, step
  <2>q. QED
    BY <1>2, Iterated
<1>4. g = [n \in Nat |-> [s \in Schemas |-> n > 0 /\ One(s, g[n - 1])]]
  <2>0. g \in [Nat -> R]
    BY <1>3 DEF Iterates
  <2>1. g = [n \in Nat |-> IF n = 0 THEN start ELSE step[g[n - 1]]]
    BY <1>3 DEF Iterates
  <2> HIDE DEF One, R
  <2>2. ASSUME NEW n \in Nat PROVE g[n] = [s \in Schemas |-> n > 0 /\ One(s, g[n - 1])]
    <3>1. CASE n = 0
      <4>1. g[n] = start
        BY <2>1, <3>1
      <4>2. \A s \in Schemas : (n > 0 /\ One(s, g[n - 1])) = FALSE
        BY <3>1
      <4>q. QED
        BY <4>1, <4>2
    <3>2. CASE n # 0
      <4>1. g[n - 1] \in R
        <5>1. g \in [Nat -> R] /\ n - 1 \in Nat
          BY <2>0, <3>2
        <5>q. QED
          BY <5>1
      <4>2. g[n] = step[g[n - 1]]
        <5> HIDE DEF start, step
        <5>q. QED
          BY <2>1, <3>2
      <4>3. step[g[n - 1]] = [s \in Schemas |-> One(s, g[n - 1])]
        BY <4>1
      <4>4. \A s \in Schemas : (n > 0 /\ One(s, g[n - 1])) = One(s, g[n - 1])
        BY <1>1, <3>2
      <4>q. QED
        BY <4>2, <4>3, <4>4
    <3>q. QED
      BY <3>1, <3>2
  <2>3. g = [n \in Nat |-> g[n]]
    BY <2>0
  <2>q. QED
    BY <2>2, <2>3
<1>5. requires = [n \in Nat |-> [s \in Schemas |-> n > 0 /\ One(s, requires[n - 1])]]
  <2> HIDE DEF One
  <2>q. QED
    BY <1>4
<1>6. _schema_requires_non_empty_string(root, schema) = requires[RecursionLimit][schema]
  BY Zenon DEF _schema_requires_non_empty_string
<1> HIDE DEF requires, One
<1> DEFINE Kept_(n, s) == requires[n][s] =>
                            \A w \in Values : Admits(root, s, w) /\ w.kind = "string" => w.num > 0
           Bad == {n \in Nat : \E s \in Schemas : ~ Kept_(n, s)}
<1>7. SUFFICES ASSUME Bad # {} PROVE FALSE
  <2>1. Kept_(RecursionLimit, schema)
    BY <1>7, RecursionLimitAssumption
  <2>q. QED
    BY <1>6, <2>1
<1>8. PICK n \in Bad : \A m \in Bad : n <= m
  <2>1. Bad \subseteq Nat
    OBVIOUS
  <2> HIDE DEF Bad
  <2>q. QED
    BY <1>7, <2>1, LeastNumber
<1>9. PICK s \in Schemas : ~ Kept_(n, s)
  BY <1>8
<1>10. n \in Nat /\ n > 0 /\ One(s, requires[n - 1])
  BY <1>5, <1>8, <1>9
<1>11. PICK w \in Values : Admits(root, s, w) /\ w.kind = "string" /\ ~ w.num > 0
  BY <1>9
<1>12. n - 1 \in Nat /\ \A c \in Schemas : Kept_(n - 1, c)
  BY <1>8, <1>10
<1>13. Validates(Admitted, root, s, w)
  BY <1>11, AdmitsIs
<1>14. CASE _schema_directly_requires_non_empty_string(s)
  <2>1. w.num \in Int
    BY ValuesAssumption
  <2>2. Has(s, "minLength") => s.minLength \in Int /\ w.num >= s.minLength
    <3>1. "minLength" \in BoundKeys
      BY DEF BoundKeys, _LOWER_BOUNDS
    <3>q. QED
      BY <1>11, <1>13, <3>1, SchemasAssumption DEF Validates, Field
  <2>3. Has(s, "const") => w = s.const
    BY <1>13 DEF Validates
  <2>4. Has(s, "enum") => w \in s.enum
    BY <1>13 DEF Validates
  <2>5. Field(s, "enum", {}) # {} => Has(s, "enum")
    BY DEF Field
  <2>q. QED
    BY <1>11, <1>14, <2>1, <2>2, <2>3, <2>4, <2>5 DEF _schema_directly_requires_non_empty_string
<1>15. CASE Has(s, "ref") /\ s.ref \in DOMAIN root /\ requires[n - 1][root[s.ref]]
  <2>1. Admits(root, root[s.ref], w)
    BY <1>13, <1>15 DEF Validates, Admits
  <2>2. root[s.ref] \in Schemas
    BY <1>15, RegistriesAssumption
  <2>q. QED
    BY <1>11, <1>12, <1>15, <2>1, <2>2
<1>16. CASE Alternatives(s) # {} /\ \A c \in Alternatives(s) : requires[n - 1][c]
  <2>1. PICK c \in Alternatives(s) : Admits(root, c, w) /\ c \in Schemas
    BY <1>11, <1>16, AlternativesAre
  <2>q. QED
    BY <1>11, <1>12, <1>16, <2>1
<1>q. QED
  BY <1>10, <1>14, <1>15, <1>16 DEF One

(* So no caller can leave an idempotency key that is documented empty.     *)
LEMMA KeyIsNeverEmpty ==
  ASSUME NEW document, document.schemas \in Registries, NEW operation,
         _has_idempotency_key_parameter(document, operation),
         \A name \in DOMAIN operation.parameters : operation.parameters[name].schema \in Schemas
  PROVE  /\ operation.parameters["key"].required
         /\ \A v \in Values :
              Admits(document.schemas, operation.parameters["key"].schema, v) => v.kind = "string" /\ v.num > 0
<1> DEFINE key == operation.parameters["key"]
<1>1. Field(operation.parameters, "key", None) # None
      /\ "key" \in DOMAIN operation.parameters /\ Field(operation.parameters, "key", None) = key
  BY DEF _has_idempotency_key_parameter, Field, Has
<1>2. /\ key.required
      /\ _schema_json_types(document.schemas, key.schema) = {"string"}
      /\ _schema_requires_non_empty_string(document.schemas, key.schema)
  BY <1>1 DEF _has_idempotency_key_parameter
<1>3. key.schema \in Schemas
  BY <1>1
<1> HIDE DEF key
<1>4. ASSUME NEW v \in Values, Admits(document.schemas, key.schema, v) PROVE v.kind = "string" /\ v.num > 0
  <2>1. HasType({"string"}, v)
    BY <1>2, <1>3, <1>4, TypesAreTold
  <2>2. v.kind = "string"
    BY <2>1 DEF HasType
  <2>q. QED
    BY <1>2, <1>3, <1>4, <2>2, NonEmptyIsRequired
<1>q. QED
  BY <1>2, <1>4 DEF key

-----------------------------------------------------------------------------
(* Releases of an API.  What the neighbours of a chain of compatible       *)
(* releases keep of each other is kept along the chain: the statuses that  *)
(* are documented never go, and a guarantee of idempotency never goes.     *)
OperationServes(k, d, ok, od) ==
  /\ CallTaken(k, d, ok, od)
  /\ ResponsesRead(k, d, ok.responses, od.responses)
  /\ DOMAIN ok.responses \subseteq DOMAIN od.responses
  /\ ok.idempotency => od.idempotency

ApiServes(k, d) ==
  \A op \in DOMAIN k.operations :
    op \in DOMAIN d.operations /\ OperationServes(k, d, k.operations[op], d.operations[op])

(* A union of severities is compatible when each of its parts is           *)
(* (CompatibilityReport.compatible).                                       *)
LEMMA BothCompatible ==
  ASSUME NEW S, NEW T
  PROVE  compatible(S \cup T) <=> compatible(S) /\ compatible(T)
BY DEF compatible

(* So is a union of many.                                                  *)
LEMMA EachCompatible ==
  ASSUME NEW SS
  PROVE  compatible(UNION SS) <=> \A S \in SS : compatible(S)
BY DEF compatible

(* What is breaking or unknown is not compatible.                          *)
LEMMA OneSeverity ==
  /\ ~ compatible({"breaking"})
  /\ ~ compatible({"unknown"})
  /\ compatible({})
  /\ \A S : "breaking" \in S \/ "unknown" \in S => ~ compatible(S)
BY DEF compatible

(* A program goes on reading what it could read of the release it was      *)
(* built from.                                                             *)
LEMMA ResponseReadItself ==
  ASSUME NEW document, NEW r
  PROVE  ResponseRead(document, document, r, r)
BY DocumentsAssumption DEF ResponseRead, Gives

(* A release serves the programs built from it.                            *)
LEMMA ApiServesItself ==
  ASSUME NEW document
  PROVE  ApiServes(document, document)
<1>1. SUFFICES ASSUME NEW op \in DOMAIN document.operations
      PROVE  OperationServes(document, document, document.operations[op], document.operations[op])
  BY DEF ApiServes
<1> DEFINE o == document.operations[op]
<1>2. ResponsesRead(document, document, o.responses, o.responses)
  BY ResponseReadItself DEF ResponsesRead
<1>3. ParametersTaken(document, document, o.parameters, o.parameters)
  BY DEF ParametersTaken, Takes, Added
<1>4. BodyTaken(document, document, o.body, o.body)
  BY DEF BodyTaken, Takes
<1>q. QED
  BY <1>2, <1>3, <1>4 DEF OperationServes, CallTaken

(* What is taken, or read, of one release by the next and of that by the   *)
(* one after is by the one after of the first.                             *)
LEMMA TakesOn ==
  ASSUME NEW X, NEW Y, NEW Z, NEW sx, NEW sy, NEW sz
  PROVE  /\ Takes(X, Y, sx, sy) /\ Takes(Y, Z, sy, sz) => Takes(X, Z, sx, sz)
         /\ Gives(X, Y, sx, sy) /\ Gives(Y, Z, sy, sz) => Gives(X, Z, sx, sz)
BY DEF Takes, Gives

(* Parameters, over two changes.                                           *)
LEMMA ParametersTakenOn ==
  ASSUME NEW k, NEW d, NEW e, NEW pk, NEW pd, NEW pe,
         ParametersTaken(k, d, pk, pd), ParametersTaken(d, e, pd, pe)
  PROVE  ParametersTaken(k, e, pk, pe)
<1>1. ASSUME NEW name \in DOMAIN pk
      PROVE  /\ name \in DOMAIN pe
             /\ pe[name].required => pk[name].required
             /\ Takes(k.schemas, e.schemas, pk[name].schema, pe[name].schema)
  <2>1. /\ name \in DOMAIN pd
        /\ pd[name].required => pk[name].required
        /\ Takes(k.schemas, d.schemas, pk[name].schema, pd[name].schema)
    BY DEF ParametersTaken
  <2>2. /\ name \in DOMAIN pe
        /\ pe[name].required => pd[name].required
        /\ Takes(d.schemas, e.schemas, pd[name].schema, pe[name].schema)
    BY <2>1 DEF ParametersTaken
  <2>q. QED
    BY <2>1, <2>2, TakesOn
<1>2. ASSUME NEW name \in Added(pk, pe) PROVE ~ pe[name].required
  BY DEF ParametersTaken, Added
<1>q. QED
  BY <1>1, <1>2 DEF ParametersTaken

(* The request body, over two changes.                                     *)
LEMMA BodyTakenOn ==
  ASSUME NEW k, NEW d, NEW e, NEW bk, NEW bd, NEW be,
         BodyTaken(k, d, bk, bd), BodyTaken(d, e, bd, be)
  PROVE  BodyTaken(k, e, bk, be)
<1>1. ASSUME bk # None, NEW media \in DOMAIN bk.content
      PROVE  /\ media \in DOMAIN be.content
             /\ Takes(k.schemas, e.schemas, bk.content[media], be.content[media])
  <2>1. /\ bd # None
        /\ media \in DOMAIN bd.content
        /\ Takes(k.schemas, d.schemas, bk.content[media], bd.content[media])
    BY <1>1 DEF BodyTaken
  <2>2. /\ media \in DOMAIN be.content
        /\ Takes(d.schemas, e.schemas, bd.content[media], be.content[media])
    BY <2>1 DEF BodyTaken
  <2>q. QED
    BY <2>1, <2>2, TakesOn
<1>2. bk # None => be # None
  BY DEF BodyTaken
<1>3. (bk = None \/ ~ bk.required) => (be = None \/ ~ be.required)
  BY DEF BodyTaken
<1>q. QED
  BY <1>1, <1>2, <1>3 DEF BodyTaken

(* A call, over two changes.                                               *)
LEMMA CallTakenOn ==
  ASSUME NEW k, NEW d, NEW e, NEW ok, NEW od, NEW oe,
         CallTaken(k, d, ok, od), CallTaken(d, e, od, oe)
  PROVE  CallTaken(k, e, ok, oe)
<1>1. ParametersTaken(k, e, ok.parameters, oe.parameters)
  BY ParametersTakenOn DEF CallTaken
<1>2. BodyTaken(k, e, ok.body, oe.body)
  BY BodyTakenOn DEF CallTaken
<1>3. /\ _is_public_security(_effective_security(k, ok)) => _is_public_security(_effective_security(e, oe))
      /\ oe.webhook => ok.webhook
  BY DEF CallTaken
<1>q. QED
  BY <1>1, <1>2, <1>3 DEF CallTaken

(* A response, over two changes: a bare error envelope goes on being an    *)
(* error, a schema a schema, and codes shrink.                             *)
LEMMA ResponseReadOn ==
  ASSUME NEW k, NEW d, NEW e, NEW rk, NEW rd, NEW re,
         ResponseRead(k, d, rk, rd), ResponseRead(d, e, rd, re)
  PROVE  ResponseRead(k, e, rk, re)
<1>1. ASSUME NEW name \in DOMAIN rk.headers
      PROVE  /\ name \in DOMAIN re.headers
             /\ rk.headers[name].required => re.headers[name].required
             /\ Gives(k.schemas, e.schemas, rk.headers[name].schema, re.headers[name].schema)
  <2>1. /\ name \in DOMAIN rd.headers
        /\ rk.headers[name].required => rd.headers[name].required
        /\ Gives(k.schemas, d.schemas, rk.headers[name].schema, rd.headers[name].schema)
    BY DEF ResponseRead
  <2>2. /\ name \in DOMAIN re.headers
        /\ rd.headers[name].required => re.headers[name].required
        /\ Gives(d.schemas, e.schemas, rd.headers[name].schema, re.headers[name].schema)
    BY <2>1 DEF ResponseRead
  <2>q. QED
    BY <2>1, <2>2, TakesOn
<1>2. None # AnyCode
  BY DocumentsAssumption
<1>3. CASE rk.codes = AnyCode
  <2>1. rd.codes # None
    BY <1>2, <1>3 DEF ResponseRead
  <2>2. re.codes # None
    BY <1>2, <2>1 DEF ResponseRead
  <2>q. QED
    BY <1>1, <1>2, <1>3, <2>2 DEF ResponseRead
<1>4. CASE rk.codes = None
  <2>1. rd.codes = None
    BY <1>2, <1>4 DEF ResponseRead
  <2>2. re.codes = None
    BY <1>2, <2>1 DEF ResponseRead
  <2>3. ASSUME NEW media \in DOMAIN re.content
        PROVE  media \in DOMAIN rk.content /\ Gives(k.schemas, e.schemas, rk.content[media], re.content[media])
    <3>1. media \in DOMAIN rd.content /\ Gives(d.schemas, e.schemas, rd.content[media], re.content[media])
      BY <1>2, <2>1 DEF ResponseRead
    <3>2. media \in DOMAIN rk.content /\ Gives(k.schemas, d.schemas, rk.content[media], rd.content[media])
      BY <1>2, <1>4, <3>1 DEF ResponseRead
    <3>q. QED
      BY <3>1, <3>2, TakesOn
  <2>q. QED
    BY <1>1, <1>2, <1>4, <2>2, <2>3 DEF ResponseRead
<1>5. CASE rk.codes \notin {None, AnyCode}
  <2>1. rd.codes \notin {None, AnyCode} /\ rd.codes \subseteq rk.codes
    BY <1>5 DEF ResponseRead
  <2>2. re.codes \notin {None, AnyCode} /\ re.codes \subseteq rd.codes
    BY <2>1 DEF ResponseRead
  <2>q. QED
    BY <1>1, <1>5, <2>1, <2>2 DEF ResponseRead
<1>q. QED
  BY <1>3, <1>4, <1>5

(* The one status that may be new is the framework's internal error, whose *)
(* set of codes cannot shrink and is none of the marks.                    *)
LEMMA ResponsesReadOn ==
  ASSUME NEW k, NEW d, NEW e, NEW rk, NEW rd, NEW re,
         ResponsesRead(k, d, rk, rd), ResponsesRead(d, e, rd, re),
         DOMAIN rk \subseteq DOMAIN rd,
         \A status \in DOMAIN re : IsResponse(re[status])
  PROVE  ResponsesRead(k, e, rk, re)
<1>1. SUFFICES ASSUME NEW status \in DOMAIN re
      PROVE  \/ status \notin DOMAIN rk /\ status = "500" /\ re[status].codes = {"INTERNAL_SERVER_ERROR"}
             \/ status \in DOMAIN rk /\ ResponseRead(k, e, rk[status], re[status])
  BY DEF ResponsesRead
<1>2. CASE status \notin DOMAIN rd
  BY <1>2 DEF ResponsesRead
<1>3. CASE status \in DOMAIN rd
  <2>1. ResponseRead(d, e, rd[status], re[status])
    BY <1>3 DEF ResponsesRead
  <2>2. CASE status \in DOMAIN rk
    <3>1. ResponseRead(k, d, rk[status], rd[status])
      BY <1>3, <2>2 DEF ResponsesRead
    <3>q. QED
      BY <2>1, <2>2, <3>1, ResponseReadOn
  <2>3. CASE status \notin DOMAIN rk
    <3>1. status = "500" /\ rd[status].codes = {"INTERNAL_SERVER_ERROR"}
      BY <1>3, <2>3 DEF ResponsesRead
    <3>2. {"INTERNAL_SERVER_ERROR"} \notin {None, AnyCode}
      BY DocumentsAssumption
    <3>3. re[status].codes \notin {None, AnyCode} /\ re[status].codes \subseteq {"INTERNAL_SERVER_ERROR"}
      BY <2>1, <3>1, <3>2 DEF ResponseRead
    <3>4. re[status].codes # {}
      BY <3>3 DEF IsResponse
    <3>5. re[status].codes = {"INTERNAL_SERVER_ERROR"}
      BY <3>3, <3>4
    <3>q. QED
      BY <2>3, <3>1, <3>5
  <2>q. QED
    BY <2>2, <2>3
<1>q. QED
  BY <1>2, <1>3

(* A release serves the programs of the one two changes before.            *)
LEMMA ApiServesOn ==
  ASSUME NEW k, NEW d, NEW e, IsApi(e), ApiServes(k, d), ApiServes(d, e)
  PROVE  ApiServes(k, e)
<1>1. SUFFICES ASSUME NEW op \in DOMAIN k.operations
      PROVE  op \in DOMAIN e.operations /\ OperationServes(k, e, k.operations[op], e.operations[op])
  BY DEF ApiServes
<1> DEFINE ok == k.operations[op]
           od == d.operations[op]
           oe == e.operations[op]
<1>2. op \in DOMAIN d.operations /\ OperationServes(k, d, ok, od)
  BY DEF ApiServes
<1>3. op \in DOMAIN e.operations /\ OperationServes(d, e, od, oe)
  BY <1>2 DEF ApiServes
<1>4. CallTaken(k, e, ok, oe)
  BY <1>2, <1>3, CallTakenOn DEF OperationServes
<1>5. ResponsesRead(k, e, ok.responses, oe.responses)
  <2>1. \A status \in DOMAIN oe.responses : IsResponse(oe.responses[status])
    BY <1>3 DEF IsApi, IsOperation
  <2>q. QED
    BY <1>2, <1>3, <2>1, ResponsesReadOn DEF OperationServes
<1>6. DOMAIN ok.responses \subseteq DOMAIN oe.responses /\ (ok.idempotency => oe.idempotency)
  BY <1>2, <1>3 DEF OperationServes
<1>q. QED
  BY <1>3, <1>4, <1>5, <1>6 DEF OperationServes

-----------------------------------------------------------------------------
(* What one compatible change of an API keeps.                             *)
LEMMA SchemaCarries ==
  ASSUME NEW k, NEW d, k.schemas \in Registries, d.schemas \in Registries,
         NEW sk \in Schemas, NEW sd \in Schemas
  PROVE  /\ compatible(_schema(k, d, sk, sd, "input")) => Takes(k.schemas, d.schemas, sk, sd)
         /\ compatible(_schema(k, d, sk, sd, "output")) => Gives(k.schemas, d.schemas, sk, sd)
BY CompatibleInput, CompatibleOutput DEF _schema

(* An operation that was public stays so (_compare_security).              *)
LEMMA SecurityKept ==
  ASSUME NEW before, NEW after, compatible(_compare_security(before, after))
  PROVE  _is_public_security(before) => _is_public_security(after)
BY OneSeverity DEF _compare_security

(* No operation comes to require a webhook's signature                     *)
(* (_compare_webhook_requirement).                                         *)
LEMMA WebhookKept ==
  ASSUME NEW before, NEW after, before.webhook \in BOOLEAN, after.webhook \in BOOLEAN,
         compatible(_compare_webhook_requirement(before, after))
  PROVE  after.webhook => before.webhook
BY OneSeverity DEF _compare_webhook_requirement

(* A guarantee of idempotency does not go                                  *)
(* (_compare_idempotency_guarantee).                                       *)
LEMMA IdempotencyKept ==
  ASSUME NEW k, NEW d, NEW before, NEW after, before.idempotency \in BOOLEAN, after.idempotency \in BOOLEAN,
         compatible(_compare_idempotency_guarantee(k, d, before, after))
  PROVE  before.idempotency => after.idempotency
<1>1. SUFFICES ASSUME before.idempotency, ~ after.idempotency PROVE FALSE
  OBVIOUS
<1>2. before.idempotency # after.idempotency
  BY <1>1
<1>3. \/ _compare_idempotency_guarantee(k, d, before, after) = {"breaking"}
      \/ _compare_idempotency_guarantee(k, d, before, after) = {"unknown"}
  BY <1>1, <1>2 DEF _compare_idempotency_guarantee
<1>q. QED
  BY <1>3, OneSeverity

(* No parameter goes or comes to be required, and each takes what it took  *)
(* (_compare_parameters).                                                  *)
LEMMA ParametersStep ==
  ASSUME NEW k, NEW d, k.schemas \in Registries, d.schemas \in Registries, NEW before, NEW after,
         \A name \in DOMAIN before : IsField(before[name]),
         \A name \in DOMAIN after : IsField(after[name]),
         compatible(_compare_parameters(k, d, before, after))
  PROVE  ParametersTaken(k, d, before, after)
<1>1. /\ compatible({IF after[name].required THEN "breaking" ELSE "additive" : name \in Added(before, after)})
      /\ compatible({"breaking" : name \in Removed(before, after)})
      /\ \A name \in Kept(before, after) :
           /\ compatible(IF before[name].required = after[name].required THEN {}
                         ELSE IF after[name].required THEN {"breaking"} ELSE {"additive"})
           /\ compatible(_schema(k, d, before[name].schema, after[name].schema, "input"))
  <2> DEFINE Req(name) == IF before[name].required = after[name].required THEN {}
                          ELSE IF after[name].required THEN {"breaking"} ELSE {"additive"}
             Sch(name) == _schema(k, d, before[name].schema, after[name].schema, "input")
  <2>1. /\ compatible({IF after[name].required THEN "breaking" ELSE "additive" : name \in Added(before, after)})
        /\ compatible({"breaking" : name \in Removed(before, after)})
        /\ compatible(UNION {Req(name) \cup Sch(name) : name \in Kept(before, after)})
    BY BothCompatible DEF _compare_parameters
  <2> HIDE DEF Req, Sch
  <2>2. \A name \in Kept(before, after) : compatible(Req(name) \cup Sch(name))
    BY <2>1 DEF compatible
  <2>3. \A name \in Kept(before, after) : compatible(Req(name)) /\ compatible(Sch(name))
    BY <2>2, BothCompatible
  <2>q. QED
    BY <2>1, <2>3 DEF Req, Sch
<1>2. \A name \in DOMAIN before : name \in DOMAIN after
  <2>1. "breaking" \notin {"breaking" : name \in Removed(before, after)}
    BY <1>1, OneSeverity
  <2>q. QED
    BY <2>1 DEF Removed
<1>3. \A name \in Added(before, after) : ~ after[name].required
  BY <1>1 DEF compatible
<1>4. ASSUME NEW name \in DOMAIN before
      PROVE  /\ after[name].required => before[name].required
             /\ Takes(k.schemas, d.schemas, before[name].schema, after[name].schema)
  <2>1. name \in Kept(before, after)
    BY <1>2 DEF Kept
  <2>2. IsField(before[name]) /\ IsField(after[name])
    BY <1>2
  <2>3. Takes(k.schemas, d.schemas, before[name].schema, after[name].schema)
    BY <1>1, <2>1, <2>2, SchemaCarries DEF IsField
  <2>4. compatible(IF before[name].required = after[name].required THEN {}
                   ELSE IF after[name].required THEN {"breaking"} ELSE {"additive"})
    BY <1>1, <2>1
  <2>5. after[name].required => before[name].required
    BY <2>2, <2>4, OneSeverity DEF IsField
  <2>q. QED
    BY <2>3, <2>5
<1>q. QED
  BY <1>2, <1>3, <1>4 DEF ParametersTaken

(* The body takes what it took, and is not required where it was not       *)
(* (_compare_request_body).                                                *)
LEMMA BodyStep ==
  ASSUME NEW k, NEW d, k.schemas \in Registries, d.schemas \in Registries, NEW before, NEW after,
         before # None => /\ before.required \in BOOLEAN
                          /\ \A media \in DOMAIN before.content : before.content[media] \in Schemas,
         after # None => /\ after.required \in BOOLEAN
                         /\ \A media \in DOMAIN after.content : after.content[media] \in Schemas,
         compatible(_compare_request_body(k, d, before, after))
  PROVE  BodyTaken(k, d, before, after)
<1>1. CASE before = None
  <2>1. after = None \/ ~ after.required
    BY <1>1, OneSeverity DEF _compare_request_body
  <2>q. QED
    BY <1>1, <2>1 DEF BodyTaken
<1>2. CASE before # None
  <2>1. after # None
    BY <1>2, OneSeverity DEF _compare_request_body
  <2>2. /\ compatible(IF before.required = after.required THEN {}
                      ELSE IF after.required THEN {"breaking"} ELSE {"additive"})
        /\ compatible(_compare_content(k, d, before.content, after.content, "input"))
    BY <1>2, <2>1, BothCompatible DEF _compare_request_body
  <2>3. after.required => before.required
    BY <1>2, <2>1, <2>2, OneSeverity
  <2>4. /\ compatible({"breaking" : media \in Removed(before.content, after.content)})
        /\ \A media \in Kept(before.content, after.content) :
             compatible(_schema(k, d, before.content[media], after.content[media], "input"))
    <3> DEFINE Sch(media) == _schema(k, d, before.content[media], after.content[media], "input")
    <3>1. /\ compatible({"breaking" : media \in Removed(before.content, after.content)})
          /\ compatible(UNION {Sch(media) : media \in Kept(before.content, after.content)})
      BY <2>2, BothCompatible DEF _compare_content
    <3> HIDE DEF Sch
    <3>2. \A media \in Kept(before.content, after.content) : compatible(Sch(media))
      BY <3>1 DEF compatible
    <3>q. QED
      BY <3>1, <3>2 DEF Sch
  <2>5. \A media \in DOMAIN before.content : media \in DOMAIN after.content
    <3>1. "breaking" \notin {"breaking" : media \in Removed(before.content, after.content)}
      BY <2>4, OneSeverity
    <3>q. QED
      BY <3>1 DEF Removed
  <2>6. ASSUME NEW media \in DOMAIN before.content
        PROVE  Takes(k.schemas, d.schemas, before.content[media], after.content[media])
    <3>1. media \in Kept(before.content, after.content)
      BY <2>5 DEF Kept
    <3>2. before.content[media] \in Schemas /\ after.content[media] \in Schemas
      BY <1>2, <2>1, <2>5
    <3>q. QED
      BY <2>4, <3>1, <3>2, SchemaCarries
  <2>q. QED
    BY <1>2, <2>1, <2>3, <2>5, <2>6 DEF BodyTaken
<1>q. QED
  BY <1>1, <1>2

(* Every header that was answered still is (_compare_headers).             *)
LEMMA HeadersStep ==
  ASSUME NEW k, NEW d, k.schemas \in Registries, d.schemas \in Registries, NEW before, NEW after,
         \A name \in DOMAIN before : IsField(before[name]),
         \A name \in DOMAIN after : IsField(after[name]),
         compatible(_compare_headers(k, d, before, after))
  PROVE  \A name \in DOMAIN before :
           /\ name \in DOMAIN after
           /\ before[name].required => after[name].required
           /\ compatible(_schema(k, d, before[name].schema, after[name].schema, "output"))
           /\ Gives(k.schemas, d.schemas, before[name].schema, after[name].schema)
<1>1. /\ compatible({"breaking" : name \in Removed(before, after)})
      /\ \A name \in Kept(before, after) :
           /\ compatible(IF before[name].required = after[name].required THEN {}
                         ELSE IF after[name].required THEN {"additive"} ELSE {"breaking"})
           /\ compatible(_schema(k, d, before[name].schema, after[name].schema, "output"))
  <2> DEFINE Req(name) == IF before[name].required = after[name].required THEN {}
                          ELSE IF after[name].required THEN {"additive"} ELSE {"breaking"}
             Sch(name) == _schema(k, d, before[name].schema, after[name].schema, "output")
  <2>1. /\ compatible({"breaking" : name \in Removed(before, after)})
        /\ compatible(UNION {Req(name) \cup Sch(name) : name \in Kept(before, after)})
    BY BothCompatible DEF _compare_headers
  <2> HIDE DEF Req, Sch
  <2>2. \A name \in Kept(before, after) : compatible(Req(name) \cup Sch(name))
    BY <2>1 DEF compatible
  <2>3. \A name \in Kept(before, after) : compatible(Req(name)) /\ compatible(Sch(name))
    BY <2>2, BothCompatible
  <2>q. QED
    BY <2>1, <2>3 DEF Req, Sch
<1>2. \A name \in DOMAIN before : name \in DOMAIN after
  <2>1. "breaking" \notin {"breaking" : name \in Removed(before, after)}
    BY <1>1, OneSeverity
  <2>q. QED
    BY <2>1 DEF Removed
<1>3. TAKE name \in DOMAIN before
<1>4. name \in Kept(before, after)
  BY <1>2 DEF Kept
<1>5. IsField(before[name]) /\ IsField(after[name])
  BY <1>2
<1>6. compatible(_schema(k, d, before[name].schema, after[name].schema, "output"))
  BY <1>1, <1>4
<1>7. Gives(k.schemas, d.schemas, before[name].schema, after[name].schema)
  BY <1>5, <1>6, SchemaCarries DEF IsField
<1>8. compatible(IF before[name].required = after[name].required THEN {}
                 ELSE IF after[name].required THEN {"additive"} ELSE {"breaking"})
  BY <1>1, <1>4
<1>9. before[name].required => after[name].required
  BY <1>5, <1>8, OneSeverity DEF IsField
<1>q. QED
  BY <1>2, <1>6, <1>7, <1>9

(* An answer at a status that was documented can be read                   *)
(* (_compare_response).                                                    *)
LEMMA ResponseStep ==
  ASSUME NEW k, NEW d, k.schemas \in Registries, d.schemas \in Registries, NEW before, NEW after,
         IsResponse(before), IsResponse(after),
         compatible(_compare_response(k, d, before, after))
  PROVE  ResponseRead(k, d, before, after)
<1>1. /\ compatible(IF before.codes = after.codes
                    THEN _compare_content(k, d, before.content, after.content, "output")
                    ELSE IF before.codes = None \/ after.codes = None THEN {"unknown"}
                    ELSE _compare_tenchi_error_content(before, after))
      /\ compatible(_compare_headers(k, d, before.headers, after.headers))
  BY BothCompatible DEF _compare_response
<1>2. \A name \in DOMAIN before.headers :
        /\ name \in DOMAIN after.headers
        /\ before.headers[name].required => after.headers[name].required
        /\ Gives(k.schemas, d.schemas, before.headers[name].schema, after.headers[name].schema)
  BY <1>1, HeadersStep DEF IsResponse
<1>3. None # AnyCode
  BY DocumentsAssumption
<1>4. CASE before.codes # after.codes
  <2>1. before.codes # None /\ after.codes # None
    BY <1>1, <1>4, OneSeverity
  <2>2. compatible(_compare_tenchi_error_content(before, after))
    BY <1>1, <1>4, <2>1
  <2>3. CASE before.codes = AnyCode
    BY <1>2, <1>3, <2>1, <2>3 DEF ResponseRead
  <2>4. CASE before.codes # AnyCode
    <3>1. after.codes # AnyCode
      BY <2>2, <2>4, OneSeverity DEF _compare_tenchi_error_content, _is_legacy_tenchi_error
    <3>2. compatible({"breaking" : code \in after.codes \ before.codes}
                     \cup {"additive" : code \in before.codes \ after.codes})
      BY <2>2, <2>4, <3>1 DEF _compare_tenchi_error_content, _is_legacy_tenchi_error
    <3>3. after.codes \subseteq before.codes
      BY <3>2 DEF compatible
    <3>q. QED
      BY <1>2, <2>1, <2>4, <3>1, <3>3 DEF ResponseRead
  <2>q. QED
    BY <2>3, <2>4
<1>5. CASE before.codes = after.codes
  <2>1. compatible(_compare_content(k, d, before.content, after.content, "output"))
    BY <1>1, <1>5
  <2>2. /\ compatible({"breaking" : media \in Added(before.content, after.content)})
        /\ \A media \in Kept(before.content, after.content) :
             compatible(_schema(k, d, before.content[media], after.content[media], "output"))
    BY <2>1, BothCompatible, EachCompatible DEF _compare_content
  <2>3. CASE before.codes = None
    <3>1. ASSUME NEW media \in DOMAIN after.content
          PROVE  /\ media \in DOMAIN before.content
                 /\ Gives(k.schemas, d.schemas, before.content[media], after.content[media])
      <4>1. "breaking" \notin {"breaking" : m \in Added(before.content, after.content)}
        BY <2>2, OneSeverity
      <4>2. media \in DOMAIN before.content
        BY <4>1 DEF Added
      <4>3. media \in Kept(before.content, after.content)
        BY <4>2 DEF Kept
      <4>4. before.content[media] \in Schemas /\ after.content[media] \in Schemas
        BY <1>5, <2>3, <4>2 DEF IsResponse
      <4>q. QED
        BY <2>2, <4>2, <4>3, <4>4, SchemaCarries
    <3>q. QED
      BY <1>2, <1>3, <1>5, <2>3, <3>1 DEF ResponseRead
  <2>4. CASE before.codes # None
    BY <1>2, <1>3, <1>5, <2>4 DEF ResponseRead
  <2>q. QED
    BY <2>3, <2>4
<1>q. QED
  BY <1>4, <1>5

(* The statuses that are documented are those that were, but for the       *)
(* framework's internal error (_compare_responses).                        *)
LEMMA ResponsesStep ==
  ASSUME NEW k, NEW d, k.schemas \in Registries, d.schemas \in Registries, NEW before, NEW after,
         \A status \in DOMAIN before : IsResponse(before[status]),
         \A status \in DOMAIN after : IsResponse(after[status]),
         compatible(_compare_responses(k, d, before, after))
  PROVE  /\ ResponsesRead(k, d, before, after)
         /\ DOMAIN before \subseteq DOMAIN after
         /\ \A status \in DOMAIN before : compatible(_compare_response(k, d, before[status], after[status]))
<1>1. /\ compatible({IF status = "500" /\ _documents_framework_internal_error(after[status]) THEN "metadata" ELSE "breaking" :
                       status \in Added(before, after)})
      /\ compatible({"breaking" : status \in Removed(before, after)})
      /\ \A status \in Kept(before, after) : compatible(_compare_response(k, d, before[status], after[status]))
  BY BothCompatible, EachCompatible DEF _compare_responses
<1>2. DOMAIN before \subseteq DOMAIN after
  <2>1. "breaking" \notin {"breaking" : status \in Removed(before, after)}
    BY <1>1, OneSeverity
  <2>q. QED
    BY <2>1 DEF Removed
<1>3. \A status \in DOMAIN before : compatible(_compare_response(k, d, before[status], after[status]))
  BY <1>1, <1>2 DEF Kept
<1>4. ASSUME NEW status \in DOMAIN after
      PROVE  \/ status \notin DOMAIN before /\ status = "500" /\ after[status].codes = {"INTERNAL_SERVER_ERROR"}
             \/ status \in DOMAIN before /\ ResponseRead(k, d, before[status], after[status])
  <2>1. CASE status \in DOMAIN before
    BY <1>3, <2>1, ResponseStep
  <2>2. CASE status \notin DOMAIN before
    <3>1. status = "500" /\ _documents_framework_internal_error(after[status])
      BY <1>1, <2>2 DEF compatible, Added
    <3>q. QED
      BY <2>2, <3>1 DEF _documents_framework_internal_error
  <2>q. QED
    BY <2>1, <2>2
<1>q. QED
  BY <1>2, <1>3, <1>4 DEF ResponsesRead

(* Each part of an operation is compatible when the report is              *)
(* (analyze_openapi_compatibility).                                        *)
LEMMA OperationParts ==
  ASSUME NEW k, NEW d, NEW op, op \in DOMAIN k.operations,
         compatible(analyze_openapi_compatibility(k, d))
  PROVE  /\ op \in DOMAIN d.operations
         /\ LET before == k.operations[op]
                after  == d.operations[op] IN
            /\ compatible(_compare_webhook_requirement(before, after))
            /\ compatible(_compare_idempotency_guarantee(k, d, before, after))
            /\ compatible(_compare_security(_effective_security(k, before), _effective_security(d, after)))
            /\ compatible(_compare_parameters(k, d, before.parameters, after.parameters))
            /\ compatible(_compare_request_body(k, d, before.body, after.body))
            /\ compatible(_compare_responses(k, d, before.responses, after.responses))
<1>1. /\ compatible({"breaking" : o \in Removed(k.operations, d.operations)})
      /\ \A o \in Kept(k.operations, d.operations) :
           compatible(_compare_operation(k, d, k.operations[o], d.operations[o]))
  BY BothCompatible, EachCompatible DEF analyze_openapi_compatibility
<1>2. op \in DOMAIN d.operations
  <2>1. "breaking" \notin {"breaking" : o \in Removed(k.operations, d.operations)}
    BY <1>1, OneSeverity
  <2>q. QED
    BY <2>1 DEF Removed
<1>3. compatible(_compare_operation(k, d, k.operations[op], d.operations[op]))
  BY <1>1, <1>2 DEF Kept
<1>q. QED
  BY <1>2, <1>3, BothCompatible DEF _compare_operation

(* A change of an API that the gate lets pass serves the programs of the   *)
(* release before.                                                         *)
LEMMA ApiServesNext ==
  ASSUME NEW k, NEW d, IsApi(k), IsApi(d), compatible(analyze_openapi_compatibility(k, d))
  PROVE  ApiServes(k, d)
<1>1. SUFFICES ASSUME NEW op \in DOMAIN k.operations
      PROVE  op \in DOMAIN d.operations /\ OperationServes(k, d, k.operations[op], d.operations[op])
  BY DEF ApiServes
<1> DEFINE before == k.operations[op]
           after  == d.operations[op]
<1>2. k.schemas \in Registries /\ d.schemas \in Registries
  BY DEF IsApi
<1>3. /\ op \in DOMAIN d.operations
      /\ compatible(_compare_webhook_requirement(before, after))
      /\ compatible(_compare_idempotency_guarantee(k, d, before, after))
      /\ compatible(_compare_security(_effective_security(k, before), _effective_security(d, after)))
      /\ compatible(_compare_parameters(k, d, before.parameters, after.parameters))
      /\ compatible(_compare_request_body(k, d, before.body, after.body))
      /\ compatible(_compare_responses(k, d, before.responses, after.responses))
  BY OperationParts
<1>4. IsOperation(before) /\ IsOperation(after)
  BY <1>3 DEF IsApi
<1> HIDE DEF before, after
<1>5. ParametersTaken(k, d, before.parameters, after.parameters)
  BY <1>2, <1>3, <1>4, ParametersStep DEF IsOperation
<1>6. BodyTaken(k, d, before.body, after.body)
  BY <1>2, <1>3, <1>4, BodyStep DEF IsOperation
<1>7. /\ ResponsesRead(k, d, before.responses, after.responses)
      /\ DOMAIN before.responses \subseteq DOMAIN after.responses
  BY <1>2, <1>3, <1>4, ResponsesStep DEF IsOperation
<1>8. /\ _is_public_security(_effective_security(k, before)) => _is_public_security(_effective_security(d, after))
      /\ after.webhook => before.webhook
      /\ before.idempotency => after.idempotency
  BY <1>3, <1>4, SecurityKept, WebhookKept, IdempotencyKept DEF IsOperation
<1>9. OperationServes(k, d, before, after)
  BY <1>5, <1>6, <1>7, <1>8 DEF OperationServes, CallTaken
<1>q. QED
  BY <1>3, <1>9 DEF before, after

-----------------------------------------------------------------------------
(* Contracts.  The header of an error that tells who answered it lists no  *)
(* source it did not list before.                                          *)
Sources(response) == response.headers["source"].schema.enum

SourcesTold(k, d) ==
  \A op \in DOMAIN k \cap DOMAIN d : \A status \in DOMAIN _responses(k[op]) \cap DOMAIN _responses(d[op]) :
    _responses(k[op])[status].codes # None =>
      Sources(_responses(d[op])[status]) \subseteq Sources(_responses(k[op])[status])

(* Errors of a contract, the framework's included, are what _responses     *)
(* documents at their status; any other response has no codes.             *)
LEMMA ErrorResponses ==
  ASSUME NEW contract, IsContract(contract)
  PROVE  /\ "500" \in DOMAIN _responses(contract)
         /\ \A e \in contract.errors \cup FrameworkErrors(contract) :
              /\ e.status \in DOMAIN _responses(contract)
              /\ _responses(contract)[e.status].codes \notin {None, AnyCode}
              /\ e.code \in _responses(contract)[e.status].codes
         /\ \A status \in DOMAIN _responses(contract) :
              _responses(contract)[status].codes # None =>
                \E sources : _responses(contract)[status].headers
                               = [source |-> [required |-> TRUE, schema |-> SourceSchema(sources)]]
<1> DEFINE errors == contract.errors
           framework == FrameworkErrors(contract)
           statuses == {e.status : e \in errors \cup framework}
           at(es, status) == {e \in es : e.status = status}
<1>1. /\ DOMAIN _responses(contract) = statuses \cup DOMAIN contract.responses
      /\ \A status \in statuses :
           _responses(contract)[status] = _error_response(at(errors, status), at(framework, status))
      /\ \A status \in DOMAIN contract.responses \ statuses : _responses(contract)[status].codes = None
  BY DEF _responses
<1>2. internal_server_error \in framework /\ internal_server_error.status = "500"
  BY DEF FrameworkErrors, internal_server_error, ErrorDef
<1>3. \A A, B : _error_response(A, B).codes = {e.code : e \in A \cup B}
  BY DEF _error_response
<1>4. ASSUME NEW e \in errors \cup framework
      PROVE  /\ e.status \in DOMAIN _responses(contract)
             /\ _responses(contract)[e.status].codes \notin {None, AnyCode}
             /\ e.code \in _responses(contract)[e.status].codes
  <2>1. e.status \in statuses /\ e.status \in DOMAIN _responses(contract)
    BY <1>1
  <2>2. e \in at(errors, e.status) \cup at(framework, e.status)
    OBVIOUS
  <2>3. e.code \in {x.code : x \in at(errors, e.status) \cup at(framework, e.status)}
    BY <2>2
  <2>4. _responses(contract)[e.status] = _error_response(at(errors, e.status), at(framework, e.status))
    BY <1>1, <2>1
  <2>5. _responses(contract)[e.status].codes = {x.code : x \in at(errors, e.status) \cup at(framework, e.status)}
    BY <2>4 DEF _error_response
  <2>6. _responses(contract)[e.status].codes \notin {None, AnyCode}
    BY <2>1 DEF IsContract
  <2>q. QED
    BY <2>1, <2>3, <2>5, <2>6
<1>5. ASSUME NEW status \in DOMAIN _responses(contract), _responses(contract)[status].codes # None
      PROVE  \E sources : _responses(contract)[status].headers
                            = [source |-> [required |-> TRUE, schema |-> SourceSchema(sources)]]
  <2>1. status \in statuses
    BY <1>1, <1>5
  <2>2. _responses(contract)[status] = _error_response(at(errors, status), at(framework, status))
    BY <1>1, <2>1
  <2> DEFINE sources == (IF at(errors, status) # {} THEN {"app"} ELSE {})
                        \cup (IF at(framework, status) # {} THEN {"framework"} ELSE {})
  <2>3. _responses(contract)[status].headers = [source |-> [required |-> TRUE, schema |-> SourceSchema(sources)]]
    BY <2>2 DEF _error_response
  <2>q. QED
    BY <2>3
<1>q. QED
  BY <1>1, <1>2, <1>4, <1>5

(* Whatever error the server answers, the document of its own contract     *)
(* tells: status, code and who answered it (openapi._responses).           *)
LEMMA OwnErrorsAreTold ==
  ASSUME NEW contract, IsContract(contract), NEW answer \in endpoint_errors(contract, Raisable)
  PROVE  /\ answer.status \in DOMAIN _responses(contract)
         /\ _responses(contract)[answer.status].codes \notin {None, AnyCode}
         /\ ErrorRead(_responses(contract), answer)
<1> DEFINE errors == contract.errors
           framework == FrameworkErrors(contract)
           at(es, status) == {e \in es : e.status = status}
<1>1. \/ \E e \in errors : answer = ErrorAnswer(e, "app")
      \/ \E e \in framework : answer = ErrorAnswer(e, "framework")
  <2>1. \/ answer \in RequestRefused(contract)
        \/ answer \in InputRefused(contract)
        \/ \E e \in errors : answer = ErrorAnswer(e, "app")
        \/ answer = ErrorAnswer(internal_server_error, "framework")
        \/ contract.timeout # None /\ answer = ErrorAnswer(request_timeout, "framework")
    BY DEF endpoint_errors
  <2>2. internal_server_error \in framework
    BY DEF FrameworkErrors
  <2>3. contract.timeout # None => request_timeout \in framework
    BY DEF FrameworkErrors
  <2>4. answer \in RequestRefused(contract) => \E e \in framework : answer = ErrorAnswer(e, "framework")
    BY DEF RequestRefused, FrameworkErrors
  <2>5. answer \in InputRefused(contract) => \E e \in framework : answer = ErrorAnswer(e, "framework")
    BY DEF InputRefused, FrameworkErrors, has_validated_input
  <2>q. QED
    BY <2>1, <2>2, <2>3, <2>4, <2>5
<1>2. PICK e \in errors \cup framework :
        /\ answer.status = e.status /\ answer.code = e.code
        /\ \/ answer.source = "app" /\ e \in at(errors, e.status)
           \/ answer.source = "framework" /\ e \in at(framework, e.status)
  BY <1>1 DEF ErrorAnswer
<1>3. /\ e.status \in DOMAIN _responses(contract)
      /\ _responses(contract)[e.status].codes \notin {None, AnyCode}
      /\ e.code \in _responses(contract)[e.status].codes
  BY ErrorResponses
<1>4. Sources(_responses(contract)[e.status])
        = SourceSchema((IF at(errors, e.status) # {} THEN {"app"} ELSE {})
                       \cup (IF at(framework, e.status) # {} THEN {"framework"} ELSE {})).enum
  BY DEF _responses, _error_response, Sources
<1>5. SourceSchema({answer.source}).enum \subseteq Sources(_responses(contract)[e.status])
  BY <1>2, <1>4 DEF SourceSchema
<1>q. QED
  BY <1>2, <1>3, <1>5 DEF ErrorRead, Sources

(* A compatible change adds no source (_compare_headers, _compare_set).    *)
LEMMA SourcesStep ==
  ASSUME NEW b, NEW a, SourceSchema(b) \in Schemas, SourceSchema(a) \in Schemas,
         NEW X \in Registries, NEW Y \in Registries,
         compatible(compare_schema(SourceSchema(b), SourceSchema(a), "output", X, Y))
  PROVE  SourceSchema(a).enum \subseteq SourceSchema(b).enum
<1> DEFINE sb == SourceSchema(b)
           sa == SourceSchema(a)
<1>1. ~ Has(sb, "ref") /\ ~ Has(sa, "ref") /\ Has(sb, "enum") /\ Has(sa, "enum")
  BY DEF SourceSchema, Has
<1> HIDE DEF sb, sa
<1>2. PICK Q : Compared("output", X, Y, Q) /\ <<sb, sa>> \in Q
  BY ComparedIs DEF sb, sa
<1>3. compatible(compare("output", X, Y, sb, sa))
  BY <1>2 DEF Compared
<1>4. \A key \in {"type", "enum"} : compatible(_compare_set("output", sb, sa, key))
  BY <1>1, <1>3, ComparedParts
<1>5. compatible(_compare_set("output", sb, sa, "type")) /\ compatible(_compare_set("output", sb, sa, "enum"))
  BY <1>4
<1>6. sb \in Schemas /\ sa \in Schemas
  BY DEF sb, sa
<1>7. sa.enum \subseteq sb.enum
  BY <1>1, <1>5, <1>6, ComparedEnum
<1>q. QED
  BY <1>7 DEF sb, sa

(* What a chain of releases of contracts keeps.                            *)
AreContracts(k) == IsApi(openapi_schema(k)) /\ \A op \in DOMAIN k : IsContract(k[op])

ContractsServe(k, d) == ApiServes(openapi_schema(k), openapi_schema(d)) /\ SourcesTold(k, d)

(* The document of contracts has an operation for each, with its responses *)
(* (openapi_schema).                                                       *)
LEMMA DocumentedAre ==
  ASSUME NEW k
  PROVE  /\ DOMAIN openapi_schema(k).operations = DOMAIN k
         /\ \A op \in DOMAIN k : openapi_schema(k).operations[op].responses = _responses(k[op])
BY DEF openapi_schema, _operation

(* A response that documents errors goes on documenting errors, and is     *)
(* one the release before has, unless it is that of another status.        *)
LEMMA ErrorsStay ==
  ASSUME NEW k, NEW d, AreContracts(k), AreContracts(d), ApiServes(openapi_schema(k), openapi_schema(d)),
         NEW op \in DOMAIN k, NEW status \in DOMAIN _responses(k[op])
  PROVE  /\ op \in DOMAIN d
         /\ status \in DOMAIN _responses(d[op])
         /\ ResponseRead(openapi_schema(k), openapi_schema(d), _responses(k[op])[status], _responses(d[op])[status])
         /\ _responses(k[op])[status].codes # None =>
              /\ _responses(d[op])[status].codes # None
              /\ _responses(d[op])[status].codes \subseteq _responses(k[op])[status].codes
         /\ _responses(k[op])[status].codes = None => _responses(d[op])[status].codes = None
<1> DEFINE K == openapi_schema(k)
           D == openapi_schema(d)
           rk == _responses(k[op])
           rd == _responses(d[op])
<1>1. op \in DOMAIN K.operations /\ K.operations[op].responses = rk
  BY DocumentedAre
<1>2. op \in DOMAIN D.operations /\ OperationServes(K, D, K.operations[op], D.operations[op])
  BY <1>1 DEF ApiServes
<1>3. op \in DOMAIN d /\ D.operations[op].responses = rd
  BY <1>2, DocumentedAre
<1>4. ResponsesRead(K, D, rk, rd) /\ DOMAIN rk \subseteq DOMAIN rd
  BY <1>1, <1>2, <1>3 DEF OperationServes
<1>5. status \in DOMAIN rd /\ ResponseRead(K, D, rk[status], rd[status])
  BY <1>4 DEF ResponsesRead
<1>6. rk[status].codes # AnyCode /\ rd[status].codes # AnyCode
  BY <1>3, <1>5 DEF AreContracts, IsContract
<1>7. rk[status].codes # None => rd[status].codes # None /\ rd[status].codes \subseteq rk[status].codes
  BY <1>5, <1>6 DEF ResponseRead
<1>8. rk[status].codes = None => rd[status].codes = None
  BY <1>5, <1>6 DEF ResponseRead
<1>q. QED
  BY <1>3, <1>5, <1>7, <1>8

(* What the header tells of who answers is kept by a compatible change.    *)
LEMMA SourcesNext ==
  ASSUME NEW k, NEW d, AreContracts(k), AreContracts(d),
         compatible(analyze_openapi_compatibility(openapi_schema(k), openapi_schema(d)))
  PROVE  SourcesTold(k, d)
<1> DEFINE K == openapi_schema(k)
           D == openapi_schema(d)
<1>1. IsApi(K) /\ IsApi(D)
  BY DEF AreContracts
<1>2. ApiServes(K, D)
  BY <1>1, ApiServesNext
<1>3. SUFFICES ASSUME NEW op \in DOMAIN k \cap DOMAIN d,
                      NEW status \in DOMAIN _responses(k[op]) \cap DOMAIN _responses(d[op]),
                      _responses(k[op])[status].codes # None
      PROVE  Sources(_responses(d[op])[status]) \subseteq Sources(_responses(k[op])[status])
  BY DEF SourcesTold
<1> DEFINE rk == _responses(k[op])
           rd == _responses(d[op])
<1>4. /\ op \in DOMAIN K.operations /\ K.operations[op].responses = rk
      /\ op \in DOMAIN D.operations /\ D.operations[op].responses = rd
  BY DocumentedAre
<1>5. /\ \A s \in DOMAIN rk : IsResponse(rk[s])
      /\ \A s \in DOMAIN rd : IsResponse(rd[s])
  BY <1>1, <1>4 DEF IsApi, IsOperation
<1>6. K.schemas \in Registries /\ D.schemas \in Registries
  BY <1>1 DEF IsApi
<1>7. compatible(_compare_responses(K, D, rk, rd))
  BY <1>4, OperationParts
<1> HIDE DEF K, D
<1>8. compatible(_compare_response(K, D, rk[status], rd[status]))
  <2> HIDE DEF rk, rd
  <2>1. status \in DOMAIN rk
    BY DEF rk
  <2>q. QED
    BY <1>5, <1>6, <1>7, <2>1, ResponsesStep
<1>9. compatible(_compare_headers(K, D, rk[status].headers, rd[status].headers))
  BY <1>8, BothCompatible DEF _compare_response
<1>10. rd[status].codes # None
  BY <1>2, <1>3, ErrorsStay DEF K, D
<1>11. PICK b : rk[status].headers = [source |-> [required |-> TRUE, schema |-> SourceSchema(b)]]
  BY <1>3, ErrorResponses DEF AreContracts
<1>12. PICK a : rd[status].headers = [source |-> [required |-> TRUE, schema |-> SourceSchema(a)]]
  BY <1>3, <1>10, ErrorResponses DEF AreContracts
<1>13. IsResponse(rk[status]) /\ IsResponse(rd[status])
  BY <1>5
<1> HIDE DEF rk, rd
<1> DEFINE hk == rk[status].headers
           hd == rd[status].headers
<1>14. /\ \A name \in DOMAIN hk : IsField(hk[name])
       /\ \A name \in DOMAIN hd : IsField(hd[name])
  BY <1>13 DEF IsResponse
<1>15. /\ "source" \in DOMAIN hk /\ hk["source"].schema = SourceSchema(b)
       /\ "source" \in DOMAIN hd /\ hd["source"].schema = SourceSchema(a)
  BY <1>11, <1>12
<1>16. SourceSchema(b) \in Schemas /\ SourceSchema(a) \in Schemas
  BY <1>14, <1>15 DEF IsField
<1> HIDE DEF hk, hd
<1>17. compatible(_compare_headers(K, D, hk, hd))
  BY <1>9 DEF hk, hd
<1>18. compatible(_schema(K, D, hk["source"].schema, hd["source"].schema, "output"))
  BY <1>6, <1>14, <1>15, <1>17, HeadersStep
<1>19. compatible(compare_schema(SourceSchema(b), SourceSchema(a), "output", K.schemas, D.schemas))
  BY <1>15, <1>18 DEF _schema
<1>20. SourceSchema(a).enum \subseteq SourceSchema(b).enum
  BY <1>6, <1>16, <1>19, SourcesStep
<1>q. QED
  BY <1>15, <1>20 DEF Sources, rk, rd, hk, hd

(* Releases of contracts: one compatible change,                           *)
LEMMA ContractsServeNext ==
  ASSUME NEW k, NEW d, AreContracts(k), AreContracts(d),
         compatible(analyze_openapi_compatibility(openapi_schema(k), openapi_schema(d)))
  PROVE  ContractsServe(k, d)
BY SourcesNext, ApiServesNext DEF ContractsServe, AreContracts

(* two changes in a row,                                                   *)
LEMMA ContractsServeOn ==
  ASSUME NEW k, NEW d, NEW e, AreContracts(k), AreContracts(d), AreContracts(e),
         ContractsServe(k, d), ContractsServe(d, e)
  PROVE  ContractsServe(k, e)
<1>1. ApiServes(openapi_schema(k), openapi_schema(e))
  BY ApiServesOn DEF ContractsServe, AreContracts
<1>2. ASSUME NEW op \in DOMAIN k \cap DOMAIN e,
             NEW status \in DOMAIN _responses(k[op]) \cap DOMAIN _responses(e[op]),
             _responses(k[op])[status].codes # None
      PROVE  Sources(_responses(e[op])[status]) \subseteq Sources(_responses(k[op])[status])
  <2>1. /\ op \in DOMAIN d /\ status \in DOMAIN _responses(d[op])
        /\ _responses(d[op])[status].codes # None
    BY <1>2, ErrorsStay DEF ContractsServe
  <2>2. Sources(_responses(d[op])[status]) \subseteq Sources(_responses(k[op])[status])
    BY <1>2, <2>1 DEF ContractsServe, SourcesTold
  <2>3. Sources(_responses(e[op])[status]) \subseteq Sources(_responses(d[op])[status])
    BY <1>2, <2>1 DEF ContractsServe, SourcesTold
  <2>q. QED
    BY <2>2, <2>3
<1>q. QED
  BY <1>1, <1>2 DEF ContractsServe, SourcesTold

(* and none.                                                               *)
LEMMA ContractsServeThemselves ==
  ASSUME NEW k
  PROVE  ContractsServe(k, k)
BY ApiServesItself DEF ContractsServe, SourcesTold

(* Whatever error the server answers for a contract, the document of any   *)
(* release whose programs it serves tells.                                 *)
LEMMA ErrorsAreTold ==
  ASSUME NEW k, NEW d, AreContracts(k), AreContracts(d), ContractsServe(k, d),
         NEW op \in DOMAIN k \cap DOMAIN d, NEW answer \in endpoint_errors(d[op], Raisable)
  PROVE  ErrorRead(_responses(k[op]), answer)
<1> DEFINE rk == _responses(k[op])
           rd == _responses(d[op])
<1>1. /\ answer.status \in DOMAIN rd
      /\ rd[answer.status].codes \notin {None, AnyCode}
      /\ ErrorRead(rd, answer)
  BY OwnErrorsAreTold DEF AreContracts
<1>2. "500" \in DOMAIN rk
  BY ErrorResponses DEF AreContracts
<1>3. answer.status \in DOMAIN rk
  <2>1. ResponsesRead(openapi_schema(k), openapi_schema(d), rk, rd)
    BY DocumentedAre DEF ContractsServe, ApiServes, OperationServes
  <2>q. QED
    BY <1>1, <1>2, <2>1 DEF ResponsesRead
<1>4. /\ rk[answer.status].codes # None
      /\ rd[answer.status].codes \subseteq rk[answer.status].codes
  BY <1>1, <1>3, ErrorsStay DEF ContractsServe
<1>5. Sources(rd[answer.status]) \subseteq Sources(rk[answer.status])
  BY <1>1, <1>3, <1>4 DEF ContractsServe, SourcesTold
<1>q. QED
  BY <1>1, <1>3, <1>4, <1>5 DEF ErrorRead, Sources

-----------------------------------------------------------------------------
(* Evaluation policies: what every compatible change tightens.             *)
BudgetTightened(before, after) == before # NoLimit => after # NoLimit /\ after <= before

PolicyServes(k, d) ==
  /\ Names(k.cases) \subseteq Names(d.cases)
  /\ \A name \in DOMAIN k.metrics : name \in DOMAIN d.metrics /\ d.metrics[name] >= k.metrics[name]
  /\ d.timeout_seconds <= k.timeout_seconds
  /\ BudgetTightened(k.max_tokens, d.max_tokens)
  /\ BudgetTightened(k.max_cost_usd, d.max_cost_usd)

(* A budget that a compatible change gave up or raised would not be one    *)
(* (_compare_optional_limit).                                              *)
LEMMA BudgetsTighten ==
  ASSUME NEW before \in Int \cup {NoLimit}, NEW after \in Int \cup {NoLimit},
         compatible(_compare_optional_limit(before, after))
  PROVE  BudgetTightened(before, after)
<1>1. CASE before = NoLimit \/ before = after
  BY <1>1 DEF BudgetTightened
<1>2. CASE before # NoLimit /\ before # after /\ after = NoLimit
  BY <1>2 DEF compatible, _compare_optional_limit
<1>3. CASE before # NoLimit /\ before # after /\ after # NoLimit
  <2>1. after < before
    BY <1>3 DEF compatible, _compare_optional_limit, _compare_limit
  <2>q. QED
    BY <1>3, <2>1 DEF BudgetTightened
<1>q. QED
  BY <1>1, <1>2, <1>3

(* No metric is dropped and no threshold lowered (_compare_metrics).       *)
LEMMA ThresholdsRise ==
  ASSUME NEW before, NEW after, compatible(_compare_metrics(before, after)),
         NEW name \in DOMAIN before
  PROVE  name \in DOMAIN after /\ (before[name] = after[name] \/ after[name] > before[name])
<1>1. name \in DOMAIN after
  <2>1. SUFFICES ASSUME name \notin DOMAIN after PROVE FALSE
    OBVIOUS
  <2>2. "breaking" \in {"breaking" : n \in DOMAIN before \ DOMAIN after}
    BY <2>1
  <2>q. QED
    BY <2>2 DEF compatible, _compare_metrics
<1>2. compatible(_compare_limit(before[name], after[name], after[name] > before[name]))
  BY <1>1 DEF compatible, _compare_metrics
<1>3. before[name] = after[name] \/ after[name] > before[name]
  BY <1>2 DEF compatible, _compare_limit
<1>q. QED
  BY <1>1, <1>3

(* No case is dropped (_compare_case_names).                               *)
LEMMA CasesStay ==
  ASSUME NEW before, NEW after, compatible(_compare_case_names(before, after))
  PROVE  Names(before) \subseteq Names(after)
<1>1. SUFFICES ASSUME NEW name \in Names(before) \ Names(after) PROVE FALSE
  OBVIOUS
<1>2. "breaking" \in {"breaking" : n \in Names(before) \ Names(after)}
  OBVIOUS
<1>3. "breaking" \in _compare_case_names(before, after)
  BY <1>2 DEF _compare_case_names
<1>q. QED
  BY <1>3 DEF compatible

(* A policy, over one compatible change (_compare_evaluation),             *)
LEMMA PolicyServesNext ==
  ASSUME NEW before, NEW after, IsPolicy(before), IsPolicy(after),
         compatible(_compare_evaluation(before, after))
  PROVE  PolicyServes(before, after)
<1>1. /\ compatible(_compare_case_names(before.cases, after.cases))
      /\ compatible(_compare_metrics(before.metrics, after.metrics))
      /\ compatible(_compare_limit(before.timeout_seconds, after.timeout_seconds,
                                   after.timeout_seconds < before.timeout_seconds))
      /\ compatible(_compare_optional_limit(before.max_tokens, after.max_tokens))
      /\ compatible(_compare_optional_limit(before.max_cost_usd, after.max_cost_usd))
  BY DEF compatible, _compare_evaluation
<1>2. Names(before.cases) \subseteq Names(after.cases)
  BY <1>1, CasesStay
<1>3. ASSUME NEW name \in DOMAIN before.metrics
      PROVE  name \in DOMAIN after.metrics /\ after.metrics[name] >= before.metrics[name]
  <2>1. name \in DOMAIN after.metrics
        /\ (before.metrics[name] = after.metrics[name] \/ after.metrics[name] > before.metrics[name])
    BY <1>1, ThresholdsRise
  <2>2. before.metrics[name] \in Int /\ after.metrics[name] \in Int
    BY <2>1 DEF IsPolicy
  <2>q. QED
    BY <2>1, <2>2
<1>4. after.timeout_seconds <= before.timeout_seconds
  <2>1. before.timeout_seconds = after.timeout_seconds \/ after.timeout_seconds < before.timeout_seconds
    BY <1>1 DEF compatible, _compare_limit
  <2>q. QED
    BY <2>1 DEF IsPolicy
<1>5. BudgetTightened(before.max_tokens, after.max_tokens) /\ BudgetTightened(before.max_cost_usd, after.max_cost_usd)
  BY <1>1, BudgetsTighten DEF IsPolicy
<1>q. QED
  BY <1>2, <1>3, <1>4, <1>5 DEF PolicyServes

(* over none,                                                              *)
LEMMA PolicyServesItself ==
  ASSUME NEW policy, IsPolicy(policy)
  PROVE  PolicyServes(policy, policy)
BY DEF PolicyServes, IsPolicy, BudgetTightened

(* and over two in a row.                                                  *)
LEMMA PolicyServesOn ==
  ASSUME NEW k, NEW d, NEW e, IsPolicy(k), IsPolicy(d), IsPolicy(e), PolicyServes(k, d), PolicyServes(d, e)
  PROVE  PolicyServes(k, e)
<1>1. ASSUME NEW name \in DOMAIN k.metrics
      PROVE  name \in DOMAIN e.metrics /\ e.metrics[name] >= k.metrics[name]
  <2>1. name \in DOMAIN d.metrics /\ d.metrics[name] >= k.metrics[name]
    BY DEF PolicyServes
  <2>2. name \in DOMAIN e.metrics /\ e.metrics[name] >= d.metrics[name]
    BY <2>1 DEF PolicyServes
  <2>3. k.metrics[name] \in Int /\ d.metrics[name] \in Int /\ e.metrics[name] \in Int
    BY <2>1, <2>2 DEF IsPolicy
  <2>q. QED
    BY <2>1, <2>2, <2>3
<1>2. BudgetTightened(k.max_tokens, e.max_tokens)
  BY DEF PolicyServes, IsPolicy, BudgetTightened
<1>3. BudgetTightened(k.max_cost_usd, e.max_cost_usd)
  BY DEF PolicyServes, IsPolicy, BudgetTightened
<1>4. e.timeout_seconds <= k.timeout_seconds /\ Names(k.cases) \subseteq Names(e.cases)
  BY DEF PolicyServes, IsPolicy
<1>q. QED
  BY <1>1, <1>2, <1>3, <1>4 DEF PolicyServes

(* What is tightened refuses what was refused: deadlines and budgets       *)
(* always, averages as long as both run the same cases.                    *)
LEMMA TightenedRefuses ==
  ASSUME NEW k, NEW d, IsPolicy(k), IsPolicy(d), PolicyServes(k, d),
         \A r \in Results : IsResult(r, k) /\ IsResult(r, d)
  PROVE  PolicyKept(k, d)
<1>1. ASSUME NEW r \in Results, Holds(d, r) PROVE Holds(k, r)
  <2>1. IsResult(r, k)
    OBVIOUS
  <2>2. r.slowest < k.timeout_seconds
    BY <1>1, <2>1 DEF Holds, IsResult, IsPolicy, PolicyServes
  <2>3. WithinBudget(k.max_tokens, r.tokens)
    BY <1>1, <2>1 DEF Holds, IsResult, IsPolicy, PolicyServes, WithinBudget, BudgetTightened
  <2>4. WithinBudget(k.max_cost_usd, r.cost)
    BY <1>1, <2>1 DEF Holds, IsResult, IsPolicy, PolicyServes, WithinBudget, BudgetTightened
  <2>q. QED
    BY <2>2, <2>3, <2>4 DEF Holds
<1>2. ASSUME k.cases = d.cases, NEW r \in Results, Passes(d, r) PROVE Passes(k, r)
  <2>1. Holds(k, r)
    BY <1>1, <1>2 DEF Holds, Passes
  <2>2. ASSUME NEW name \in DOMAIN k.metrics
        PROVE  r.total[name] >= k.metrics[name] * Len(k.cases)
    <3> DEFINE b == k.metrics[name]
               a == d.metrics[name]
               n == Len(k.cases)
               t == r.total[name]
    <3>1. name \in DOMAIN d.metrics /\ a >= b
      BY DEF PolicyServes
    <3>2. t >= a * n
      BY <1>2, <3>1 DEF Passes
    <3>3. a \in Int /\ b \in Int /\ t \in Int
      BY <3>1 DEF IsPolicy, IsResult
    <3>4. n \in Nat
      BY LenProperties DEF IsPolicy
    <3> HIDE DEF a, b, n, t
    <3>5. a * n = b * n + (a - b) * n
      BY <3>3, <3>4
    <3>6. (a - b) * n >= 0
      BY <3>1, <3>3, <3>4
    <3>7. a * n \in Int /\ b * n \in Int /\ (a - b) * n \in Int
      BY <3>3, <3>4
    <3>8. t >= b * n
      BY <3>2, <3>3, <3>5, <3>6, <3>7
    <3>q. QED
      BY <3>8 DEF b, n, t
  <2>q. QED
    BY <2>1, <2>2 DEF Holds, Passes
<1>q. QED
  BY <1>1, <1>2 DEF PolicyKept, PolicyServes

(* A policy that the gate calls compatible with an earlier one refuses     *)
(* every result that broke a deadline or a budget of the earlier one, and, *)
(* as long as both run the same cases, every result the earlier one        *)
(* refused (_EvaluationAnalyzer, EvaluationOutcome.ok).                    *)
THEOREM PoliciesTighten ==
  ASSUME NEW before, NEW after, IsPolicy(before), IsPolicy(after),
         \A r \in Results : IsResult(r, before) /\ IsResult(r, after),
         compatible(_compare_evaluation(before, after))
  PROVE  PolicyKept(before, after)
BY PolicyServesNext, TightenedRefuses

-----------------------------------------------------------------------------
(* Tools.                                                                  *)
ToolServes(k, d) ==
  /\ OwnTaken(k.input, d.input)
  /\ OwnGiven(k.output, d.output)
  /\ d.errors \subseteq k.errors
  /\ HintsKept(k.annotations, d.annotations)

(* Schemas of a manifest bring their own definitions (CompareOwn).         *)
LEMMA OwnCarries ==
  ASSUME NEW k, NEW d, IsOwned(k), IsOwned(d)
  PROVE  /\ compatible(CompareOwn(k, d, "input")) => OwnTaken(k, d)
         /\ compatible(CompareOwn(k, d, "output")) => OwnGiven(k, d)
BY CompatibleInput, CompatibleOutput DEF CompareOwn, OwnTaken, OwnGiven, IsOwned

(* A hint changes only to the safer value (_compare_annotations).          *)
LEMMA HintsStep ==
  ASSUME NEW before, NEW after,
         \A hint \in {"read_only", "destructive", "idempotent", "open_world"} :
           before[hint] \in BOOLEAN /\ after[hint] \in BOOLEAN,
         compatible(_compare_annotations(before, after))
  PROVE  HintsKept(before, after)
<1> DEFINE safer == [read_only |-> TRUE, destructive |-> FALSE, idempotent |-> TRUE, open_world |-> FALSE]
           hints == {"read_only", "destructive", "idempotent", "open_world"}
<1>1. \A hint \in hints : before[hint] = after[hint] \/ after[hint] = safer[hint]
  <2>1. DOMAIN safer = hints
    OBVIOUS
  <2>2. "breaking" \notin {IF after[name] = safer[name] THEN "additive" ELSE "breaking" :
                             name \in {n \in DOMAIN safer : before[n] # after[n]}}
    BY DEF compatible, _compare_annotations
  <2> HIDE DEF safer
  <2>q. QED
    BY <2>1, <2>2
<1>2. before["read_only"] = after["read_only"] \/ after["read_only"]
  BY <1>1
<1>3. before["destructive"] = after["destructive"] \/ ~ after["destructive"]
  BY <1>1
<1>4. before["idempotent"] = after["idempotent"] \/ after["idempotent"]
  BY <1>1
<1>5. before["open_world"] = after["open_world"] \/ ~ after["open_world"]
  BY <1>1
<1>q. QED
  BY <1>2, <1>3, <1>4, <1>5 DEF HintsKept

(* A tool, over one compatible change (_compare_tool),                     *)
LEMMA ToolServesNext ==
  ASSUME NEW before, NEW after, IsTool(before), IsTool(after), compatible(_compare_tool(before, after))
  PROVE  ToolServes(before, after)
<1>1. /\ compatible(CompareOwn(before.input, after.input, "input"))
      /\ compatible(CompareOwn(before.output, after.output, "output"))
      /\ compatible({"breaking" : code \in after.errors \ before.errors})
      /\ compatible(_compare_annotations(before.annotations, after.annotations))
  BY BothCompatible DEF _compare_tool
<1>2. OwnTaken(before.input, after.input) /\ OwnGiven(before.output, after.output)
  BY <1>1, OwnCarries DEF IsTool
<1>3. after.errors \subseteq before.errors
  BY <1>1 DEF compatible
<1>4. HintsKept(before.annotations, after.annotations)
  BY <1>1, HintsStep DEF IsTool
<1>q. QED
  BY <1>2, <1>3, <1>4 DEF ToolServes

(* over none,                                                              *)
LEMMA ToolServesItself ==
  ASSUME NEW tool
  PROVE  ToolServes(tool, tool) /\ OwnTaken(tool, tool)
BY DEF ToolServes, OwnTaken, OwnGiven, Takes, Gives, HintsKept

(* and over two in a row; a job, likewise.                                 *)
LEMMA ToolServesOn ==
  ASSUME NEW k, NEW d, NEW e
  PROVE  /\ ToolServes(k, d) /\ ToolServes(d, e) => ToolServes(k, e)
         /\ OwnTaken(k, d) /\ OwnTaken(d, e) => OwnTaken(k, e)
BY DEF ToolServes, OwnTaken, OwnGiven, Takes, Gives, HintsKept

-----------------------------------------------------------------------------
(* The inductive invariant: programs are built from releases of the same   *)
(* boundary, what is deployed imports, and it serves what is known.        *)
Serves(k, d) ==
  /\ kind = "openapi" => ApiServes(k, d)
  /\ kind = "contracts" => ContractsServe(k, d)
  /\ kind \in {"tools", "jobs", "evaluations"} => DOMAIN k.items \subseteq DOMAIN d.items
  /\ kind = "tools" => \A name \in DOMAIN k.items : ToolServes(k.items[name], d.items[name])
  /\ kind = "jobs" => \A name \in DOMAIN k.items : OwnTaken(k.items[name], d.items[name])
  /\ kind = "evaluations" => \A name \in DOMAIN k.items : PolicyServes(k.items[name], d.items[name])

IInv ==
  /\ kind \in DOMAIN Documents
  /\ known \in Documents[kind]
  /\ deployed \in Documents[kind]
  /\ Imports(deployed)
  /\ Serves(known, deployed)

(* What a working tree declares, by its boundary (DocumentsAssumption).    *)
LEMMA ReleasesAre ==
  ASSUME kind \in DOMAIN Documents
  PROVE  /\ kind \in {"openapi", "contracts", "tools", "jobs", "evaluations"}
         /\ \A d \in Documents[kind] :
              /\ kind = "openapi" => IsApi(d)
              /\ kind = "contracts" => AreContracts(d)
              /\ kind = "tools" => \A name \in DOMAIN d.items : IsTool(d.items[name])
              /\ kind = "jobs" => \A name \in DOMAIN d.items : IsOwned(d.items[name])
              /\ kind = "evaluations" =>
                   \A name \in DOMAIN d.items : IsPolicy(d.items[name]) /\ \A r \in Results : IsResult(r, d.items[name])
<1>1. /\ kind \in {"openapi", "contracts", "tools", "jobs", "evaluations"}
      /\ \A d \in Documents[kind] : IsRelease(kind, d)
  BY DocumentsAssumption
<1> DEFINE Fits(d) == /\ kind = "openapi" => IsApi(d)
                      /\ kind = "contracts" => AreContracts(d)
                      /\ kind = "tools" => \A name \in DOMAIN d.items : IsTool(d.items[name])
                      /\ kind = "jobs" => \A name \in DOMAIN d.items : IsOwned(d.items[name])
                      /\ kind = "evaluations" =>
                           \A name \in DOMAIN d.items :
                             IsPolicy(d.items[name]) /\ \A r \in Results : IsResult(r, d.items[name])
<1>2. ASSUME NEW d \in Documents[kind] PROVE Fits(d)
  <2>1. IsRelease(kind, d)
    BY <1>1
  <2>2. CASE kind = "openapi"
    BY <2>1, <2>2 DEF IsRelease
  <2>3. CASE kind = "contracts"
    BY <2>1, <2>3 DEF IsRelease, AreContracts
  <2>4. CASE kind = "tools"
    BY <2>1, <2>4 DEF IsRelease
  <2>5. CASE kind = "jobs"
    BY <2>1, <2>5 DEF IsRelease
  <2>6. CASE kind = "evaluations"
    BY <2>1, <2>6 DEF IsRelease
  <2>q. QED
    BY <1>1, <2>2, <2>3, <2>4, <2>5, <2>6
<1>q. QED
  BY <1>1, <1>2

(* A release serves the programs built from it.                            *)
LEMMA ServesItself ==
  ASSUME kind \in DOMAIN Documents, NEW d \in Documents[kind]
  PROVE  Serves(d, d)
BY ReleasesAre, ApiServesItself, ContractsServeThemselves, ToolServesItself, PolicyServesItself DEF Serves

(* The items of a manifest, one by one (CompareItems).                     *)
LEMMA ItemsNext ==
  ASSUME kind \in {"tools", "jobs", "evaluations"}, NEW k, NEW d,
         compatible(analyze_manifest_compatibility(k, d))
  PROVE  /\ DOMAIN k.items \subseteq DOMAIN d.items
         /\ kind = "tools" => \A name \in DOMAIN k.items : compatible(_compare_tool(k.items[name], d.items[name]))
         /\ kind = "jobs" => \A name \in DOMAIN k.items : compatible(CompareJob(k.items[name], d.items[name]))
         /\ kind = "evaluations" =>
              \A name \in DOMAIN k.items : compatible(_compare_evaluation(k.items[name], d.items[name]))
<1>1. k.schema_version = d.schema_version
  BY OneSeverity DEF analyze_manifest_compatibility
<1>2. CASE kind = "tools"
  <2>1. compatible(CompareItems(k.items, d.items, _compare_tool))
    BY <1>1, <1>2 DEF analyze_manifest_compatibility
  <2>2. /\ compatible({"breaking" : name \in Removed(k.items, d.items)})
        /\ compatible(UNION {_compare_tool(k.items[name], d.items[name]) : name \in Kept(k.items, d.items)})
    BY <2>1, BothCompatible DEF CompareItems
  <2>3. DOMAIN k.items \subseteq DOMAIN d.items
    BY <2>2 DEF compatible, Removed
  <2>4. \A name \in Kept(k.items, d.items) : compatible(_compare_tool(k.items[name], d.items[name]))
    BY <2>2 DEF compatible
  <2>q. QED
    BY <1>2, <2>3, <2>4 DEF Kept
<1>3. CASE kind = "jobs"
  <2>1. compatible(CompareItems(k.items, d.items, CompareJob))
    BY <1>1, <1>3 DEF analyze_manifest_compatibility
  <2>2. /\ compatible({"breaking" : name \in Removed(k.items, d.items)})
        /\ compatible(UNION {CompareJob(k.items[name], d.items[name]) : name \in Kept(k.items, d.items)})
    BY <2>1, BothCompatible DEF CompareItems
  <2>3. DOMAIN k.items \subseteq DOMAIN d.items
    BY <2>2 DEF compatible, Removed
  <2>4. \A name \in Kept(k.items, d.items) : compatible(CompareJob(k.items[name], d.items[name]))
    BY <2>2 DEF compatible
  <2>q. QED
    BY <1>3, <2>3, <2>4 DEF Kept
<1>4. CASE kind = "evaluations"
  <2>1. compatible(CompareItems(k.items, d.items, _compare_evaluation))
    BY <1>1, <1>4 DEF analyze_manifest_compatibility
  <2>2. /\ compatible({"breaking" : name \in Removed(k.items, d.items)})
        /\ compatible(UNION {_compare_evaluation(k.items[name], d.items[name]) : name \in Kept(k.items, d.items)})
    BY <2>1, BothCompatible DEF CompareItems
  <2>3. DOMAIN k.items \subseteq DOMAIN d.items
    BY <2>2 DEF compatible, Removed
  <2>4. \A name \in Kept(k.items, d.items) : compatible(_compare_evaluation(k.items[name], d.items[name]))
    BY <2>2 DEF compatible
  <2>q. QED
    BY <1>4, <2>3, <2>4 DEF Kept
<1>q. QED
  BY <1>2, <1>3, <1>4

(* A change that the gate lets pass serves the programs of the release     *)
(* before (CompatibilityReport.compatible).                                *)
LEMMA ServesNext ==
  ASSUME kind \in DOMAIN Documents, NEW k \in Documents[kind], NEW d \in Documents[kind],
         compatible(Report(k, d))
  PROVE  Serves(k, d)
<1>1. CASE kind = "openapi"
  <2>1. IsApi(k) /\ IsApi(d)
    BY <1>1, ReleasesAre
  <2>2. compatible(analyze_openapi_compatibility(k, d))
    BY <1>1 DEF Report, Document
  <2>q. QED
    BY <1>1, <2>1, <2>2, ApiServesNext DEF Serves
<1>2. CASE kind = "contracts"
  <2>1. AreContracts(k) /\ AreContracts(d)
    BY <1>2, ReleasesAre
  <2>2. compatible(analyze_openapi_compatibility(openapi_schema(k), openapi_schema(d)))
    BY <1>2 DEF Report, Document
  <2>q. QED
    BY <1>2, <2>1, <2>2, ContractsServeNext DEF Serves
<1>3. CASE kind \in {"tools", "jobs", "evaluations"}
  <2>1. compatible(analyze_manifest_compatibility(k, d))
    BY <1>3 DEF Report
  <2>2. DOMAIN k.items \subseteq DOMAIN d.items
    BY <1>3, <2>1, ItemsNext
  <2>3. ASSUME kind = "tools", NEW name \in DOMAIN k.items PROVE ToolServes(k.items[name], d.items[name])
    <3>1. IsTool(k.items[name]) /\ IsTool(d.items[name])
      BY <2>2, <2>3, ReleasesAre
    <3>2. compatible(_compare_tool(k.items[name], d.items[name]))
      BY <1>3, <2>1, <2>3, ItemsNext
    <3>q. QED
      BY <3>1, <3>2, ToolServesNext
  <2>4. ASSUME kind = "jobs", NEW name \in DOMAIN k.items PROVE OwnTaken(k.items[name], d.items[name])
    <3>1. IsOwned(k.items[name]) /\ IsOwned(d.items[name])
      BY <2>2, <2>4, ReleasesAre
    <3>2. compatible(CompareOwn(k.items[name], d.items[name], "input"))
      BY <1>3, <2>1, <2>4, ItemsNext DEF CompareJob
    <3>q. QED
      BY <3>1, <3>2, OwnCarries
  <2>5. ASSUME kind = "evaluations", NEW name \in DOMAIN k.items PROVE PolicyServes(k.items[name], d.items[name])
    <3>1. IsPolicy(k.items[name]) /\ IsPolicy(d.items[name])
      BY <2>2, <2>5, ReleasesAre
    <3>2. compatible(_compare_evaluation(k.items[name], d.items[name]))
      BY <1>3, <2>1, <2>5, ItemsNext
    <3>q. QED
      BY <3>1, <3>2, PolicyServesNext
  <2>q. QED
    BY <1>3, <2>2, <2>3, <2>4, <2>5 DEF Serves
<1>q. QED
  BY <1>1, <1>2, <1>3, ReleasesAre

(* A release serves the programs of the one two changes before: what is    *)
(* kept from one release to the next is kept along the chain.              *)
LEMMA ServesOn ==
  ASSUME kind \in DOMAIN Documents,
         NEW k \in Documents[kind], NEW d \in Documents[kind], NEW e \in Documents[kind],
         Serves(k, d), Serves(d, e)
  PROVE  Serves(k, e)
<1>1. CASE kind = "openapi"
  <2>1. ApiServes(k, d) /\ ApiServes(d, e) /\ IsApi(e)
    BY <1>1, ReleasesAre DEF Serves
  <2>q. QED
    BY <1>1, <2>1, ApiServesOn DEF Serves
<1>2. CASE kind = "contracts"
  <2>1. /\ ContractsServe(k, d) /\ ContractsServe(d, e)
        /\ AreContracts(k) /\ AreContracts(d) /\ AreContracts(e)
    BY <1>2, ReleasesAre DEF Serves
  <2>q. QED
    BY <1>2, <2>1, ContractsServeOn DEF Serves
<1>3. CASE kind \in {"tools", "jobs", "evaluations"}
  <2>1. DOMAIN k.items \subseteq DOMAIN d.items /\ DOMAIN d.items \subseteq DOMAIN e.items
    BY <1>3 DEF Serves
  <2>2. ASSUME kind = "tools", NEW name \in DOMAIN k.items PROVE ToolServes(k.items[name], e.items[name])
    BY <2>1, <2>2, ToolServesOn DEF Serves
  <2>3. ASSUME kind = "jobs", NEW name \in DOMAIN k.items PROVE OwnTaken(k.items[name], e.items[name])
    BY <2>1, <2>3, ToolServesOn DEF Serves
  <2>4. ASSUME kind = "evaluations", NEW name \in DOMAIN k.items PROVE PolicyServes(k.items[name], e.items[name])
    <3>1. PolicyServes(k.items[name], d.items[name]) /\ PolicyServes(d.items[name], e.items[name])
      BY <2>1, <2>4 DEF Serves
    <3>2. IsPolicy(k.items[name]) /\ IsPolicy(d.items[name]) /\ IsPolicy(e.items[name])
      BY <2>1, <2>4, ReleasesAre
    <3>q. QED
      BY <3>1, <3>2, PolicyServesOn
  <2>q. QED
    BY <1>3, <2>1, <2>2, <2>3, <2>4 DEF Serves
<1>q. QED
  BY <1>1, <1>2, <1>3, ReleasesAre

(* The invariant holds at first,                                           *)
LEMMA IInvInit == Init => IInv
BY ServesItself DEF Init, IInv

(* is kept by every change the gate lets pass and by every new program,    *)
LEMMA IInvNext == IInv /\ [Next]_vars => IInv'
<1>1. SUFFICES ASSUME IInv, [Next]_vars PROVE IInv'
  OBVIOUS
<1>2. CASE Merge
  <2>1. PICK d \in Documents[kind] :
          /\ Imports(d)
          /\ compatible(Report(deployed, d))
          /\ deployed' = d /\ kind' = kind /\ known' = known
    BY <1>2 DEF Merge
  <2>2. Serves(deployed, d)
    BY <1>1, <2>1, ServesNext DEF IInv
  <2>3. Serves(known, d)
    BY <1>1, <2>1, <2>2, ServesOn DEF IInv
  <2>4. Serves(known, deployed)' /\ Imports(deployed)'
    BY <2>1, <2>3 DEF Serves, Imports, Document
  <2>q. QED
    BY <1>1, <2>1, <2>4 DEF IInv
<1>3. CASE Build
  <2>1. known' = deployed /\ deployed' = deployed /\ kind' = kind
    BY <1>3 DEF Build
  <2>2. Serves(deployed, deployed)
    BY <1>1, ServesItself DEF IInv
  <2>3. Serves(known, deployed)' /\ Imports(deployed)'
    BY <1>1, <2>1, <2>2 DEF IInv, Serves, Imports, Document
  <2>q. QED
    BY <1>1, <2>1, <2>3 DEF IInv
<1>4. CASE UNCHANGED vars
  BY <1>1, <1>4 DEF IInv, vars, Serves, Imports, Document
<1>q. QED
  BY <1>1, <1>2, <1>3, <1>4 DEF Next

(* and so always holds.                                                    *)
LEMMA IInvAlways == Spec => []IInv
BY IInvInit, IInvNext, PTL DEF Spec

(* For an API, the document a release is compared by is one (openapi_schema). *)
LEMMA DocumentsAre ==
  ASSUME IInv, kind \in {"openapi", "contracts"}
  PROVE  /\ IsApi(Document(known)) /\ IsApi(Document(deployed))
         /\ ApiServes(Document(known), Document(deployed))
<1>1. CASE kind = "openapi"
  BY <1>1, ReleasesAre DEF IInv, Serves, Document
<1>2. CASE kind = "contracts"
  BY <1>2, ReleasesAre DEF IInv, Serves, Document, AreContracts, ContractsServe
<1>q. QED
  BY <1>1, <1>2

(* The invariant implies what the runs check: of calls,                    *)
LEMMA CallsServed == IInv => OldCallsAreServed
<1>1. SUFFICES ASSUME IInv PROVE OldCallsAreServed
  OBVIOUS
<1>2. CASE kind \in {"openapi", "contracts"}
  <2>1. ApiServes(Document(known), Document(deployed))
    BY <1>1, <1>2, DocumentsAre
  <2>2. CallsTaken(Document(known), Document(deployed))
    BY <2>1 DEF ApiServes, OperationServes, CallsTaken
  <2>q. QED
    BY <1>2, <2>2 DEF OldCallsAreServed
<1>3. CASE kind = "tools"
  <2>1. \A name \in DOMAIN known.items :
          name \in DOMAIN deployed.items /\ OwnTaken(known.items[name].input, deployed.items[name].input)
    BY <1>1, <1>3 DEF IInv, Serves, ToolServes
  <2>q. QED
    BY <1>3, <2>1 DEF OldCallsAreServed
<1>4. CASE kind = "jobs"
  <2>1. \A name \in DOMAIN known.items :
          name \in DOMAIN deployed.items /\ OwnTaken(known.items[name], deployed.items[name])
    BY <1>1, <1>4 DEF IInv, Serves
  <2>q. QED
    BY <1>4, <2>1 DEF OldCallsAreServed
<1>5. CASE kind \notin {"openapi", "contracts", "tools", "jobs"}
  BY <1>5 DEF OldCallsAreServed
<1>q. QED
  BY <1>2, <1>3, <1>4, <1>5

(* of answers,                                                             *)
LEMMA AnswersUnderstood == IInv => NewAnswersAreUnderstood
<1>1. SUFFICES ASSUME IInv PROVE NewAnswersAreUnderstood
  OBVIOUS
<1>2. CASE kind = "openapi"
  <2>1. ApiServes(known, deployed)
    BY <1>1, <1>2 DEF IInv, Serves
  <2>2. AnswersRead(known, deployed)
    BY <2>1 DEF ApiServes, OperationServes, AnswersRead
  <2>q. QED
    BY <1>2, <2>2 DEF NewAnswersAreUnderstood
<1>3. CASE kind = "contracts"
  <2>1. AreContracts(known) /\ AreContracts(deployed) /\ ContractsServe(known, deployed)
    BY <1>1, <1>3, ReleasesAre DEF IInv, Serves
  <2>2. ASSUME NEW op \in DOMAIN known \cap DOMAIN deployed, NEW answer \in endpoint_errors(deployed[op], Raisable)
        PROVE  ErrorRead(Document(known).operations[op].responses, answer)
    <3>1. ErrorRead(_responses(known[op]), answer)
      BY <2>1, <2>2, ErrorsAreTold
    <3>2. Document(known).operations[op].responses = _responses(known[op])
      BY <1>3, <2>2, DocumentedAre DEF Document
    <3>q. QED
      BY <3>1, <3>2
  <2>q. QED
    BY <1>3, <2>2 DEF NewAnswersAreUnderstood
<1>4. CASE kind = "tools"
  <2>1. \A name \in DOMAIN known.items \cap DOMAIN deployed.items :
          /\ OwnGiven(known.items[name].output, deployed.items[name].output)
          /\ deployed.items[name].errors \subseteq known.items[name].errors
    BY <1>1, <1>4 DEF IInv, Serves, ToolServes
  <2>q. QED
    BY <1>4, <2>1 DEF NewAnswersAreUnderstood
<1>5. CASE kind \notin {"openapi", "contracts", "tools"}
  BY <1>5 DEF NewAnswersAreUnderstood
<1>q. QED
  BY <1>2, <1>3, <1>4, <1>5

(* and of promises.                                                        *)
LEMMA PromisesKept == IInv => PromisesAreKept
<1>1. SUFFICES ASSUME IInv PROVE PromisesAreKept
  OBVIOUS
<1>2. CASE kind \in {"openapi", "contracts"}
  <2> DEFINE K == Document(known)
             D == Document(deployed)
  <2>1. IsApi(D) /\ ApiServes(K, D) /\ _validate_idempotency_key_header(D)
    BY <1>1, <1>2, DocumentsAre DEF IInv, Imports
  <2> HIDE DEF K, D
  <2>2. ASSUME NEW op \in DOMAIN K.operations \cap DOMAIN D.operations
        PROVE  /\ K.operations[op].idempotency => D.operations[op].idempotency
               /\ D.operations[op].idempotency =>
                    /\ D.operations[op].parameters["key"].required
                    /\ \A v \in Values :
                         Admits(D.schemas, D.operations[op].parameters["key"].schema, v) => v.kind = "string" /\ v.num > 0
    <3> DEFINE d == D.operations[op]
    <3>1. K.operations[op].idempotency => d.idempotency
      BY <2>1 DEF ApiServes, OperationServes
    <3>2. d.idempotency => _has_idempotency_key_parameter(D, d)
      BY <2>1 DEF _validate_idempotency_key_header
    <3>3. D.schemas \in Registries /\ \A name \in DOMAIN d.parameters : d.parameters[name].schema \in Schemas
      BY <2>1 DEF IsApi, IsOperation, IsField
    <3> HIDE DEF d
    <3>4. d.idempotency =>
            /\ d.parameters["key"].required
            /\ \A v \in Values : Admits(D.schemas, d.parameters["key"].schema, v) => v.kind = "string" /\ v.num > 0
      BY <3>2, <3>3, KeyIsNeverEmpty
    <3>q. QED
      BY <3>1, <3>4 DEF d
  <2>q. QED
    BY <1>2, <2>2 DEF PromisesAreKept, K, D
<1>3. CASE kind = "tools"
  <2>1. \A name \in DOMAIN known.items \cap DOMAIN deployed.items :
          HintsKept(known.items[name].annotations, deployed.items[name].annotations)
    BY <1>1, <1>3 DEF IInv, Serves, ToolServes
  <2>q. QED
    BY <1>3, <2>1 DEF PromisesAreKept
<1>4. CASE kind = "evaluations"
  <2>1. ASSUME NEW name \in DOMAIN known.items
        PROVE  name \in DOMAIN deployed.items /\ PolicyKept(known.items[name], deployed.items[name])
    <3>1. name \in DOMAIN deployed.items /\ PolicyServes(known.items[name], deployed.items[name])
      BY <1>1, <1>4, <2>1 DEF IInv, Serves
    <3>2. /\ IsPolicy(known.items[name]) /\ IsPolicy(deployed.items[name])
          /\ \A r \in Results : IsResult(r, known.items[name]) /\ IsResult(r, deployed.items[name])
      BY <1>1, <1>4, <2>1, <3>1, ReleasesAre DEF IInv
    <3>q. QED
      BY <3>1, <3>2, TightenedRefuses
  <2>q. QED
    BY <1>4, <2>1 DEF PromisesAreKept
<1>5. CASE kind \notin {"openapi", "contracts", "tools", "evaluations"}
  BY <1>5 DEF PromisesAreKept
<1>q. QED
  BY <1>2, <1>3, <1>4, <1>5

(* Whatever a program built from any earlier release sends, the release    *)
(* that runs takes, however many changes lie between, as long as no        *)
(* release has an untyped enumeration or constant that Python's == takes   *)
(* for another's (SchemasAssumption, LooseEqualityAssumption)              *)
(* (CompatibilityReport).                                                  *)
THEOREM BoundaryServesOldCalls == Spec => []OldCallsAreServed
BY IInvAlways, CallsServed, PTL

(* Whatever the release that runs answers, a program built from any        *)
(* earlier one can read: schemas, statuses, error codes and who answered,  *)
(* under the same assumptions on the releases' schemas                     *)
(* (_compare_responses, _compare_tool, openapi._responses).                *)
THEOREM BoundaryAnswersUnderstood == Spec => []NewAnswersAreUnderstood
BY IInvAlways, AnswersUnderstood, PTL

(* Guarantees of idempotency, keys no caller can leave empty, hints of     *)
(* tools and what evaluation policies refuse hold along every chain of     *)
(* compatible releases (_compare_idempotency_guarantee,                    *)
(* _compare_annotations, _compare_evaluation).                             *)
THEOREM BoundaryKeepsPromises == Spec => []PromisesAreKept
BY IInvAlways, PromisesKept, PTL
=============================================================================
