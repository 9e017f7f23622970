---------------------------- MODULE SchemaEngine ----------------------------
(***************************************************************************)
(* The interpreter of validators/schema/schema_engine.py, beside what JSON *)
(* Schema says of the keywords it knows.                                   *)
(*                                                                         *)
(* A schema is a function from keywords to their arguments, "ref" standing *)
(* for a local $ref; an argument of additionalProperties is << >> for      *)
(* false and <<s>> for a schema s (true is the same as no keyword).  The   *)
(* wording and the path of an error are left out: an error is its keyword. *)
(*                                                                         *)
(* A check is a value beside a schema.  validate calls itself on further   *)
(* checks, and Python raises a RecursionError where too many calls nest.   *)
(***************************************************************************)
EXTENDS Integers, Sequences, FiniteSets, FiniteSetsExt, SequencesExt

CONSTANTS
  JsonValues,         \* JSON values, with all that is inside them
  JsonSchemas,        \* schemas, with all schemas inside them
  RecursionLimit,     \* how many calls of validate can nest
  PythonEqual(_, _),  \* Python's ==, to which True is 1 and False is 0
  Length(_),          \* the length of a text
  Matches(_, _),      \* a pattern is found in a text
  IsDateTime(_)       \* a text is a date-time

(* JSON values, as Python reads them. *)
Null == [kind |-> "null"]
Bool(b) == [kind |-> "boolean", num |-> IF b THEN 1 ELSE 0]
Number(n) == [kind |-> "integer", num |-> n]
Str(t) == [kind |-> "string", text |-> t]
Arr(items) == [kind |-> "array", items |-> items]
Obj(members) == [kind |-> "object", members |-> members]

IsNumber(x) == x.kind = "integer"

\* What is immediately inside a value.
Inside(x) ==
  CASE x.kind = "array"  -> ToSet(x.items)
    [] x.kind = "object" -> {x.members[key] : key \in DOMAIN x.members}
    [] OTHER             -> {}

ASSUME ValuesAssumption ==
  \A x \in JsonValues :
    /\ x.kind = "array" => x.items \in Seq(JsonValues)
    /\ x.kind = "object" => IsFiniteSet(DOMAIN x.members)
    /\ x.kind = "string" => Length(x.text) \in Nat
    /\ IsNumber(x) => x.num \in Int
    /\ Inside(x) \subseteq JsonValues

\* Numbers where numbers belong, and schemas where schemas belong.
ASSUME SchemasAssumption ==
  \A s \in JsonSchemas :
    /\ \A keyword \in DOMAIN s \cap {"minimum", "minLength", "minItems"} : s[keyword] \in Int
    /\ \A keyword \in DOMAIN s \cap {"items", "if", "then", "else"} : s[keyword] \in JsonSchemas
    /\ \A keyword \in DOMAIN s \cap {"oneOf", "allOf", "additionalProperties"} :
         s[keyword] \in Seq(JsonSchemas)
    /\ "oneOf" \in DOMAIN s => s.oneOf # << >>
    /\ "required" \in DOMAIN s => IsFiniteSet(s.required)
    /\ "uniqueItems" \in DOMAIN s => s.uniqueItems \in BOOLEAN
    /\ "properties" \in DOMAIN s =>
         \A key \in DOMAIN s.properties : s.properties[key] \in JsonSchemas

ASSUME LimitAssumption == RecursionLimit \in Nat

Checks == JsonValues \X JsonSchemas

-----------------------------------------------------------------------------
(* Which checks a check leads to. *)

\* The schemas that s applies to the value it is applied to itself.
InPlace(s, defs) ==
  {defs[d] : d \in {s[keyword] : keyword \in DOMAIN s \cap {"ref"}} \cap DOMAIN defs}
  \cup {s[keyword] : keyword \in DOMAIN s \cap {"if", "then", "else"}}
  \cup UNION {ToSet(s[keyword]) : keyword \in DOMAIN s \cap {"oneOf", "allOf"}}

\* Members of x that s describes, and those it does not.
Described(x, s) ==
  IF "properties" \in DOMAIN s THEN DOMAIN x.members \cap DOMAIN s.properties ELSE {}

Additional(x, s) == DOMAIN x.members \ Described(x, s)

\* The checks of what is inside x.
Below(x, s) ==
  CASE x.kind = "object" ->
         {<<x.members[key], s.properties[key]>> : key \in Described(x, s)}
         \cup UNION {{x.members[key] : key \in Additional(x, s)} \X ToSet(s[keyword]) :
                       keyword \in DOMAIN s \cap {"additionalProperties"}}
    [] x.kind = "array" ->
         UNION {ToSet(x.items) \X {s[keyword]} : keyword \in DOMAIN s \cap {"items"}}
    [] OTHER -> {}

\* The checks that <<x, s>> may call for.
LeadsTo(x, s, defs) == {x} \X InPlace(s, defs) \cup Below(x, s)

-----------------------------------------------------------------------------
(* The engine. *)

\* _KNOWN_KEYWORDS and _METADATA_KEYWORDS ("$defs" is a table of its own).
KnownKeywords ==
  {"type", "required", "properties", "additionalProperties", "enum", "items", "minItems",
   "uniqueItems", "pattern", "format", "ref", "oneOf", "allOf", "if", "then", "else", "const",
   "minimum", "minLength", "title"}

TypeNames == {"object", "array", "string", "boolean", "null", "integer", "number"}

TypeMatches(x, name) == x.kind = name \/ (name = "number" /\ IsNumber(x))

\* An evaluation ends in errors, a NotImplementedError or a RecursionError.
Evaluations == [raises : {"nothing", "gap", "recursion"}, errors : Seq(KnownKeywords)]

Raised(why) == [raises |-> why, errors |-> << >>]
Errors(keywords) == [raises |-> "nothing", errors |-> keywords]

Raises(outcomes) == {k \in DOMAIN outcomes : outcomes[k].raises # "nothing"}

\* What a list of evaluations adds up to; the first exception ends it.
Collect(outcomes) ==
  IF Raises(outcomes) # {} THEN outcomes[Min(Raises(outcomes))]
  ELSE Errors(FlattenSeq([k \in DOMAIN outcomes |-> outcomes[k].errors]))

Blame(keyword, wrong) == IF wrong THEN <<keyword>> ELSE << >>

\* Slip: "number" is missing from _TYPE_MAP, and not treated apart.
NumberRaises(x, types) ==
  \E k \in DOMAIN types :
    types[k] \notin TypeNames \ {"number"} /\ \A j \in 1..(k - 1) : ~TypeMatches(x, types[j])

\* any() looks at the types in order, up to the first that matches.
TypeRaises(x, types) ==
  \E k \in DOMAIN types :
    types[k] \notin TypeNames /\ \A j \in 1..(k - 1) : ~TypeMatches(x, types[j])

HasType(x, types) == \E k \in DOMAIN types : TypeMatches(x, types[k])

Duplicates(items) ==
  {i \in DOMAIN items : \E j \in 1..(i - 1) : PythonEqual(items[i], items[j])}

Repeated(keyword, n) == [i \in 1..n |-> keyword]

\* The errors of x that need no subschema: of any value, of a text or a number,
\* of an object, of an array.
ValueErrors(x, s) ==
  Blame("const", "const" \in DOMAIN s /\ ~PythonEqual(x, s.const))
  \o Blame("enum", "enum" \in DOMAIN s /\ \A v \in s.enum : ~PythonEqual(x, v))

TextErrors(x, s) ==
  IF x.kind # "string" THEN << >>
  ELSE Blame("minLength", "minLength" \in DOMAIN s /\ Length(x.text) < s.minLength)
       \o Blame("pattern", "pattern" \in DOMAIN s /\ ~Matches(s.pattern, x.text))
       \o Blame("format", "format" \in DOMAIN s /\ s.format = "date-time" /\ ~IsDateTime(x.text))

NumberErrors(x, s) ==
  Blame("minimum", IsNumber(x) /\ "minimum" \in DOMAIN s /\ x.num < s.minimum)

ObjectErrors(x, s) ==
  IF x.kind # "object" THEN << >>
  ELSE (IF "required" \in DOMAIN s
        THEN Repeated("required", Cardinality(s.required \ DOMAIN x.members)) ELSE << >>)
       \o (IF "additionalProperties" \in DOMAIN s /\ s.additionalProperties = << >>
           THEN Repeated("additionalProperties", Cardinality(Additional(x, s))) ELSE << >>)

ArrayErrors(x, s) ==
  IF x.kind # "array" THEN << >>
  ELSE Blame("minItems", "minItems" \in DOMAIN s /\ Len(x.items) < s.minItems)
       \o (IF "uniqueItems" \in DOMAIN s /\ s.uniqueItems
           THEN Repeated("uniqueItems", Cardinality(Duplicates(x.items))) ELSE << >>)

OwnErrors(x, s) ==
  FlattenSeq(<<ValueErrors(x, s), TextErrors(x, s), NumberErrors(x, s), ObjectErrors(x, s),
               ArrayErrors(x, s)>>)

\* Slip: oneOf is taken for anyOf.
AnyOf(outcomes) ==
  IF Raises(outcomes) # {} THEN outcomes[Min(Raises(outcomes))]
  ELSE Errors(Blame("oneOf", \A k \in DOMAIN outcomes : outcomes[k].errors # << >>))

\* Exactly one alternative; if none, the errors of the closest are added.
OneOf(outcomes) ==
  LET Matching == {k \in DOMAIN outcomes : outcomes[k].errors = << >>}
      closest == CHOOSE k \in DOMAIN outcomes :
                   \A j \in DOMAIN outcomes :
                     \/ Len(outcomes[k].errors) < Len(outcomes[j].errors)
                     \/ Len(outcomes[k].errors) = Len(outcomes[j].errors) /\ k <= j
  IN  IF Raises(outcomes) # {} THEN outcomes[Min(Raises(outcomes))]
      ELSE IF Cardinality(Matching) = 1 THEN Errors(<< >>)
      ELSE IF Matching # {} THEN Errors(<<"oneOf">>)
      ELSE Errors(<<"oneOf">> \o outcomes[closest].errors)

\* The evaluations that validate adds up, given those of the checks that
\* <<x, s>> leads to.
Evaluated(x, s, outcome) ==
  LET keys == SetToSeq(Described(x, s)) IN
  IF x.kind = "object"
  THEN [i \in DOMAIN keys |-> outcome[<<x.members[keys[i]], s.properties[keys[i]]>>]]
  ELSE IF x.kind = "array" /\ "items" \in DOMAIN s
  THEN [i \in DOMAIN x.items |-> outcome[<<x.items[i], s.items>>]]
  ELSE << >>

Alternatives(x, s, outcome) ==
  IF "oneOf" \in DOMAIN s
  THEN <<OneOf([i \in DOMAIN s.oneOf |-> outcome[<<x, s.oneOf[i]>>]])>> ELSE << >>

Conjuncts(x, s, outcome) ==
  IF "allOf" \in DOMAIN s THEN [i \in DOMAIN s.allOf |-> outcome[<<x, s.allOf[i]>>]] ELSE << >>

Conditional(x, s, outcome) ==
  IF "if" \notin DOMAIN s THEN << >>
  ELSE LET premise == outcome[<<x, s.if>>]
           branch == IF premise.errors = << >> THEN "then" ELSE "else"
       IN  IF premise.raises # "nothing" THEN <<premise>>
           ELSE IF branch \in DOMAIN s THEN <<outcome[<<x, s[branch]>>]>> ELSE << >>

\* The body of validate.
Evaluation(x, s, defs, outcome) ==
  IF "ref" \in DOMAIN s THEN
    IF s.ref \in DOMAIN defs THEN outcome[<<x, defs[s.ref]>>] ELSE Raised("gap")
  ELSE IF ~(DOMAIN s \subseteq KnownKeywords) THEN Raised("gap")
  ELSE IF "type" \in DOMAIN s /\ TypeRaises(x, s.type) THEN Raised("gap")
  ELSE IF "type" \in DOMAIN s /\ ~HasType(x, s.type) THEN Errors(<<"type">>)
  ELSE Collect(<<Errors(OwnErrors(x, s))>> \o Evaluated(x, s, outcome)
               \o Alternatives(x, s, outcome) \o Conjuncts(x, s, outcome)
               \o Conditional(x, s, outcome))

\* validate, where n more calls can nest.
Outcomes(defs) ==
  LET after[call \in Nat \X Checks] ==
        LET n == call[1]
            x == call[2][1]
            s == call[2][2]
        IN  IF n = 0 THEN Raised("recursion")
            ELSE Evaluation(x, s, defs,
                            [check \in LeadsTo(x, s, defs) |-> after[<<n - 1, check>>]])
  IN  after

Validate(x, s, defs) == Outcomes(defs)[<<RecursionLimit, <<x, s>>>>]

-----------------------------------------------------------------------------
(* What JSON Schema (2020-12) says: every keyword is an assertion of its   *)
(* own, wherever it stands, and a value is valid if it satisfies them all. *)

\* The assertions of s on x that need no subschema.
OwnAssertions(x, s) ==
  LET Asserts(keyword) == keyword \in DOMAIN s IN
  /\ Asserts("type") => HasType(x, s.type)
  /\ Asserts("const") => x = s.const
  /\ Asserts("enum") => x \in s.enum
  /\ x.kind = "string" =>
       /\ Asserts("minLength") => Length(x.text) >= s.minLength
       /\ Asserts("pattern") => Matches(s.pattern, x.text)
       /\ Asserts("format") /\ s.format = "date-time" => IsDateTime(x.text)
  /\ IsNumber(x) /\ Asserts("minimum") => x.num >= s.minimum
  /\ x.kind = "object" /\ Asserts("required") => s.required \subseteq DOMAIN x.members
  /\ x.kind = "array" =>
       /\ Asserts("minItems") => Len(x.items) >= s.minItems
       /\ Asserts("uniqueItems") /\ s.uniqueItems =>
            \A i, j \in DOMAIN x.items : x.items[i] = x.items[j] => i = j

\* The assertions that do, given which of the checks below hold.
Assertions(x, s, defs, valid) ==
  LET Asserts(keyword) == keyword \in DOMAIN s
      V(sub) == valid[<<x, sub>>]
  IN
  /\ Asserts("ref") => s.ref \in DOMAIN defs /\ V(defs[s.ref])
  /\ x.kind = "object" =>
       /\ \A key \in Described(x, s) : valid[<<x.members[key], s.properties[key]>>]
       /\ Asserts("additionalProperties") =>
            \A key \in Additional(x, s) :
              \E i \in DOMAIN s.additionalProperties :
                valid[<<x.members[key], s.additionalProperties[i]>>]
  /\ x.kind = "array" /\ Asserts("items") => \A i \in DOMAIN x.items : valid[<<x.items[i], s.items>>]
  /\ Asserts("oneOf") => Cardinality({i \in DOMAIN s.oneOf : V(s.oneOf[i])}) = 1
  /\ Asserts("allOf") => \A i \in DOMAIN s.allOf : V(s.allOf[i])
  /\ Asserts("if") =>
       IF V(s.if) THEN Asserts("then") => V(s.then) ELSE Asserts("else") => V(s.else)

\* Which checks hold, as far as n nested assertions tell; what is deeper down,
\* as in a schema that refers to itself, is taken not to.
Verdicts(defs) ==
  LET holds[claim \in Nat \X Checks] ==
        LET n == claim[1]
            x == claim[2][1]
            s == claim[2][2]
        IN  /\ n # 0
            /\ OwnAssertions(x, s)
            /\ Assertions(x, s, defs, [check \in LeadsTo(x, s, defs) |-> holds[<<n - 1, check>>]])
  IN  holds

ValidTo(n, x, s, defs) == Verdicts(defs)[<<n, <<x, s>>>>]

-----------------------------------------------------------------------------
(* Where the two are known to part. *)

\* The checks that <<x, s>> leads to, itself included, in less than n steps.
Reached(defs) ==
  LET reach[call \in Nat \X Checks] ==
        LET n == call[1]
            c == call[2]
        IN  IF n = 0 THEN {}
            ELSE {c} \cup UNION {reach[<<n - 1, check>>] : check \in LeadsTo(c[1], c[2], defs)}
  IN  reach

AllChecks(x, s, defs) == Reached(defs)[<<RecursionLimit, <<x, s>>>>]

\* Keywords that the engine passes over in silence: whatever stands next to a
\* $ref, and a schema under additionalProperties.
PassesOver(s) ==
  \/ "ref" \in DOMAIN s /\ DOMAIN s # {"ref"}
  \/ "additionalProperties" \in DOMAIN s /\ s.additionalProperties # << >>

\* Values that Python's == does not tell apart as JSON does, as 1 and True.
Confused(x, y) == ~(PythonEqual(x, y) <=> x = y)

Confuses(x, s) ==
  \/ "const" \in DOMAIN s /\ Confused(x, s.const)
  \/ "enum" \in DOMAIN s /\ \E v \in s.enum : Confused(x, v)
  \/ /\ "uniqueItems" \in DOMAIN s /\ s.uniqueItems /\ x.kind = "array"
     /\ \E i, j \in DOMAIN x.items : Confused(x.items[i], x.items[j])

\* What the engine does not support.
Gap(s, defs) ==
  \/ ~(DOMAIN s \subseteq KnownKeywords)
  \/ "type" \in DOMAIN s /\ ~(ToSet(s.type) \subseteq TypeNames)
  \/ "ref" \in DOMAIN s /\ s.ref \notin DOMAIN defs

\* There are n steps, one after the other, from here.
Chains(S, Next(_)) ==
  LET chain[start \in Nat \X S] ==
        start[1] = 0 \/ \E e \in Next(start[2]) : chain[<<start[1] - 1, e>>]
  IN  chain

\* The value x is nested n deep.
Nests(n, x) == Chains(JsonValues, Inside)[<<n, x>>]

\* From s one gets through n schemas without going down into the value; for
\* every n, if references lead round in a circle.
Circles(n, s, defs) ==
  LET Next(t) == InPlace(t, defs) IN Chains(JsonSchemas, Next)[<<n, s>>]

\* The limit has no room for so many levels of the value times so many schemas
\* on each of them.
TooDeep(x, s, defs) ==
  \A h, k \in 1..RecursionLimit :
    h * k <= RecursionLimit =>
      Nests(h, x) \/ \E c \in AllChecks(x, s, defs) : Circles(k, c[2], defs)

=============================================================================
