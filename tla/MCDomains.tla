----------------------------- MODULE MCDomains -----------------------------
(***************************************************************************)
(* A small instance of Domains: for every engine, the inputs it is given.  *)
(***************************************************************************)
EXTENDS Domains, TLC

MCLength(t) == IF t = "" THEN 0 ELSE IF t = "x" THEN 1 ELSE 2
MCMatches(p, t) == t = "OAS-001"
MCIsDateTime(t) == t = "noon"

\* Python's ==, to which True is 1 and False is 0.
RECURSIVE MCPythonEqual(_, _)
MCPythonEqual(x, y) ==
  CASE {x.kind, y.kind} \subseteq {"boolean", "integer"} -> x.num = y.num
    [] x.kind # y.kind -> FALSE
    [] x.kind = "array" ->
         Len(x.items) = Len(y.items)
         /\ \A i \in DOMAIN x.items : MCPythonEqual(x.items[i], y.items[i])
    [] x.kind = "object" ->
         DOMAIN x.members = DOMAIN y.members
         /\ \A key \in DOMAIN x.members : MCPythonEqual(x.members[key], y.members[key])
    [] OTHER -> x = y

MCWords == {"CRITICAL", "HIGH", "MEDIUM", "LOW", "FAIL", "WARN", "INFO", "high"}
MCRules == {"x", "OAS-001"}
MCPrefixed == {"OAS-001", "OAS-GENERIC", "OAS-x", "OAS-", "OAS-OAS-001"}
MCNamespace(code) == IF code = NoRule THEN "OAS-" ELSE "OAS-" \o code

-----------------------------------------------------------------------------
(* Payloads of the tools. *)

AtMostOne(S) == {{}} \cup {{x} : x \in S}
AtMostTwo(S) == {{}} \cup {{x, y} : x \in S, y \in S}

Lists(S, n) == UNION {[1..k -> S] : k \in 0..n}

Items ==
  [kind : {"mapping"}, code : {"x", "OAS-001", Absent, NoRule, Unhashable},
   severity : {0, 1, 3, 9, Absent, Unhashable}]
  \cup {[kind |-> "torn"]}

SpectralInputs ==
  {[shape |-> "scalar"]} \cup {[shape |-> "list", items |-> items] : items \in Lists(Items, 2)}

Named == [kind : {"mapping"}, rule : {"x", Absent, NoRule, Unhashable},
          severity : {"high", "LOW", Absent}]
MCDenials == Named \cup {[kind |-> "string"], [kind |-> "torn"]}
FewDenials ==
  {[kind |-> "mapping", rule |-> "x", severity |-> "LOW"],
   [kind |-> "mapping", rule |-> NoRule, severity |-> Absent],
   [kind |-> "string"], [kind |-> "torn"]}

MCValues ==
  {[kind |-> "list", items |-> items] : items \in Lists(FewDenials, 2)}
  \cup Named \cup {[kind |-> "string"], [kind |-> "torn"]}
FewValues ==
  {[kind |-> "list", items |-> << >>], [kind |-> "list", items |-> <<[kind |-> "string"]>>],
   [kind |-> "mapping", rule |-> Absent, severity |-> "LOW"], [kind |-> "torn"]}
MCExpressions == [kind : {"mapping"}, value : MCValues] \cup {[kind |-> "torn"]}
FewExpressions == [kind : {"mapping"}, value : FewValues] \cup {[kind |-> "torn"]}
Result1 == {[kind |-> "mapping", expressions |-> e] : e \in Lists(MCExpressions, 1)}
Result2 == {[kind |-> "mapping", expressions |-> e] : e \in Lists(FewExpressions, 2)}
           \cup {[kind |-> "torn"]}

OpaInputs ==
  {[shape |-> "errors"], [shape |-> "scalar"]}
  \cup {[shape |-> "result", items |-> <<item>>] : item \in Result1}
  \cup {[shape |-> "result", items |-> items] : items \in Lists(Result2, 2)}
  \cup {[shape |-> "list", items |-> items] : items \in Lists(MCDenials, 2)}
  \cup {[shape |-> "bare", deny |-> a, violations |-> b] :
          a \in Lists(FewDenials, 1), b \in Lists(FewDenials, 2)}

-----------------------------------------------------------------------------
(* MCDocuments and schemas. *)

MCDocuments ==
  {Null, Bool(FALSE), Bool(TRUE), Number(0), Number(1), Number(2),
   Str(""), Str("x"), Str("OAS-001"), Str("noon"),
   Arr(<< >>), Arr(<<Number(0)>>), Arr(<<Number(0), Number(0)>>), Arr(<<Number(1), Bool(TRUE)>>),
   Arr(<<Str("x"), Number(2), Str("x")>>),
   Obj([k \in {} |-> Null]), Obj("a" :> Number(0)), Obj("a" :> Str("x")), Obj("b" :> Number(1)),
   Obj("a" :> Obj("a" :> Number(1))), Obj(("a" :> Number(2)) @@ ("b" :> Null))}

Types ==
  {<<"object">>, <<"array">>, <<"string">>, <<"boolean">>, <<"integer">>, <<"number">>,
   <<"integer", "null">>, <<"date">>, <<"string", "date">>}

\* One keyword; uriformat and maximum are not known to the engine.
Atoms ==
  [type : Types] \cup [const : {Number(1), Null}] \cup [enum : {{Number(0), Str("x")}, {Bool(FALSE)}}]
  \cup [minLength : {1}] \cup [pattern : {"p"}] \cup [format : {"date-time", "uri-reference"}]
  \cup [minimum : {1}] \cup [required : {{"a"}, {"a", "b"}}] \cup [minItems : {1, 2}]
  \cup [uniqueItems : BOOLEAN] \cup [additionalProperties : {<< >>}] \cup [title : {"t"}]
  \cup [ref : {"d", "nowhere"}] \cup [maximum : {1}]

Simple ==
  [type : {<<"integer">>, <<"string">>, <<"object">>}] \cup [const : {Number(1)}]
  \cup [required : {{"a"}}] \cup [ref : {"d"}] \cup [minimum : {1}] \cup [maximum : {1}]

Few == [type : {<<"integer">>, <<"object">>}] \cup [minimum : {1}] \cup [ref : {"d"}]

Nested ==
  [properties : {"a" :> s : s \in Simple}] \cup [items : Simple]
  \cup [additionalProperties : {<<s>> : s \in Simple}]
  \cup [oneOf : {<<s, t>> : s \in Simple, t \in Simple}]
  \cup [allOf : {<<s, t>> : s \in Simple, t \in Few}]
  \cup [if : Simple, then : Few] \cup [if : Few, else : Simple] \cup [if : Few, then : Few, else : Few]
  \cup [properties : {"a" :> [properties |-> ("a" :> s)] : s \in Simple}]
  \cup [items : {[oneOf |-> <<s, t>>] : s \in Few, t \in Few}]
  \cup [properties : {("a" :> s) @@ ("b" :> t) : s \in Few, t \in Few},
        additionalProperties : {<< >>}, required : {{"b"}}]

MCSchemas ==
  Atoms \cup Nested \cup {s @@ t : s \in Atoms, t \in Atoms} \cup {s @@ t : s \in Simple, t \in Nested}

\* No definitions, a plain one, one that leads down the value, a circle.
Tables ==
  {[d \in {} |-> [title |-> "t"]], "d" :> [type |-> <<"integer">>],
   "d" :> [properties |-> ("a" :> [ref |-> "d"])], "d" :> [ref |-> "d"]}

SchemaInputs ==
  [value : MCDocuments, schema : MCSchemas, defs : {"d" :> [type |-> <<"integer">>]},
   documents : {"read"}, catalogue : {TRUE}]
  \cup [value : MCDocuments, schema : Atoms \cup Nested, defs : Tables,
        documents : {"read"}, catalogue : {TRUE}]
  \cup [value : MCDocuments, schema : Atoms, defs : Tables,
          documents : {"read", "unreadable", "no YAML"}, catalogue : BOOLEAN]

\* The values and schemas within the inputs.
Subschemas(s) ==
  InPlace(s, << >>)
  \cup UNION {{s.properties[key] : key \in DOMAIN s.properties} : k \in DOMAIN s \cap {"properties"}}
  \cup {s[k] : k \in DOMAIN s \cap {"items"}}
  \cup UNION {ToSet(s[k]) : k \in DOMAIN s \cap {"additionalProperties"}}

AndInside(values) == values \cup UNION {Inside(x) : x \in values}
AndSubschemas(schemas) == schemas \cup UNION {Subschemas(s) : s \in schemas}

AllValues == AndInside(AndInside(MCDocuments))
AllSchemas ==
  AndSubschemas(AndSubschemas(MCSchemas \cup UNION {{t[d] : d \in DOMAIN t} : t \in Tables}))

\* (TLC evaluates the body of what a constant is replaced by at every use.)
MCJsonValues == AllValues
MCJsonSchemas == AllSchemas
MCRecursionLimit == 12

\* Only booleans are confused with what they are not.
RECURSIVE HasBoolean(_)
HasBoolean(x) == x.kind = "boolean" \/ \E y \in Inside(x) : HasBoolean(y)

ASSUME \A x, y \in MCJsonValues : Confused(x, y) => HasBoolean(x) \/ HasBoolean(y)

-----------------------------------------------------------------------------
(* Checkouts, scan targets. *)

NoSpec == {[kind |-> k, security |-> "absent", operations |-> {}] :
             k \in {"none", "no yaml", "unparsable", "not mapping"}}

MCOperations ==
  [security : {"absent", "none", "required"}, responses : SUBSET {401, 403}]

OpenapiSpecs ==
  [kind : {"mapping"}, security : {"absent", "none", "required"},
   operations : AtMostTwo(MCOperations)]

Checkouts(files, specs) ==
  [below_excluded : BOOLEAN, files : files, yaml : specs,
   yml : {[kind |-> "none", security |-> "absent", operations |-> {}],
          [kind |-> "not mapping", security |-> "absent", operations |-> {}]}]

MCSources == [place : Places, code : Codes, scopes : 0..1, verifies : 0..1]

IdentityInputs ==
  Checkouts(AtMostOne(MCSources), NoSpec)
  \cup Checkouts(AtMostTwo({f \in MCSources : f.place # "vendored"}),
             {s \in NoSpec : s.kind \in {"none", "unparsable"}})
  \cup Checkouts({{}}, OpenapiSpecs)

SecurityInputs ==
  [kind : {"missing", "directory", "no yaml"}, lines : {<< >>}]
  \cup [kind : {"file"}, lines : Lists(SUBSET {"p", "q", "r"}, 3)]

Somewhere == {{}, {"owner"}, {"classification", "version"}, Fields}
GovernanceDocuments ==
  [directory : {"own", "hidden", "venv", "governance"}, kind : {"mapping", "no mapping", "unreadable"},
   info : Lists(Somewhere, 1), metadata : Lists(Somewhere, 1), root : Somewhere]

Walks == {{d} : d \in GovernanceDocuments} \cup {{}}
         \cup {{d, e} : d, e \in {x \in GovernanceDocuments :
                                   x.directory = "own" /\ x.kind = "mapping" /\ Len(x.info) = 1}}

GovernanceInputs ==
  [target : [kind : {"directory"}, documents : Walks], cwd : {{}}]
  \cup [target : [kind : {"missing", "file"}, documents : {{}}], cwd : Walks]

MCInputs ==
  [spectral |-> SpectralInputs, opa |-> OpaInputs, schema |-> SchemaInputs,
   identity |-> IdentityInputs, security |-> SecurityInputs, governance |-> GovernanceInputs]

=============================================================================
