------------------------------ MODULE Domains ------------------------------
(***************************************************************************)
(* What is behind the domains of the aggregator: each engine, called once  *)
(* with one input, and its outcome.  The engines keep no state; the steps  *)
(* are the call and its return.                                            *)
(***************************************************************************)
EXTENDS Adapters, SchemaDomain, IdentityContract, Scans, FiniteSets

CONSTANT
  Inputs  \* for every engine, the inputs it may be given

Engines == {"spectral", "opa", "schema", "identity", "security", "governance"}

\* The inputs have the shapes that the engines are described for.
ASSUME InputsAssumption ==
  /\ DOMAIN Inputs = Engines
  /\ Inputs["spectral"] \subseteq SpectralPayloads
  /\ Inputs["opa"] \subseteq OpaPayloads
  /\ \A request \in Inputs["schema"] : IsRequest(request)
  /\ Inputs["identity"] \subseteq Trees
  /\ Inputs["security"] \subseteq SecurityTargets
  /\ Inputs["governance"] \subseteq GovernanceTargets
  /\ Unhashable \notin SchemaRules

VARIABLES
  engine,  \* the engine that is called
  input,   \* what it is called with
  outcome  \* << >>, then what it returns

callVars == <<engine, input, outcome>>

CallInit ==
  /\ engine \in Engines
  /\ input \in Inputs[engine]
  /\ outcome = << >>

Answer(e, result) ==
  /\ engine = e
  /\ outcome = << >>
  /\ outcome' = <<result>>
  /\ UNCHANGED <<engine, input>>

CallNext ==
  \/ Answer("spectral", ParseSpectral(input))
  \/ Answer("opa", ParseOpa(input))
  \/ Answer("schema", RunSchemaCheck(input))
  \/ Answer("identity", RunCheck(input))
  \/ Answer("security", SecurityScan(input))
  \/ Answer("governance", GovernanceScan(input.target, input.cwd))

CallSpec == CallInit /\ [][CallNext]_callVars

-----------------------------------------------------------------------------
(* Properties. *)

Returned(e) == engine = e /\ outcome # << >>
Result == outcome[1]

\* "must not be silently treated as zero findings" (openapi_engine.py:7-11):
\* once a payload reaches the parser, no findings means an empty list. Every
\* item becomes one finding, in the namespace of the taxonomy, and an id that
\* is in it already is kept as it is (or no registry would find it).
SpectralLosesNothing ==
  Returned("spectral") /\ ~Result.raises =>
    /\ input.shape = "list"
    /\ Len(Result.findings) = Len(input.items)
    /\ \A k \in DOMAIN input.items :
         /\ Result.findings[k].rule \in Prefixed
         /\ input.items[k].code \in Prefixed => Result.findings[k].rule = input.items[k].code
         /\ Result.findings[k].severity \in DOMAIN DefaultGateBehavior

IsViolation(v) == v.kind \in {"string", "mapping"}

\* The places of the violations in a payload of `opa eval`: the item, the
\* expression, and the element of its value, 0 for a value that is one itself.
PlacesInValue(value) ==
  IF value.kind = "list" THEN {n \in DOMAIN value.items : IsViolation(value.items[n])}
  ELSE {n \in {0} : value.kind = "mapping"}

PlacesInExpression(expression) ==
  IF expression.kind = "mapping" THEN PlacesInValue(expression.value) ELSE {}

PlacesInItem(item) ==
  IF item.kind = "mapping"
  THEN UNION {{j} \X PlacesInExpression(item.expressions[j]) : j \in DOMAIN item.expressions}
  ELSE {}

PlacesIn(payload) ==
  UNION {{i} \X PlacesInItem(payload.items[i]) : i \in DOMAIN payload.items}

\* What `opa eval` reports is not lost on the way, as it once was ("silently
\* found zero violations on every real opa eval run", policy_engine.py:37-39):
\* there is one finding for every object or string in the value of a result,
\* and a domain that was evaluated without findings had none of either. In
\* whatever shape it comes, a violation that says neither which rule it breaks
\* nor how badly still blocks in production, and none is without a rule.
OpaLosesNothing ==
  Returned("opa") =>
    /\ input.shape = "result" =>
         ~Result.raises /\ Len(Result.findings) = Cardinality(PlacesIn(input))
    /\ \A k \in DOMAIN Result.findings :
         /\ Result.findings[k].rule \notin {Absent, NoRule}
         /\ Result.findings[k].rule = Unresolved /\ Result.findings[k].severity = "HIGH" =>
              Blocks(Result.findings[k])

\* The engine "implements only the keywords actually used", but those as JSON
\* Schema has them: a value is accepted exactly if it is valid, unless a check
\* on the way meets a keyword beside a $ref, a schema under
\* additionalProperties, or values that Python's == takes for equal and JSON
\* does not.
AcceptsExactlyValid ==
  Returned("schema") /\ ~Result.raises =>
    \/ \E c \in AllChecks(input.value, input.schema, input.defs) :
         PassesOver(c[2]) \/ Confuses(c[1], c[2])
    \/ Result.findings = << >>
         <=> ValidTo(RecursionLimit, input.value, input.schema, input.defs)

\* A schema of supported keywords whose references lead somewhere is always
\* evaluated: the domain is in ERROR only if the documents cannot be read, if
\* a schema on the way has an unsupported keyword or type or a reference that
\* leads nowhere, or if there is no room for the calls, be it that the value
\* is nested too deep or that references lead round in a circle.
OnlyGapsAreErrors ==
  Returned("schema") /\ Result.raises =>
    \/ input.documents # "read"
    \/ \E c \in AllChecks(input.value, input.schema, input.defs) : Gap(c[2], input.defs)
    \/ TooDeep(input.value, input.schema, input.defs)

\* "If a schema starts using a keyword this engine doesn't support,
\* validate() raises NotImplementedError loudly rather than silently ignoring
\* it" (schema_engine.py:12-14).
UnknownKeywordsRaise ==
  Returned("schema") /\ ~(DOMAIN input.schema \subseteq KnownKeywords) => Result.raises

\* A document that lacks a member, or has one of the wrong type or value,
\* blocks in production by way of the severities that rules.json gives,
\* although no registry lists the SCH- rules. Without rules.json every
\* violation is MEDIUM, and the schema domain cannot block any more.
SchemaFailuresBlock ==
  Returned("schema") /\ ~Result.raises =>
    LET keywords == Evaluate(input).errors IN
    /\ Len(Result.findings) = Len(keywords)
    /\ \A k \in DOMAIN keywords :
         Blocks(Result.findings[k]) <=>
           input.catalogue /\ keywords[k] \in {"required", "type", "enum", "const"}

\* "0 (pass), 1 (fail), 2 (usage/engine-gap error)" (schema/README.md): the
\* stand-alone command and the aggregator agree, except that a YAML error and
\* references that lead round in a circle are 1, and rules.json is needed.
CommandAgreesWithDomain ==
  Returned("schema") =>
    LET command == SchemaCommand(input) IN
    /\ command = "0" => ~Result.raises /\ Result.findings = << >>
    /\ command = "1" =>
         \/ Result.findings # << >>
         \/ Evaluate(input).raises = "recursion"
         \/ input.documents = "no YAML"
    /\ command = "2" => Result.raises \/ ~input.catalogue

Objectionable(f) == f.code # "parses" \/ f.scopes > 0 \/ f.verifies > 0

\* What the identity contract releases. Every source of the checkout parses
\* and keeps to the contract, but for what lies in a dependency directory and
\* for token verification inside cloudforge_auth_core itself (not in a file
\* that merely carries the name); unless the checkout lies below a directory
\* called build, dist or venv, where no source is looked at. Every operation
\* declares 401 and 403 unless it is public, by its own word or, without one,
\* by that of the document; and nothing that makes a check crash is released.
PassedCheckoutIsClean ==
  Returned("identity") /\ Result.action = "PASS" =>
    /\ input.below_excluded
       \/ \A f \in input.files :
            Objectionable(f) =>
              \/ f.place = "vendored"
              \/ f.place = "auth_core" /\ f.code = "parses" /\ f.scopes = 0
    /\ SpecOf(input).kind \in {"none", "mapping"}
    /\ \A o \in SpecOf(input).operations :
         \/ {401, 403} \subseteq o.responses
         \/ o.security = "none"
         \/ o.security = "absent" /\ SpecOf(input).security # "required"

\* What a clean scan has seen. A security scan that passes has read its target
\* and found no line that matches a pattern. A governance scan of a directory
\* without findings has seen owner, classification and version in every
\* document, in one and the same place; or the document was left out: in a
\* hidden directory, in venv or in one with "governance" in its name,
\* unreadable, or no mapping.
CleanScansAreComplete ==
  /\ Returned("security") /\ Result.status = "PASS" =>
       input.kind = "file" /\ \A n \in DOMAIN input.lines : input.lines[n] = {}
  /\ Returned("governance") /\ input.target.kind = "directory" /\ Result = {} =>
       \A d \in input.target.documents :
         \/ d.directory \in {"hidden", "venv", "governance"}
         \/ d.kind # "mapping"
         \/ \E place \in ToSet(d.info) \cup ToSet(d.metadata) \cup {d.root} : Fields \subseteq place

=============================================================================
