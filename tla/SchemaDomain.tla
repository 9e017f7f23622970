---------------------------- MODULE SchemaDomain ----------------------------
(***************************************************************************)
(* One schema check: _run_schema_check of validators/run_all.py and the    *)
(* stand-alone validators/schema/run.py, which share the engine and keep a *)
(* copy each of the table from keywords to rules.                          *)
(*                                                                         *)
(* A request is a value, a schema with its definitions, how the reading of *)
(* the two documents ends ("read", "unreadable" for a missing file or text *)
(* that is no JSON, "no YAML"), and whether rules.json can be read.        *)
(***************************************************************************)
EXTENDS SchemaEngine

IsRequest(request) ==
  /\ <<request.value, request.schema>> \in Checks
  /\ \A d \in DOMAIN request.defs : request.defs[d] \in JsonSchemas
  /\ request.documents \in {"read", "unreadable", "no YAML"}
  /\ request.catalogue \in BOOLEAN

Evaluate(request) == Validate(request.value, request.schema, request.defs)

\* _SCHEMA_KEYWORD_TO_RULE and _KEYWORD_TO_RULE.
KeywordToRule == [
  required |-> "SCH-001", type |-> "SCH-002", enum |-> "SCH-002", const |-> "SCH-002",
  pattern |-> "SCH-003", format |-> "SCH-003", minLength |-> "SCH-003",
  minimum |-> "SCH-003", minItems |-> "SCH-003", uniqueItems |-> "SCH-003",
  additionalProperties |-> "SCH-004", oneOf |-> "SCH-005", allOf |-> "SCH-005"]

\* Slip: const is missing from one of the two copies.
RuleWithoutConst(keyword) ==
  IF keyword \in DOMAIN KeywordToRule \ {"const"} THEN KeywordToRule[keyword] ELSE "SCH-003"

RuleOf(keyword) == IF keyword \in DOMAIN KeywordToRule THEN KeywordToRule[keyword] ELSE "SCH-003"

\* validators/schema/rules.json.
SchemaRules == {"SCH-001", "SCH-002", "SCH-003", "SCH-004", "SCH-005"}

ShippedSeverities ==
  [rule \in SchemaRules |-> IF rule \in {"SCH-001", "SCH-002"} THEN "HIGH" ELSE "MEDIUM"]

\* A missing or corrupt catalogue leaves every rule at MEDIUM.
SeverityOf(rule, catalogue) == IF catalogue THEN ShippedSeverities[rule] ELSE "MEDIUM"

\* What the aggregator gets: an exception, or findings.
RunSchemaCheck(request) ==
  LET outcome == Evaluate(request) IN
  IF request.documents # "read" \/ outcome.raises # "nothing" THEN [raises |-> TRUE, findings |-> << >>]
  ELSE [raises |-> FALSE,
        findings |-> [k \in DOMAIN outcome.errors |->
                        LET rule == RuleOf(outcome.errors[k])
                        IN  [rule |-> rule, severity |-> SeverityOf(rule, request.catalogue),
                             category |-> "schema"]]]

\* Slip: exceptions of the engine are not told apart from findings.
EngineGapIsFail(request) ==
  LET outcome == Evaluate(request) IN
  IF request.documents = "no YAML" THEN "1"
  ELSE IF request.documents = "unreadable" \/ ~request.catalogue THEN "2"
  ELSE IF outcome.raises = "nothing" /\ outcome.errors = << >> THEN "0" ELSE "1"

\* main of schema/run.py: unreadable files and NotImplementedError are 2; a
\* YAML error or a RecursionError is not caught, and a traceback ends with 1.
SchemaCommand(request) ==
  LET outcome == Evaluate(request) IN
  IF request.documents = "no YAML" THEN "1"
  ELSE IF request.documents = "unreadable" \/ ~request.catalogue \/ outcome.raises = "gap"
  THEN "2"
  ELSE IF outcome.raises = "nothing" /\ outcome.errors = << >> THEN "0" ELSE "1"

=============================================================================
