------------------------------ MODULE Adapters ------------------------------
(***************************************************************************)
(* The adapters of the first two domains: what parse_spectral_output and   *)
(* parse_opa_output make of the JSON that Spectral and OPA print, and how  *)
(* their findings are resolved.                                            *)
(*                                                                         *)
(* A payload is [shape |-> ...] with its items; a missing key is Absent,   *)
(* and "torn" is a part of it that has none of the expected shapes.        *)
(***************************************************************************)
EXTENDS Naturals, Sequences, SequencesExt, Resolution

CONSTANTS
  Prefixed,     \* rule ids with a prefix of the taxonomy
  Namespace(_), \* "OAS-" put before a rule id
  Unresolved    \* the marker of a violation without a rule id

ASSUME AdaptersAssumption ==
  /\ Unresolved \notin {Absent, NoRule, Unhashable}
  /\ Absent \notin Rules \cup Prefixed \cup {NoRule, Unhashable}
  /\ \A code \in Rules \cup {NoRule, "GENERIC"} : Namespace(code) \in Prefixed

Unusable == [raises |-> TRUE, findings |-> << >>]
Parsed(findings) == [raises |-> FALSE, findings |-> findings]

-----------------------------------------------------------------------------
(* Spectral. *)

SpectralItems ==
  [kind : {"mapping"}, code : Rules \cup {Absent, NoRule, Unhashable},
   severity : Nat \cup {Absent, Unhashable}]
  \cup [kind : {"torn"}]

SpectralPayloads ==
  [shape : {"scalar"}] \cup [shape : {"list"}, items : Seq(SpectralItems)]

SpectralSeverity == [s \in 0..3 |-> <<"CRITICAL", "HIGH", "MEDIUM", "LOW">>[s + 1]]

\* Slip: every rule id gets the prefix.
AlwaysPrefixed(code) == Namespace(code)

RuleId(code) == IF code \in Prefixed THEN code ELSE Namespace(code)

\* An item (or its range) that is no mapping, a code that is no string, or a
\* severity that is a list makes the parser raise; all findings are lost.
Malformed(item) ==
  item.kind # "mapping" \/ item.severity = Unhashable \/ item.code = Unhashable

SpectralFinding(item) ==
  [rule |-> IF item.code = Absent THEN Namespace("GENERIC") ELSE RuleId(item.code),
   severity |-> IF item.severity = Absent THEN "HIGH"
                ELSE IF item.severity \in DOMAIN SpectralSeverity
                THEN SpectralSeverity[item.severity] ELSE "MEDIUM",
   category |-> "openapi"]

ParseSpectral(payload) ==
  IF payload.shape # "list" THEN Unusable
  ELSE IF \E k \in DOMAIN payload.items : Malformed(payload.items[k]) THEN Unusable
  ELSE Parsed([k \in DOMAIN payload.items |-> SpectralFinding(payload.items[k])])

-----------------------------------------------------------------------------
(* OPA. *)

Denials ==
  [kind : {"mapping"}, rule : Rules \cup {Absent, NoRule, Unhashable},
   severity : Words \cup {Absent}]
  \cup [kind : {"string", "torn"}]

\* The value of an expression: one violation, a list of them, or a scalar.
Values == Denials \cup [kind : {"list"}, items : Seq(Denials)]

Expressions == [kind : {"mapping"}, value : Values] \cup [kind : {"torn"}]

ResultItems == [kind : {"mapping"}, expressions : Seq(Expressions)] \cup [kind : {"torn"}]

OpaPayloads ==
  [shape : {"errors", "scalar"}]
  \cup [shape : {"result"}, items : Seq(ResultItems)]
  \cup [shape : {"list"}, items : Seq(Denials)]
  \cup [shape : {"bare"}, deny : Seq(Denials), violations : Seq(Denials)]

\* Slip: a single object is not taken for a violation.
ListsOnly(value) == IF value.kind = "list" THEN value.items ELSE << >>

\* The violations in the value of one expression: the elements of a set (a
\* list), or one object. A scalar (a complete rule that yields true or a
\* string) has none.
InValue(value) ==
  CASE value.kind = "list" -> value.items
    [] value.kind = "mapping" -> <<value>>
    [] OTHER -> << >>

\* Items and expressions that are no mappings are passed over.
InResult(items) ==
  FlattenSeq([i \in DOMAIN items |->
            IF items[i].kind # "mapping" THEN << >>
            ELSE FlattenSeq([j \in DOMAIN items[i].expressions |->
                           IF items[i].expressions[j].kind # "mapping" THEN << >>
                           ELSE InValue(items[i].expressions[j].value)])])

\* "errors" outweighs everything; then comes the real shape of `opa eval`, a
\* bare list, and a mapping with "deny" or, if that is empty, "violations".
Violations(payload) ==
  CASE payload.shape = "result" -> InResult(payload.items)
    [] payload.shape = "list"   -> payload.items
    [] payload.shape = "bare"   -> IF payload.deny # << >> THEN payload.deny ELSE payload.violations
    [] OTHER                    -> << >>

\* A string is a violation without a rule id, an empty rule id is none.
PolicyFinding(v) ==
  CASE v.kind = "string"  -> <<[rule |-> Unresolved, severity |-> "HIGH", category |-> "policy"]>>
    [] v.kind = "mapping" -> <<[rule |-> IF v.rule \in {Absent, NoRule} THEN Unresolved ELSE v.rule,
                                severity |-> OrElse(v.severity, "HIGH"), category |-> "policy"]>>
    [] OTHER              -> << >>

ParseOpa(payload) ==
  IF payload.shape = "errors" THEN Unusable
  ELSE LET found == Violations(payload)
       IN  Parsed(FlattenSeq([k \in DOMAIN found |-> PolicyFinding(found[k])]))

-----------------------------------------------------------------------------
\* What the finding does to the gate of a production pipeline whose registry
\* lists none of the rules.
Blocks(f) ==
  f.rule # Unhashable
  /\ Resolve(f, [r \in {} |-> Absent], "production").effective = "FAIL"

=============================================================================
