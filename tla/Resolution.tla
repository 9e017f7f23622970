----------------------------- MODULE Resolution -----------------------------
(***************************************************************************)
(* _resolve_finding of validators/run_all.py: how one finding of a tool    *)
(* gets its severity, its gate behaviour and its effective gate behaviour  *)
(* from the rule registry, the environment and the built-in defaults.      *)
(***************************************************************************)
EXTENDS Wording

CONSTANTS
  Rules,       \* rule ids a finding may carry and a registry may catalogue
  NoRule,      \* the empty rule id, of a finding that carries none
  Unhashable,  \* a rule id that cannot be looked up (a list or a mapping)
  Words,       \* what tools and registries write for severity and behaviour
  Absent,      \* a key the mapping does not have
  BareString   \* a finding that is a plain string

Domains == {"openapi", "policy", "schema", "traceability", "security", "governance"}

\* A finding that is a mapping.
Mappings ==
  [rule : Rules \cup {NoRule, Unhashable}, severity : Words \cup {Absent},
   category : Domains \cup {Absent}]

RawFindings == Mappings \cup {BareString}

ASSUME WordsAssumption ==
  /\ Absent \notin Words \cup Domains
  /\ {NoRule, Unhashable} \cap Rules = {}
  /\ NoRule # Unhashable
  /\ BareString \notin Mappings
  /\ {"CRITICAL", "HIGH", "MEDIUM", "LOW", "FAIL", "WARN", "INFO"} \subseteq Words
  /\ \A w \in Words : Upper(w) \in Words

\* A registry maps the catalogued rules to what it says of them.
Meta == [severity : Words \cup {Absent}, gate_behavior : Words \cup {Absent}]

ResolvedFindings ==
  [rule : Rules \cup {NoRule}, severity : Words, gate_behavior : Words, effective : Words,
   category : Domains]

-----------------------------------------------------------------------------
\* _DEFAULT_GATE_BEHAVIOR_BY_SEVERITY, for rules the registry does not list.
DefaultGateBehavior == [CRITICAL |-> "FAIL", HIGH |-> "FAIL", MEDIUM |-> "WARN", LOW |-> "INFO"]

\* GATE_POLICIES: the (severity, gate_behavior) pairs an environment turns
\* into WARN; an unknown environment is treated as production.
GatePolicies == [production |-> {}, dev |-> {<<"HIGH", "FAIL">>}]

Relaxed(environment) ==
  IF environment \in DOMAIN GatePolicies
  THEN GatePolicies[environment] ELSE GatePolicies["production"]

\* The comprehension wraps a plain string into a mapping with a message only.
AsMapping(f) ==
  IF f = BareString THEN [rule |-> NoRule, severity |-> Absent, category |-> Absent] ELSE f

OrElse(value, default) == IF value = Absent THEN default ELSE value

Registered(f, registry) == f.rule \in DOMAIN registry

\* A registered severity is taken as written; a reported one must be known.
Severity(f, registry) ==
  LET reported == OrElse(f.severity, "MEDIUM")
  IN  IF Registered(f, registry)
      THEN Upper(OrElse(registry[f.rule].severity, reported))
      ELSE IF Upper(reported) \in DOMAIN DefaultGateBehavior THEN Upper(reported) ELSE "MEDIUM"

GateBehavior(f, registry) ==
  IF Registered(f, registry)
  THEN Upper(OrElse(registry[f.rule].gate_behavior, "FAIL"))
  ELSE DefaultGateBehavior[Severity(f, registry)]

\* Slip: no clamp on CRITICAL.
Unclamped(severity, behavior, environment) ==
  IF <<severity, behavior>> \in Relaxed(environment) THEN "WARN" ELSE behavior

\* The environment may relax; CRITICAL is clamped to FAIL after everything.
Effective(severity, behavior, environment) ==
  IF severity = "CRITICAL" THEN "FAIL"
  ELSE IF <<severity, behavior>> \in Relaxed(environment) THEN "WARN"
  ELSE behavior

\* Slip: the category is not defaulted.
ResolveAsFiled(f, registry, environment) ==
  LET severity == Severity(f, registry)
      behavior == GateBehavior(f, registry)
  IN  [rule |-> f.rule, severity |-> severity, gate_behavior |-> behavior,
       effective |-> Effective(severity, behavior, environment),
       category |-> f.category]

Resolve(f, registry, environment) ==
  LET severity == Severity(f, registry)
      behavior == GateBehavior(f, registry)
  IN  [rule |-> f.rule, severity |-> severity, gate_behavior |-> behavior,
       effective |-> Effective(severity, behavior, environment),
       category |-> OrElse(f.category, "openapi")]

=============================================================================
