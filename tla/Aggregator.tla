----------------------------- MODULE Aggregator -----------------------------
(***************************************************************************)
(* run_all_validations of validators/run_all.py.  After loading the rule   *)
(* registry it lets six domains report, one after the other.  A domain is  *)
(* skipped, takes findings injected by the caller, or runs its tool, which *)
(* may be missing, hang, crash, print something unusable or report         *)
(* findings.  Then every finding is resolved against the registry, counted *)
(* by severity, and the whole is given one status.                         *)
(***************************************************************************)
EXTENDS Naturals, Sequences, FiniteSets, Resolution

CONSTANTS
  Calls,       \* how run_all_validations may be called
  Registries,  \* what load_registry may return
  Reports,     \* the lists of findings a tool may report, without category
  Injections   \* the lists of findings a caller may inject

Sources == {"skipped", "injected", "tool"}

ASSUME CallsAssumption ==
  /\ Calls \subseteq [sources : [Domains -> Sources], checks : Nat, environment : STRING]
  /\ \A r \in Registries : DOMAIN r \subseteq Rules /\ r \in [DOMAIN r -> Meta]
  /\ Reports \subseteq Seq([rule : Rules \cup {Unhashable}, severity : Words])
  /\ Injections \subseteq Seq(RawFindings)

VARIABLES
  call,             \* the arguments
  registry,         \* the registry loaded from the listed paths
  phase,            \* where run_all_validations is
  tool,             \* "running" while the tool of the phase's domain runs
  checked,          \* the schema checks done so far
  domains_status,   \* what each domain has reported, "none" before it does
  findings,         \* the findings collected
  artifacts,        \* one entry of evidence per domain that was evaluated
  system_errors,    \* the domains whose errors were recorded, in order
  schema_findings,  \* findings of the schema checks done so far
  resolved,         \* the findings after _resolve_finding
  tallied,          \* how many of them the loop over the findings has counted
  summary,          \* the counts by severity
  has_blocking,     \* a finding with effective_gate_behavior FAIL was counted
  status            \* the status of the result, "none" before it is known

domainVars == <<domains_status, findings, artifacts, system_errors>>
resultVars == <<resolved, tallied, summary, has_blocking, status>>
aggVars == <<call, registry, phase, tool, checked, domainVars, schema_findings, resultVars>>

Phases == {"registry", "resolve", "tally", "done", "raised"} \cup Domains

NoSummary == [total_findings |-> 0, critical |-> 0, high |-> 0, medium |-> 0, low |-> 0]

Fresh ==
  /\ registry = [r \in {} |-> Absent]
  /\ phase = "registry"
  /\ tool = "idle"
  /\ checked = 0
  /\ domains_status = [d \in Domains |-> "none"]
  /\ findings = << >>
  /\ artifacts = << >>
  /\ system_errors = << >>
  /\ schema_findings = << >>
  /\ resolved = << >>
  /\ tallied = 0
  /\ summary = NoSummary
  /\ has_blocking = FALSE
  /\ status = "none"

Init == call \in Calls /\ Fresh

-----------------------------------------------------------------------------
(* The registry. *)

LoadRegistry ==
  /\ phase = "registry"
  /\ registry' \in Registries
  /\ phase' = "openapi"
  /\ UNCHANGED <<call, tool, checked, domainVars, schema_findings, resultVars>>

\* load_registry raises on a conflict or an unreadable file: not caught here.
LoadRaises ==
  /\ phase = "registry"
  /\ phase' = "raised"
  /\ UNCHANGED <<call, registry, tool, checked, domainVars, schema_findings, resultVars>>

-----------------------------------------------------------------------------
(* The six domains. *)

After == [openapi |-> "policy", policy |-> "schema", schema |-> "traceability",
          traceability |-> "security", security |-> "governance", governance |-> "resolve"]

\* Slip: a domain that ends in ERROR leaves no entry in system_errors when it
\* was in the middle of parsing.
ReportWithoutError(d, state, fs, evaluated) ==
  /\ domains_status' = [domains_status EXCEPT ![d] = state]
  /\ findings' = findings \o fs
  /\ artifacts' = IF evaluated THEN Append(artifacts, [domain |-> d, rule_count |-> Len(fs)])
                  ELSE artifacts
  /\ system_errors' = IF state = "ERROR" /\ ~evaluated THEN Append(system_errors, d)
                      ELSE system_errors
  /\ phase' = After[d]
  /\ tool' = "idle"
  /\ schema_findings' = << >>
  /\ UNCHANGED <<call, registry, checked, resultVars>>

\* Domain d ends in `state` with findings fs, and leaves an artifact if its
\* output was evaluated.
Report(d, state, fs, evaluated) ==
  /\ domains_status' = [domains_status EXCEPT ![d] = state]
  /\ findings' = findings \o fs
  /\ artifacts' = IF evaluated THEN Append(artifacts, [domain |-> d, rule_count |-> Len(fs)])
                  ELSE artifacts
  /\ system_errors' = IF state = "ERROR" THEN Append(system_errors, d) ELSE system_errors
  /\ phase' = After[d]
  /\ tool' = "idle"
  /\ schema_findings' = << >>
  /\ UNCHANGED <<call, registry, checked, resultVars>>

\* It is d's turn and its input comes from `source`.
Turn(d, source) == phase = d /\ call.sources[d] = source

Skip(d) == Turn(d, "skipped") /\ Report(d, "SKIPPED", << >>, FALSE)

\* Slip: findings keep whatever category they came with.
FileAsIs(d, f) == f

\* The category a finding is filed under: the parsers of the first two
\* domains set it, the last two domains only if the finding has none.
File(d, f) ==
  IF f = BareString \/ d \in {"schema", "traceability"} THEN f
  ELSE IF d \in {"openapi", "policy"} \/ f.category = Absent THEN [f EXCEPT !.category = d]
  ELSE f

\* Findings as the domain's own tool makes them.
Made(d, report) ==
  [k \in DOMAIN report |->
     File(d, [rule |-> report[k].rule, severity |-> report[k].severity,
              category |-> IF d \in {"security", "governance"} THEN Absent ELSE d])]

\* Only Rego policies choose rule ids and severities freely; the other engines
\* produce a rule id and one of the four severities.
CanReport(d, report) ==
  d # "policy" =>
    \A k \in DOMAIN report :
      report[k].rule \in Rules /\ report[k].severity \in DOMAIN DefaultGateBehavior

\* Domain d ends with findings that its own parser or engine made.
Parsed(d) ==
  \E report \in Reports : CanReport(d, report) /\ Report(d, "RUN", Made(d, report), TRUE)

\* The caller hands in raw output of the first two domains.
InjectedOutput(d) ==
  /\ d \in {"openapi", "policy"}
  /\ Turn(d, "injected")
  /\ Parsed(d)

\* The caller hands in findings of another domain, which are taken as they are.
Injected(d) ==
  /\ d \notin {"openapi", "policy"}
  /\ Turn(d, "injected")
  /\ \E fs \in Injections : Report(d, "RUN", [k \in DOMAIN fs |-> File(d, fs[k])], TRUE)

\* parse_spectral_output or parse_opa_output raises on injected output.
InjectedUnparsable(d) ==
  /\ d \in {"openapi", "policy"}
  /\ Turn(d, "injected")
  /\ Report(d, "ERROR", << >>, TRUE)

\* The subprocess of Spectral or OPA is started.
StartTool(d) ==
  /\ d \in {"openapi", "policy"}
  /\ Turn(d, "tool")
  /\ tool = "idle"
  /\ tool' = "running"
  /\ UNCHANGED <<call, registry, phase, checked, domainVars, schema_findings, resultVars>>

\* The tool is not on PATH or cannot be executed.
CannotStart(d) ==
  /\ d \in {"openapi", "policy"}
  /\ Turn(d, "tool")
  /\ tool = "idle"
  /\ Report(d, "ERROR", << >>, d = "openapi")

\* policy_dir does not exist.
NoPolicyDir ==
  /\ Turn("policy", "tool")
  /\ tool = "idle"
  /\ Report("policy", "NOT_APPLICABLE", << >>, FALSE)

\* Slip: subprocess.run without a timeout.
NeverTimesOut(d) == FALSE /\ UNCHANGED aggVars

\* subprocess.run gives up after 120 seconds.
TimesOut(d) ==
  /\ d \in {"openapi", "policy"}
  /\ Turn(d, "tool")
  /\ tool = "running"
  /\ Report(d, "ERROR", << >>, d = "openapi")

\* No output, output that is not JSON, or OPA's {"errors": ...} payload.
BadOutput(d) ==
  /\ d \in {"openapi", "policy"}
  /\ Turn(d, "tool")
  /\ tool = "running"
  /\ Report(d, "ERROR", << >>, d = "openapi")

\* The output is JSON but the parser raises on it.
Unparsable(d) ==
  /\ d \in {"openapi", "policy"}
  /\ Turn(d, "tool")
  /\ tool = "running"
  /\ Report(d, "ERROR", << >>, TRUE)

\* The output is the JSON value null, which is what "no output" looks like
\* further down: Spectral counts as RUN without being parsed, OPA as
\* NOT_APPLICABLE.
NullOutput(d) ==
  /\ d \in {"openapi", "policy"}
  /\ Turn(d, "tool")
  /\ tool = "running"
  /\ Report(d, IF d = "openapi" THEN "RUN" ELSE "NOT_APPLICABLE", << >>, FALSE)

Answers(d) ==
  /\ d \in {"openapi", "policy"}
  /\ Turn(d, "tool")
  /\ tool = "running"
  /\ Parsed(d)

\* One more of the requested (schema, target) pairs validates its target.
SchemaCheck ==
  /\ Turn("schema", "tool")
  /\ checked < call.checks
  /\ checked' = checked + 1
  /\ \E report \in Reports :
       /\ CanReport("schema", report)
       /\ schema_findings' = schema_findings \o Made("schema", report)
  /\ UNCHANGED <<call, registry, phase, tool, domainVars, resultVars>>

SchemaDone ==
  /\ Turn("schema", "tool")
  /\ checked = call.checks
  /\ Report("schema", "RUN", schema_findings, TRUE)

\* Slip: what the checks before the failing one found is kept.
SchemaFailsKeeping ==
  /\ Turn("schema", "tool")
  /\ checked < call.checks
  /\ Report("schema", "ERROR", schema_findings, FALSE)

\* A pair cannot be loaded or uses an unsupported keyword: the findings of
\* the pairs before it are discarded with it.
SchemaFails ==
  /\ Turn("schema", "tool")
  /\ checked < call.checks
  /\ Report("schema", "ERROR", << >>, FALSE)

\* The engines of the last three domains run in this process.
Scan(d) ==
  /\ d \in {"traceability", "security", "governance"}
  /\ Turn(d, "tool")
  /\ Parsed(d)

ScanFails(d) ==
  /\ d \in {"traceability", "security", "governance"}
  /\ Turn(d, "tool")
  /\ Report(d, "ERROR", << >>, FALSE)

-----------------------------------------------------------------------------
(* The result. *)

\* A finding's rule id is used as a key of the registry.
CanResolve == \A k \in DOMAIN findings : AsMapping(findings[k]).rule # Unhashable

ResolveFindings ==
  /\ phase = "resolve"
  /\ CanResolve
  /\ resolved' = [k \in DOMAIN findings |->
                    Resolve(AsMapping(findings[k]), registry, call.environment)]
  /\ summary' = [NoSummary EXCEPT !.total_findings = Len(findings)]
  /\ phase' = "tally"
  /\ UNCHANGED <<call, registry, tool, checked, domainVars, schema_findings, tallied,
                 has_blocking, status>>

\* registry.get raises TypeError, outside every try block.
ResolveRaises ==
  /\ phase = "resolve"
  /\ ~CanResolve
  /\ phase' = "raised"
  /\ UNCHANGED <<call, registry, tool, checked, domainVars, schema_findings, resultVars>>

SummaryKey == [CRITICAL |-> "critical", HIGH |-> "high", MEDIUM |-> "medium", LOW |-> "low"]

\* Slip: only findings of a known severity can block.
TallyKnownOnly ==
  /\ phase = "tally"
  /\ tallied < Len(resolved)
  /\ LET f == resolved[tallied + 1] IN
       IF f.severity \in DOMAIN SummaryKey
       THEN /\ summary' = [summary EXCEPT ![SummaryKey[f.severity]] = @ + 1]
            /\ has_blocking' = (has_blocking \/ f.effective = "FAIL")
       ELSE UNCHANGED <<summary, has_blocking>>
  /\ tallied' = tallied + 1
  /\ UNCHANGED <<call, registry, phase, tool, checked, domainVars, schema_findings,
                 resolved, status>>

\* Slip: findings that do not block are left out of the counts.
TallyBlockingOnly ==
  /\ phase = "tally"
  /\ tallied < Len(resolved)
  /\ LET f == resolved[tallied + 1] IN
       /\ summary' = IF f.severity \in DOMAIN SummaryKey /\ f.effective = "FAIL"
                     THEN [summary EXCEPT ![SummaryKey[f.severity]] = @ + 1]
                     ELSE summary
       /\ has_blocking' = (has_blocking \/ f.effective = "FAIL")
  /\ tallied' = tallied + 1
  /\ UNCHANGED <<call, registry, phase, tool, checked, domainVars, schema_findings,
                 resolved, status>>

\* One finding is counted; a severity that is no key of the summary is not.
Tally ==
  /\ phase = "tally"
  /\ tallied < Len(resolved)
  /\ LET f == resolved[tallied + 1] IN
       /\ summary' = IF f.severity \in DOMAIN SummaryKey
                     THEN [summary EXCEPT ![SummaryKey[f.severity]] = @ + 1]
                     ELSE summary
       /\ has_blocking' = (has_blocking \/ f.effective = "FAIL")
  /\ tallied' = tallied + 1
  /\ UNCHANGED <<call, registry, phase, tool, checked, domainVars, schema_findings,
                 resolved, status>>

\* Slip: findings are looked at before the errors of the domains.
FindingsFirst ==
  IF has_blocking THEN "FAILED" ELSE IF system_errors # << >> THEN "ERROR" ELSE "PASSED"

\* A domain that could not be evaluated outweighs every finding.
Status ==
  IF system_errors # << >> THEN "ERROR" ELSE IF has_blocking THEN "FAILED" ELSE "PASSED"

Conclude ==
  /\ phase = "tally"
  /\ tallied = Len(resolved)
  /\ status' = Status
  /\ phase' = "done"
  /\ UNCHANGED <<call, registry, tool, checked, domainVars, schema_findings, resolved,
                 tallied, summary, has_blocking>>

-----------------------------------------------------------------------------
\* Steps that run_all_validations takes by itself, and how its tools behave.
OwnStep ==
  \/ LoadRegistry
  \/ LoadRaises
  \/ \E d \in Domains :
       \/ Skip(d)
       \/ InjectedOutput(d)
       \/ Injected(d)
       \/ InjectedUnparsable(d)
       \/ StartTool(d)
       \/ CannotStart(d)
       \/ TimesOut(d)
       \/ Scan(d)
       \/ ScanFails(d)
  \/ NoPolicyDir
  \/ SchemaCheck
  \/ SchemaDone
  \/ SchemaFails
  \/ ResolveFindings
  \/ ResolveRaises
  \/ Tally
  \/ Conclude

ToolStep == \E d \in Domains : BadOutput(d) \/ Unparsable(d) \/ NullOutput(d) \/ Answers(d)

Next == OwnStep \/ ToolStep

\* The process keeps running; a tool it waits for owes it nothing.
Fairness == WF_aggVars(OwnStep)

Spec == Init /\ [][Next]_aggVars /\ Fairness

-----------------------------------------------------------------------------
(* Properties. *)

\* Every variable ranges over what its comment says.
TypeOK ==
  /\ call \in Calls
  /\ DOMAIN registry \subseteq Rules /\ registry \in [DOMAIN registry -> Meta]
  /\ phase \in Phases
  /\ tool \in {"idle", "running"}
  /\ checked \in Nat
  /\ domains_status \in [Domains -> {"none", "RUN", "ERROR", "SKIPPED", "NOT_APPLICABLE"}]
  /\ findings \in Seq(RawFindings)
  /\ artifacts \in Seq([domain : Domains, rule_count : Nat])
  /\ system_errors \in Seq(Domains)
  /\ schema_findings \in Seq(RawFindings)
  /\ resolved \in Seq(ResolvedFindings)
  /\ tallied \in Nat
  /\ summary \in [DOMAIN NoSummary -> Nat]
  /\ has_blocking \in BOOLEAN
  /\ status \in {"none", "PASSED", "FAILED", "ERROR"}

\* execution.domains and execution.system_errors tell the same story: a
\* domain is in ERROR exactly when one error was recorded for it, and no
\* domain records two (the parser that runs after a failed Spectral call is
\* given an empty list and must not raise again).
ErrorsAreRecorded ==
  /\ \A d \in Domains :
       domains_status[d] = "ERROR" <=> \E k \in DOMAIN system_errors : system_errors[k] = d
  /\ \A j, k \in DOMAIN system_errors : system_errors[j] = system_errors[k] => j = k

\* The status is fail-closed and exact: PASSED means that no domain is in
\* ERROR and no finding blocks, FAILED that some finding blocks although all
\* domains were evaluated, ERROR that one was not.
StatusIsFailClosed ==
  LET broken  == \E d \in Domains : domains_status[d] = "ERROR"
      blocked == \E k \in DOMAIN resolved : resolved[k].effective = "FAIL"
  IN  phase = "done" =>
        /\ status = "ERROR"  <=> broken
        /\ status = "FAILED" <=> blocked /\ ~broken
        /\ status = "PASSED" <=> ~blocked /\ ~broken

\* "CRITICAL always blocks": a run that passed has counted no CRITICAL
\* finding, whatever the registry and the environment say.
PassedHasNoCritical ==
  status = "PASSED" => summary.critical = 0

Filed(d) == {k \in DOMAIN findings : findings[k] # BareString /\ findings[k].category = d}

Recorded(d) == {k \in DOMAIN artifacts : artifacts[k].domain = d}

\* The artifacts account for the findings: a domain has at most one, none if
\* it was skipped, and its rule_count is the number of findings the gate will
\* find filed under the domain; a domain in ERROR contributes no finding.
\* (Injected findings may carry any category.)
ArtifactsAccountForFindings ==
  \A d \in Domains :
    /\ Cardinality(Recorded(d)) <= 1
    /\ domains_status[d] # "RUN" => \A k \in Recorded(d) : artifacts[k].rule_count = 0
    /\ (\A e \in Domains : call.sources[e] # "injected") =>
         /\ \A k \in Recorded(d) : Cardinality(Filed(d)) = artifacts[k].rule_count
         /\ Recorded(d) = {} => Filed(d) = {}

\* The summary accounts for every finding: what its four counts leave out is
\* exactly the findings whose registered severity is none of the four.
SummaryAccountsForFindings ==
  phase = "done" =>
    /\ summary.total_findings = Len(findings)
    /\ summary.critical + summary.high + summary.medium + summary.low
         + Cardinality({k \in DOMAIN resolved : resolved[k].severity \notin DOMAIN SummaryKey})
       = summary.total_findings

\* "a registry entry cannot downgrade CRITICAL" (the "tampered rules" row of
\* validators/tests/test_adversarial_matrix.py).
RegistryCannotDowngradeCritical ==
  \A k \in DOMAIN resolved :
    findings[k] # BareString /\ findings[k].severity = "CRITICAL" => resolved[k].effective = "FAIL"

\* "an uncaught traceback that aborts run_all_validations()" never happens
\* once the registry is loaded (the comments on the broad except clauses).
NothingEscapesTheDomains ==
  phase = "raised" => \A d \in Domains : domains_status[d] = "none"

=============================================================================
