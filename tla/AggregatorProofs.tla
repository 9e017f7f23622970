-------------------------- MODULE AggregatorProofs --------------------------
(***************************************************************************)
(* run_all_validations, proved for every way to call it, every registry    *)
(* and every behaviour of the tools: typing, that domain statuses and      *)
(* system errors agree, that the status is fail-closed, and that a run     *)
(* with a CRITICAL finding never passes.                                   *)
(*                                                                         *)
(* The invariant has three parts.  Reporting says which domains have       *)
(* reported at each phase; Filing where their findings are filed; Counting *)
(* what the loop over the findings has established of the prefix counted.  *)
(***************************************************************************)
EXTENDS Aggregator, SequenceTheorems, FiniteSetTheorems, TLAPS

\* The domains whose turn is still to come.
Ahead ==
  [p \in Phases |->
     CASE p \in {"registry", "openapi"} -> Domains
       [] p = "policy"       -> Domains \ {"openapi"}
       [] p = "schema"       -> Domains \ {"openapi", "policy"}
       [] p = "traceability" -> {"traceability", "security", "governance"}
       [] p = "security"     -> {"security", "governance"}
       [] p = "governance"   -> {"governance"}
       [] OTHER              -> {}]

Reporting ==
  /\ phase # "raised" =>
       \A d \in Domains : domains_status[d] = "none" <=> d \in Ahead[phase]
  /\ \A d \in Domains :
       call.sources[d] = "skipped" => domains_status[d] \in {"none", "SKIPPED"}

\* Nothing was injected, and so each finding was filed by the domain that made it.
Uninjected == \A d \in Domains : call.sources[d] # "injected"

FiledUnder(f, d) == f # BareString /\ f.category = d

Filing ==
  /\ \A k \in DOMAIN schema_findings : FiledUnder(schema_findings[k], "schema")
  /\ Uninjected =>
       \A k \in DOMAIN findings :
         \E d \in Domains : FiledUnder(findings[k], d) /\ domains_status[d] = "RUN"

Resolved == phase \in {"tally", "done"}

Counting ==
  /\ ~Resolved =>
       resolved = << >> /\ tallied = 0 /\ ~has_blocking /\ summary = NoSummary
  /\ phase # "done" => status = "none"
  /\ phase = "done" => tallied = Len(resolved) /\ status = Status
  /\ tallied <= Len(resolved)
  /\ has_blocking <=> \E k \in 1..tallied : resolved[k].effective = "FAIL"
  /\ summary.critical > 0 => \E k \in 1..tallied : resolved[k].severity = "CRITICAL"
  /\ \A k \in DOMAIN resolved :
       resolved[k].severity = "CRITICAL" => resolved[k].effective = "FAIL"

\* A finding keeps the category it was filed under.
Kept ==
  Resolved =>
    /\ Len(resolved) = Len(findings)
    /\ \A k \in DOMAIN findings : \A d \in Domains :
         FiledUnder(findings[k], d) => resolved[k].category = d

IInv == TypeOK /\ Reporting /\ ErrorsAreRecorded /\ Filing /\ Counting /\ Kept

-----------------------------------------------------------------------------
(* Lemmas about one finding. *)

\* No registry and no environment can make a CRITICAL finding anything but FAIL.
LEMMA CriticalFails ==
  ASSUME NEW f, NEW reg, NEW env, Resolve(f, reg, env).severity = "CRITICAL"
  PROVE  Resolve(f, reg, env).effective = "FAIL"
PROOF
  BY DEF Resolve, Effective

LEMMA AsMappingTyped ==
  ASSUME NEW f \in RawFindings
  PROVE  AsMapping(f) \in Mappings /\ (f # BareString => AsMapping(f) = f)
PROOF
  BY DEF RawFindings, Mappings, AsMapping

LEMMA SeverityTyped ==
  ASSUME NEW f \in Mappings, NEW reg, DOMAIN reg \subseteq Rules, reg \in [DOMAIN reg -> Meta]
  PROVE  /\ Severity(f, reg) \in Words
         /\ ~Registered(f, reg) => Severity(f, reg) \in DOMAIN DefaultGateBehavior
PROOF
  <1> DEFINE reported == OrElse(f.severity, "MEDIUM")
  <1>1. reported \in Words
    BY WordsAssumption DEF Mappings, OrElse
  <1>2. CASE Registered(f, reg)
    <2>1. reg[f.rule] \in Meta
      BY <1>2 DEF Registered
    <2>2. OrElse(reg[f.rule].severity, reported) \in Words
      BY <1>1, <2>1, WordsAssumption DEF Meta, OrElse
    <2> QED BY <1>2, <2>2, WordsAssumption DEF Severity
  <1>3. CASE ~Registered(f, reg)
    BY <1>1, <1>3, WordsAssumption DEF Severity, DefaultGateBehavior
  <1> QED BY <1>2, <1>3

LEMMA GateBehaviorTyped ==
  ASSUME NEW f \in Mappings, NEW reg, DOMAIN reg \subseteq Rules, reg \in [DOMAIN reg -> Meta]
  PROVE  GateBehavior(f, reg) \in Words
PROOF
  <1>1. CASE Registered(f, reg)
    <2>1. reg[f.rule] \in Meta
      BY <1>1 DEF Registered
    <2>2. OrElse(reg[f.rule].gate_behavior, "FAIL") \in Words
      BY <2>1, WordsAssumption DEF Meta, OrElse
    <2> QED BY <1>1, <2>2, WordsAssumption DEF GateBehavior
  <1>2. CASE ~Registered(f, reg)
    BY <1>2, SeverityTyped, WordsAssumption DEF GateBehavior, DefaultGateBehavior
  <1> QED BY <1>1, <1>2

LEMMA ResolveTyped ==
  ASSUME NEW f \in Mappings, f.rule # Unhashable, NEW env,
         NEW reg, DOMAIN reg \subseteq Rules, reg \in [DOMAIN reg -> Meta]
  PROVE  /\ Resolve(f, reg, env) \in ResolvedFindings
         /\ \A d \in Domains : f.category = d => Resolve(f, reg, env).category = d
PROOF
  <1> DEFINE severity == Severity(f, reg)
             behavior == GateBehavior(f, reg)
  <1>1. severity \in Words /\ behavior \in Words
    BY SeverityTyped, GateBehaviorTyped
  <1>2. Effective(severity, behavior, env) \in Words
    BY <1>1, WordsAssumption DEF Effective
  <1>3. OrElse(f.category, "openapi") \in Domains
    BY DEF Mappings, OrElse, Domains
  <1>4. f.rule \in Rules \cup {NoRule}
    BY DEF Mappings
  <1>5. \A d \in Domains : f.category = d => OrElse(f.category, "openapi") = d
    BY WordsAssumption DEF OrElse
  <1> QED BY <1>1, <1>2, <1>3, <1>4, <1>5 DEF Resolve, ResolvedFindings

-----------------------------------------------------------------------------
(* Lemmas about the turn of a domain. *)

LEMMA FileTyped ==
  ASSUME NEW d \in Domains, NEW f \in RawFindings
  PROVE  File(d, f) \in RawFindings
PROOF
  <1>1. ASSUME f \in Mappings
        PROVE  [f EXCEPT !.category = d] \in Mappings
    BY <1>1 DEF Mappings
  <1> QED BY <1>1 DEF File, RawFindings

LEMMA MadeTyped ==
  ASSUME NEW d \in Domains, NEW report \in Reports
  PROVE  /\ Made(d, report) \in Seq(RawFindings)
         /\ DOMAIN Made(d, report) = DOMAIN report
         /\ \A k \in DOMAIN report : FiledUnder(Made(d, report)[k], d)
PROOF
  <1> DEFINE Raw(k) ==
        [rule |-> report[k].rule, severity |-> report[k].severity,
         category |-> IF d \in {"security", "governance"} THEN Absent ELSE d]
         Entry == [rule : Rules \cup {Unhashable}, severity : Words]
  <1>1. report \in Seq(Entry) /\ DOMAIN report = 1..Len(report)
    <2>1. report \in Seq(Entry)
      BY CallsAssumption
    <2> HIDE DEF Entry
    <2> QED BY <2>1, LenProperties
  <1>2. ASSUME NEW k \in DOMAIN report
        PROVE  Raw(k) \in Mappings
    <2>1. report[k] \in Entry
      <3> HIDE DEF Entry
      <3> QED BY <1>1, <1>2, ElementOfSeq
    <2> QED BY <2>1 DEF Mappings
  <1>3. ASSUME NEW k \in DOMAIN report
        PROVE  File(d, Raw(k)) \in Mappings /\ File(d, Raw(k)).category = d
    <2>1. Raw(k) \in Mappings /\ Raw(k) # BareString
      BY <1>2, <1>3, WordsAssumption
    <2>2. [Raw(k) EXCEPT !.category = d] \in Mappings
      BY <2>1 DEF Mappings
    <2>3. [Raw(k) EXCEPT !.category = d].category = d
      BY <2>1 DEF Mappings
    <2> QED BY <2>1, <2>2, <2>3, WordsAssumption DEF File, Domains
  <1>4. \A k \in DOMAIN report : FiledUnder(File(d, Raw(k)), d)
    BY <1>3, WordsAssumption DEF FiledUnder
  <1>5. Made(d, report) = [k \in 1..Len(report) |-> File(d, Raw(k))]
    BY <1>1 DEF Made
  <1>6. \A k \in 1..Len(report) : File(d, Raw(k)) \in RawFindings
    BY <1>1, <1>3 DEF RawFindings
  <1> HIDE DEF Raw
  <1>7. Made(d, report) \in Seq(RawFindings)
    BY <1>1, <1>5, <1>6
  <1> QED BY <1>1, <1>4, <1>5, <1>7

\* Domain d ends its turn in the way every domain does: only a domain that
\* ran has findings, and those not injected are filed under it.
EndsTurn(d, state, fs, evaluated) ==
  /\ phase = d
  /\ Report(d, state, fs, evaluated)
  /\ state # "RUN" \/ ~evaluated => fs = << >>
  /\ call.sources[d] = "skipped" => state = "SKIPPED"
  /\ call.sources[d] # "injected" => \A k \in DOMAIN fs : FiledUnder(fs[k], d)

SomeDomainReports ==
  \E d \in Domains : \E state \in {"RUN", "ERROR", "SKIPPED", "NOT_APPLICABLE"} :
    \E fs \in Seq(RawFindings) : \E evaluated \in BOOLEAN : EndsTurn(d, state, fs, evaluated)

\* Every step of a domain but its start, and a check in the middle of the
\* schema domain, ends the domain's turn.
LEMMA TurnEnds ==
  ASSUME TypeOK, Filing, NEW d \in Domains,
         \/ Skip(d) \/ InjectedOutput(d) \/ Injected(d) \/ InjectedUnparsable(d)
         \/ CannotStart(d) \/ TimesOut(d) \/ BadOutput(d) \/ Unparsable(d) \/ NullOutput(d) \/ Answers(d)
         \/ Scan(d) \/ ScanFails(d) \/ NoPolicyDir \/ SchemaDone \/ SchemaFails
  PROVE  SomeDomainReports
PROOF
  <1>0. << >> \in Seq(RawFindings)
    OBVIOUS
  <1>1. ASSUME NEW e \in Domains, NEW state \in {"RUN", "ERROR", "SKIPPED", "NOT_APPLICABLE"},
               NEW ev \in BOOLEAN, NEW source \in Sources,
               Turn(e, source), Report(e, state, << >>, ev),
               source = "skipped" => state = "SKIPPED"
        PROVE  SomeDomainReports
    <2>1. EndsTurn(e, state, << >>, ev)
      BY <1>1 DEF EndsTurn, Turn
    <2> QED BY <1>0, <2>1 DEF SomeDomainReports
  <1>2. ASSUME NEW source \in {"injected", "tool"}, Turn(d, source), Parsed(d)
        PROVE  SomeDomainReports
    <2>1. PICK report \in Reports : Report(d, "RUN", Made(d, report), TRUE)
      BY <1>2 DEF Parsed
    <2>2. EndsTurn(d, "RUN", Made(d, report), TRUE)
      BY <1>2, <2>1, MadeTyped DEF EndsTurn, Turn
    <2> QED BY <2>2, MadeTyped DEF SomeDomainReports
  <1>3. CASE Skip(d)
    BY <1>1, <1>3 DEF Skip, Sources
  <1>4. CASE Injected(d)
    <2>1. PICK fs \in Injections :
            Turn(d, "injected") /\ Report(d, "RUN", [k \in DOMAIN fs |-> File(d, fs[k])], TRUE)
      BY <1>4 DEF Injected
    <2>2. fs \in Seq(RawFindings)
      BY CallsAssumption
    <2> DEFINE filed == [k \in 1..Len(fs) |-> File(d, fs[k])]
    <2>3. \A k \in 1..Len(fs) : File(d, fs[k]) \in RawFindings
      BY <2>2, FileTyped
    <2>4. filed \in Seq(RawFindings)
      <3>1. Len(fs) \in Nat /\ filed \in [1..Len(fs) -> RawFindings]
        BY <2>2, <2>3, LenProperties
      <3> QED BY <3>1, SeqDef
    <2>5. [k \in DOMAIN fs |-> File(d, fs[k])] = filed
      BY <2>2, LenProperties
    <2>6. EndsTurn(d, "RUN", filed, TRUE)
      <3> HIDE DEF filed
      <3> QED BY <2>1, <2>5 DEF EndsTurn, Turn
    <2> QED BY <2>4, <2>6 DEF SomeDomainReports
  <1>5. CASE InjectedUnparsable(d)
    BY <1>1, <1>5 DEF InjectedUnparsable, Sources
  <1>6. CASE CannotStart(d)
    BY <1>1, <1>6 DEF CannotStart, Sources
  <1>7. CASE TimesOut(d)
    BY <1>1, <1>7 DEF TimesOut, Sources
  <1>8. CASE BadOutput(d)
    BY <1>1, <1>8 DEF BadOutput, Sources
  <1>9. CASE Unparsable(d)
    BY <1>1, <1>9 DEF Unparsable, Sources
  <1>10. CASE NullOutput(d)
    BY <1>1, <1>10 DEF NullOutput, Sources
  <1>11. CASE Answers(d)
    BY <1>2, <1>11 DEF Answers
  <1>12. CASE Scan(d)
    BY <1>2, <1>12 DEF Scan
  <1>17. CASE InjectedOutput(d)
    BY <1>2, <1>17 DEF InjectedOutput
  <1>13. CASE ScanFails(d)
    BY <1>1, <1>13 DEF ScanFails, Sources
  <1>14. CASE NoPolicyDir
    BY <1>1, <1>14 DEF NoPolicyDir, Sources, Domains
  <1>15. CASE SchemaFails
    BY <1>1, <1>15 DEF SchemaFails, Sources, Domains
  <1>16. CASE SchemaDone
    <2>1. EndsTurn("schema", "RUN", schema_findings, TRUE)
      BY <1>16 DEF SchemaDone, EndsTurn, Turn, Filing
    <2>2. schema_findings \in Seq(RawFindings)
      BY DEF TypeOK
    <2> QED BY <2>1, <2>2 DEF SomeDomainReports, Domains
  <1> QED BY <1>3, <1>4, <1>5, <1>6, <1>7, <1>8, <1>9, <1>10, <1>11, <1>12, <1>13, <1>14,
             <1>15, <1>16, <1>17

\* What a step can be, once the ways in which a turn ends are one case.
LEMMA StepCases ==
  ASSUME TypeOK, Filing, Next
  PROVE  \/ LoadRegistry \/ LoadRaises \/ (\E d \in Domains : StartTool(d)) \/ SchemaCheck
         \/ SomeDomainReports \/ ResolveFindings \/ ResolveRaises \/ Tally \/ Conclude
PROOF
  <1>1. "policy" \in Domains
    BY DEF Domains
  <1>2. CASE OwnStep
    BY <1>1, <1>2, TurnEnds DEF OwnStep
  <1>3. CASE ToolStep
    BY <1>3, TurnEnds DEF ToolStep
  <1> QED BY <1>2, <1>3 DEF Next

LEMMA Phased ==
  /\ Domains \subseteq Phases
  /\ \A d \in Domains : /\ After[d] \in (Domains \cup {"resolve"}) \cap Phases
                        /\ Ahead[After[d]] = Ahead[d] \ {d}
                        /\ d \in Ahead[d]
  /\ Ahead["registry"] = Domains /\ Ahead["openapi"] = Domains
  /\ Ahead["resolve"] = {} /\ Ahead["tally"] = {} /\ Ahead["done"] = {}
PROOF
  <1>1. Domains \subseteq Phases
    BY DEF Phases
  <1>2. \A d \in Domains : After[d] \in (Domains \cup {"resolve"}) \cap Phases
    BY DEF Phases, Domains, After
  <1>3. ASSUME NEW d \in Domains
        PROVE  Ahead[After[d]] = Ahead[d] \ {d} /\ d \in Ahead[d]
    BY <1>3 DEF Phases, Domains, After, Ahead
  <1>4. /\ Ahead["registry"] = Domains /\ Ahead["openapi"] = Domains
        /\ Ahead["resolve"] = {} /\ Ahead["tally"] = {} /\ Ahead["done"] = {}
    BY DEF Ahead, Phases, Domains
  <1> QED BY <1>1, <1>2, <1>3, <1>4

-----------------------------------------------------------------------------
(* The invariant. *)

LEMMA InitIInv == Init => IInv
PROOF
  <1> SUFFICES ASSUME Init PROVE IInv
    OBVIOUS
  <1> USE DEF Init, Fresh
  <1>1. TypeOK
    <2>1. registry \in [DOMAIN registry -> Meta] /\ DOMAIN registry \subseteq Rules
      OBVIOUS
    <2>2. summary \in [DOMAIN NoSummary -> Nat]
      BY DEF NoSummary
    <2>3. /\ findings \in Seq(RawFindings) /\ schema_findings \in Seq(RawFindings)
          /\ artifacts \in Seq([domain : Domains, rule_count : Nat])
          /\ system_errors \in Seq(Domains) /\ resolved \in Seq(ResolvedFindings)
      OBVIOUS
    <2>4. /\ call \in Calls /\ phase \in Phases /\ tool \in {"idle", "running"}
          /\ checked \in Nat /\ tallied \in Nat /\ has_blocking \in BOOLEAN
          /\ status \in {"none", "PASSED", "FAILED", "ERROR"}
          /\ domains_status \in
               [Domains -> {"none", "RUN", "ERROR", "SKIPPED", "NOT_APPLICABLE"}]
      BY DEF Phases
    <2> QED BY ONLY <2>1, <2>2, <2>3, <2>4 DEF TypeOK
  <1>2. Reporting
    BY Phased DEF Reporting
  <1>3. ErrorsAreRecorded
    BY DEF ErrorsAreRecorded
  <1>4. Filing
    BY DEF Filing
  <1>5. Counting
    BY DEF Counting, Resolved, NoSummary
  <1>6. Kept
    BY DEF Kept, Resolved
  <1> QED BY <1>1, <1>2, <1>3, <1>4, <1>5, <1>6 DEF IInv

LEMMA NextTypeOK ==
  ASSUME TypeOK, Filing, Next
  PROVE  TypeOK'
PROOF
  <1>1. CASE LoadRegistry
    BY <1>1, CallsAssumption
    DEF LoadRegistry, TypeOK, Phases, Domains, domainVars, resultVars
  <1>2. CASE LoadRaises
    BY <1>2 DEF LoadRaises, TypeOK, Phases, domainVars, resultVars
  <1>3. ASSUME NEW d \in Domains, StartTool(d)
        PROVE  TypeOK'
    BY <1>3 DEF StartTool, TypeOK, domainVars, resultVars
  <1>4. CASE SchemaCheck
    <2>1. PICK report \in Reports :
            schema_findings' = schema_findings \o Made("schema", report)
      BY <1>4 DEF SchemaCheck
    <2>2. Made("schema", report) \in Seq(RawFindings)
      BY MadeTyped DEF Domains
    <2>3. schema_findings' \in Seq(RawFindings)
      BY <2>1, <2>2, ConcatProperties DEF TypeOK
    <2> QED BY <1>4, <2>3 DEF SchemaCheck, TypeOK, domainVars, resultVars
  <1>5. CASE SomeDomainReports
    <2>1. PICK d \in Domains, state \in {"RUN", "ERROR", "SKIPPED", "NOT_APPLICABLE"},
               fs \in Seq(RawFindings), evaluated \in BOOLEAN :
                 EndsTurn(d, state, fs, evaluated)
      BY <1>5 DEF SomeDomainReports
    <2>2. Report(d, state, fs, evaluated)
      BY <2>1 DEF EndsTurn
    <2>3. domains_status' \in [Domains -> {"none", "RUN", "ERROR", "SKIPPED", "NOT_APPLICABLE"}]
      BY <2>2 DEF Report, TypeOK
    <2>4. findings' \in Seq(RawFindings)
      BY <2>2, ConcatProperties DEF Report, TypeOK
    <2>5. artifacts' \in Seq([domain : Domains, rule_count : Nat])
      <3>1. [domain |-> d, rule_count |-> Len(fs)] \in [domain : Domains, rule_count : Nat]
        BY LenProperties
      <3> QED BY <2>2, <3>1, AppendProperties DEF Report, TypeOK
    <2>6. system_errors' \in Seq(Domains)
      BY <2>2, AppendProperties DEF Report, TypeOK
    <2>7. phase' \in Phases
      BY <2>2, Phased DEF Report
    <2>8. schema_findings' \in Seq(RawFindings)
      BY <2>2 DEF Report
    <2> QED BY <2>2, <2>3, <2>4, <2>5, <2>6, <2>7, <2>8 DEF Report, TypeOK, resultVars
  <1>6. CASE ResolveFindings
    <2> DEFINE R(k) == Resolve(AsMapping(findings[k]), registry, call.environment)
    <2>1. ASSUME NEW k \in 1..Len(findings)
          PROVE  R(k) \in ResolvedFindings
      <3>1. findings[k] \in RawFindings /\ k \in DOMAIN findings
        BY <2>1, ElementOfSeq, LenProperties DEF TypeOK
      <3> QED BY <1>6, <3>1, AsMappingTyped, ResolveTyped DEF ResolveFindings, CanResolve, TypeOK
    <2>2. resolved' = [k \in 1..Len(findings) |-> R(k)] /\ Len(findings) \in Nat
      BY <1>6, LenProperties DEF ResolveFindings, TypeOK
    <2> HIDE DEF R
    <2>3. resolved' \in Seq(ResolvedFindings)
      <3>1. resolved' \in [1..Len(findings) -> ResolvedFindings]
        BY <2>1, <2>2
      <3> QED BY <2>2, <3>1, SeqDef
    <2>4. summary' \in [DOMAIN NoSummary -> Nat]
      BY <1>6, <2>2 DEF ResolveFindings, NoSummary
    <2> QED BY <1>6, <2>3, <2>4 DEF ResolveFindings, TypeOK, Phases, domainVars
  <1>7. CASE ResolveRaises
    BY <1>7 DEF ResolveRaises, TypeOK, Phases, domainVars, resultVars
  <1>8. CASE Tally
    <2>1. summary' \in [DOMAIN NoSummary -> Nat]
      BY <1>8 DEF Tally, TypeOK, SummaryKey, NoSummary
    <2>2. has_blocking' \in BOOLEAN
      BY <1>8 DEF Tally, TypeOK
    <2> QED BY <1>8, <2>1, <2>2 DEF Tally, TypeOK, domainVars
  <1>9. CASE Conclude
    BY <1>9 DEF Conclude, Status, TypeOK, Phases, domainVars
  <1> QED BY <1>1, <1>2, <1>3, <1>4, <1>5, <1>6, <1>7, <1>8, <1>9, StepCases

\* A domain reports once, when it is its turn, and a skipped one as SKIPPED.
LEMMA NextReporting ==
  ASSUME TypeOK, Filing, Reporting, Next
  PROVE  Reporting'
PROOF
  <1>1. CASE SomeDomainReports
    <2>1. PICK d \in Domains, state \in {"RUN", "ERROR", "SKIPPED", "NOT_APPLICABLE"},
               fs \in Seq(RawFindings), evaluated \in BOOLEAN :
                 EndsTurn(d, state, fs, evaluated)
      BY <1>1 DEF SomeDomainReports
    <2>2. /\ phase = d /\ phase' = After[d] /\ UNCHANGED call
          /\ domains_status' = [domains_status EXCEPT ![d] = state]
          /\ call.sources[d] = "skipped" => state = "SKIPPED"
      BY <2>1 DEF EndsTurn, Report
    <2>3. d # "raised"
      BY DEF Domains
    <2>4. \A e \in Domains : domains_status'[e] = IF e = d THEN state ELSE domains_status[e]
      BY <2>2 DEF TypeOK
    <2>5. \A e \in Domains : domains_status'[e] = "none" <=> e \in Ahead[d] \ {d}
      BY <2>2, <2>3, <2>4 DEF Reporting
    <2>6. \A e \in Domains : domains_status'[e] = "none" <=> e \in Ahead[phase']
      BY <2>2, <2>5, Phased
    <2>7. \A e \in Domains :
            call'.sources[e] = "skipped" => domains_status'[e] \in {"none", "SKIPPED"}
      BY <2>2, <2>4 DEF Reporting
    <2> QED BY <2>6, <2>7 DEF Reporting
  <1>2. ASSUME UNCHANGED <<call, domains_status>>,
               phase' \in {phase, "raised"} \/ (phase # "raised" /\ Ahead[phase'] = Ahead[phase])
        PROVE  Reporting'
    BY <1>2 DEF Reporting
  <1>3. CASE LoadRegistry
    BY <1>2, <1>3, Phased DEF LoadRegistry, domainVars
  <1>4. CASE LoadRaises
    BY <1>2, <1>4 DEF LoadRaises, domainVars
  <1>5. ASSUME NEW d \in Domains, StartTool(d) PROVE Reporting'
    BY <1>2, <1>5 DEF StartTool, domainVars
  <1>6. CASE SchemaCheck
    BY <1>2, <1>6 DEF SchemaCheck, domainVars
  <1>7. CASE ResolveFindings
    BY <1>2, <1>7, Phased DEF ResolveFindings, domainVars
  <1>8. CASE ResolveRaises
    BY <1>2, <1>8 DEF ResolveRaises, domainVars
  <1>9. CASE Tally
    BY <1>2, <1>9 DEF Tally, domainVars
  <1>10. CASE Conclude
    BY <1>2, <1>10, Phased DEF Conclude, domainVars
  <1> QED BY <1>1, <1>3, <1>4, <1>5, <1>6, <1>7, <1>8, <1>9, <1>10, StepCases

\* Only a report records an error, and it records the error of its own domain,
\* which has recorded none before.
LEMMA NextErrorsAreRecorded ==
  ASSUME TypeOK, Filing, Reporting, ErrorsAreRecorded, Next
  PROVE  ErrorsAreRecorded'
PROOF
  <1>1. CASE SomeDomainReports
    <2>1. PICK d \in Domains, state \in {"RUN", "ERROR", "SKIPPED", "NOT_APPLICABLE"},
               fs \in Seq(RawFindings), evaluated \in BOOLEAN :
                 EndsTurn(d, state, fs, evaluated)
      BY <1>1 DEF SomeDomainReports
    <2>2. /\ phase = d
          /\ domains_status' = [domains_status EXCEPT ![d] = state]
          /\ system_errors' = IF state = "ERROR" THEN Append(system_errors, d) ELSE system_errors
      BY <2>1 DEF EndsTurn, Report
    <2>3. domains_status[d] = "none"
      BY <2>2, Phased DEF Reporting, Domains
    <2>4. \A k \in DOMAIN system_errors : system_errors[k] # d
      BY <2>3 DEF ErrorsAreRecorded
    <2>5. \A e \in Domains : domains_status'[e] = IF e = d THEN state ELSE domains_status[e]
      BY <2>2 DEF TypeOK
    <2>6. CASE state # "ERROR"
      BY <2>2, <2>3, <2>5, <2>6 DEF ErrorsAreRecorded
    <2>7. CASE state = "ERROR"
      <3> DEFINE n == Len(system_errors)
      <3>1. n \in Nat /\ DOMAIN system_errors = 1..n
        BY LenProperties DEF TypeOK
      <3>2. /\ DOMAIN system_errors' = 1..(n + 1)
            /\ \A k \in 1..n : system_errors'[k] = system_errors[k]
            /\ system_errors'[n + 1] = d
        BY <2>2, <2>7, AppendProperties DEF TypeOK
      <3> QED BY <2>4, <2>5, <2>7, <3>1, <3>2 DEF ErrorsAreRecorded
    <2> QED BY <2>6, <2>7
  <1>2. CASE UNCHANGED <<domains_status, system_errors>>
    BY <1>2 DEF ErrorsAreRecorded
  <1> QED BY <1>1, <1>2, StepCases
          DEF LoadRegistry, LoadRaises, StartTool, SchemaCheck, ResolveFindings, ResolveRaises,
              Tally, Conclude, domainVars

\* Findings stay filed under domains that ran.
LEMMA NextFiling ==
  ASSUME TypeOK, Reporting, Filing, Next
  PROVE  Filing'
PROOF
  <1>1. CASE SomeDomainReports
    <2>1. PICK d \in Domains, state \in {"RUN", "ERROR", "SKIPPED", "NOT_APPLICABLE"},
               fs \in Seq(RawFindings), evaluated \in BOOLEAN :
                 EndsTurn(d, state, fs, evaluated)
      BY <1>1 DEF SomeDomainReports
    <2>2. /\ phase = d
          /\ domains_status' = [domains_status EXCEPT ![d] = state]
          /\ findings' = findings \o fs
          /\ schema_findings' = << >>
          /\ UNCHANGED call
          /\ state # "RUN" => fs = << >>
          /\ call.sources[d] # "injected" => \A k \in DOMAIN fs : FiledUnder(fs[k], d)
      BY <2>1 DEF EndsTurn, Report
    <2>3. domains_status[d] = "none"
      BY <2>2, Phased DEF Reporting, Domains
    <2>4. \A e \in Domains : domains_status'[e] = IF e = d THEN state ELSE domains_status[e]
      BY <2>2 DEF TypeOK
    <2>5. ASSUME Uninjected, NEW k \in DOMAIN findings'
          PROVE  \E e \in Domains : FiledUnder(findings'[k], e) /\ domains_status'[e] = "RUN"
      <3> DEFINE n == Len(findings)
                 m == Len(fs)
      <3>1. /\ n \in Nat /\ DOMAIN findings = 1..n
            /\ m \in Nat /\ DOMAIN fs = 1..m
        BY LenProperties DEF TypeOK
      <3>2. /\ DOMAIN findings' = 1..(n + m)
            /\ findings'[k] = IF k <= n THEN findings[k] ELSE fs[k - n]
        BY <2>2, <2>5, <3>1, ConcatProperties DEF TypeOK
      <3>3. CASE k <= n
        <4>1. k \in DOMAIN findings
          BY <2>5, <3>1, <3>2, <3>3
        <4>2. PICK e \in Domains : FiledUnder(findings[k], e) /\ domains_status[e] = "RUN"
          BY <2>5, <4>1 DEF Filing
        <4> QED BY <2>3, <2>4, <3>2, <3>3, <4>2
      <3>4. CASE k > n
        <4>1. k - n \in DOMAIN fs
          BY <2>5, <3>1, <3>2, <3>4
        <4>2. fs # << >>
          BY <3>1, <4>1
        <4>3. state = "RUN" /\ FiledUnder(fs[k - n], d)
          BY <2>2, <2>5, <4>1, <4>2 DEF Uninjected
        <4>4. findings'[k] = fs[k - n]
          BY <2>5, <3>1, <3>2, <3>4
        <4> QED BY <2>4, <4>3, <4>4
      <3> QED BY <2>5, <3>1, <3>2, <3>3, <3>4
    <2> QED BY <2>2, <2>5 DEF Filing, Uninjected
  <1>2. CASE SchemaCheck
    <2>1. PICK report \in Reports :
            schema_findings' = schema_findings \o Made("schema", report)
      BY <1>2 DEF SchemaCheck
    <2>2. /\ Made("schema", report) \in Seq(RawFindings)
          /\ \A k \in DOMAIN Made("schema", report) :
               FiledUnder(Made("schema", report)[k], "schema")
      BY MadeTyped DEF Domains
    <2> DEFINE made == Made("schema", report)
    <2>3. ASSUME NEW k \in DOMAIN schema_findings'
          PROVE  FiledUnder(schema_findings'[k], "schema")
      <3> HIDE DEF made
      <3>1. schema_findings' = schema_findings \o made
        BY <2>1 DEF made
      <3>2. made \in Seq(RawFindings) /\ \A j \in DOMAIN made : FiledUnder(made[j], "schema")
        BY <2>2 DEF made
      <3> DEFINE n == Len(schema_findings)
                 m == Len(made)
      <3>3. /\ n \in Nat /\ DOMAIN schema_findings = 1..n
            /\ m \in Nat /\ DOMAIN made = 1..m
        BY <3>2, LenProperties DEF TypeOK
      <3>4. /\ DOMAIN schema_findings' = 1..(n + m)
            /\ schema_findings'[k] = IF k <= n THEN schema_findings[k] ELSE made[k - n]
        BY <2>3, <3>1, <3>2, <3>3, ConcatProperties DEF TypeOK
      <3>5. CASE k <= n
        <4>1. k \in DOMAIN schema_findings
          BY <2>3, <3>3, <3>4, <3>5
        <4> QED BY <3>4, <3>5, <4>1 DEF Filing
      <3>6. CASE k > n
        <4>1. k - n \in DOMAIN made
          BY <2>3, <3>3, <3>4, <3>6
        <4>2. schema_findings'[k] = made[k - n]
          BY <2>3, <3>3, <3>4, <3>6
        <4> QED BY <3>2, <4>1, <4>2
      <3> QED BY <2>3, <3>3, <3>4, <3>5, <3>6
    <2> QED BY <1>2, <2>3 DEF SchemaCheck, Filing, Uninjected, domainVars
  <1>3. CASE UNCHANGED <<call, findings, schema_findings, domains_status>>
    BY <1>3 DEF Filing, Uninjected
  <1> QED BY <1>1, <1>2, <1>3, StepCases
          DEF LoadRegistry, LoadRaises, StartTool, ResolveFindings, ResolveRaises,
              Tally, Conclude, domainVars

\* The loop over the findings extends what it established of the prefix.
LEMMA NextCounting ==
  ASSUME TypeOK, Filing, Counting, Next
  PROVE  Counting'
PROOF
  <1>0. Len(resolved) \in Nat /\ DOMAIN resolved = 1..Len(resolved)
    BY LenProperties DEF TypeOK
  <1>1. ASSUME UNCHANGED resultVars, ~Resolved, ~Resolved'
        PROVE  Counting'
    BY <1>1 DEF Counting, Resolved, resultVars
  <1>2. CASE SomeDomainReports
    <2>1. PICK d \in Domains : phase = d /\ phase' = After[d] /\ UNCHANGED resultVars
      BY <1>2 DEF SomeDomainReports, EndsTurn, Report
    <2> QED BY <1>1, <2>1, Phased DEF Resolved, Domains
  <1>3. CASE LoadRegistry
    BY <1>1, <1>3 DEF LoadRegistry, Resolved
  <1>4. CASE LoadRaises
    BY <1>1, <1>4 DEF LoadRaises, Resolved
  <1>5. ASSUME NEW d \in Domains, StartTool(d) PROVE Counting'
    BY <1>1, <1>5 DEF StartTool, Turn, Resolved, Domains
  <1>6. CASE SchemaCheck
    BY <1>1, <1>6 DEF SchemaCheck, Turn, Resolved
  <1>7. CASE ResolveRaises
    BY <1>1, <1>7 DEF ResolveRaises, Resolved
  <1>8. CASE ResolveFindings
    <2>1. /\ phase = "resolve" /\ phase' = "tally"
          /\ summary' = [NoSummary EXCEPT !.total_findings = Len(findings)]
          /\ UNCHANGED <<tallied, has_blocking, status>>
          /\ resolved' = [k \in DOMAIN findings |->
                            Resolve(AsMapping(findings[k]), registry, call.environment)]
      BY <1>8 DEF ResolveFindings
    <2>2. tallied = 0 /\ ~has_blocking /\ status = "none"
      BY <2>1 DEF Counting, Resolved
    <2>3. summary'.critical = 0
      BY <2>1 DEF NoSummary
    <2>4. \A k \in DOMAIN resolved' :
            resolved'[k].severity = "CRITICAL" => resolved'[k].effective = "FAIL"
      BY <2>1, CriticalFails
    <2>5. Len(resolved') \in Nat
      BY NextTypeOK, LenProperties DEF TypeOK
    <2> QED BY <2>1, <2>2, <2>3, <2>4, <2>5 DEF Counting, Resolved
  <1>9. CASE Tally
    <2> DEFINE f == resolved[tallied + 1]
    <2>1. /\ phase = "tally" /\ phase' = "tally" /\ tallied < Len(resolved)
          /\ summary' = IF f.severity \in DOMAIN SummaryKey
                        THEN [summary EXCEPT ![SummaryKey[f.severity]] = @ + 1]
                        ELSE summary
          /\ has_blocking' = (has_blocking \/ f.effective = "FAIL")
          /\ tallied' = tallied + 1
          /\ UNCHANGED <<resolved, status>>
      BY <1>9 DEF Tally
    <2>2. tallied' \in 1..Len(resolved)
      BY <1>0, <2>1 DEF TypeOK
    <2>3. \A k : k \in 1..tallied' <=> k \in 1..tallied \/ k = tallied + 1
      BY <2>1 DEF TypeOK
    <2>4. has_blocking' <=> \E k \in 1..tallied' : resolved'[k].effective = "FAIL"
      BY <2>1, <2>3 DEF Counting
    <2>5. f.severity # "CRITICAL" => summary'.critical = summary.critical
      BY <2>1 DEF SummaryKey, TypeOK, NoSummary
    <2>6. summary'.critical > 0 => \E k \in 1..tallied' : resolved'[k].severity = "CRITICAL"
      BY <2>1, <2>3, <2>5 DEF Counting
    <2> QED BY <1>0, <2>1, <2>2, <2>4, <2>6 DEF Counting, Resolved
  <1>10. CASE Conclude
    BY <1>0, <1>10 DEF Conclude, Counting, Resolved, Status, domainVars
  <1> QED BY <1>2, <1>3, <1>4, <1>5, <1>6, <1>7, <1>8, <1>9, <1>10, StepCases

\* Resolving moves no finding and takes none out of its domain.
LEMMA NextKept ==
  ASSUME TypeOK, Filing, Kept, Next
  PROVE  Kept'
PROOF
  <1>1. CASE ResolveFindings
    <2> DEFINE R(k) == Resolve(AsMapping(findings[k]), registry, call.environment)
               n    == Len(findings)
    <2>1. n \in Nat /\ DOMAIN findings = 1..n
      BY LenProperties DEF TypeOK
    <2>2. resolved' = [k \in 1..n |-> R(k)] /\ findings' = findings
      BY <1>1, <2>1 DEF ResolveFindings, domainVars
    <2>3. ASSUME NEW k \in 1..n, NEW d \in Domains, FiledUnder(findings[k], d)
          PROVE  R(k).category = d
      <3>1. findings[k] \in RawFindings
        BY <2>1, ElementOfSeq DEF TypeOK
      <3>2. AsMapping(findings[k]) = findings[k] /\ findings[k] \in Mappings
        BY <2>3, <3>1, AsMappingTyped DEF FiledUnder
      <3>3. findings[k].rule # Unhashable
        BY <1>1, <2>1, <3>2 DEF ResolveFindings, CanResolve
      <3> QED BY <2>3, <3>2, <3>3, ResolveTyped DEF TypeOK, FiledUnder
    <2> HIDE DEF R
    <2>4. Len(resolved') = n
      BY <2>1, <2>2
    <2> QED BY <2>1, <2>2, <2>3, <2>4 DEF Kept
  <1>2. CASE ~Resolved'
    BY <1>2 DEF Kept
  <1>3. CASE Resolved /\ UNCHANGED <<findings, resolved>>
    BY <1>3 DEF Kept
  <1>4. CASE SomeDomainReports
    <2>1. \E d \in Domains : phase' = After[d]
      BY <1>4 DEF SomeDomainReports, EndsTurn, Report
    <2> QED BY <1>2, <2>1, Phased DEF Resolved, Domains
  <1>5. LoadRegistry \/ LoadRaises \/ (\E d \in Domains : StartTool(d)) \/ SchemaCheck
          \/ ResolveRaises => ~Resolved'
    BY DEF LoadRegistry, LoadRaises, StartTool, SchemaCheck, ResolveRaises, Turn, Resolved, Domains
  <1>6. Tally \/ Conclude => Resolved /\ UNCHANGED <<findings, resolved>>
    BY DEF Tally, Conclude, Resolved, domainVars
  <1> QED BY <1>1, <1>2, <1>3, <1>4, <1>5, <1>6, StepCases

LEMMA NextIInv == IInv /\ [Next]_aggVars => IInv'
PROOF
  <1>1. ASSUME IInv, Next PROVE IInv'
    BY <1>1, NextTypeOK, NextReporting, NextErrorsAreRecorded, NextFiling, NextCounting, NextKept
    DEF IInv
  <1>2. ASSUME IInv, UNCHANGED aggVars PROVE IInv'
    <2> USE <1>2 DEF IInv, aggVars, domainVars, resultVars
    <2>1. TypeOK'
      BY DEF TypeOK
    <2>2. Reporting'
      BY DEF Reporting
    <2>3. ErrorsAreRecorded'
      BY DEF ErrorsAreRecorded
    <2>4. Filing'
      BY DEF Filing, Uninjected
    <2>5. Counting' /\ Kept'
      BY DEF Counting, Kept, Resolved, Status
    <2> QED BY <2>1, <2>2, <2>3, <2>4, <2>5
  <1> QED BY <1>1, <1>2

-----------------------------------------------------------------------------
(* The theorems. *)

\* The invariant holds throughout every call of run_all_validations.
THEOREM AggregatorInvariant == Spec => []IInv
PROOF
  <1> QED BY InitIInv, NextIInv, PTL DEF Spec

\* The aggregator's variables keep their types.
THEOREM TypeCorrect == Spec => []TypeOK
PROOF
  <1>1. IInv => TypeOK
    BY DEF IInv
  <1> QED BY <1>1, AggregatorInvariant, PTL

\* Every domain in ERROR has recorded exactly one system error, and no other
\* domain has.
THEOREM ErrorsAreAllRecorded == Spec => []ErrorsAreRecorded
PROOF
  <1>1. IInv => ErrorsAreRecorded
    BY DEF IInv
  <1> QED BY <1>1, AggregatorInvariant, PTL

\* The status of a finished run is exact, and an ERROR outweighs the findings.
LEMMA StatusExact == IInv => StatusIsFailClosed
PROOF
  <1> SUFFICES ASSUME IInv, phase = "done" PROVE StatusIsFailClosed
    BY DEF StatusIsFailClosed
  <1>1. status = Status /\ tallied = Len(resolved)
    BY DEF IInv, Counting
  <1>2. DOMAIN resolved = 1..tallied
    BY <1>1, LenProperties DEF IInv, TypeOK
  <1>3. has_blocking <=> \E k \in DOMAIN resolved : resolved[k].effective = "FAIL"
    BY <1>2 DEF IInv, Counting
  <1>4. system_errors # << >> <=> \E d \in Domains : domains_status[d] = "ERROR"
    <2>1. system_errors # << >> <=> \E k \in DOMAIN system_errors : TRUE
      <3>1. system_errors \in Seq(Domains)
        BY DEF IInv, TypeOK
      <3>2. DOMAIN system_errors = 1..Len(system_errors) /\ Len(system_errors) \in Nat
        BY <3>1, LenProperties
      <3>3. system_errors # << >> <=> Len(system_errors) # 0
        BY <3>1, EmptySeq
      <3> QED BY <3>2, <3>3
    <2>2. \A k \in DOMAIN system_errors : system_errors[k] \in Domains
      BY ElementOfSeq, LenProperties DEF IInv, TypeOK
    <2> QED BY <2>1, <2>2 DEF IInv, ErrorsAreRecorded
  <1> QED BY <1>1, <1>3, <1>4 DEF StatusIsFailClosed, Status

THEOREM StatusIsExact == Spec => []StatusIsFailClosed
PROOF
  <1> QED BY StatusExact, AggregatorInvariant, PTL

\* No registry, environment or tool makes a run with a CRITICAL finding pass.
THEOREM CriticalNeverPasses == Spec => []PassedHasNoCritical
PROOF
  <1>1. ASSUME IInv, status = "PASSED" PROVE summary.critical = 0
    <2>1. phase = "done" /\ ~has_blocking
      BY <1>1 DEF IInv, Counting, Status
    <2>2. \A k \in 1..tallied : k \in DOMAIN resolved
      BY <1>1, LenProperties DEF IInv, Counting, TypeOK
    <2>3. ~(summary.critical > 0)
      BY <1>1, <2>1, <2>2 DEF IInv, Counting
    <2>4. summary.critical \in Nat
      BY <1>1 DEF IInv, TypeOK, NoSummary
    <2> QED BY <2>3, <2>4
  <1>2. IInv => PassedHasNoCritical
    BY <1>1 DEF PassedHasNoCritical
  <1> QED BY <1>2, AggregatorInvariant, PTL

-----------------------------------------------------------------------------
(* The accounts: artifacts against findings, summary against findings.  They *)
(* are statements about cardinalities, and have an invariant of their own on *)
(* top of IInv: an artifact belongs to a domain that has reported, no domain *)
(* has two, and the counts are those of the findings tallied so far.         *)

Accounted ==
  /\ \A k \in DOMAIN artifacts :
       /\ domains_status[artifacts[k].domain] # "none"
       /\ domains_status[artifacts[k].domain] # "RUN" => artifacts[k].rule_count = 0
  /\ \A j, k \in DOMAIN artifacts : artifacts[j].domain = artifacts[k].domain => j = k
  /\ Uninjected =>
       \A d \in Domains :
         /\ \A k \in Recorded(d) : Cardinality(Filed(d)) = artifacts[k].rule_count
         /\ Recorded(d) = {} => Filed(d) = {}

\* The findings among the first n whose severity is none of the four.
Unsummarised(n) == {k \in 1..n : resolved[k].severity \notin DOMAIN SummaryKey}

SeverityCounts == summary.critical + summary.high + summary.medium + summary.low

Tallied ==
  Resolved =>
    /\ summary.total_findings = Len(findings)
    /\ SeverityCounts + Cardinality(Unsummarised(tallied)) = tallied

AInv == IInv /\ Accounted /\ Tallied

\* A domain whose turn it is has neither artifacts nor, unless they were
\* injected, findings; after its turn it has those of its report.
LEMMA ReportIsAccounted ==
  ASSUME TypeOK, Reporting, Filing, Accounted, SomeDomainReports
  PROVE  Accounted'
PROOF
  <1>1. PICK d \in Domains, state \in {"RUN", "ERROR", "SKIPPED", "NOT_APPLICABLE"},
             fs \in Seq(RawFindings), evaluated \in BOOLEAN :
               EndsTurn(d, state, fs, evaluated)
    BY DEF SomeDomainReports
  <1>2. /\ phase = d
        /\ domains_status' = [domains_status EXCEPT ![d] = state]
        /\ findings' = findings \o fs
        /\ artifacts' = IF evaluated THEN Append(artifacts, [domain |-> d, rule_count |-> Len(fs)])
                        ELSE artifacts
        /\ UNCHANGED call
        /\ state # "RUN" \/ ~evaluated => fs = << >>
        /\ call.sources[d] # "injected" => \A k \in DOMAIN fs : FiledUnder(fs[k], d)
    BY <1>1 DEF EndsTurn, Report
  <1> DEFINE a == Len(artifacts)
             n == Len(findings)
             m == Len(fs)
             artifact == [domain |-> d, rule_count |-> m]
  <1>3. domains_status[d] = "none"
    BY <1>2, Phased DEF Reporting, Domains
  <1>4. \A e \in Domains : domains_status'[e] = IF e = d THEN state ELSE domains_status[e]
    BY <1>2 DEF TypeOK
  <1>5. /\ a \in Nat /\ DOMAIN artifacts = 1..a
        /\ n \in Nat /\ DOMAIN findings = 1..n
        /\ m \in Nat /\ DOMAIN fs = 1..m
    BY LenProperties DEF TypeOK
  <1>6. \A k \in 1..a : artifacts[k].domain \in Domains /\ artifacts[k].domain # d
    <2>1. \A k \in 1..a : artifacts[k] \in [domain : Domains, rule_count : Nat]
      BY <1>5, ElementOfSeq DEF TypeOK
    <2> QED BY <1>3, <1>5, <2>1 DEF Accounted
  <1>7. /\ DOMAIN artifacts' = IF evaluated THEN 1..(a + 1) ELSE 1..a
        /\ \A k \in 1..a : artifacts'[k] = artifacts[k]
        /\ evaluated => artifacts'[a + 1] = artifact
    <2>1. CASE evaluated
      <3>1. artifact \in [domain : Domains, rule_count : Nat]
        BY <1>5
      <3> HIDE DEF artifact
      <3>2. artifacts' = Append(artifacts, artifact)
        BY <1>2, <2>1 DEF artifact
      <3>3. artifacts \in Seq([domain : Domains, rule_count : Nat])
        BY DEF TypeOK
      <3> QED BY <1>5, <2>1, <3>1, <3>2, <3>3, AppendProperties, LenProperties
    <2>2. CASE ~evaluated
      BY <1>2, <1>5, <2>2
    <2> QED BY <2>1, <2>2
  <1>8. /\ DOMAIN findings' = 1..(n + m)
        /\ \A k \in 1..n : findings'[k] = findings[k]
        /\ \A k \in (n + 1)..(n + m) : findings'[k] = fs[k - n]
    BY <1>2, <1>5, ConcatProperties DEF TypeOK
  <1>9. ASSUME NEW k \in DOMAIN artifacts'
        PROVE  /\ domains_status'[artifacts'[k].domain] # "none"
               /\ domains_status'[artifacts'[k].domain] # "RUN" => artifacts'[k].rule_count = 0
    <2>1. CASE k \in 1..a
      BY <1>4, <1>5, <1>6, <1>7, <2>1 DEF Accounted
    <2>2. CASE evaluated /\ k = a + 1
      <3>1. artifacts'[k].domain = d /\ artifacts'[k].rule_count = m
        BY <1>7, <2>2
      <3>2. state # "RUN" => m = 0
        BY <1>2
      <3> QED BY <1>4, <3>1, <3>2
    <2> QED BY <1>5, <1>7, <1>9, <2>1, <2>2
  <1>10. \A j, k \in DOMAIN artifacts' : artifacts'[j].domain = artifacts'[k].domain => j = k
    <2>1. \A k \in DOMAIN artifacts' : k \in 1..a \/ (evaluated /\ k = a + 1)
      BY <1>5, <1>7
    <2>2. evaluated => artifacts'[a + 1].domain = d
      BY <1>7
    <2> QED BY <1>5, <1>6, <1>7, <2>1, <2>2 DEF Accounted
  <1>11. ASSUME Uninjected, NEW e \in Domains
         PROVE  /\ \A k \in Recorded(e)' : Cardinality(Filed(e)') = artifacts'[k].rule_count
                /\ Recorded(e)' = {} => Filed(e)' = {}
    <2>1. \A k \in 1..m : FiledUnder(fs[k], d)
      BY <1>2, <1>5, <1>11 DEF Uninjected
    <2>2. CASE e # d
      <3>1. Recorded(e)' = Recorded(e) /\ \A k \in Recorded(e) : k \in 1..a
        <4>1. evaluated => artifacts'[a + 1].domain = d
          BY <1>7
        <4> QED BY <1>5, <1>7, <2>2, <4>1 DEF Recorded
      <3>2. Filed(e)' = Filed(e)
        <4>1. \A k \in (n + 1)..(n + m) : FiledUnder(findings'[k], d)
          <5> SUFFICES ASSUME NEW k \in (n + 1)..(n + m) PROVE FiledUnder(findings'[k], d)
            OBVIOUS
          <5>1. k - n \in 1..m
            BY <1>5
          <5> QED BY <1>8, <2>1, <5>1
        <4>2. \A k : k \in 1..(n + m) <=> k \in 1..n \/ k \in (n + 1)..(n + m)
          BY <1>5
        <4> QED BY <1>5, <1>8, <2>2, <4>1, <4>2 DEF Filed, FiledUnder
      <3>3. \A k \in Recorded(e) : artifacts'[k] = artifacts[k]
        BY <1>7, <3>1
      <3> QED BY <1>11, <3>1, <3>2, <3>3 DEF Accounted
    <2>3. CASE e = d
      <3>1. Filed(d)' = (n + 1)..(n + m)
        <4>1. \A k \in 1..n : ~FiledUnder(findings'[k], d)
          <5> SUFFICES ASSUME NEW k \in 1..n, FiledUnder(findings[k], d) PROVE FALSE
            BY <1>8
          <5>1. PICK c \in Domains : FiledUnder(findings[k], c) /\ domains_status[c] = "RUN"
            BY <1>5, <1>11 DEF Filing
          <5>2. c = d
            BY <5>1 DEF FiledUnder
          <5> QED BY <1>3, <5>1, <5>2
        <4>2. \A k \in (n + 1)..(n + m) : FiledUnder(findings'[k], d)
          <5> SUFFICES ASSUME NEW k \in (n + 1)..(n + m) PROVE FiledUnder(findings'[k], d)
            OBVIOUS
          <5>1. k - n \in 1..m
            BY <1>5
          <5> QED BY <1>8, <2>1, <5>1
        <4>3. \A k : k \in 1..(n + m) <=> k \in 1..n \/ k \in (n + 1)..(n + m)
          BY <1>5
        <4> QED BY <1>8, <4>1, <4>2, <4>3 DEF Filed, FiledUnder
      <3>2. Recorded(d)' = IF evaluated THEN {a + 1} ELSE {}
        <4>1. \A k \in 1..a : artifacts'[k].domain # d
          BY <1>6, <1>7
        <4>2. evaluated => artifacts'[a + 1].domain = d
          BY <1>7
        <4>3. \A k : k \in 1..(a + 1) <=> k \in 1..a \/ k = a + 1
          BY <1>5
        <4> QED BY <1>7, <4>1, <4>2, <4>3 DEF Recorded
      <3>3. CASE evaluated
        <4>1. n + 1 \in Int /\ n + m \in Int
          BY <1>5
        <4>2. Cardinality((n + 1)..(n + m)) = IF n + 1 > n + m THEN 0 ELSE (n + m) - (n + 1) + 1
          BY <4>1, FS_Interval
        <4>3. Cardinality((n + 1)..(n + m)) = m
          BY <1>5, <4>2
        <4> QED BY <1>7, <2>3, <3>1, <3>2, <3>3, <4>3
      <3>4. CASE ~evaluated
        <4>1. m = 0
          BY <1>2, <3>4
        <4> QED BY <1>5, <2>3, <3>1, <3>2, <3>4, <4>1
      <3> QED BY <3>3, <3>4
    <2> QED BY <2>2, <2>3
  <1>12. Uninjected' = Uninjected
    BY <1>2 DEF Uninjected
  <1> QED BY <1>9, <1>10, <1>11, <1>12 DEF Accounted

LEMMA NextAccounted ==
  ASSUME TypeOK, Reporting, Filing, Accounted, Next
  PROVE  Accounted'
PROOF
  <1>1. CASE UNCHANGED <<call, domains_status, findings, artifacts>>
    BY <1>1 DEF Accounted, Uninjected, Recorded, Filed
  <1>2. LoadRegistry \/ LoadRaises \/ (\E d \in Domains : StartTool(d)) \/ SchemaCheck
          \/ ResolveFindings \/ ResolveRaises \/ Tally \/ Conclude
            => UNCHANGED <<call, domains_status, findings, artifacts>>
    BY DEF LoadRegistry, LoadRaises, StartTool, SchemaCheck, ResolveFindings, ResolveRaises,
           Tally, Conclude, domainVars
  <1> QED BY <1>1, <1>2, ReportIsAccounted, StepCases

\* One more finding is counted, under its severity or among those of none.
LEMMA NextTallied ==
  ASSUME IInv, Tallied, Next
  PROVE  Tallied'
PROOF
  <1> USE DEF IInv
  <1>1. CASE Tally
    <2> DEFINE f == resolved[tallied + 1]
               odd == Unsummarised(tallied)
    <2>1. /\ phase = "tally" /\ tallied' = tallied + 1
          /\ summary' = IF f.severity \in DOMAIN SummaryKey
                        THEN [summary EXCEPT ![SummaryKey[f.severity]] = @ + 1]
                        ELSE summary
          /\ UNCHANGED <<findings, resolved>>
      BY <1>1 DEF Tally, domainVars
    <2>2. /\ summary.total_findings = Len(findings)
          /\ SeverityCounts + Cardinality(odd) = tallied
      BY <2>1 DEF Tallied, Resolved
    <2>3. tallied \in Nat /\ summary \in [DOMAIN NoSummary -> Nat]
      BY DEF TypeOK
    <2>4. IsFiniteSet(odd) /\ Cardinality(odd) \in Nat /\ tallied + 1 \notin odd
      <3>1. IsFiniteSet(1..tallied) /\ odd \in SUBSET (1..tallied)
        BY <2>3, FS_Interval DEF Unsummarised
      <3> QED BY <2>3, <3>1, FS_Subset, FS_CardinalityType
    <2>5. Unsummarised(tallied)' =
            IF f.severity \in DOMAIN SummaryKey THEN odd ELSE odd \cup {tallied + 1}
      <3>1. \A k : k \in 1..(tallied + 1) <=> k \in 1..tallied \/ k = tallied + 1
        BY <2>3
      <3> QED BY <2>1, <3>1 DEF Unsummarised
    <2>6. /\ summary.critical \in Nat /\ summary.high \in Nat
          /\ summary.medium \in Nat /\ summary.low \in Nat
      BY <2>3 DEF NoSummary
    <2>7. CASE f.severity \in DOMAIN SummaryKey
      <3>1. f.severity \in {"CRITICAL", "HIGH", "MEDIUM", "LOW"}
        BY <2>7 DEF SummaryKey
      <3>2. /\ summary'.total_findings = summary.total_findings
            /\ SeverityCounts' = SeverityCounts + 1
        BY <2>1, <2>3, <2>6, <2>7, <3>1 DEF SeverityCounts, SummaryKey, NoSummary
      <3>3. Unsummarised(tallied)' = odd
        BY <2>5, <2>7
      <3>4. SeverityCounts \in Nat
        BY <2>6 DEF SeverityCounts
      <3> HIDE DEF f, odd
      <3>5. SeverityCounts' + Cardinality(odd) = tallied'
        BY <2>1, <2>2, <2>3, <2>4, <3>2, <3>4
      <3> QED BY <2>1, <2>2, <3>2, <3>3, <3>5 DEF Tallied
    <2>8. CASE f.severity \notin DOMAIN SummaryKey
      <3>1. Cardinality(Unsummarised(tallied)') = Cardinality(odd) + 1
        BY <2>4, <2>5, <2>8, FS_AddElement
      <3>2. summary' = summary /\ SeverityCounts' = SeverityCounts
        BY <2>1, <2>8 DEF SeverityCounts
      <3>3. SeverityCounts \in Nat
        BY <2>6 DEF SeverityCounts
      <3> HIDE DEF f, odd
      <3>4. SeverityCounts' + Cardinality(Unsummarised(tallied)') = tallied'
        BY <2>1, <2>2, <2>3, <2>4, <3>1, <3>2, <3>3
      <3> QED BY <2>1, <2>2, <3>2, <3>4 DEF Tallied
    <2> QED BY <2>7, <2>8
  <1>2. CASE ResolveFindings
    <2>1. /\ tallied' = 0 /\ findings' = findings
          /\ summary' = [NoSummary EXCEPT !.total_findings = Len(findings)]
      BY <1>2 DEF ResolveFindings, domainVars, Counting, Resolved
    <2>2. Unsummarised(tallied)' = {}
      BY <2>1 DEF Unsummarised
    <2>3. SeverityCounts' = 0 /\ summary'.total_findings = Len(findings)
      BY <2>1 DEF SeverityCounts, NoSummary
    <2>4. Cardinality(Unsummarised(tallied)') = 0
      BY <2>2, FS_EmptySet
    <2> QED BY <2>1, <2>3, <2>4 DEF Tallied
  <1>3. CASE Conclude
    BY <1>3 DEF Conclude, domainVars, Tallied, Resolved, SeverityCounts, Unsummarised
  <1>4. CASE ~Resolved'
    BY <1>4 DEF Tallied
  <1>5. CASE SomeDomainReports
    <2>1. \E d \in Domains : phase' = After[d]
      BY <1>5 DEF SomeDomainReports, EndsTurn, Report
    <2> QED BY <1>4, <2>1, Phased DEF Resolved, Domains
  <1>6. LoadRegistry \/ LoadRaises \/ (\E d \in Domains : StartTool(d)) \/ SchemaCheck
          \/ ResolveRaises => ~Resolved'
    BY DEF LoadRegistry, LoadRaises, StartTool, SchemaCheck, ResolveRaises, Turn, Resolved, Domains
  <1> QED BY <1>1, <1>2, <1>3, <1>4, <1>5, <1>6, StepCases

\* The accounts are kept throughout every call of run_all_validations.
THEOREM AccountsAreKept == Spec => []AInv
PROOF
  <1>1. Init => AInv
    <2> SUFFICES ASSUME Init PROVE AInv
      OBVIOUS
    <2>1. DOMAIN artifacts = {} /\ DOMAIN findings = {} /\ phase = "registry"
      BY DEF Init, Fresh
    <2>2. Accounted /\ Tallied
      BY <2>1 DEF Accounted, Recorded, Filed, Tallied, Resolved
    <2> QED BY <2>2, InitIInv DEF AInv
  <1>2. AInv /\ [Next]_aggVars => AInv'
    <2>1. ASSUME AInv, Next PROVE AInv'
      BY <2>1, NextIInv, NextAccounted, NextTallied DEF AInv, IInv
    <2>2. ASSUME AInv, UNCHANGED aggVars PROVE AInv'
      <3>1. IInv'
        BY <2>2, NextIInv DEF AInv
      <3>2. Accounted' /\ Tallied'
        BY <2>2 DEF AInv, aggVars, domainVars, resultVars, Accounted, Uninjected, Recorded, Filed,
                    Tallied, Resolved, SeverityCounts, Unsummarised
      <3> QED BY <3>1, <3>2 DEF AInv
    <2> QED BY <2>1, <2>2
  <1> QED BY <1>1, <1>2, PTL DEF Spec

\* Every domain has at most one artifact, and its rule_count is the number of
\* the findings filed under it, which are none if it broke or was skipped.
THEOREM ArtifactsAreAccounts == Spec => []ArtifactsAccountForFindings
PROOF
  <1>1. ASSUME AInv, NEW d \in Domains
        PROVE  Cardinality(Recorded(d)) <= 1
    <2>1. CASE Recorded(d) = {}
      BY <2>1, FS_EmptySet
    <2>2. ASSUME NEW k \in Recorded(d)
          PROVE  Cardinality(Recorded(d)) <= 1
      <3>1. Recorded(d) = {k}
        BY <1>1, <2>2 DEF AInv, Accounted, Recorded
      <3> QED BY <3>1, FS_Singleton
    <2> QED BY <2>1, <2>2
  <1>2. AInv => ArtifactsAccountForFindings
    BY <1>1 DEF ArtifactsAccountForFindings, AInv, Accounted, Uninjected, Recorded
  <1> QED BY <1>2, AccountsAreKept, PTL

\* What the four counts of the summary leave out are exactly the findings of
\* a severity that is none of the four.
THEOREM SummaryIsAccount == Spec => []SummaryAccountsForFindings
PROOF
  <1>1. ASSUME AInv, phase = "done"
        PROVE  /\ summary.total_findings = Len(findings)
               /\ SeverityCounts + Cardinality({k \in DOMAIN resolved :
                                          resolved[k].severity \notin DOMAIN SummaryKey})
                  = summary.total_findings
    <2>1. tallied = Len(resolved) /\ Len(resolved) = Len(findings)
      BY <1>1 DEF AInv, IInv, Counting, Kept, Resolved
    <2>2. DOMAIN resolved = 1..tallied
      BY <1>1, <2>1, LenProperties DEF AInv, IInv, TypeOK
    <2> QED BY <1>1, <2>1, <2>2 DEF AInv, Tallied, Resolved, Unsummarised
  <1>2. AInv => SummaryAccountsForFindings
    BY <1>1 DEF SummaryAccountsForFindings, SeverityCounts
  <1> QED BY <1>2, AccountsAreKept, PTL

=============================================================================
