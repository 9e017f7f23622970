------------------------ MODULE AggregatorMainProofs ------------------------
(***************************************************************************)
(* main of validators/run_all.py, proved for every command line, every two *)
(* registries that the two loads may return and every behaviour of the     *)
(* tools and of the file system: what its exit status says, and how the    *)
(* SARIF report and the exit status can disagree.                          *)
(*                                                                         *)
(* main moves the aggregator only by the aggregator's own steps, so the    *)
(* invariant of AggregatorProofs carries over.  Course says what has       *)
(* happened by each step of main, and Graded what the severity of a        *)
(* blocking finding can be.                                                *)
(***************************************************************************)
EXTENDS AggregatorMain, AggregatorProofs

Course ==
  /\ options \in Options /\ step \in {"load", "call", "output", "exit"}
  /\ ~options.cli => step = "load" /\ exit = "running" /\ ~Reported
  /\ options.cli /\ step = "load" => phase = "registry"
  /\ step \in {"output", "exit"} => phase = "done" /\ (options.sarif => Reported)
  /\ Reported => step \in {"output", "exit"} /\ sarif = Sarif
  /\ step = "exit" /\ options.output => output = "complete"
  /\ exit = "0" => step = "exit" /\ status = "PASSED"
  /\ exit = "2" => options.cli /\ (step = "load" \/ (step = "exit" /\ status = "ERROR"))

\* Only the registry can make a finding below HIGH block.
Graded ==
  \A k \in DOMAIN resolved :
    resolved[k].effective = "FAIL" /\ resolved[k].rule \notin DOMAIN registry =>
      resolved[k].severity \in {"CRITICAL", "HIGH"}

MInv == IInv /\ Course /\ Graded

-----------------------------------------------------------------------------
(* main and the aggregator. *)

LEMMA MainMovesAggregator == MainNext => [Next]_aggVars
PROOF
  BY DEF MainNext, MainStep, BadArguments, ListRules, Traceback, Validate, ValidateTool, WriteSarif,
         SarifRaises, WriteOutput, OutputRaises, Exit, ExitWith, Next

\* The aggregator under main is the aggregator: it starts like it and makes
\* no step that the function would not make for another caller.
THEOREM MainRunsAggregator == MainSpec => Init /\ [][Next]_aggVars
PROOF
  <1>1. MainInit => Init
    BY DEF MainInit
  <1>2. [MainNext]_allVars => [Next]_aggVars
    BY MainMovesAggregator DEF allVars
  <1> QED BY <1>1, <1>2, PTL DEF MainSpec

-----------------------------------------------------------------------------
(* The severity of what blocks. *)

\* A finding whose rule the registry does not list blocks by its severity.
LEMMA UnlistedBlocksBySeverity ==
  ASSUME NEW f \in Mappings, NEW env,
         NEW reg, DOMAIN reg \subseteq Rules, reg \in [DOMAIN reg -> Meta],
         f.rule \notin DOMAIN reg, Resolve(f, reg, env).effective = "FAIL"
  PROVE  Resolve(f, reg, env).severity \in {"CRITICAL", "HIGH"}
PROOF
  <1> DEFINE severity == Severity(f, reg)
             behavior == GateBehavior(f, reg)
  <1>1. severity \in DOMAIN DefaultGateBehavior /\ behavior = DefaultGateBehavior[severity]
    BY SeverityTyped DEF GateBehavior, Registered
  <1>2. Resolve(f, reg, env).severity = severity /\ Effective(severity, behavior, env) = "FAIL"
    BY DEF Resolve
  <1>3. severity = "CRITICAL" \/ behavior = "FAIL"
    BY <1>2 DEF Effective
  <1> QED BY <1>1, <1>2, <1>3 DEF DefaultGateBehavior

LEMMA NextGraded ==
  ASSUME IInv, Graded, Next
  PROVE  Graded'
PROOF
  <1> USE DEF IInv
  <1>1. CASE ResolveFindings
    <2>1. /\ registry' = registry
          /\ resolved' = [k \in DOMAIN findings |->
                            Resolve(AsMapping(findings[k]), registry, call.environment)]
      BY <1>1 DEF ResolveFindings
    <2>2. DOMAIN registry \subseteq Rules /\ registry \in [DOMAIN registry -> Meta]
      BY DEF TypeOK
    <2>3. ASSUME NEW k \in DOMAIN findings
          PROVE  AsMapping(findings[k]) \in Mappings
      <3>1. findings[k] \in RawFindings
        BY <2>3, ElementOfSeq, LenProperties DEF TypeOK
      <3> QED BY <3>1, AsMappingTyped
    <2>4. ASSUME NEW k \in DOMAIN resolved', resolved'[k].effective = "FAIL",
                 resolved'[k].rule \notin DOMAIN registry
          PROVE  resolved'[k].severity \in {"CRITICAL", "HIGH"}
      <3> DEFINE f == AsMapping(findings[k])
      <3>1. f \in Mappings /\ resolved'[k] = Resolve(f, registry, call.environment)
        BY <2>1, <2>3, <2>4
      <3>2. Resolve(f, registry, call.environment).rule = f.rule
        BY DEF Resolve
      <3> QED BY <2>2, <2>4, <3>1, <3>2, UnlistedBlocksBySeverity
    <2> QED BY <2>1, <2>4 DEF Graded
  <1>2. CASE UNCHANGED <<registry, resolved>>
    BY <1>2 DEF Graded
  <1>3. CASE LoadRegistry
    BY <1>3 DEF LoadRegistry, resultVars, Counting, Resolved, Graded
  <1>4. LoadRaises \/ (\E d \in Domains : StartTool(d)) \/ SchemaCheck \/ ResolveRaises
          \/ Tally \/ Conclude => UNCHANGED <<registry, resolved>>
    BY DEF LoadRaises, StartTool, SchemaCheck, ResolveRaises, Tally, Conclude, resultVars
  <1>5. SomeDomainReports => UNCHANGED <<registry, resolved>>
    BY DEF SomeDomainReports, EndsTurn, Report, resultVars
  <1> QED BY <1>1, <1>2, <1>3, <1>4, <1>5, StepCases

-----------------------------------------------------------------------------
(* The invariant. *)

LEMMA InitMInv == MainInit => MInv
PROOF
  <1> SUFFICES ASSUME MainInit PROVE MInv
    OBVIOUS
  <1>1. IInv
    BY InitIInv DEF MainInit
  <1>2. Course
    BY DEF MainInit, Init, Fresh, Course, Reported, NoSarif
  <1>3. Graded
    <2>1. DOMAIN resolved = {}
      BY DEF MainInit, Init, Fresh
    <2> QED BY <2>1 DEF Graded
  <1> QED BY <1>1, <1>2, <1>3 DEF MInv

\* While the aggregator runs, main waits in step "call", or there is no main.
LEMMA NextCourse ==
  ASSUME IInv, Course, MainNext
  PROVE  Course'
PROOF
  <1> USE DEF Course, Main, ExitWith, Reported
  <1>1. ASSUME UNCHANGED aggVars
        PROVE  UNCHANGED <<phase, status, resolved>>
    BY <1>1 DEF aggVars, resultVars
  <1>2. CASE BadArguments
    BY <1>1, <1>2 DEF BadArguments, Sarif
  <1>3. CASE ListRules
    BY <1>1, <1>3 DEF ListRules
  <1>4. CASE Traceback
    BY <1>1, <1>4 DEF Traceback, Sarif
  <1>5. CASE Validate \/ ValidateTool
    <2>1. UNCHANGED mainVars /\ (options.cli => step = "call")
      BY <1>5 DEF Validate, ValidateTool
    <2> QED BY <2>1 DEF mainVars
  <1>6. CASE WriteSarif
    <2>1. /\ step = "call" /\ step' = "output" /\ phase' = "done" /\ options' = options
          /\ sarif' = IF options.sarif THEN Sarif ELSE sarif
          /\ UNCHANGED <<listing, resolved, exit, output, status>>
      BY <1>1, <1>6 DEF WriteSarif
    <2>2. Sarif' = Sarif
      BY <2>1 DEF Sarif
    <2>3. Sarif.state = "complete" /\ sarif.state # "complete"
      BY <2>1 DEF Sarif
    <2> QED BY <1>6, <2>1, <2>2, <2>3 DEF WriteSarif
  <1>7. CASE SarifRaises
    <2>1. sarif'.state # "complete"
      BY <1>7 DEF SarifRaises, NoSarif
    <2> QED BY <1>1, <1>7, <2>1 DEF SarifRaises
  <1>8. CASE WriteOutput
    BY <1>1, <1>8 DEF WriteOutput, Sarif
  <1>9. CASE OutputRaises
    BY <1>1, <1>9 DEF OutputRaises, Sarif
  <1>10. CASE Exit
    <2>1. step = "exit" /\ phase = "done" /\ exit' = ExitStatus
      BY <1>10 DEF Exit
    <2>2. status \in {"PASSED", "FAILED", "ERROR"}
      BY <2>1 DEF IInv, Counting, Status
    <2>3. /\ exit' = "0" => status = "PASSED"
          /\ exit' = "2" => status = "ERROR"
      BY <2>1, <2>2 DEF ExitStatus
    <2> QED BY <1>1, <1>10, <2>1, <2>3 DEF Exit, Sarif
  <1> QED BY <1>2, <1>3, <1>4, <1>5, <1>6, <1>7, <1>8, <1>9, <1>10 DEF MainNext, MainStep

LEMMA NextMInv == MInv /\ [MainNext]_allVars => MInv'
PROOF
  <1>1. ASSUME MInv, MainNext PROVE MInv'
    <2>1. [Next]_aggVars
      BY <1>1, MainMovesAggregator
    <2>2. IInv'
      BY <1>1, <2>1, NextIInv DEF MInv
    <2>3. Graded'
      <3>1. UNCHANGED aggVars => UNCHANGED <<registry, resolved>>
        BY DEF aggVars, resultVars
      <3>2. UNCHANGED <<registry, resolved>> => Graded'
        BY <1>1 DEF MInv, Graded
      <3> QED BY <1>1, <2>1, <3>1, <3>2, NextGraded DEF MInv
    <2> QED BY <1>1, <2>2, <2>3, NextCourse DEF MInv
  <1>2. ASSUME MInv, UNCHANGED allVars PROVE MInv'
    <2>1. UNCHANGED aggVars /\ UNCHANGED mainVars
      BY <1>2 DEF allVars
    <2>2. IInv'
      BY <1>2, <2>1, NextIInv DEF MInv
    <2>3. Course' /\ Graded'
      BY <1>2, <2>1 DEF MInv, Course, Graded, Reported, Sarif, mainVars, aggVars, resultVars
    <2> QED BY <2>2, <2>3 DEF MInv
  <1> QED BY <1>1, <1>2

THEOREM MainInvariant == MainSpec => []MInv
PROOF
  <1> QED BY InitMInv, NextMInv, PTL DEF MainSpec

-----------------------------------------------------------------------------
(* The theorems. *)

\* Exit status 0 means that all was evaluated, that nothing blocks and that the
\* reports are complete; 2 that something was not evaluated.
THEOREM ExitIsExact == MainSpec => []ExitStatusIsExact
PROOF
  <1>1. ASSUME MInv, exit = "0"
        PROVE  /\ \A d \in Domains : domains_status[d] \in {"RUN", "SKIPPED", "NOT_APPLICABLE"}
               /\ Blocking = {}
               /\ options.sarif => Reported
               /\ options.output => output = "complete"
    <2>1. step = "exit" /\ status = "PASSED" /\ phase = "done"
      BY <1>1 DEF MInv, Course
    <2>2. /\ \A d \in Domains : domains_status[d] # "ERROR"
          /\ \A k \in DOMAIN resolved : resolved[k].effective # "FAIL"
      BY <1>1, <2>1, StatusExact DEF MInv, StatusIsFailClosed
    <2>3. \A d \in Domains : domains_status[d] # "none"
      BY <1>1, <2>1, Phased DEF MInv, IInv, Reporting
    <2>4. domains_status \in [Domains -> {"none", "RUN", "ERROR", "SKIPPED", "NOT_APPLICABLE"}]
      BY <1>1 DEF MInv, IInv, TypeOK
    <2> QED BY <1>1, <2>1, <2>2, <2>3, <2>4 DEF MInv, Course, Blocking
  <1>2. ASSUME MInv, exit = "2"
        PROVE  phase = "registry" \/ \E d \in Domains : domains_status[d] = "ERROR"
    <2>1. CASE step = "load"
      BY <1>2, <2>1 DEF MInv, Course
    <2>2. CASE step = "exit" /\ status = "ERROR"
      BY <1>2, <2>2, StatusExact DEF MInv, Course, StatusIsFailClosed
    <2> QED BY <1>2, <2>1, <2>2 DEF MInv, Course
  <1>3. MInv => ExitStatusIsExact
    BY <1>1, <1>2 DEF ExitStatusIsExact
  <1> QED BY <1>3, MainInvariant, PTL

\* A complete SARIF report shows what fails the call at the error level, or
\* else the registry itself rates it lower.
THEOREM SarifIsHonest == MainSpec => []SarifShowsBlockers
PROOF
  <1>1. ASSUME MInv, Reported
        PROVE  SarifShowsBlockers
    <2>1. sarif = Sarif /\ phase = "done"
      BY <1>1 DEF MInv, Course
    <2> DEFINE At(k) == [at |-> k, level |-> Level(resolved[k])]
    <2>2. /\ sarif.rules = DOMAIN listing
          /\ sarif.results = {At(k) : k \in DOMAIN resolved}
      BY <2>1 DEF Sarif
    <2>3. \A k \in DOMAIN resolved :
            /\ At(k) \in sarif.results /\ At(k).at = k
            /\ resolved[k].severity \in {"CRITICAL", "HIGH"} <=> At(k).level = "error"
      BY <2>2 DEF Level
    <2>4. \A r \in sarif.results : r.at \in DOMAIN resolved
      BY <2>2
    <2>5. ASSUME \A r \in sarif.results : r.level # "error", NEW k \in Blocking
          PROVE  /\ resolved[k].rule \in DOMAIN registry
                 /\ resolved[k].severity \notin {"CRITICAL", "HIGH"}
      <3>1. k \in DOMAIN resolved /\ resolved[k].effective = "FAIL"
        BY <2>5 DEF Blocking
      <3>2. resolved[k].severity \notin {"CRITICAL", "HIGH"}
        BY <2>3, <2>5, <3>1
      <3> QED BY <1>1, <3>1, <3>2 DEF MInv, Graded
    <2> HIDE DEF At
    <2> QED BY <2>2, <2>3, <2>4, <2>5 DEF SarifShowsBlockers
  <1>2. MInv => SarifShowsBlockers
    BY <1>1 DEF SarifShowsBlockers
  <1> QED BY <1>2, MainInvariant, PTL

=============================================================================
