--------------------------- MODULE AggregatorMain ---------------------------
(***************************************************************************)
(* main of validators/run_all.py around run_all_validations: it loads the  *)
(* rule registry for the SARIF report, calls run_all_validations, which    *)
(* loads it again, writes the reports that were asked for, and turns the   *)
(* status into an exit status.  Callers of the function itself (the gate,  *)
(* the tests) have none of this.                                           *)
(***************************************************************************)
EXTENDS Aggregator

CONSTANT
  Listings     \* what the first load of the registry may return

\* --sarif and --output of the command line; a caller of the function has
\* neither.
Api == [cli |-> FALSE, sarif |-> FALSE, output |-> FALSE]

Options == {Api} \cup [cli : {TRUE}, sarif : BOOLEAN, output : BOOLEAN]

ASSUME ListingsAssumption ==
  \A r \in Listings : DOMAIN r \subseteq Rules /\ r \in [DOMAIN r -> Meta]

VARIABLES
  options,  \* what the command line asks for, if there is one
  step,     \* where main is
  listing,  \* the registry of the first load
  sarif,    \* how complete the SARIF report is, its rules and its results
  output,   \* the JSON report: "none", "partial" or "complete"
  exit      \* the exit status, "running" before there is one

mainVars == <<options, step, listing, sarif, output, exit>>
allVars == <<aggVars, mainVars>>

NoSarif(state) == [state |-> state, rules |-> {}, results |-> {}]

MainInit ==
  /\ Init
  /\ options \in Options
  /\ step = "load"
  /\ listing = [r \in {} |-> Absent]
  /\ sarif = NoSarif("none")
  /\ output = "none"
  /\ exit = "running"

Main == options.cli /\ exit = "running"

\* main ends with exit status s.
ExitWith(s) ==
  /\ exit' = s
  /\ UNCHANGED <<aggVars, options, step, listing>>

-----------------------------------------------------------------------------
\* There is no spec file, or a --schema-check without "=".
BadArguments ==
  /\ Main
  /\ step = "load"
  /\ ExitWith("2")
  /\ UNCHANGED <<sarif, output>>

\* The registry as the SARIF report will list it.
ListRules ==
  /\ Main
  /\ step = "load"
  /\ listing' \in Listings
  /\ step' = "call"
  /\ UNCHANGED <<aggVars, options, sarif, output, exit>>

\* An exception: load_registry raises, or run_all_validations has raised.
Traceback ==
  /\ Main
  /\ step = "load" \/ phase = "raised"
  /\ ExitWith("1")
  /\ UNCHANGED <<sarif, output>>

\* run_all_validations, called by main or by somebody else.
Validate ==
  /\ options.cli => step = "call"
  /\ OwnStep
  /\ UNCHANGED mainVars

ValidateTool ==
  /\ options.cli => step = "call"
  /\ ToolStep
  /\ UNCHANGED mainVars

-----------------------------------------------------------------------------
\* Slip: the level follows the tool's gate behaviour.
LevelByBehavior(f) == IF f.gate_behavior = "FAIL" THEN "error" ELSE "warning"

Level(f) == IF f.severity \in {"CRITICAL", "HIGH"} THEN "error" ELSE "warning"

\* One result per finding, identified by its place, next to the rules of the
\* first load.
Sarif ==
  [state |-> "complete",
   rules |-> DOMAIN listing,
   results |-> {[at |-> k, level |-> Level(resolved[k])] : k \in DOMAIN resolved}]

WriteSarif ==
  /\ Main
  /\ step = "call"
  /\ phase = "done"
  /\ sarif' = IF options.sarif THEN Sarif ELSE sarif
  /\ step' = "output"
  /\ UNCHANGED <<aggVars, options, listing, output, exit>>

\* The path cannot be opened, or a value of the registry cannot be written as
\* JSON (YAML reads dates as dates) and the file ends in the middle.
SarifRaises ==
  /\ Main
  /\ step = "call"
  /\ phase = "done"
  /\ options.sarif
  /\ sarif' \in {NoSarif("none"), NoSarif("partial")}
  /\ ExitWith("1")
  /\ UNCHANGED output

WriteOutput ==
  /\ Main
  /\ step = "output"
  /\ output' = IF options.output THEN "complete" ELSE output
  /\ step' = "exit"
  /\ UNCHANGED <<aggVars, options, listing, sarif, exit>>

OutputRaises ==
  /\ Main
  /\ step = "output"
  /\ options.output
  /\ output' \in {"none", "partial"}
  /\ ExitWith("1")
  /\ UNCHANGED sarif

\* Slip: only findings fail the command.
ErrorsExitZero == IF status = "FAILED" THEN "1" ELSE "0"

ExitStatus == CASE status = "ERROR" -> "2" [] status = "FAILED" -> "1" [] OTHER -> "0"

Exit ==
  /\ Main
  /\ step = "exit"
  /\ ExitWith(ExitStatus)
  /\ UNCHANGED <<sarif, output>>

MainStep ==
  \/ BadArguments
  \/ ListRules
  \/ Traceback
  \/ Validate
  \/ WriteSarif
  \/ SarifRaises
  \/ WriteOutput
  \/ OutputRaises
  \/ Exit

MainNext == MainStep \/ ValidateTool

\* As in Aggregator: the process keeps running, its tools owe it nothing.
MainSpec == MainInit /\ [][MainNext]_allVars /\ WF_allVars(MainStep)

-----------------------------------------------------------------------------
(* Properties. *)

Blocking == {k \in DOMAIN resolved : resolved[k].effective = "FAIL"}

Reported == sarif.state = "complete"

\* Exit status 0 means that every domain that was asked for was evaluated, that
\* no finding blocks, and that every report that was asked for is complete;
\* and nothing but that ends in 0. Status 2 is kept for a call that evaluated
\* less than it was asked for: it never stands for findings alone.
ExitStatusIsExact ==
  /\ exit = "0" =>
       /\ \A d \in Domains : domains_status[d] \in {"RUN", "SKIPPED", "NOT_APPLICABLE"}
       /\ Blocking = {}
       /\ options.sarif => Reported
       /\ options.output => output = "complete"
  /\ exit = "2" =>
       phase = "registry" \/ \E d \in Domains : domains_status[d] = "ERROR"

\* Where the SARIF report and the exit status can disagree: a call that fails
\* for its findings shows an error-level result, or else what blocks are
\* findings that the registry rates below HIGH and yet lets fail (or in words
\* that are no severity); a CRITICAL or HIGH finding is never shown as less.
\* And unless the registry changed between the two loads, the report lists
\* every catalogued rule that it names.
SarifShowsBlockers ==
  Reported =>
    /\ status = "FAILED" =>
         \/ \E r \in sarif.results : r.level = "error"
         \/ \A k \in Blocking :
              /\ resolved[k].rule \in DOMAIN registry
              /\ resolved[k].severity \notin {"CRITICAL", "HIGH"}
    /\ \A k \in DOMAIN resolved :
         \E r \in sarif.results :
           r.at = k /\ (resolved[k].severity \in {"CRITICAL", "HIGH"} <=> r.level = "error")
    /\ listing = registry =>
         \A r \in sarif.results :
           resolved[r.at].rule \in DOMAIN registry => resolved[r.at].rule \in sarif.rules

\* run_all_validations ends, even if neither Spectral nor OPA ever answers,
\* and so does main.
Ends == <>(IF options.cli THEN exit # "running" ELSE phase \in {"done", "raised"})

=============================================================================
