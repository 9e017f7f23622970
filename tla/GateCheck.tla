----------------------------- MODULE GateCheck -----------------------------
(***************************************************************************)
(* run_gate_check of src/cli.py: the gate that a pull request has to pass. *)
(* It loads the gate policy, runs the aggregator (module Aggregator, whose *)
(* steps are steps of this module), turns each domain's outcome into a     *)
(* validator result, optionally adds the identity-contract validator,      *)
(* lets the decision engine decide (module GateVerdict), saves the         *)
(* evidence chain, publishes outputs for the workflow, and exits.          *)
(*                                                                         *)
(* An exception that nothing catches ends the process with exit status 1,  *)
(* like BLOCK; a run can also be killed between any two steps.             *)
(***************************************************************************)
EXTENDS Aggregator, GateVerdict

CONSTANTS
  Requests,      \* options besides those of the aggregator
  PolicyFiles,   \* what the policy file may contain
  Reasons        \* how many violations the identity contract may report

ASSUME RequestsAssumption ==
  /\ Requests \subseteq [identity : BOOLEAN, github : BOOLEAN]
  /\ PolicyFiles \subseteq Policies
  /\ Reasons \subseteq Nat \ {0}
  /\ {"spectral", "opa", "schema", "traceability", "identity-contract"} \subseteq Validators
  \* run_gate_check injects nothing and has no security or governance option.
  /\ \A c \in Calls : \A d \in Domains :
       /\ c.sources[d] # "injected"
       /\ d \in {"security", "governance"} => c.sources[d] = "skipped"

VARIABLES
  step,        \* where run_gate_check is
  request,     \* its options
  gatePolicy,  \* the policy loaded from gate_policy.yaml
  results,     \* the validator results
  crashed,     \* the identity-contract validator hit an unexpected error
  decision,    \* the engine's decision, "none" before there is one
  file,        \* the evidence file of this run
  outputs,     \* the lines appended to $GITHUB_OUTPUT
  exit         \* "running", then the exit status, or "killed"

gateVars == <<step, request, gatePolicy, results, crashed, decision, file, outputs, exit>>
vars == <<aggVars, gateVars>>

Steps == {"policy", "validate", "identity", "decide", "evidence", "save", "write",
          "publish", "exit", "ended"}

GateInit ==
  /\ Init
  /\ step = "policy"
  /\ request \in Requests
  /\ gatePolicy = NotADict
  /\ results = << >>
  /\ crashed = FALSE
  /\ decision = "none"
  /\ file = [state |-> "absent", results |-> << >>, decision |-> "none"]
  /\ outputs = [result |-> "none", count |-> 0]
  /\ exit = "running"

At(s) == exit = "running" /\ step = s

\* An exception reaches the top of the process.
Traceback ==
  /\ exit' = "1"
  /\ step' = "ended"
  /\ UNCHANGED <<aggVars, request, gatePolicy, results, crashed, decision, file, outputs>>

-----------------------------------------------------------------------------
(* Policy and validation. *)

LoadPolicy ==
  /\ At("policy")
  /\ gatePolicy' \in PolicyFiles
  /\ step' = "validate"
  /\ UNCHANGED <<aggVars, request, results, crashed, decision, file, outputs, exit>>

\* The file is missing or is not YAML: caught, and answered with return 1.
PolicyUnreadable == At("policy") /\ Traceback

Validate ==
  /\ At("validate")
  /\ Next
  /\ UNCHANGED gateVars

ValidateRaises == At("validate") /\ phase = "raised" /\ Traceback

-----------------------------------------------------------------------------
(* The validator results. *)

\* Slip: traceability is looked up under the category of the line above.
SchemaTwice == <<[name |-> "spectral", category |-> "openapi"],
                 [name |-> "opa", category |-> "policy"],
                 [name |-> "schema", category |-> "schema"],
                 [name |-> "traceability", category |-> "schema"]>>

\* _DOMAINS.
GateDomains == <<[name |-> "spectral", category |-> "openapi"],
                 [name |-> "opa", category |-> "policy"],
                 [name |-> "schema", category |-> "schema"],
                 [name |-> "traceability", category |-> "traceability"]>>

InCategory(c) == {k \in DOMAIN resolved : resolved[k].category = c}

Blocking(c) == {k \in InCategory(c) : resolved[k].effective = "FAIL"}

\* Slip: a domain that was not evaluated is judged by its findings, of which
\* there are none.
StateFromFindings(c) == IF Blocking(c) # {} THEN "FAIL" ELSE "PASS"

\* _domain_result: only a domain that ran is judged by its findings.
DomainState(c) ==
  IF domains_status[c] # "RUN" THEN domains_status[c]
  ELSE IF Blocking(c) # {} THEN "FAIL" ELSE "PASS"

\* Slip: the count is that of all findings of the domain.
CountAllFindings(v) ==
  [validator |-> v.name, state |-> DomainState(v.category),
   count |-> IF DomainState(v.category) = "FAIL" THEN Cardinality(InCategory(v.category)) ELSE 0,
   listed |-> InCategory(v.category)]

\* The result of one domain, with the number of its blocking findings and
\* the findings that the evidence will list for it.
DomainResult(v) ==
  [validator |-> v.name, state |-> DomainState(v.category),
   count |-> IF DomainState(v.category) = "FAIL" THEN Cardinality(Blocking(v.category)) ELSE 0,
   listed |-> InCategory(v.category)]

DomainResults ==
  /\ At("validate")
  /\ phase = "done"
  /\ results' = [i \in DOMAIN GateDomains |-> DomainResult(GateDomains[i])]
  /\ step' = "identity"
  /\ UNCHANGED <<aggVars, request, gatePolicy, crashed, decision, file, outputs, exit>>

\* The identity-contract result ends in a state with so many reasons.
Identity(state, reasons) ==
  /\ results' = Append(results, [validator |-> "identity-contract", state |-> state,
                                 count |-> reasons, listed |-> 1..reasons])
  /\ step' = "decide"
  /\ UNCHANGED <<aggVars, request, gatePolicy, decision, file, outputs, exit>>

IdentitySkipped ==
  /\ At("identity")
  /\ ~request.identity
  /\ Identity("SKIPPED", 0)
  /\ UNCHANGED crashed

\* The validator cannot be imported, or run_check raises.
IdentityBreaks ==
  /\ At("identity")
  /\ request.identity
  /\ Identity("ERROR", 0)
  /\ UNCHANGED crashed

\* run_check found no violation, or some.
IdentityChecked ==
  /\ At("identity")
  /\ request.identity
  /\ \/ Identity("PASS", 0)
     \/ \E n \in Reasons : Identity("FAIL", n)
  /\ UNCHANGED crashed

\* An exception inside a check: run_check answers BLOCK with one reason.
IdentityCrashes ==
  /\ At("identity")
  /\ request.identity
  /\ Identity("FAIL", 1)
  /\ crashed' = TRUE

-----------------------------------------------------------------------------
(* Decision and evidence. *)

Evaluate ==
  /\ At("decide")
  /\ ~Raises(gatePolicy, results)
  /\ decision' = Verdict(gatePolicy, results)
  /\ step' = "evidence"
  /\ UNCHANGED <<aggVars, request, gatePolicy, results, crashed, file, outputs, exit>>

EvaluateRaises == At("decide") /\ Raises(gatePolicy, results) /\ Traceback

\* The directory is made, the inputs are hashed, the chain is put together.
CollectEvidence ==
  /\ At("evidence")
  /\ step' = "save"
  /\ UNCHANGED <<aggVars, request, gatePolicy, results, crashed, decision, file, outputs, exit>>

\* open(..., "w") creates the file, or truncates it.
OpenEvidence ==
  /\ At("save")
  /\ file' = [file EXCEPT !.state = "partial"]
  /\ step' = "write"
  /\ UNCHANGED <<aggVars, request, gatePolicy, results, crashed, decision, outputs, exit>>

\* Slip: the decision is left out of what is dumped.
WriteWithoutDecision ==
  /\ At("write")
  /\ file' = [state |-> "complete", results |-> results, decision |-> "ALLOW"]
  /\ step' = "publish"
  /\ UNCHANGED <<aggVars, request, gatePolicy, results, crashed, decision, outputs, exit>>

\* json.dump and close.
WriteEvidence ==
  /\ At("write")
  /\ file' = [state |-> "complete", results |-> results, decision |-> decision]
  /\ step' = "publish"
  /\ UNCHANGED <<aggVars, request, gatePolicy, results, crashed, decision, outputs, exit>>

\* mkdir, hashing, open, json.dump or the append to $GITHUB_OUTPUT raises.
EvidenceRaises ==
  /\ \/ At("evidence") \/ At("save") \/ At("write")
     \/ At("publish") /\ request.github
  /\ Traceback

Counts == results[1].count + results[2].count + results[3].count + results[4].count
            + results[5].count

\* Three lines appended to $GITHUB_OUTPUT and flushed together.
Publish ==
  /\ At("publish")
  /\ request.github
  /\ outputs' = [result |-> decision, count |-> Counts]
  /\ step' = "exit"
  /\ UNCHANGED <<aggVars, request, gatePolicy, results, crashed, decision, file, exit>>

NothingToPublish ==
  /\ At("publish")
  /\ ~request.github
  /\ step' = "exit"
  /\ UNCHANGED <<aggVars, request, gatePolicy, results, crashed, decision, file, outputs, exit>>

\* Slip: the gate succeeds unless the aggregator reported ERROR.
ExitByStatus ==
  /\ At("exit")
  /\ exit' = IF status = "ERROR" THEN "1" ELSE "0"
  /\ step' = "ended"
  /\ UNCHANGED <<aggVars, request, gatePolicy, results, crashed, decision, file, outputs>>

Exit ==
  /\ At("exit")
  /\ exit' = IF decision = "BLOCK" THEN "1" ELSE "0"
  /\ step' = "ended"
  /\ UNCHANGED <<aggVars, request, gatePolicy, results, crashed, decision, file, outputs>>

\* The job is cancelled or times out, between any two steps.
Kill ==
  /\ exit = "running"
  /\ exit' = "killed"
  /\ step' = "ended"
  /\ UNCHANGED <<aggVars, request, gatePolicy, results, crashed, decision, file, outputs>>

-----------------------------------------------------------------------------
\* What the gate does by itself once it validates; the tools are not in it.
GateStep ==
  \/ LoadPolicy
  \/ PolicyUnreadable
  \/ ValidateRaises
  \/ DomainResults
  \/ IdentitySkipped
  \/ IdentityBreaks
  \/ IdentityChecked
  \/ IdentityCrashes
  \/ Evaluate
  \/ EvaluateRaises
  \/ CollectEvidence
  \/ OpenEvidence
  \/ WriteEvidence
  \/ EvidenceRaises
  \/ Publish
  \/ NothingToPublish
  \/ Exit

GateNext == GateStep \/ Validate \/ Kill

GateFairness ==
  /\ WF_vars(GateStep)
  /\ WF_vars(At("validate") /\ OwnStep /\ UNCHANGED gateVars)

GateSpec == GateInit /\ [][GateNext]_vars /\ GateFairness

-----------------------------------------------------------------------------
(* Properties. *)

GateResults == [validator : Validators, state : States, count : Nat, listed : SUBSET Nat]

\* Every variable of the gate ranges over what its comment says.
GateTypeOK ==
  /\ step \in Steps
  /\ request \in Requests
  /\ gatePolicy \in PolicyFiles \cup {NotADict}
  /\ results \in Seq(GateResults)
  /\ crashed \in BOOLEAN
  /\ decision \in GateActions \cup {"none"}
  /\ file \in [state : {"absent", "partial", "complete"}, results : Seq(GateResults),
               decision : GateActions \cup {"none"}]
  /\ outputs \in [result : GateActions \cup {"none"}, count : Nat]
  /\ exit \in {"running", "0", "1", "killed"}

\* Nothing in the policy relaxes a failure.
StrictPolicy ==
  gatePolicy # NotADict =>
    \A v \in DOMAIN gatePolicy : Upper(gatePolicy[v]) \notin {"ALLOW", "WARN"}

\* Under a policy that relaxes nothing, exit status 0 means that the
\* aggregator passed (no domain in ERROR, no blocking finding in any domain)
\* and that the identity contract did too: a finding cannot get lost on its
\* way from a tool through category, domain status and validator name to the
\* decision.
StrictGateReleasesOnlyPassed ==
  exit = "0" /\ StrictPolicy =>
    /\ status = "PASSED"
    /\ \A k \in DOMAIN resolved : resolved[k].effective # "FAIL"
    /\ \A i \in DOMAIN results : results[i].state \notin {"FAIL", "ERROR"}

\* Under any policy whatever, exit status 0 means that every domain asked for
\* was evaluated: a tool that is missing, hangs or crashes is never released.
ZeroMeansEvaluated ==
  exit = "0" =>
    /\ status # "ERROR"
    /\ \A i \in DOMAIN results : results[i].state # "ERROR"

\* The evidence chain answers "what exactly did the validators find": in a
\* complete evidence file every blocking finding is listed, under exactly one
\* validator, and that validator's state is FAIL unless the domain broke.
EvidenceListsEveryBlocker ==
  file.state = "complete" =>
    \A k \in DOMAIN resolved :
      resolved[k].effective = "FAIL" =>
        \E i \in 1..4 :
          /\ k \in file.results[i].listed
          /\ file.results[i].state = "FAIL"
          /\ \A j \in 1..4 : k \in file.results[j].listed => j = i

\* "Total count of blocking findings across all domains" (reusable-gate.yml):
\* the published count is the number of blocking findings that the evidence
\* lists, plus the violations of the identity contract.
PublishedCountIsExact ==
  outputs.result # "none" =>
    outputs.count =
      Cardinality({k \in DOMAIN resolved : resolved[k].effective = "FAIL"})
        + Cardinality(file.results[5].listed)

\* The run keeps the contract with the pipeline: one decision, recorded
\* before it is published, and success only for a recorded non-BLOCK.
Contract == INSTANCE GateContract WITH
  verdict   <- decision,
  recorded  <- IF file.state = "complete" THEN file.decision ELSE "none",
  published <- outputs.result

ContractSpec == Contract!Spec

\* The gate ends, although Spectral and OPA may hang and may be killed.
GateEnds == <>(exit # "running")

\* "true tool/crash cases already returned ERROR above" (_run_identity_contract):
\* a validator that crashed is in state ERROR, which no policy relaxes.
CrashedMeansError ==
  crashed => \E i \in DOMAIN results :
    results[i].validator = "identity-contract" /\ results[i].state = "ERROR"

=============================================================================
