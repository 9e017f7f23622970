------------------------------ MODULE Pipeline ------------------------------
(***************************************************************************)
(* Who starts the gate, and what each of them makes of its exit status:    *)
(* the two workflows (.github/workflows), the pre-commit hook installed by *)
(* scripts/install-hooks, Invoke-GateCheck.ps1, Invoke-EvidenceCheck.ps1,  *)
(* and run_all.py at the root of the repository in front of the gate and   *)
(* of the failure injection (the reusable workflow starts src.cli itself). *)
(*                                                                         *)
(* The gate itself is any process that keeps GateContract, which           *)
(* run_gate_check is proved to do (GateCheckProofs).                       *)
(***************************************************************************)
EXTENDS Naturals, Sequences

CONSTANTS
  NotADict,  \* a validator without an entry in a policy
  NoOnFail   \* an entry without on_fail

VARIABLES
  caller,      \* who starts the gate
  present,     \* of python and the package src, what there is
  engine,      \* what GateDecisionEngine does with an ERROR
  verdict, recorded, published, exit,  \* the gate process, see GateContract
  step,        \* the caller's next step, an index into its plan
  status,      \* the exit status of the last command the caller ran
  job,         \* "passing" until a step of the job has failed
  audit,       \* what evidence/audit_evidence.json says
  uploaded,    \* what the artifact of the job holds
  outcome      \* how the caller ended

gateVars == <<verdict, recorded, published, exit>>
setting == <<caller, present, engine>>
vars == <<setting, gateVars, step, status, job, audit, uploaded, outcome>>

Gate == INSTANCE GateContract

Injection == INSTANCE GateVerdict
  WITH Validators <- {"injected"}, Default <- "default", Texts <- {"BLOCK"}

-----------------------------------------------------------------------------
(* The callers. *)

\* What each caller does, in order: run the gate, run the failure injection,
\* write the audit file, upload the evidence.
Plan == [
  validate        |-> <<"gate", "control">>,
  reusable        |-> <<"gate", "upload">>,
  evidence_script |-> <<"gate", "audit">>,
  gate_script     |-> <<"gate">>,
  control_script  |-> <<"control">>,
  hook            |-> <<"gate">>]

Workflows == {"validate", "reusable"}

Scripts == {"evidence_script", "gate_script", "control_script"}

\* The engine as it is, and the regression that the failure injection is
\* there to catch (comment at run_all.py:34-39).
Engines == {"as shipped", "honours on_error"}

Init ==
  /\ caller \in DOMAIN Plan
  /\ present \in SUBSET {"python", "src"}
  /\ engine \in Engines
  /\ Gate!Init
  /\ step = 1
  /\ status = "none"
  /\ job = "passing"
  /\ audit \in {"none", "earlier"}
  /\ uploaded = "not yet"
  /\ outcome = "running"

Over == step > Len(Plan[caller])

At(s) == outcome = "running" /\ ~Over /\ Plan[caller][step] = s

\* The last command ended with status s. A workflow notes that a step failed.
Ended(s, bad) ==
  /\ status' = s
  /\ job' = IF bad THEN "failed" ELSE job
  /\ step' = step + 1

-----------------------------------------------------------------------------
(* The gate. *)

\* The gate process takes a step. Without the package it can only fail; only
\* a workflow gives it a file for its outputs.
GateStep ==
  /\ At("gate")
  /\ "python" \in present
  /\ Gate!Next
  /\ "src" \in present \/ exit' # exit
  /\ exit' = "0" => "src" \in present
  /\ published' # published => caller \in Workflows
  /\ UNCHANGED <<setting, step, status, job, audit, uploaded, outcome>>

\* Slip: a gate that was killed is waited for.
AwaitStatus ==
  /\ At("gate")
  /\ exit \in {"0", "1"}
  /\ Ended(exit, exit # "0")
  /\ UNCHANGED <<setting, gateVars, audit, uploaded, outcome>>

\* The gate has ended; run_all.py passes its return value on.
GateEnded ==
  /\ At("gate")
  /\ exit # "running"
  /\ Ended(exit, exit # "0")
  /\ UNCHANGED <<setting, gateVars, audit, uploaded, outcome>>

\* argparse or a --schema-check without "=" ends the process before the gate
\* has begun, or there is no run_all.py in this directory.
Rejected ==
  /\ At("gate")
  /\ "python" \in present
  /\ verdict = "none" /\ exit = "running"
  /\ Ended("2", TRUE)
  /\ UNCHANGED <<setting, gateVars, audit, uploaded, outcome>>

\* The shell reports 127. PowerShell raises: Invoke-EvidenceCheck.ps1 catches
\* it and sets -1, in Invoke-GateCheck.ps1 $LASTEXITCODE stays unset.
NoPython ==
  /\ At("gate") \/ At("control")
  /\ "python" \notin present
  /\ Ended(CASE caller = "evidence_script" -> "-1"
             [] caller \in Scripts \ {"evidence_script"} -> "unset"
             [] OTHER -> "127", TRUE)
  /\ UNCHANGED <<setting, gateVars, audit, uploaded, outcome>>

-----------------------------------------------------------------------------
(* The other steps. *)

\* The policy of the failure injection says on_fail BLOCK and on_error WARN.
InjectedPolicy == [injected |-> "BLOCK", default |-> NotADict]

ASSUME PolicyAssumption == NotADict \notin {InjectedPolicy, "BLOCK"}

\* The engine's decision on one injected ERROR.
ControlDecision ==
  IF engine = "as shipped"
  THEN Injection!Verdict(InjectedPolicy, <<[validator |-> "injected", state |-> "ERROR"]>>)
  ELSE "WARN"

\* Slip: a released ERROR and a blocked one end the same way.
AlwaysOne == "1"

\* _run_failure_injection.
InjectionStatus ==
  IF "src" \notin present THEN "1" ELSE IF ControlDecision # "BLOCK" THEN "2" ELSE "1"

\* The failure injection ends by itself or is killed. The workflow's step
\* fails only on status 0, the script passes the status on.
Control ==
  /\ At("control")
  /\ "python" \in present
  /\ job = "passing"
  /\ \E s \in {InjectionStatus, "killed"} : Ended(s, caller = "validate" /\ s = "0")
  /\ UNCHANGED <<setting, gateVars, audit, uploaded, outcome>>

\* A step after a failed one is skipped, unless it says "if: always()".
Skipped ==
  /\ At("control")
  /\ job = "failed"
  /\ step' = step + 1
  /\ UNCHANGED <<setting, gateVars, status, job, audit, uploaded, outcome>>

\* Slip: the upload has no "if: always()".
UploadOnSuccess ==
  /\ At("upload")
  /\ uploaded' = IF job = "failed" \/ recorded = "none" THEN "nothing" ELSE recorded
  /\ step' = step + 1
  /\ UNCHANGED <<setting, gateVars, status, job, audit, outcome>>

\* The directory is uploaded as it is: empty, with a partial file, or with a
\* complete one.
Upload ==
  /\ At("upload")
  /\ uploaded' = IF recorded = "none" THEN "nothing" ELSE recorded
  /\ step' = step + 1
  /\ UNCHANGED <<setting, gateVars, status, job, audit, outcome>>

UploadFails ==
  /\ At("upload")
  /\ uploaded' = "failed"
  /\ job' = "failed"
  /\ step' = step + 1
  /\ UNCHANGED <<setting, gateVars, status, audit, outcome>>

\* Slip: only status 1 is looked at, everything else is a PASS.
PassByDefault == IF status = "1" THEN "BLOCK" ELSE "PASS"

\* The script's reading of the status.
GateDecision ==
  CASE status = "0" -> "PASS" [] status = "1" -> "BLOCK" [] OTHER -> "ERROR"

WriteAudit ==
  /\ At("audit")
  /\ audit' = GateDecision
  /\ step' = step + 1
  /\ UNCHANGED <<setting, gateVars, status, job, uploaded, outcome>>

\* Set-Content cannot write: PowerShell prints the error and goes on.
AuditFails ==
  /\ At("audit")
  /\ step' = step + 1
  /\ UNCHANGED <<setting, gateVars, status, job, audit, uploaded, outcome>>

\* The target of the audit does not exist: nothing is run, nothing is written.
NoTarget ==
  /\ At("gate")
  /\ caller = "evidence_script"
  /\ verdict = "none" /\ exit = "running"
  /\ outcome' = "failure"
  /\ UNCHANGED <<setting, gateVars, step, status, job, audit, uploaded>>

-----------------------------------------------------------------------------
(* The end. *)

\* Slip: the hook aborts the commit only on BLOCK.
OnlyOneAborts ==
  CASE caller \in Workflows -> job = "passing"
    [] caller = "hook" -> status # "1"
    [] caller = "evidence_script" -> GateDecision = "PASS"
    [] OTHER -> status \in {"0", "unset"}

\* A workflow succeeds if no step failed, the hook and the audit script on
\* status 0 alone; Invoke-GateCheck.ps1 exits with the status it read, and
\* exit $null is exit 0.
Success ==
  CASE caller \in Workflows -> job = "passing"
    [] caller = "hook" -> status = "0"
    [] caller = "evidence_script" -> GateDecision = "PASS"
    [] OTHER -> status \in {"0", "unset"}

Conclude ==
  /\ outcome = "running"
  /\ Over
  /\ outcome' = IF Success THEN "success" ELSE "failure"
  /\ UNCHANGED <<setting, gateVars, step, status, job, audit, uploaded>>

\* The runner or the terminal is gone, between any two steps.
Lost ==
  /\ outcome = "running"
  /\ outcome' = "lost"
  /\ UNCHANGED <<setting, gateVars, step, status, job, audit, uploaded>>

CallerStep ==
  \/ GateStep
  \/ GateEnded
  \/ Rejected
  \/ NoPython
  \/ Control
  \/ Skipped
  \/ Upload
  \/ UploadFails
  \/ WriteAudit
  \/ AuditFails
  \/ NoTarget
  \/ Conclude

Next == CallerStep \/ Lost

\* The processes keep running: the gate ends by itself (GateEnds, checked of
\* GateCheck), and so does every other command.
Spec == Init /\ [][Next]_vars /\ WF_vars(CallerStep)

-----------------------------------------------------------------------------
(* Properties. *)

Released == {"ALLOW", "WARN"}

Decisions == Released \cup {"BLOCK"}

\* Every variable ranges over what its comment says.
TypeOK ==
  /\ caller \in DOMAIN Plan
  /\ present \subseteq {"python", "src"}
  /\ engine \in Engines
  /\ {verdict, recorded, published} \subseteq Decisions \cup {"none"}
  /\ exit \in {"running", "0", "1", "killed"}
  /\ step \in 1..3
  /\ status \in {"none", "0", "1", "2", "killed", "127", "-1", "unset"}
  /\ job \in {"passing", "failed"}
  /\ audit \in {"none", "earlier", "PASS", "BLOCK", "ERROR"}
  /\ uploaded \in {"not yet", "nothing", "failed"} \cup Decisions
  /\ outcome \in {"running", "success", "failure", "lost"}

\* Nobody goes on without a decision that releases, completely recorded as
\* evidence: not the workflows, not a commit, not a script. The one exception
\* is Invoke-GateCheck.ps1 where python cannot be started.
ProceedsOnlyReleased ==
  outcome = "success" /\ caller # "control_script" =>
    \/ recorded \in Released
    \/ caller = "gate_script" /\ "python" \notin present

\* "if: always() is the whole point of this step": whatever decision a
\* reusable gate published, its callers find the evidence of that decision
\* in the artifact of the job, of a BLOCK as of an ALLOW, unless the runner
\* or the upload itself was lost; and a job with neither does not succeed.
EvidenceSurvives ==
  caller = "reusable" /\ outcome \in {"success", "failure"} =>
    /\ published # "none" /\ uploaded # "failed" => uploaded = published
    /\ outcome = "success" => uploaded \in Released

\* "0 = ALLOW, ... anything else is ERROR - fail-closed, never defaulted to
\* PASS" (Invoke-EvidenceCheck.ps1:49-50): an audit file of this run that
\* says PASS stands for a recorded decision that releases, one that says
\* ERROR for a gate without an exit status of its own, and the script
\* succeeds with no other audit file than PASS, if it could write one.
AuditIsFailClosed ==
  caller = "evidence_script" =>
    /\ audit = "PASS" => recorded \in Released
    /\ audit = "ERROR" => exit \in {"running", "killed"}
    /\ outcome = "success" => audit \in {"PASS", "earlier", "none"}

\* The statuses that the failure injection reserves do tell the engines
\* apart: it ends with 2 only for an engine that releases an ERROR, with 1
\* only for one that blocks it or that cannot be loaded, and never with 0.
ControlTellsEnginesApart ==
  caller = "control_script" =>
    /\ status # "0"
    /\ status = "2" => engine = "honours on_error"
    /\ status = "1" => engine = "as shipped" \/ "src" \notin present

\* Every caller ends.
CallerEnds == <>(outcome # "running")

=============================================================================
