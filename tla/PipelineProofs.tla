--------------------------- MODULE PipelineProofs ---------------------------
(***************************************************************************)
(* What the callers make of a gate that keeps its contract, proved for all *)
(* of them at once.                                                        *)
(*                                                                         *)
(* Chain is what the contract leaves of the gate's variables.  Begin and   *)
(* AfterGate tie the status a caller has read to how the gate ended: once  *)
(* the first step is over, the gate does not move any more.  Artifact,     *)
(* AuditFile and Control are about the later steps, End about the outcome. *)
(***************************************************************************)
EXTENDS Pipeline, TLAPS

Chain ==
  /\ recorded \in {"none", verdict}
  /\ published \in {"none", recorded}
  /\ exit = "0" => recorded \in Released
  /\ "python" \notin present => exit = "running"

Begin ==
  step = 1 =>
    /\ job = "passing"
    /\ status = "none"
    /\ audit \in {"none", "earlier"}
    /\ uploaded = "not yet"

AfterGate ==
  /\ step # 1 /\ caller \notin {"validate", "control_script"} =>
       \/ status = exit /\ exit # "running"
       \/ status \in {"2", "127", "-1", "unset"} /\ exit = "running"
  /\ step # 1 /\ caller \in Workflows /\ job = "passing" => exit = "0"
  /\ status = "unset" => "python" \notin present /\ caller \in Scripts

Artifact ==
  caller = "reusable" =>
    /\ step = 3 => uploaded # "not yet"
    /\ uploaded \in Decisions => uploaded = recorded
    /\ uploaded = "nothing" => recorded = "none"
    /\ uploaded = "failed" => job = "failed"

AuditFile ==
  caller = "evidence_script" =>
    audit \in {"none", "earlier"} \/ (step = 3 /\ audit = GateDecision)

End ==
  /\ caller # "evidence_script" /\ outcome \in {"success", "failure"} => Over
  /\ outcome = "success" => Over /\ Success

IInv == TypeOK /\ Chain /\ Begin /\ AfterGate /\ Artifact /\ AuditFile /\ ControlTellsEnginesApart /\ End

-----------------------------------------------------------------------------
(* The plans. *)

LEMMA Successor ==
  ASSUME NEW n \in {1, 2}
  PROVE  n + 1 \in 1..3 /\ n + 1 # 1 /\ n # 3 /\ (n = 2 => n # 1 /\ n + 1 = 3)
OBVIOUS

LEMMA Plans ==
  ASSUME caller \in DOMAIN Plan, step \in 1..3
  PROVE  /\ At("gate") => step = 1 /\ caller # "control_script"
         /\ At("control") => \/ step = 1 /\ caller = "control_script"
                             \/ step = 2 /\ caller = "validate"
         /\ At("upload") => step = 2 /\ caller = "reusable"
         /\ At("audit") => step = 2 /\ caller = "evidence_script"
         /\ Over => step # 1
         /\ Over /\ caller \in {"reusable", "evidence_script"} => step = 3
         /\ ~Over => step < 3
<1>1. CASE caller = "validate"
  BY <1>1 DEF Plan, At, Over
<1>2. CASE caller = "reusable"
  BY <1>2 DEF Plan, At, Over
<1>3. CASE caller = "evidence_script"
  BY <1>3 DEF Plan, At, Over
<1>4. CASE caller \in {"gate_script", "hook"}
  BY <1>4 DEF Plan, At, Over
<1>5. CASE caller = "control_script"
  BY <1>5 DEF Plan, At, Over
<1>. QED
  BY <1>1, <1>2, <1>3, <1>4, <1>5 DEF Plan

LEMMA Singleton ==
  ASSUME NEW r
  PROVE  <<r>>[1] = r /\ DOMAIN <<r>> = {1}
<1>1. Len(<<r>>) = 1 /\ DOMAIN <<r>> = 1..1 /\ <<r>>[1] = r
  OBVIOUS
<1>2. 1..1 = {1}
  OBVIOUS
<1>. QED
  BY <1>1, <1>2

\* The engine as shipped blocks the injected ERROR, whatever the policy says.
LEMMA ShippedBlocks ==
  ASSUME engine = "as shipped"
  PROVE  ControlDecision = "BLOCK"
<1>. DEFINE r == [validator |-> "injected", state |-> "ERROR"]
<1>1. DOMAIN <<r>> = {1} /\ <<r>>[1] = r
  BY Singleton
<1>2. ~Injection!Unusable(InjectedPolicy, r)
  BY DEF Injection!Unusable
<1>3. ~Injection!Raises(InjectedPolicy, <<r>>)
  <2>. HIDE DEF r
  <2>. QED
    BY <1>1, <1>2, PolicyAssumption DEF PolicyAssumption, Injection!Raises
<1>4. Injection!Actions(InjectedPolicy, r) = {"BLOCK"}
  BY DEF Injection!Actions
<1>5. UNION {Injection!Actions(InjectedPolicy, <<r>>[i]) : i \in DOMAIN <<r>>} = {"BLOCK"}
  <2>. HIDE DEF r
  <2>. QED
    BY <1>1, <1>4
<1>6. Injection!Verdict(InjectedPolicy, <<r>>) = "BLOCK"
  <2>. HIDE DEF r
  <2>. QED
    BY <1>3, <1>5 DEF Injection!Verdict, Injection!FinalAction
<1>. QED
  BY <1>6 DEF ControlDecision

LEMMA Statuses ==
  ASSUME TypeOK
  PROVE  /\ InjectionStatus \in {"1", "2"}
         /\ InjectionStatus = "2" => engine = "honours on_error"
         /\ InjectionStatus = "1" => engine = "as shipped" \/ "src" \notin present
<1>1. engine = "honours on_error" => ControlDecision = "WARN"
  BY DEF ControlDecision
<1>. QED
  BY <1>1, ShippedBlocks DEF TypeOK, InjectionStatus, Engines

-----------------------------------------------------------------------------
(* The invariant. *)

LEMMA InitIInv == Init => IInv
<1>. SUFFICES ASSUME Init
              PROVE  IInv
  OBVIOUS
<1>1. step = 1
  BY DEF Init
<1>2. step \in 1..3 /\ step # 3
  BY <1>1
<1>3. TypeOK
  BY <1>2 DEF Init, Gate!Init, TypeOK, Decisions, Released
<1>4. Chain /\ Begin /\ AfterGate
  BY <1>1 DEF Init, Gate!Init, Chain, Begin, AfterGate
<1>5. Artifact /\ AuditFile
  BY <1>2 DEF Init, Artifact, AuditFile, Decisions, Released
<1>6. ControlTellsEnginesApart /\ End
  BY DEF Init, ControlTellsEnginesApart, End
<1>. QED
  BY <1>3, <1>4, <1>5, <1>6 DEF IInv

\* The gate's own steps move nothing but the gate, and only at the start.
LEMMA GateStepKeeps ==
  ASSUME IInv, GateStep
  PROVE  IInv'
<1>1. TypeOK /\ step = 1 /\ caller # "control_script" /\ outcome = "running"
  BY Plans DEF IInv, TypeOK, GateStep, At
<1>2. /\ UNCHANGED <<setting, step, status, job, audit, uploaded, outcome>>
      /\ Gate!Next
  BY DEF GateStep
<1>. USE DEF setting
<1>3. TypeOK'
  BY <1>1, <1>2 DEF TypeOK, Gate!Next, Gate!Decide, Gate!Record, Gate!Publish, Gate!Succeed,
     Gate!Fail, Gate!Actions, Decisions, Released
<1>4. Chain'
  BY <1>1, <1>2 DEF IInv, Chain, GateStep, Released, Gate!Next, Gate!Decide, Gate!Record, Gate!Publish,
     Gate!Succeed, Gate!Fail
<1>5. Begin' /\ AfterGate'
  BY <1>1, <1>2 DEF IInv, Begin, AfterGate
<1>6. Artifact' /\ AuditFile'
  BY <1>1, <1>2 DEF IInv, Begin, Artifact, AuditFile, Decisions, Released
<1>7. ControlTellsEnginesApart' /\ End'
  BY <1>1, <1>2 DEF ControlTellsEnginesApart, End
<1>. QED
  BY <1>3, <1>4, <1>5, <1>6, <1>7 DEF IInv

\* The first step of a caller other than the control script ends with a status.
LEMMA StatusRead ==
  ASSUME IInv, NEW s, NEW bad \in BOOLEAN, At("gate"), Ended(s, bad),
         UNCHANGED <<setting, gateVars, audit, uploaded, outcome>>,
         \/ s = exit /\ exit # "running" /\ (bad <=> exit # "0")
         \/ s \in {"2", "127", "-1", "unset"} /\ exit = "running" /\ bad,
         s = "unset" => "python" \notin present /\ caller \in Scripts
  PROVE  IInv'
<1>1. TypeOK /\ step = 1 /\ caller # "control_script" /\ outcome = "running"
  BY Plans DEF IInv, TypeOK, At
<1>2. step' = 2
  BY <1>1 DEF Ended
<1>3. step' \in 1..3 /\ step' # 1 /\ step' # 3
  BY <1>2
<1>4. status' = s /\ job' \in {"passing", "failed"} /\ (job' = "failed" <=> bad)
  BY <1>1 DEF IInv, Begin, Ended
<1>5. s \in {"none", "0", "1", "2", "killed", "127", "-1", "unset"}
  BY <1>1 DEF TypeOK
<1>. USE DEF setting, gateVars
<1>6. TypeOK'
  BY <1>1, <1>3, <1>4, <1>5 DEF TypeOK
<1>7. Chain' /\ Begin'
  BY <1>3 DEF IInv, Chain, Begin
<1>8. AfterGate'
  BY <1>1, <1>4 DEF AfterGate, Workflows
<1>9. Artifact' /\ AuditFile'
  BY <1>1, <1>3 DEF IInv, Begin, Artifact, AuditFile, Decisions, Released
<1>10. ControlTellsEnginesApart' /\ End'
  BY <1>1 DEF ControlTellsEnginesApart, End
<1>. QED
  BY <1>6, <1>7, <1>8, <1>9, <1>10 DEF IInv

LEMMA GateEndedKeeps ==
  ASSUME IInv, GateEnded
  PROVE  IInv'
<1>1. exit # "unset"
  BY DEF IInv, TypeOK
<1>. QED
  BY <1>1, StatusRead DEF GateEnded

LEMMA RejectedKeeps ==
  ASSUME IInv, Rejected
  PROVE  IInv'
BY StatusRead DEF Rejected

\* A caller that runs the failure injection has no part in the evidence.
LEMMA ControlEnded ==
  ASSUME IInv, NEW s, NEW bad \in BOOLEAN, At("control"), Ended(s, bad),
         UNCHANGED <<setting, gateVars, audit, uploaded, outcome>>,
         s \in {"1", "2", "killed", "127", "unset"},
         job = "failed" => bad,
         s = "unset" => "python" \notin present /\ caller \in Scripts,
         s = "1" => engine = "as shipped" \/ "src" \notin present,
         s = "2" => engine = "honours on_error"
  PROVE  IInv'
<1>1. /\ TypeOK /\ step \in {1, 2} /\ caller \in {"control_script", "validate"}
      /\ caller = "validate" => step = 2
      /\ outcome = "running"
  BY Plans DEF IInv, TypeOK, At
<1>2. step' = step + 1
  BY DEF Ended
<1>3. step' \in 1..3 /\ step' # 1 /\ (caller = "validate" => step # 1)
  BY <1>1, <1>2, Successor
<1>4. status' = s /\ job' \in {"passing", "failed"} /\ (job' = "passing" => job = "passing")
  BY <1>1 DEF TypeOK, Ended
<1>. USE DEF setting, gateVars
<1>5. TypeOK'
  BY <1>1, <1>3, <1>4 DEF TypeOK
<1>6. Chain' /\ Begin'
  BY <1>3 DEF IInv, Chain, Begin
<1>7. AfterGate'
  BY <1>1, <1>3, <1>4 DEF IInv, AfterGate, Workflows
<1>8. Artifact' /\ AuditFile'
  BY <1>1 DEF Artifact, AuditFile
<1>9. ControlTellsEnginesApart' /\ End'
  BY <1>1, <1>4 DEF ControlTellsEnginesApart, End
<1>. QED
  BY <1>5, <1>6, <1>7, <1>8, <1>9 DEF IInv

LEMMA NoPythonKeeps ==
  ASSUME IInv, NoPython
  PROVE  IInv'
<1>. DEFINE s == CASE caller = "evidence_script" -> "-1"
                   [] caller \in Scripts \ {"evidence_script"} -> "unset"
                   [] OTHER -> "127"
<1>1. /\ s \in {"127", "-1", "unset"}
      /\ s = "unset" => caller \in Scripts
      /\ s = "-1" => caller = "evidence_script"
  OBVIOUS
<1>2. /\ "python" \notin present /\ Ended(s, TRUE)
      /\ UNCHANGED <<setting, gateVars, audit, uploaded, outcome>>
      /\ At("gate") \/ At("control")
  BY DEF NoPython
<1>. HIDE DEF s
<1>3. exit = "running"
  BY <1>2 DEF IInv, Chain
<1>4. CASE At("control")
  <2>1. caller # "evidence_script"
    BY <1>4, Plans DEF IInv, TypeOK
  <2>. QED
    BY <1>1, <1>2, <1>4, <2>1, ControlEnded
<1>5. CASE At("gate")
  BY <1>1, <1>2, <1>3, <1>5, StatusRead
<1>. QED
  BY <1>2, <1>4, <1>5

LEMMA ControlKeeps ==
  ASSUME IInv, Control
  PROVE  IInv'
<1>1. PICK s \in {InjectionStatus, "killed"} : Ended(s, caller = "validate" /\ s = "0")
  BY DEF Control
<1>2. s \in {"1", "2", "killed"}
  BY Statuses DEF IInv
<1>3. /\ At("control") /\ job = "passing"
      /\ UNCHANGED <<setting, gateVars, audit, uploaded, outcome>>
  BY DEF Control
<1>4. /\ s = "1" => engine = "as shipped" \/ "src" \notin present
      /\ s = "2" => engine = "honours on_error"
  BY Statuses DEF IInv
<1>. QED
  BY <1>1, <1>2, <1>3, <1>4, ControlEnded

LEMMA SkippedKeeps ==
  ASSUME IInv, Skipped
  PROVE  IInv'
<1>1. TypeOK /\ step = 2 /\ caller = "validate" /\ outcome = "running"
  <2>1. step # 1
    BY DEF Skipped, IInv, Begin
  <2>. QED
    BY <2>1, Plans DEF IInv, TypeOK, Skipped, At
<1>2. step' = 3 /\ step' \in 1..3 /\ step # 1 /\ step' # 1
  BY <1>1, Successor DEF Skipped
<1>. USE DEF setting, gateVars, Skipped
<1>3. TypeOK'
  BY <1>1, <1>2 DEF TypeOK, Decisions
<1>4. Chain' /\ Begin'
  BY <1>2 DEF IInv, Chain, Begin
<1>5. AfterGate'
  BY <1>2 DEF IInv, AfterGate
<1>6. Artifact'
  BY <1>1, <1>2 DEF IInv, Chain, Artifact, Decisions, Released
<1>7. AuditFile'
  BY <1>1, <1>2 DEF IInv, AuditFile, GateDecision
<1>8. ControlTellsEnginesApart' /\ End'
  BY <1>1 DEF ControlTellsEnginesApart, End
<1>. QED
  BY <1>3, <1>4, <1>5, <1>6, <1>7, <1>8 DEF IInv

LEMMA UploadKeeps ==
  ASSUME IInv, Upload
  PROVE  IInv'
<1>1. TypeOK /\ step = 2 /\ caller = "reusable" /\ outcome = "running"
  BY Plans DEF IInv, TypeOK, Upload, At
<1>2. step' = 3 /\ step' \in 1..3 /\ step # 1 /\ step' # 1
  BY <1>1, Successor DEF Upload
<1>. USE DEF setting, gateVars, Upload
<1>3. TypeOK'
  BY <1>1, <1>2 DEF TypeOK, Decisions
<1>4. Chain' /\ Begin'
  BY <1>2 DEF IInv, Chain, Begin
<1>5. AfterGate'
  BY <1>2 DEF IInv, AfterGate
<1>6. Artifact'
  <2>1. recorded \in Decisions \cup {"none"}
    BY <1>1 DEF TypeOK
  <2>. QED
    BY <1>1, <1>2, <2>1 DEF Artifact, Decisions, Released
<1>7. AuditFile'
  BY <1>1, <1>2 DEF IInv, AuditFile, GateDecision
<1>8. ControlTellsEnginesApart' /\ End'
  BY <1>1 DEF ControlTellsEnginesApart, End
<1>. QED
  BY <1>3, <1>4, <1>5, <1>6, <1>7, <1>8 DEF IInv

LEMMA UploadFailsKeeps ==
  ASSUME IInv, UploadFails
  PROVE  IInv'
<1>1. TypeOK /\ step = 2 /\ caller = "reusable" /\ outcome = "running"
  BY Plans DEF IInv, TypeOK, UploadFails, At
<1>2. step' = 3 /\ step' \in 1..3 /\ step # 1 /\ step' # 1
  BY <1>1, Successor DEF UploadFails
<1>. USE DEF setting, gateVars, UploadFails
<1>3. TypeOK'
  BY <1>1, <1>2 DEF TypeOK, Decisions
<1>4. Chain' /\ Begin'
  BY <1>2 DEF IInv, Chain, Begin
<1>5. AfterGate'
  BY <1>2 DEF IInv, AfterGate
<1>6. Artifact'
  BY <1>1, <1>2 DEF IInv, Chain, Artifact, Decisions, Released
<1>7. AuditFile'
  BY <1>1, <1>2 DEF IInv, AuditFile, GateDecision
<1>8. ControlTellsEnginesApart' /\ End'
  BY <1>1 DEF ControlTellsEnginesApart, End
<1>. QED
  BY <1>3, <1>4, <1>5, <1>6, <1>7, <1>8 DEF IInv

LEMMA WriteAuditKeeps ==
  ASSUME IInv, WriteAudit
  PROVE  IInv'
<1>1. TypeOK /\ step = 2 /\ caller = "evidence_script" /\ outcome = "running"
  BY Plans DEF IInv, TypeOK, WriteAudit, At
<1>2. step' = 3 /\ step' \in 1..3 /\ step # 1 /\ step' # 1
  BY <1>1, Successor DEF WriteAudit
<1>. USE DEF setting, gateVars, WriteAudit
<1>3. TypeOK'
  BY <1>1, <1>2 DEF TypeOK, GateDecision
<1>4. Chain' /\ Begin'
  BY <1>2 DEF IInv, Chain, Begin
<1>5. AfterGate'
  BY <1>2 DEF IInv, AfterGate
<1>6. Artifact'
  BY <1>1, <1>2 DEF IInv, Chain, Artifact, Decisions, Released
<1>7. AuditFile'
  BY <1>1, <1>2 DEF IInv, AuditFile, GateDecision
<1>8. ControlTellsEnginesApart' /\ End'
  BY <1>1 DEF ControlTellsEnginesApart, End
<1>. QED
  BY <1>3, <1>4, <1>5, <1>6, <1>7, <1>8 DEF IInv

LEMMA AuditFailsKeeps ==
  ASSUME IInv, AuditFails
  PROVE  IInv'
<1>1. TypeOK /\ step = 2 /\ caller = "evidence_script" /\ outcome = "running"
  BY Plans DEF IInv, TypeOK, AuditFails, At
<1>2. step' = 3 /\ step' \in 1..3 /\ step # 1 /\ step' # 1
  BY <1>1, Successor DEF AuditFails
<1>. USE DEF setting, gateVars, AuditFails
<1>3. TypeOK'
  BY <1>1, <1>2 DEF TypeOK, GateDecision
<1>4. Chain' /\ Begin'
  BY <1>2 DEF IInv, Chain, Begin
<1>5. AfterGate'
  BY <1>2 DEF IInv, AfterGate
<1>6. Artifact'
  BY <1>1, <1>2 DEF IInv, Chain, Artifact, Decisions, Released
<1>7. AuditFile'
  BY <1>1, <1>2 DEF IInv, AuditFile, GateDecision
<1>8. ControlTellsEnginesApart' /\ End'
  BY <1>1 DEF ControlTellsEnginesApart, End
<1>. QED
  BY <1>3, <1>4, <1>5, <1>6, <1>7, <1>8 DEF IInv

\* The steps that only set the outcome.
LEMMA OutcomeKeeps ==
  ASSUME IInv, outcome = "running",
         UNCHANGED <<setting, gateVars, step, status, job, audit, uploaded>>,
         outcome' \in {"success", "failure", "lost"},
         outcome' = "lost" \/ Over \/ (outcome' = "failure" /\ caller = "evidence_script"),
         outcome' = "success" => Over /\ Success
  PROVE  IInv'
<1>. USE DEF setting, gateVars
<1>1. TypeOK'
  BY DEF IInv, TypeOK
<1>2. Chain' /\ Begin' /\ AfterGate'
  BY DEF IInv, Chain, Begin, AfterGate
<1>3. Artifact' /\ AuditFile' /\ ControlTellsEnginesApart'
  BY DEF IInv, Artifact, AuditFile, GateDecision, ControlTellsEnginesApart
<1>4. (Over <=> Over') /\ (Success <=> Success')
  BY DEF Over, Success, GateDecision
<1>5. End'
  BY <1>4 DEF End
<1>. QED
  BY <1>1, <1>2, <1>3, <1>5 DEF IInv

LEMMA StutterKeeps ==
  ASSUME IInv, UNCHANGED vars
  PROVE  IInv'
<1>. USE DEF vars, setting, gateVars
<1>1. TypeOK'
  BY DEF IInv, TypeOK
<1>2. Chain' /\ Begin' /\ AfterGate'
  BY DEF IInv, Chain, Begin, AfterGate
<1>3. Artifact' /\ AuditFile' /\ ControlTellsEnginesApart'
  BY DEF IInv, Artifact, AuditFile, GateDecision, ControlTellsEnginesApart
<1>4. (Over <=> Over') /\ (Success <=> Success')
  BY DEF Over, Success, GateDecision
<1>5. End'
  BY <1>4 DEF IInv, End
<1>. QED
  BY <1>1, <1>2, <1>3, <1>5 DEF IInv

LEMMA NextIInv == IInv /\ [Next]_vars => IInv'
<1>. SUFFICES ASSUME IInv, [Next]_vars
              PROVE  IInv'
  OBVIOUS
<1>1. CASE GateStep
  BY <1>1, GateStepKeeps
<1>2. CASE GateEnded
  BY <1>2, GateEndedKeeps
<1>3. CASE Rejected
  BY <1>3, RejectedKeeps
<1>4. CASE NoPython
  BY <1>4, NoPythonKeeps
<1>5. CASE Control
  BY <1>5, ControlKeeps
<1>6. CASE Skipped
  BY <1>6, SkippedKeeps
<1>7. CASE Upload
  BY <1>7, UploadKeeps
<1>8. CASE UploadFails
  BY <1>8, UploadFailsKeeps
<1>9. CASE WriteAudit
  BY <1>9, WriteAuditKeeps
<1>10. CASE AuditFails
  BY <1>10, AuditFailsKeeps
<1>11. CASE NoTarget
  BY <1>11, OutcomeKeeps DEF NoTarget, At
<1>12. CASE Conclude
  BY <1>12, OutcomeKeeps DEF Conclude
<1>13. CASE Lost
  BY <1>13, OutcomeKeeps DEF Lost
<1>14. CASE UNCHANGED vars
  BY <1>14, StutterKeeps
<1>. QED
  BY <1>1, <1>2, <1>3, <1>4, <1>5, <1>6, <1>7, <1>8, <1>9, <1>10, <1>11, <1>12, <1>13, <1>14
     DEF Next, CallerStep

THEOREM Invariance == Spec => []IInv
<1>1. Init => IInv
  BY InitIInv
<1>2. IInv /\ [Next]_vars => IInv'
  BY NextIInv
<1>. QED
  BY <1>1, <1>2, PTL DEF Spec

-----------------------------------------------------------------------------
(* The theorems. *)

\* Every variable keeps its type.
THEOREM TypeCorrect == Spec => []TypeOK
<1>1. IInv => TypeOK
  BY DEF IInv
<1>. QED
  BY <1>1, Invariance, PTL

\* No caller goes on without a complete evidence file of a decision that
\* releases, but for Invoke-GateCheck.ps1 without python.
THEOREM NobodyPassesBlocked == Spec => []ProceedsOnlyReleased
<1>1. IInv => ProceedsOnlyReleased
  <2>. SUFFICES ASSUME IInv, outcome = "success", caller # "control_script"
                PROVE  recorded \in Released \/ (caller = "gate_script" /\ "python" \notin present)
    BY DEF ProceedsOnlyReleased
  <2>1. caller \in DOMAIN Plan /\ Success /\ step # 1
    BY Plans DEF IInv, TypeOK, End
  <2>2. exit = "0" => recorded \in Released
    BY DEF IInv, Chain
  <2>3. CASE caller \in Workflows
    BY <2>1, <2>2, <2>3 DEF Success, IInv, AfterGate, Workflows
  <2>4. CASE caller = "hook"
    BY <2>1, <2>2, <2>4 DEF Success, IInv, AfterGate, Workflows
  <2>5. CASE caller = "evidence_script"
    BY <2>1, <2>2, <2>5 DEF Success, GateDecision, IInv, AfterGate, Workflows
  <2>6. CASE caller = "gate_script"
    BY <2>1, <2>2, <2>6 DEF Success, IInv, AfterGate, Workflows
  <2>. QED
    BY <2>1, <2>3, <2>4, <2>5, <2>6 DEF Plan, Workflows
<1>. QED
  BY <1>1, Invariance, PTL

\* The artifact of a reusable gate holds the evidence of what it published.
THEOREM EvidenceReachesTheCaller == Spec => []EvidenceSurvives
<1>1. IInv => EvidenceSurvives
  <2>. SUFFICES ASSUME IInv, caller = "reusable", outcome \in {"success", "failure"}
                PROVE  /\ published # "none" /\ uploaded # "failed" => uploaded = published
                       /\ outcome = "success" => uploaded \in Released
    BY DEF EvidenceSurvives
  <2>1. step = 3 /\ step # 1
    BY Plans DEF IInv, TypeOK, End
  <2>2. uploaded \in {"nothing", "failed"} \cup Decisions
    BY <2>1 DEF IInv, TypeOK, Artifact
  <2>3. published # "none" /\ uploaded # "failed" => uploaded = published
    BY <2>2 DEF IInv, Chain, Artifact
  <2>4. outcome = "success" => job = "passing" /\ recorded \in Released
    BY <2>1 DEF IInv, End, Success, AfterGate, Chain, Workflows
  <2>5. outcome = "success" => uploaded \in Released
    BY <2>2, <2>4 DEF IInv, Artifact, Released
  <2>. QED
    BY <2>3, <2>5
<1>. QED
  BY <1>1, Invariance, PTL

\* The audit file says PASS only of a recorded decision that releases.
THEOREM AuditNeverInventsPass == Spec => []AuditIsFailClosed
<1>1. IInv => AuditIsFailClosed
  <2>. SUFFICES ASSUME IInv, caller = "evidence_script"
                PROVE  /\ audit = "PASS" => recorded \in Released
                       /\ audit = "ERROR" => exit \in {"running", "killed"}
                       /\ outcome = "success" => audit \in {"PASS", "earlier", "none"}
    BY DEF AuditIsFailClosed
  <2>1. audit \in {"none", "earlier"} \/ (step = 3 /\ step # 1 /\ audit = GateDecision)
    BY DEF IInv, AuditFile
  <2>2. /\ step # 1 /\ status = "0" => exit = "0"
        /\ step # 1 /\ status \notin {"0", "1"} => exit \in {"running", "killed"}
    BY DEF IInv, TypeOK, AfterGate
  <2>3. exit = "0" => recorded \in Released
    BY DEF IInv, Chain
  <2>4. outcome = "success" => GateDecision = "PASS"
    BY DEF IInv, End, Success, Workflows
  <2>5. /\ GateDecision = "PASS" => status = "0"
        /\ GateDecision = "ERROR" => status \notin {"0", "1"}
    BY DEF GateDecision
  <2>. QED
    BY <2>1, <2>2, <2>3, <2>4, <2>5
<1>. QED
  BY <1>1, Invariance, PTL

\* The failure injection's status 2 stands for an engine that releases an
\* ERROR, and for nothing else.
THEOREM InjectionIsTelling == Spec => []ControlTellsEnginesApart
<1>1. IInv => ControlTellsEnginesApart
  BY DEF IInv
<1>. QED
  BY <1>1, Invariance, PTL

=============================================================================
