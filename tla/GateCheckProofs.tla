-------------------------- MODULE GateCheckProofs --------------------------
(***************************************************************************)
(* run_gate_check, proved for every policy file, every registry and every  *)
(* behaviour of the tools, of the file system and of whoever kills jobs:   *)
(* what exit status 0 guarantees, what a complete evidence file lists, and *)
(* that the run implements GateContract.                                   *)
(*                                                                         *)
(* The aggregator's invariant (AggregatorProofs) carries over, because     *)
(* every step of the gate is a step of the aggregator or leaves it alone.  *)
(* On top of it, Flow says what has happened by each step of the gate, and *)
(* Judged that the results are those of the aggregator's outcome and the   *)
(* decision is their verdict.                                              *)
(***************************************************************************)
EXTENDS GateCheck, AggregatorProofs

Undecided == {"policy", "validate", "identity", "decide"}

Unsaved == Undecided \cup {"evidence", "save", "write"}

Flow ==
  /\ exit = "running" <=> step # "ended"
  /\ step \in Undecided => decision = "none"
  /\ step \in {"evidence", "save", "write", "publish", "exit"} => decision \in GateActions
  /\ step \in Unsaved => file.state # "complete"
  /\ step \in {"publish", "exit"} => file.state = "complete"
  /\ file.state = "complete" =>
       file.decision = decision /\ file.results = results /\ decision \in GateActions
  /\ step \in Unsaved \cup {"publish"} => outputs.result = "none"
  /\ exit = "0" => file.state = "complete" /\ decision # "BLOCK"

\* The first four results are those of the four domains.
Domained ==
  /\ phase = "done"
  /\ \A i \in 1..4 : i \in DOMAIN results /\ results[i] = DomainResult(GateDomains[i])

Judged ==
  /\ step \in {"policy", "validate"} => results = << >>
  /\ step = "identity" => Domained /\ Len(results) = 4
  /\ step \in Steps \ {"policy", "validate", "identity", "ended"} => Domained /\ Len(results) = 5
  /\ decision # "none" =>
       Domained /\ ~Raises(gatePolicy, results) /\ decision = Verdict(gatePolicy, results)

GInv == IInv /\ GateTypeOK /\ Flow /\ Judged

-----------------------------------------------------------------------------
(* Lemmas about the verdict and the results. *)

\* FinalAction returns an action.
LEMMA FinalActionTyped ==
  ASSUME NEW S
  PROVE  /\ FinalAction(S) \in GateActions
         /\ FinalAction(S) = "BLOCK" <=> "BLOCK" \in S
         /\ FinalAction(S) = "ALLOW" <=> ("BLOCK" \notin S /\ "WARN" \notin S)
PROOF
  BY DEF FinalAction, GateActions

\* The verdict of a list in terms of its single results.
LEMMA VerdictByResult ==
  ASSUME NEW p, NEW rs, ~Raises(p, rs)
  PROVE  /\ Verdict(p, rs) \in GateActions
         /\ Verdict(p, rs) = "BLOCK" <=> \E i \in DOMAIN rs : "BLOCK" \in Actions(p, rs[i])
         /\ Verdict(p, rs) = "ALLOW" <=>
              \A i \in DOMAIN rs : "BLOCK" \notin Actions(p, rs[i]) /\ "WARN" \notin Actions(p, rs[i])
PROOF
  <1> DEFINE S == UNION {Actions(p, rs[i]) : i \in DOMAIN rs}
  <1>1. Verdict(p, rs) = FinalAction(S)
    BY DEF Verdict
  <1>2. \A a : a \in S <=> \E i \in DOMAIN rs : a \in Actions(p, rs[i])
    OBVIOUS
  <1> HIDE DEF S
  <1> QED BY <1>1, <1>2, FinalActionTyped

\* A failure that no word of the policy relaxes is blocked, or evaluate raises.
LEMMA UnrelaxedBlocks ==
  ASSUME NEW p, NEW r, r.state = "FAIL", ~Unusable(p, r),
         Upper(p[r.validator]) \notin {"ALLOW", "WARN"}, Upper(p[Default]) \notin {"ALLOW", "WARN"}
  PROVE  "BLOCK" \in Actions(p, r)
PROOF
  <1> DEFINE entry == PolicyEntry(p, r.validator)
  <1>1. entry = NoOnFail \/ Upper(entry) \notin {"ALLOW", "WARN"}
    BY DEF PolicyEntry
  <1>2. OnFail(p, r.validator) \notin {"ALLOW", "WARN"}
    BY <1>1 DEF OnFail
  <1>3. OnFail(p, r.validator) = "BLOCK"
    BY <1>2 DEF Unusable, GateActions
  <1> QED BY <1>3 DEF Actions

LEMMA GateDomainsAre ==
  /\ Len(GateDomains) = 4 /\ DOMAIN GateDomains = 1..4
  /\ \A i \in 1..4 : GateDomains[i].name \in Validators
  /\ \A i \in 1..4 : GateDomains[i].category \in Domains \ {"security", "governance"}
  /\ \A i, j \in 1..4 : GateDomains[i].category = GateDomains[j].category => i = j
  /\ \A d \in Domains \ {"security", "governance"} : \E i \in 1..4 : GateDomains[i].category = d
PROOF
  <1>1. /\ Len(GateDomains) = 4 /\ DOMAIN GateDomains = 1..4
        /\ GateDomains[1] = [name |-> "spectral", category |-> "openapi"]
        /\ GateDomains[2] = [name |-> "opa", category |-> "policy"]
        /\ GateDomains[3] = [name |-> "schema", category |-> "schema"]
        /\ GateDomains[4] = [name |-> "traceability", category |-> "traceability"]
    BY DEF GateDomains
  <1>2. \A i \in 1..4 : i = 1 \/ i = 2 \/ i = 3 \/ i = 4
    OBVIOUS
  <1>3. \A i \in 1..4 : GateDomains[i].name \in Validators
    BY <1>1, <1>2, RequestsAssumption
  <1>4. \A i \in 1..4 : GateDomains[i].category \in Domains \ {"security", "governance"}
    BY <1>1, <1>2 DEF Domains
  <1>5. \A i, j \in 1..4 : GateDomains[i].category = GateDomains[j].category => i = j
    BY <1>1, <1>2
  <1>6. \A d \in Domains \ {"security", "governance"} :
          d = "openapi" \/ d = "policy" \/ d = "schema" \/ d = "traceability"
    BY DEF Domains
  <1>7. ASSUME NEW d \in Domains \ {"security", "governance"}
        PROVE  \E i \in 1..4 : GateDomains[i].category = d
    <2>1. 1 \in 1..4 /\ 2 \in 1..4 /\ 3 \in 1..4 /\ 4 \in 1..4
      OBVIOUS
    <2> QED BY <1>1, <1>6, <2>1
  <1> QED BY <1>1, <1>3, <1>4, <1>5, <1>7

LEMMA DomainResultTyped ==
  ASSUME TypeOK, Reporting, phase = "done", NEW i \in 1..4
  PROVE  DomainResult(GateDomains[i]) \in GateResults
PROOF
  <1> DEFINE c == GateDomains[i].category
  <1>1. GateDomains[i].name \in Validators /\ c \in Domains
    BY GateDomainsAre
  <1>2. domains_status[c] \in {"RUN", "ERROR", "SKIPPED", "NOT_APPLICABLE"}
    BY <1>1, Phased DEF Reporting, TypeOK
  <1>3. DomainState(c) \in States
    BY <1>2 DEF DomainState, States
  <1>4. InCategory(c) \subseteq 1..Len(resolved) /\ Len(resolved) \in Nat
    BY LenProperties DEF InCategory, TypeOK
  <1>5. IsFiniteSet(1..Len(resolved))
    BY <1>4, FS_Interval
  <1>6. Blocking(c) \subseteq 1..Len(resolved)
    BY <1>4 DEF Blocking
  <1>7. Cardinality(Blocking(c)) \in Nat
    BY <1>5, <1>6, FS_Subset, FS_CardinalityType
  <1>8. InCategory(c) \in SUBSET Nat
    BY <1>4
  <1> QED BY <1>1, <1>3, <1>7, <1>8 DEF DomainResult, GateResults

\* A domain in ERROR, or with a blocking finding, is a result that blocks or
\* that only the policy can relax.
LEMMA BrokenDomainBlocks ==
  ASSUME Domained, ~Raises(gatePolicy, results), NEW i \in 1..4,
         domains_status[GateDomains[i].category] = "ERROR"
  PROVE  results[i].state = "ERROR" /\ Verdict(gatePolicy, results) = "BLOCK"
PROOF
  <1>1. results[i].state = "ERROR" /\ i \in DOMAIN results
    BY DEF Domained, DomainResult, DomainState
  <1>2. "BLOCK" \in Actions(gatePolicy, results[i])
    BY <1>1 DEF Actions
  <1> QED BY <1>1, <1>2, VerdictByResult

\* Every blocking finding of a finished run is a blocking finding of exactly
\* one of the four domains of the gate.
LEMMA BlockersAreOwned ==
  ASSUME IInv, Domained, NEW k \in DOMAIN resolved, resolved[k].effective = "FAIL"
  PROVE  \E i \in 1..4 :
           /\ k \in results[i].listed
           /\ results[i].state = "FAIL"
           /\ \A j \in 1..4 : k \in results[j].listed => j = i
PROOF
  <1>1. call \in Calls /\ phase = "done"
    BY DEF IInv, TypeOK, Domained
  <1>2. Uninjected /\ call.sources["security"] = "skipped" /\ call.sources["governance"] = "skipped"
    BY <1>1, RequestsAssumption DEF Uninjected, Domains
  <1>3. k \in DOMAIN findings
    BY <1>1, LenProperties DEF IInv, TypeOK, Kept, Resolved
  <1>4. PICK d \in Domains : FiledUnder(findings[k], d) /\ domains_status[d] = "RUN"
    BY <1>2, <1>3 DEF IInv, Filing
  <1>5. resolved[k].category = d
    BY <1>1, <1>3, <1>4 DEF IInv, Kept, Resolved
  <1>6. d \notin {"security", "governance"}
    BY <1>2, <1>4 DEF IInv, Reporting
  <1>7. PICK i \in 1..4 : GateDomains[i].category = d
    BY <1>6, GateDomainsAre
  <1>8. \A j \in 1..4 : results[j].listed = InCategory(GateDomains[j].category)
    BY DEF Domained, DomainResult
  <1>9. k \in InCategory(d) /\ k \in Blocking(d)
    BY <1>5 DEF InCategory, Blocking
  <1>10. results[i].state = "FAIL"
    BY <1>4, <1>7, <1>9 DEF Domained, DomainResult, DomainState
  <1>11. \A j \in 1..4 : k \in results[j].listed => GateDomains[j].category = d
    BY <1>5, <1>8 DEF InCategory
  <1> QED BY <1>7, <1>8, <1>9, <1>10, <1>11, GateDomainsAre

-----------------------------------------------------------------------------
(* The invariant. *)

LEMMA GateMovesAggregator == GateNext => [Next]_aggVars
PROOF
  BY DEF GateNext, GateStep, LoadPolicy, PolicyUnreadable, Validate, ValidateRaises, DomainResults,
         IdentitySkipped, IdentityBreaks, IdentityChecked, IdentityCrashes, Identity, Evaluate,
         EvaluateRaises, CollectEvidence, OpenEvidence, WriteEvidence, EvidenceRaises, Publish,
         NothingToPublish, Exit, Kill, Traceback

\* One step of the gate, with the five ways in which the process ends early
\* and the five ways in which the identity contract answers taken together.
Aborts ==
  /\ exit = "running"
  /\ exit' \in {"1", "killed"}
  /\ step' = "ended"
  /\ UNCHANGED <<aggVars, request, gatePolicy, results, crashed, decision, file, outputs>>

IdentityAnswers ==
  /\ At("identity")
  /\ \E state \in States : \E n \in Nat : Identity(state, n)
  /\ crashed' \in {crashed, TRUE}

LEMMA GateCases ==
  ASSUME GateNext
  PROVE  \/ Aborts \/ LoadPolicy \/ Validate \/ DomainResults \/ IdentityAnswers \/ Evaluate
         \/ CollectEvidence \/ OpenEvidence \/ WriteEvidence \/ Publish \/ NothingToPublish \/ Exit
PROOF
  <1>1. CASE PolicyUnreadable \/ ValidateRaises \/ EvaluateRaises \/ EvidenceRaises \/ Kill
    BY <1>1 DEF PolicyUnreadable, ValidateRaises, EvaluateRaises, EvidenceRaises, Kill, Traceback,
                At, Aborts
  <1>2. CASE IdentitySkipped \/ IdentityBreaks \/ IdentityChecked \/ IdentityCrashes
    <2>1. Reasons \subseteq Nat
      BY RequestsAssumption
    <2>2. \E state \in States : \E n \in Nat : Identity(state, n)
      BY <1>2, <2>1 DEF IdentitySkipped, IdentityBreaks, IdentityChecked, IdentityCrashes, States
    <2>3. At("identity") /\ crashed' \in {crashed, TRUE}
      BY <1>2 DEF IdentitySkipped, IdentityBreaks, IdentityChecked, IdentityCrashes
    <2> QED BY <2>2, <2>3 DEF IdentityAnswers
  <1> QED BY <1>1, <1>2 DEF GateNext, GateStep

LEMMA InitGInv == GateInit => GInv
PROOF
  <1> SUFFICES ASSUME GateInit PROVE GInv
    OBVIOUS
  <1>1. IInv
    BY InitIInv DEF GateInit
  <1>2. GateTypeOK
    <2>1. << >> \in Seq(GateResults)
      OBVIOUS
    <2>2. file \in [state : {"absent", "partial", "complete"}, results : Seq(GateResults),
                   decision : GateActions \cup {"none"}]
      BY <2>1 DEF GateInit
    <2> QED BY <2>1, <2>2 DEF GateInit, GateTypeOK, Steps
  <1>3. Flow /\ Judged
    BY DEF GateInit, Flow, Judged, Undecided, Unsaved
  <1> QED BY <1>1, <1>2, <1>3 DEF GInv

LEMMA NextGateTypeOK ==
  ASSUME GInv, GateNext
  PROVE  GateTypeOK'
PROOF
  <1> USE DEF GInv
  <1>1. CASE Aborts
    BY <1>1 DEF Aborts, GateTypeOK, Steps
  <1>2. CASE LoadPolicy
    BY <1>2 DEF LoadPolicy, GateTypeOK, Steps
  <1>3. CASE Validate
    BY <1>3 DEF Validate, gateVars, GateTypeOK
  <1>4. CASE DomainResults
    <2>1. \A i \in 1..4 : DomainResult(GateDomains[i]) \in GateResults
      BY <1>4, DomainResultTyped DEF DomainResults, IInv
    <2>2. results' = [i \in 1..4 |-> DomainResult(GateDomains[i])]
      BY <1>4, GateDomainsAre DEF DomainResults
    <2>3. results' \in Seq(GateResults)
      BY <2>1, <2>2, SeqDef
    <2> QED BY <1>4, <2>3 DEF DomainResults, GateTypeOK, Steps
  <1>5. CASE IdentityAnswers
    <2>1. PICK state \in States, n \in Nat : Identity(state, n)
      BY <1>5 DEF IdentityAnswers
    <2> DEFINE answer == [validator |-> "identity-contract", state |-> state, count |-> n,
                          listed |-> 1..n]
    <2>2. answer \in GateResults
      BY RequestsAssumption DEF GateResults
    <2>3. results' = Append(results, answer)
      BY <2>1 DEF Identity
    <2>4. results' \in Seq(GateResults)
      BY <2>2, <2>3, AppendProperties DEF GateTypeOK
    <2> QED BY <1>5, <2>1, <2>4 DEF Identity, IdentityAnswers, GateTypeOK, Steps
  <1>6. CASE Evaluate
    <2>1. Verdict(gatePolicy, results) \in GateActions
      BY <1>6, VerdictByResult DEF Evaluate
    <2> QED BY <1>6, <2>1 DEF Evaluate, GateTypeOK, Steps
  <1>7. CASE CollectEvidence
    BY <1>7 DEF CollectEvidence, GateTypeOK, Steps
  <1>8. CASE OpenEvidence
    BY <1>8 DEF OpenEvidence, GateTypeOK, Steps
  <1>9. CASE WriteEvidence
    BY <1>9 DEF WriteEvidence, GateTypeOK, Steps
  <1>10. CASE Publish
    <2>1. Len(results) = 5
      BY <1>10 DEF Publish, At, Judged, Steps
    <2>2. \A i \in 1..5 : results[i] \in GateResults
      BY <2>1, ElementOfSeq DEF GateTypeOK
    <2>3. Counts \in Nat
      BY <2>2 DEF Counts, GateResults
    <2>4. decision \in GateActions
      BY <1>10 DEF Publish, At, Flow
    <2> QED BY <1>10, <2>3, <2>4 DEF Publish, GateTypeOK, Steps
  <1>11. CASE NothingToPublish
    BY <1>11 DEF NothingToPublish, GateTypeOK, Steps
  <1>12. CASE Exit
    BY <1>12 DEF Exit, GateTypeOK, Steps
  <1> QED BY <1>1, <1>2, <1>3, <1>4, <1>5, <1>6, <1>7, <1>8, <1>9, <1>10, <1>11, <1>12, GateCases

LEMMA NextFlow ==
  ASSUME GInv, GateNext
  PROVE  Flow'
PROOF
  <1> USE DEF GInv, Flow, Undecided, Unsaved, At
  <1>1. CASE Aborts
    BY <1>1 DEF Aborts
  <1>2. CASE LoadPolicy
    BY <1>2 DEF LoadPolicy
  <1>3. CASE Validate
    BY <1>3 DEF Validate, gateVars
  <1>4. CASE DomainResults
    BY <1>4 DEF DomainResults
  <1>5. CASE IdentityAnswers
    BY <1>5 DEF IdentityAnswers, Identity
  <1>6. CASE Evaluate
    <2>1. Verdict(gatePolicy, results) \in GateActions
      BY <1>6, VerdictByResult DEF Evaluate
    <2> QED BY <1>6, <2>1 DEF Evaluate
  <1>7. CASE CollectEvidence
    BY <1>7 DEF CollectEvidence
  <1>8. CASE OpenEvidence
    BY <1>8 DEF OpenEvidence, GateTypeOK
  <1>9. CASE WriteEvidence
    BY <1>9 DEF WriteEvidence
  <1>10. CASE Publish
    BY <1>10 DEF Publish
  <1>11. CASE NothingToPublish
    BY <1>11 DEF NothingToPublish
  <1>12. CASE Exit
    BY <1>12 DEF Exit
  <1> QED BY <1>1, <1>2, <1>3, <1>4, <1>5, <1>6, <1>7, <1>8, <1>9, <1>10, <1>11, <1>12, GateCases

\* What the results of the domains depend on does not change any more.
LEMMA DomainedStays ==
  ASSUME Domained, UNCHANGED aggVars, results' = results
  PROVE  Domained'
PROOF
  <1>1. UNCHANGED <<phase, resolved, domains_status>>
    BY DEF aggVars, domainVars, resultVars
  <1>2. \A v : DomainResult(v)' = DomainResult(v)
    BY <1>1 DEF DomainResult, DomainState, Blocking, InCategory
  <1> QED BY <1>1, <1>2 DEF Domained, GateDomains

LEMMA NextJudged ==
  ASSUME GInv, GateNext
  PROVE  Judged'
PROOF
  <1> USE DEF GInv
  <1>1. CASE /\ UNCHANGED <<aggVars, gatePolicy, results, decision>>
             /\ \/ step' = "ended"
                \/ /\ step \in Steps \ {"policy", "validate", "identity", "ended"}
                   /\ step' \in Steps \ {"policy", "validate", "identity"}
    BY <1>1, DomainedStays DEF Judged
  <1>2. CASE Aborts
    BY <1>1, <1>2 DEF Aborts
  <1>3. CASE LoadPolicy
    BY <1>3 DEF LoadPolicy, At, Judged, Flow, Undecided
  <1>4. CASE Validate
    BY <1>4 DEF Validate, gateVars, At, Judged, Flow, Undecided
  <1>5. CASE DomainResults
    <2>1. results' = [i \in 1..4 |-> DomainResult(GateDomains[i])] /\ Len(results') = 4
      BY <1>5, GateDomainsAre DEF DomainResults
    <2>2. UNCHANGED <<phase, resolved, domains_status>> /\ phase = "done"
      BY <1>5 DEF DomainResults, aggVars, domainVars, resultVars
    <2>3. \A i \in 1..4 : (DomainResult(GateDomains[i]))' = DomainResult(GateDomains[i])
      BY <2>2 DEF DomainResult, DomainState, Blocking, InCategory, GateDomains
    <2>4. Domained'
      BY <2>1, <2>2, <2>3 DEF Domained
    <2> QED BY <1>5, <2>1, <2>4 DEF DomainResults, At, Judged, Flow, Undecided
  <1>6. CASE IdentityAnswers
    <2>1. PICK state \in States, n \in Nat : Identity(state, n)
      BY <1>6 DEF IdentityAnswers
    <2>2. Domained /\ Len(results) = 4 /\ results \in Seq(GateResults) /\ decision = "none"
      BY <1>6 DEF IdentityAnswers, At, Judged, Flow, Undecided, GateTypeOK
    <2> DEFINE answer == [validator |-> "identity-contract", state |-> state, count |-> n,
                          listed |-> 1..n]
    <2>3. results' = Append(results, answer) /\ answer \in GateResults
      BY <2>1, RequestsAssumption DEF Identity, GateResults
    <2> HIDE DEF answer
    <2>4. /\ Len(results') = 5 /\ DOMAIN results' = 1..5
          /\ \A i \in 1..4 : results'[i] = results[i]
      <3> HIDE DEF GateResults
      <3>1. /\ Append(results, answer) \in Seq(GateResults)
            /\ Len(Append(results, answer)) = 5
            /\ \A i \in 1..4 : Append(results, answer)[i] = results[i]
        <4>1. answer \in GateResults /\ results \in Seq(GateResults)
          BY <2>2, <2>3
        <4>2. /\ Append(results, answer) \in Seq(GateResults)
              /\ Len(Append(results, answer)) = Len(results) + 1
              /\ \A i \in 1..Len(results) : Append(results, answer)[i] = results[i]
          BY ONLY <4>1, AppendProperties
        <4> QED BY ONLY <2>2, <4>2
      <3>2. DOMAIN Append(results, answer) = 1..5
        BY <3>1, LenProperties
      <3> QED BY <2>3, <3>1, <3>2
    <2>5. UNCHANGED <<phase, resolved, domains_status>>
      BY <2>1 DEF Identity, aggVars, domainVars, resultVars
    <2>6. \A i \in 1..4 : (DomainResult(GateDomains[i]))' = DomainResult(GateDomains[i])
      BY <2>5 DEF DomainResult, DomainState, Blocking, InCategory, GateDomains
    <2>7. Domained'
      BY <2>2, <2>4, <2>5, <2>6 DEF Domained
    <2>8. step' = "decide" /\ decision' = "none"
      BY <2>1, <2>2 DEF Identity
    <2> QED BY <2>4, <2>7, <2>8 DEF Judged
  <1>7. CASE Evaluate
    <2>1. Domained /\ Len(results) = 5
      BY <1>7 DEF Evaluate, At, Judged, Steps
    <2> QED BY <1>7, <2>1, DomainedStays DEF Evaluate, Judged
  <1>8. CASE CollectEvidence
    BY <1>1, <1>8 DEF CollectEvidence, At, Steps
  <1>9. CASE OpenEvidence
    BY <1>1, <1>9 DEF OpenEvidence, At, Steps
  <1>10. CASE WriteEvidence
    BY <1>1, <1>10 DEF WriteEvidence, At, Steps
  <1>11. CASE Publish
    BY <1>1, <1>11 DEF Publish, At, Steps
  <1>12. CASE NothingToPublish
    BY <1>1, <1>12 DEF NothingToPublish, At, Steps
  <1>13. CASE Exit
    BY <1>1, <1>13 DEF Exit, At, Steps
  <1> QED BY <1>2, <1>3, <1>4, <1>5, <1>6, <1>7, <1>8, <1>9, <1>10, <1>11, <1>12, <1>13, GateCases

LEMMA NextGInv == GInv /\ [GateNext]_vars => GInv'
PROOF
  <1>1. ASSUME GInv, GateNext PROVE GInv'
    <2>1. IInv'
      BY <1>1, GateMovesAggregator, NextIInv DEF GInv
    <2> QED BY <1>1, <2>1, NextGateTypeOK, NextFlow, NextJudged DEF GInv
  <1>2. ASSUME GInv, UNCHANGED vars PROVE GInv'
    <2>1. UNCHANGED aggVars /\ UNCHANGED gateVars
      BY <1>2 DEF vars
    <2>2. IInv'
      BY <1>2, <2>1, NextIInv DEF GInv
    <2>3. GateTypeOK' /\ Flow'
      BY <1>2, <2>1 DEF GInv, GateTypeOK, Flow, gateVars
    <2>4. Judged'
      BY <1>2, <2>1, DomainedStays DEF GInv, Judged, gateVars
    <2> QED BY <2>2, <2>3, <2>4 DEF GInv
  <1> QED BY <1>1, <1>2

-----------------------------------------------------------------------------
(* The theorems. *)

\* The invariant holds throughout every run of the gate.
THEOREM GateInvariant == GateSpec => []GInv
PROOF
  <1> QED BY InitGInv, NextGInv, PTL DEF GateSpec

\* The gate's variables keep their types.
THEOREM GateTypeCorrect == GateSpec => []GateTypeOK
PROOF
  <1>1. GInv => GateTypeOK
    BY DEF GInv
  <1> QED BY <1>1, GateInvariant, PTL

\* What exit status 0 says, in terms of the decision.
LEMMA ZeroMeansReleased ==
  ASSUME GInv, exit = "0"
  PROVE  /\ Domained /\ ~Raises(gatePolicy, results)
         /\ Verdict(gatePolicy, results) # "BLOCK"
         /\ \A i \in DOMAIN results : "BLOCK" \notin Actions(gatePolicy, results[i])
PROOF
  <1>1. decision \in GateActions /\ decision # "BLOCK"
    BY DEF GInv, Flow
  <1>2. Domained /\ ~Raises(gatePolicy, results) /\ decision = Verdict(gatePolicy, results)
    BY <1>1 DEF GInv, Judged, GateActions
  <1> QED BY <1>1, <1>2, VerdictByResult

\* A domain of this gate that the aggregator could not evaluate blocks.
LEMMA ZeroMeansUnbroken ==
  ASSUME GInv, exit = "0"
  PROVE  \A d \in Domains : domains_status[d] # "ERROR"
PROOF
  <1> SUFFICES ASSUME NEW d \in Domains, domains_status[d] = "ERROR" PROVE FALSE
    OBVIOUS
  <1>1. call \in Calls
    BY DEF GInv, IInv, TypeOK
  <1>2. d \notin {"security", "governance"}
    BY <1>1, RequestsAssumption DEF GInv, IInv, Reporting
  <1>3. PICK i \in 1..4 : GateDomains[i].category = d
    BY <1>2, GateDomainsAre
  <1> QED BY <1>3, ZeroMeansReleased, BrokenDomainBlocks

\* Under every policy, success means that everything asked for was evaluated.
THEOREM SuccessMeansEvaluated == GateSpec => []ZeroMeansEvaluated
PROOF
  <1>1. ASSUME GInv, exit = "0"
        PROVE  status # "ERROR" /\ \A i \in DOMAIN results : results[i].state # "ERROR"
    <2>1. \A i \in DOMAIN results : results[i].state # "ERROR"
      BY <1>1, ZeroMeansReleased DEF Actions
    <2>2. phase = "done"
      BY <1>1, ZeroMeansReleased DEF Domained
    <2>3. status # "ERROR"
      BY <1>1, <2>2, ZeroMeansUnbroken, StatusExact DEF GInv, StatusIsFailClosed
    <2> QED BY <2>1, <2>3
  <1>2. GInv => ZeroMeansEvaluated
    BY <1>1 DEF ZeroMeansEvaluated
  <1> QED BY <1>2, GateInvariant, PTL

\* Under a policy that relaxes nothing, success means that the aggregator
\* passed, without a blocking finding, and that no validator failed.
THEOREM StrictGateIsStrict == GateSpec => []StrictGateReleasesOnlyPassed
PROOF
  <1>1. ASSUME GInv, exit = "0", StrictPolicy
        PROVE  /\ status = "PASSED"
               /\ \A k \in DOMAIN resolved : resolved[k].effective # "FAIL"
               /\ \A i \in DOMAIN results : results[i].state \notin {"FAIL", "ERROR"}
    <2>1. /\ Domained /\ ~Raises(gatePolicy, results)
          /\ \A i \in DOMAIN results : "BLOCK" \notin Actions(gatePolicy, results[i])
      BY <1>1, ZeroMeansReleased
    <2>2. gatePolicy # NotADict /\ \A i \in DOMAIN results : ~Unusable(gatePolicy, results[i])
      BY <2>1 DEF Raises
    <2>3. gatePolicy \in [Validators \cup {Default} -> Entries]
      BY <1>1, <2>2, RequestsAssumption DEF GInv, GateTypeOK, Policies
    <2>4. \A v \in Validators \cup {Default} : Upper(gatePolicy[v]) \notin {"ALLOW", "WARN"}
      BY <1>1, <2>2, <2>3 DEF StrictPolicy
    <2>5. ASSUME NEW i \in DOMAIN results
          PROVE  results[i].state \notin {"FAIL", "ERROR"}
      <3>1. results[i] \in GateResults
        BY <1>1, <2>5, ElementOfSeq, LenProperties DEF GInv, GateTypeOK
      <3>2. results[i].validator \in Validators
        BY <3>1 DEF GateResults
      <3>3. results[i].state # "FAIL"
        BY <2>1, <2>2, <2>4, <3>2, UnrelaxedBlocks
      <3>4. results[i].state # "ERROR"
        BY <2>1 DEF Actions
      <3> QED BY <3>3, <3>4
    <2>6. \A i \in 1..4 : i \in DOMAIN results
      BY <2>1 DEF Domained
    <2>7. \A k \in DOMAIN resolved : resolved[k].effective # "FAIL"
      BY <1>1, <2>1, <2>5, <2>6, BlockersAreOwned DEF GInv
    <2>8. phase = "done" /\ \A d \in Domains : domains_status[d] # "ERROR"
      BY <1>1, <2>1, ZeroMeansUnbroken DEF Domained
    <2>9. status = "PASSED"
      BY <1>1, <2>7, <2>8, StatusExact DEF GInv, StatusIsFailClosed
    <2> QED BY <2>5, <2>7, <2>9
  <1>2. GInv => StrictGateReleasesOnlyPassed
    BY <1>1 DEF StrictGateReleasesOnlyPassed
  <1> QED BY <1>2, GateInvariant, PTL

\* A complete evidence file lists every blocking finding under exactly one
\* validator, as failed.
THEOREM EvidenceIsComplete == GateSpec => []EvidenceListsEveryBlocker
PROOF
  <1>1. ASSUME GInv, file.state = "complete" PROVE Domained /\ file.results = results
    BY <1>1 DEF GInv, Flow, Judged, GateActions
  <1>2. GInv => EvidenceListsEveryBlocker
    BY <1>1, BlockersAreOwned DEF GInv, EvidenceListsEveryBlocker
  <1> QED BY <1>2, GateInvariant, PTL

\* The run keeps the contract with the pipeline that called it.
THEOREM GateKeepsContract == GateSpec => ContractSpec
PROOF
  <1> DEFINE recorded == IF file.state = "complete" THEN file.decision ELSE "none"
             published == outputs.result
  <1>1. GateInit => Contract!Init
    BY DEF GateInit, Contract!Init
  <1>2. ASSUME GInv, [GateNext]_vars
        PROVE  [Contract!Next]_(Contract!vars)
    <2> USE DEF Contract!vars
    <2>1. CASE UNCHANGED <<decision, file, outputs, exit>>
      BY <2>1
    <2>2. CASE Aborts
      BY <2>2 DEF Aborts, Contract!Next, Contract!Fail
    <2>3. CASE Evaluate
      <3>1. Verdict(gatePolicy, results) \in {"ALLOW", "WARN", "BLOCK"}
        BY <2>3, VerdictByResult DEF Evaluate, GateActions
      <3>2. decision = "none"
        BY <1>2, <2>3 DEF Evaluate, At, GInv, Flow, Undecided
      <3> QED BY <2>3, <3>1, <3>2
              DEF Evaluate, At, Contract!Next, Contract!Decide, Contract!Actions
    <2>4. CASE OpenEvidence
      <3>1. file.state # "complete" /\ file'.state = "partial"
        BY <1>2, <2>4 DEF OpenEvidence, At, GInv, Flow, Unsaved, GateTypeOK
      <3> QED BY <2>4, <3>1 DEF OpenEvidence
    <2>5. CASE WriteEvidence
      <3>1. file.state # "complete" /\ decision \in GateActions
        BY <1>2, <2>5 DEF WriteEvidence, At, GInv, Flow, Unsaved
      <3> QED BY <2>5, <3>1
              DEF WriteEvidence, At, GateActions, Contract!Next, Contract!Record
    <2>6. CASE Publish
      <3>1. /\ file.state = "complete" /\ file.decision = decision /\ decision \in GateActions
            /\ outputs.result = "none"
        BY <1>2, <2>6 DEF Publish, At, GInv, Flow, Unsaved
      <3> QED BY <2>6, <3>1
              DEF Publish, At, GateActions, Contract!Next, Contract!Publish
    <2>7. CASE Exit
      <3>1. file.state = "complete" /\ file.decision = decision /\ decision \in GateActions
        BY <1>2, <2>7 DEF Exit, At, GInv, Flow
      <3>2. CASE decision = "BLOCK"
        BY <2>7, <3>2 DEF Exit, At, Contract!Next, Contract!Fail
      <3>3. CASE decision # "BLOCK"
        BY <2>7, <3>1, <3>3
        DEF Exit, At, GateActions, Contract!Next, Contract!Succeed
      <3> QED BY <3>2, <3>3
    <2>8. LoadPolicy \/ Validate \/ DomainResults \/ IdentityAnswers \/ CollectEvidence
            \/ NothingToPublish => UNCHANGED <<decision, file, outputs, exit>>
      BY DEF LoadPolicy, Validate, gateVars, DomainResults, IdentityAnswers, Identity,
             CollectEvidence, NothingToPublish
    <2>9. UNCHANGED vars => UNCHANGED <<decision, file, outputs, exit>>
      BY DEF vars, gateVars
    <2> QED BY <1>2, <2>1, <2>2, <2>3, <2>4, <2>5, <2>6, <2>7, <2>8, <2>9, GateCases
  <1> QED BY <1>1, <1>2, GateInvariant, PTL DEF GateSpec, ContractSpec, Contract!Spec

-----------------------------------------------------------------------------
(* The published count.  The reasons of the identity contract are listed    *)
(* one by one, and what was published is the sum of the counts that the     *)
(* evidence file of the run holds.                                          *)

Published ==
  /\ Len(results) = 5 => results[5].listed = 1..results[5].count
  /\ outputs.result # "none" =>
       file.state = "complete" /\ Len(results) = 5 /\ outputs.count = Counts

\* The union of two disjoint finite sets has as many elements as both together.
LEMMA DisjointUnion ==
  ASSUME NEW S, NEW T, IsFiniteSet(S), IsFiniteSet(T), S \cap T = {}
  PROVE  /\ IsFiniteSet(S \cup T)
         /\ Cardinality(S \cup T) = Cardinality(S) + Cardinality(T)
PROOF
  <1>1. Cardinality(S) \in Nat /\ Cardinality(T) \in Nat /\ Cardinality(S \cap T) = 0
    BY FS_CardinalityType, FS_EmptySet
  <1>2. /\ IsFiniteSet(S \cup T)
        /\ Cardinality(S \cup T) = Cardinality(S) + Cardinality(T) - Cardinality(S \cap T)
    BY FS_Union
  <1> QED BY <1>1, <1>2

LEMMA NextPublished ==
  ASSUME GInv, Published, GateNext
  PROVE  Published'
PROOF
  <1> USE DEF GInv
  <1>1. CASE /\ UNCHANGED <<results, outputs>>
             /\ file' = file \/ outputs.result = "none"
    BY <1>1 DEF Published, Counts
  <1>2. CASE Aborts \/ LoadPolicy \/ Evaluate \/ CollectEvidence \/ NothingToPublish \/ Exit
    BY <1>1, <1>2 DEF Aborts, LoadPolicy, Evaluate, CollectEvidence, NothingToPublish, Exit
  <1>3. CASE Validate
    BY <1>1, <1>3 DEF Validate, gateVars
  <1>4. CASE OpenEvidence \/ WriteEvidence
    BY <1>1, <1>4 DEF OpenEvidence, WriteEvidence, At, Flow, Unsaved
  <1>5. CASE DomainResults
    <2>1. outputs' = outputs /\ outputs.result = "none"
      BY <1>5 DEF DomainResults, At, Flow, Unsaved, Undecided
    <2>2. results' = [i \in 1..4 |-> DomainResult(GateDomains[i])] /\ Len(results') = 4
      BY <1>5, GateDomainsAre DEF DomainResults
    <2> QED BY <2>1, <2>2 DEF Published
  <1>6. CASE IdentityAnswers
    <2>1. PICK state \in States, n \in Nat : Identity(state, n)
      BY <1>6 DEF IdentityAnswers
    <2>2. /\ Len(results) = 4 /\ results \in Seq(GateResults)
          /\ outputs' = outputs /\ outputs.result = "none"
      BY <1>6, <2>1 DEF IdentityAnswers, Identity, At, Judged, Flow, Unsaved, Undecided, GateTypeOK
    <2> DEFINE answer == [validator |-> "identity-contract", state |-> state, count |-> n,
                          listed |-> 1..n]
    <2>3. answer \in GateResults /\ answer.listed = 1..answer.count
      BY RequestsAssumption DEF GateResults
    <2>4. results' = Append(results, answer)
      BY <2>1 DEF Identity
    <2> HIDE DEF answer, GateResults
    <2>5. results'[5] = answer
      <3>1. answer \in GateResults /\ results \in Seq(GateResults)
        BY <2>2, <2>3
      <3>2. Append(results, answer)[Len(results) + 1] = answer
        BY ONLY <3>1, AppendProperties
      <3> QED BY ONLY <2>2, <2>4, <3>2
    <2> QED BY <2>2, <2>3, <2>5 DEF Published
  <1>7. CASE Publish
    <2>1. Len(results) = 5 /\ file.state = "complete" /\ outputs \in [result : GateActions \cup {"none"}, count : Nat]
      BY <1>7 DEF Publish, At, Judged, Flow, Steps, GateTypeOK
    <2>2. outputs'.count = Counts /\ UNCHANGED <<results, file>>
      BY <1>7 DEF Publish
    <2> QED BY <2>1, <2>2 DEF Published, Counts
  <1> QED BY <1>2, <1>3, <1>4, <1>5, <1>6, <1>7, GateCases

\* The count of a domain's result is the number of its blocking findings, for
\* a domain without a FAIL result has none.
LEMMA DomainCountIsExact ==
  ASSUME IInv, Domained, NEW i \in 1..4
  PROVE  results[i].count = Cardinality(Blocking(GateDomains[i].category))
PROOF
  <1> DEFINE c == GateDomains[i].category
  <1>1. results[i] = DomainResult(GateDomains[i])
    BY DEF Domained
  <1>2. CASE DomainState(c) = "FAIL"
    BY <1>1, <1>2 DEF DomainResult
  <1>3. CASE DomainState(c) # "FAIL"
    <2>1. Blocking(c) = {}
      <3> SUFFICES ASSUME NEW k \in Blocking(c) PROVE FALSE
        OBVIOUS
      <3>1. k \in DOMAIN resolved /\ resolved[k].effective = "FAIL" /\ k \in results[i].listed
        BY <1>1 DEF Blocking, InCategory, DomainResult
      <3>2. results[i].state = "FAIL"
        BY <3>1, BlockersAreOwned
      <3> QED BY <1>1, <1>3, <3>2 DEF DomainResult
    <2>2. results[i].count = 0
      BY <1>1, <1>3 DEF DomainResult
    <2> QED BY <2>1, <2>2, FS_EmptySet
  <1> QED BY <1>2, <1>3

\* The blocking findings are those of the four domains, each in one of them.
LEMMA BlockersAreCounted ==
  ASSUME IInv, Domained
  PROVE  Cardinality({k \in DOMAIN resolved : resolved[k].effective = "FAIL"})
         = results[1].count + results[2].count + results[3].count + results[4].count
PROOF
  <1> DEFINE B(i) == Blocking(GateDomains[i].category)
             blockers == {k \in DOMAIN resolved : resolved[k].effective = "FAIL"}
  <1>1. 1 \in 1..4 /\ 2 \in 1..4 /\ 3 \in 1..4 /\ 4 \in 1..4
    OBVIOUS
  <1>2. \A i \in 1..4 : B(i) \subseteq blockers
    BY DEF Blocking, InCategory
  <1>3. \A i, j \in 1..4 : i # j => B(i) \cap B(j) = {}
    BY GateDomainsAre DEF Blocking, InCategory
  <1>4. \A k \in blockers : \E i \in 1..4 : k \in B(i)
    <2> SUFFICES ASSUME NEW k \in blockers PROVE \E i \in 1..4 : k \in B(i)
      OBVIOUS
    <2>1. PICK i \in 1..4 : k \in results[i].listed
      BY BlockersAreOwned
    <2> QED BY <2>1 DEF Domained, DomainResult, Blocking
  <1>5. IsFiniteSet(blockers)
    <2>1. blockers \subseteq 1..Len(resolved) /\ Len(resolved) \in Nat
      BY LenProperties DEF IInv, TypeOK
    <2>2. IsFiniteSet(1..Len(resolved))
      BY <2>1, FS_Interval
    <2> QED BY <2>1, <2>2, FS_Subset
  <1>6. \A i \in 1..4 : results[i].count = Cardinality(B(i))
    BY DomainCountIsExact
  <1>7. \A i \in 1..4 : i = 1 \/ i = 2 \/ i = 3 \/ i = 4
    OBVIOUS
  <1> HIDE DEF B, blockers
  <1>8. \A i \in 1..4 : IsFiniteSet(B(i)) /\ Cardinality(B(i)) \in Nat
    BY <1>2, <1>5, FS_Subset, FS_CardinalityType
  <1>9. blockers = (B(1) \cup B(2)) \cup (B(3) \cup B(4))
    BY <1>1, <1>2, <1>4, <1>7
  <1>10. /\ IsFiniteSet(B(1) \cup B(2))
         /\ Cardinality(B(1) \cup B(2)) = Cardinality(B(1)) + Cardinality(B(2))
    <2>1. IsFiniteSet(B(1)) /\ IsFiniteSet(B(2)) /\ B(1) \cap B(2) = {}
      BY <1>1, <1>3, <1>8
    <2> QED BY ONLY <2>1, DisjointUnion
  <1>11. /\ IsFiniteSet(B(3) \cup B(4))
         /\ Cardinality(B(3) \cup B(4)) = Cardinality(B(3)) + Cardinality(B(4))
    <2>1. IsFiniteSet(B(3)) /\ IsFiniteSet(B(4)) /\ B(3) \cap B(4) = {}
      BY <1>1, <1>3, <1>8
    <2> QED BY ONLY <2>1, DisjointUnion
  <1>12. (B(1) \cup B(2)) \cap (B(3) \cup B(4)) = {}
    BY <1>1, <1>3
  <1>13. Cardinality(blockers)
         = Cardinality(B(1) \cup B(2)) + Cardinality(B(3) \cup B(4))
    BY <1>9, <1>10, <1>11, <1>12, DisjointUnion
  <1>14. /\ results[1].count = Cardinality(B(1)) /\ results[2].count = Cardinality(B(2))
         /\ results[3].count = Cardinality(B(3)) /\ results[4].count = Cardinality(B(4))
    BY <1>1, <1>6
  <1>15. /\ Cardinality(B(1)) \in Nat /\ Cardinality(B(2)) \in Nat
         /\ Cardinality(B(3)) \in Nat /\ Cardinality(B(4)) \in Nat
    BY <1>1, <1>8
  <1>16. Cardinality(blockers)
         = results[1].count + results[2].count + results[3].count + results[4].count
    BY <1>10, <1>11, <1>13, <1>14, <1>15
  <1> QED BY <1>16 DEF blockers

\* The count that the gate publishes is the number of blocking findings plus
\* the violations of the identity contract listed in the evidence.
THEOREM CountIsExact == GateSpec => []PublishedCountIsExact
PROOF
  <1> DEFINE PInv == GInv /\ Published
  <1>1. GateInit => PInv
    <2>1. GateInit => Published
      BY DEF GateInit, Published
    <2> QED BY <2>1, InitGInv
  <1>2. PInv /\ [GateNext]_vars => PInv'
    <2>1. Published /\ UNCHANGED vars => Published'
      BY DEF Published, Counts, vars, gateVars
    <2> QED BY <2>1, NextGInv, NextPublished
  <1>3. PInv => PublishedCountIsExact
    <2> SUFFICES ASSUME GInv, Published, outputs.result # "none"
                 PROVE  PublishedCountIsExact
      BY DEF PublishedCountIsExact
    <2>1. /\ file.state = "complete" /\ Len(results) = 5 /\ outputs.count = Counts
          /\ results[5].listed = 1..results[5].count
      BY DEF Published
    <2>2. Domained /\ file.results = results
      BY <2>1 DEF GInv, Flow, Judged, GateActions
    <2>3. \A i \in 1..5 : results[i] \in GateResults
      BY <2>1, ElementOfSeq DEF GInv, GateTypeOK
    <2>4. /\ results[1].count \in Nat /\ results[2].count \in Nat /\ results[3].count \in Nat
          /\ results[4].count \in Nat /\ results[5].count \in Nat
      BY <2>3 DEF GateResults
    <2>5. Cardinality(results[5].listed) = results[5].count
      <3>1. Cardinality(1..results[5].count)
            = IF 1 > results[5].count THEN 0 ELSE results[5].count - 1 + 1
        <4>1. 1 \in Int /\ results[5].count \in Int
          BY <2>4
        <4> QED BY <4>1, FS_Interval
      <3> QED BY <2>1, <2>4, <3>1
    <2>6. Cardinality({k \in DOMAIN resolved : resolved[k].effective = "FAIL"})
          = results[1].count + results[2].count + results[3].count + results[4].count
      BY <2>2, BlockersAreCounted DEF GInv
    <2> QED BY <2>1, <2>2, <2>4, <2>5, <2>6 DEF PublishedCountIsExact, Counts
  <1> QED BY <1>1, <1>2, <1>3, PTL DEF GateSpec

=============================================================================
