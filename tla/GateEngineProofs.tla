-------------------------- MODULE GateEngineProofs --------------------------
(***************************************************************************)
(* GateDecisionEngine.evaluate, proved for every policy and every list of  *)
(* results: the loop computes the verdict of the list, an ERROR is never   *)
(* released, only the policy's own words relax a failure, and a worse list *)
(* is never released more easily.                                          *)
(***************************************************************************)
EXTENDS GateEngine, SequenceTheorems, TLAPS

\* The loop invariant: the actions and reasons are those of the results
\* already passed, none of which made evaluate raise.
Collected ==
  /\ policy = NotADict => index = 1
  /\ actions = UNION {Actions(policy, results[i]) : i \in 1..(index - 1)}
  /\ \A i \in 1..(index - 1) : ~Unusable(policy, results[i]) /\ reasons[i] = results[i]
  /\ decision \in GateActions => index = Len(results) + 1 /\ policy # NotADict

IInv == TypeOK /\ Collected /\ DecisionIsVerdict

-----------------------------------------------------------------------------
(* How outcomes compare. *)

\* The ranks of the outcomes.
LEMMA Ranks ==
  /\ Rank("ALLOW") = 0 /\ Rank("WARN") = 1 /\ Rank("BLOCK") = 2 /\ Rank("raised") = 2
  /\ \A a \in Outcomes : Rank(a) \in Nat /\ 2 >= Rank(a)
PROOF
  <1>1. Rank("ALLOW") = 0 /\ Rank("WARN") = 1 /\ Rank("BLOCK") = 2 /\ Rank("raised") = 2
    BY DEF Rank
  <1>2. \A a \in Outcomes : a = "ALLOW" \/ a = "WARN" \/ a = "BLOCK" \/ a = "raised"
    BY DEF Outcomes, GateActions
  <1> QED BY <1>1, <1>2

-----------------------------------------------------------------------------
(* What the verdict of a list says of its single results. *)

\* What a usable result contributes is a set of actions.
LEMMA ActionsTyped ==
  ASSUME NEW p, NEW r \in Results, ~Unusable(p, r)
  PROVE  Actions(p, r) \subseteq GateActions
PROOF
  BY DEF Results, States, Actions, Unusable, GateActions

\* A result contributes BLOCK only by an ERROR or by the policy of a FAIL.
LEMMA BlockContributed ==
  ASSUME NEW p, NEW r, "BLOCK" \in Actions(p, r)
  PROVE  r.state = "ERROR" \/ (r.state = "FAIL" /\ OnFail(p, r.validator) = "BLOCK")
PROOF
  <1>1. CASE r.state = "ERROR"
    BY <1>1
  <1>2. CASE r.state = "FAIL"
    <2>1. Actions(p, r) = {OnFail(p, r.validator)}
      BY <1>2 DEF Actions
    <2> QED BY <1>2, <2>1
  <1>3. CASE r.state # "ERROR" /\ r.state # "FAIL"
    <2>1. Actions(p, r) = {}
      BY <1>3 DEF Actions
    <2> QED BY <2>1
  <1> QED BY <1>1, <1>2, <1>3

\* FinalAction returns an action.
LEMMA FinalActionTyped ==
  ASSUME NEW S
  PROVE  /\ FinalAction(S) \in GateActions
         /\ FinalAction(S) = "BLOCK" <=> "BLOCK" \in S
         /\ FinalAction(S) = "ALLOW" <=> ("BLOCK" \notin S /\ "WARN" \notin S)
PROOF
  BY DEF FinalAction, GateActions

\* The verdict of a list in terms of its single results.
LEMMA VerdictByResult ==
  ASSUME NEW p, NEW rs, ~Raises(p, rs)
  PROVE  /\ Verdict(p, rs) \in GateActions
         /\ Verdict(p, rs) = "BLOCK" <=> \E i \in DOMAIN rs : "BLOCK" \in Actions(p, rs[i])
         /\ Verdict(p, rs) = "ALLOW" <=>
              \A i \in DOMAIN rs : "BLOCK" \notin Actions(p, rs[i]) /\ "WARN" \notin Actions(p, rs[i])
PROOF
  <1> DEFINE S == UNION {Actions(p, rs[i]) : i \in DOMAIN rs}
  <1>1. Verdict(p, rs) = FinalAction(S)
    BY DEF Verdict
  <1>2. \A a : a \in S <=> \E i \in DOMAIN rs : a \in Actions(p, rs[i])
    OBVIOUS
  <1> HIDE DEF S
  <1> QED BY <1>1, <1>2, FinalActionTyped

-----------------------------------------------------------------------------
(* The loop invariant. *)

\* Init establishes it.
LEMMA InitIInv == Init => IInv
PROOF
  <1> SUFFICES ASSUME Init PROVE IInv
    OBVIOUS
  <1>1. TypeOK
    BY DEF Init, TypeOK, Outcomes
  <1>2. Collected /\ DecisionIsVerdict
    BY DEF Init, Collected, DecisionIsVerdict, GateActions
  <1> QED BY <1>1, <1>2 DEF IInv

\* Every step preserves it.
LEMMA NextIInv == IInv /\ [Next]_vars => IInv'
PROOF
  <1> SUFFICES ASSUME IInv, [Next]_vars PROVE IInv'
    OBVIOUS
  <1> USE DEF IInv
  <1>0. /\ results \in Seq(Results) /\ index \in Nat /\ Len(results) \in Nat
        /\ DOMAIN results = 1..Len(results)
    BY DEF TypeOK
  <1>1. CASE RaiseOnPolicy \/ RaiseOnResult
    <2>1. /\ decision = "none" /\ decision' = "raised" /\ Raises(policy, results)
          /\ UNCHANGED <<policy, results, index, actions, reasons>>
      BY <1>1 DEF RaiseOnPolicy, RaiseOnResult, Raises
    <2>2. TypeOK' /\ Collected'
      BY <2>1 DEF TypeOK, Collected, Outcomes, GateActions
    <2>3. DecisionIsVerdict'
      BY <2>1 DEF DecisionIsVerdict, Verdict
    <2> QED BY <2>2, <2>3
  <1>2. CASE TakeResult
    <2> DEFINE r == results[index]
    <2>1. /\ decision = "none" /\ policy # NotADict /\ index \in 1..Len(results)
          /\ ~Unusable(policy, r)
          /\ actions' = actions \cup Actions(policy, r)
          /\ reasons' = Append(reasons, r)
          /\ index' = index + 1
          /\ UNCHANGED <<policy, results, decision>>
      BY <1>0, <1>2 DEF TakeResult
    <2>2. r \in Results
      BY <1>0, <2>1
    <2> HIDE DEF r
    <2>3. TypeOK'
      BY <1>0, <2>1, <2>2, ActionsTyped DEF TypeOK
    <2>4. \A i \in 1..(index - 1) : reasons'[i] = reasons[i]
      BY <2>1, <2>2 DEF TypeOK
    <2>5. reasons'[index] = results[index]
      BY <2>1, <2>2 DEF TypeOK, r
    <2>6. 1..(index' - 1) = 1..(index - 1) \cup {index}
      BY <1>0, <2>1
    <2>7. actions' = UNION {Actions(policy, results[i]) : i \in 1..(index' - 1)}
      BY <2>1, <2>6 DEF Collected, r
    <2>8. Collected'
      <3>1. ~Unusable(policy, results[index])
        BY <2>1 DEF r
      <3>2. \A i \in 1..(index' - 1) : ~Unusable(policy, results[i]) /\ reasons'[i] = results[i]
        BY <3>1, <2>4, <2>5, <2>6 DEF Collected
      <3>3. decision' \notin GateActions
        BY <2>1 DEF GateActions
      <3> QED BY <3>2, <3>3, <2>1, <2>7 DEF Collected
    <2>9. DecisionIsVerdict'
      BY <2>1 DEF DecisionIsVerdict
    <2> QED BY <2>3, <2>8, <2>9
  <1>3. CASE Decide
    <2>1. /\ decision = "none" /\ policy # NotADict /\ index = Len(results) + 1
          /\ decision' = FinalAction(actions)
          /\ UNCHANGED <<policy, results, index, actions, reasons>>
      BY <1>3 DEF Decide
    <2>2. TypeOK' /\ Collected'
      BY <2>1, FinalActionTyped DEF TypeOK, Collected, Outcomes
    <2>3. DOMAIN results = 1..(index - 1)
      BY <1>0, <2>1
    <2>4. ~Raises(policy, results)
      BY <2>1, <2>3 DEF Collected, Raises
    <2>5. DecisionIsVerdict'
      BY <2>1, <2>3, <2>4 DEF DecisionIsVerdict, Verdict, Collected
    <2> QED BY <2>2, <2>5
  <1>4. CASE UNCHANGED vars
    BY <1>4 DEF vars, TypeOK, Collected, DecisionIsVerdict
  <1> QED BY <1>1, <1>2, <1>3, <1>4 DEF Next

\* The loop invariant holds throughout every evaluation.
THEOREM EngineInvariant == Spec => []IInv
PROOF
  <1> QED BY InitIInv, NextIInv, PTL DEF Spec

\* The engine's variables keep their types.
THEOREM TypeCorrect == Spec => []TypeOK
PROOF
  <1>1. IInv => TypeOK
    BY DEF IInv
  <1> QED BY <1>1, EngineInvariant, PTL

\* evaluate computes the verdict of the whole list.
THEOREM EngineComputesVerdict == Spec => []DecisionIsVerdict
PROOF
  <1>1. IInv => DecisionIsVerdict
    BY DEF IInv
  <1> QED BY <1>1, EngineInvariant, PTL

-----------------------------------------------------------------------------
(* What the verdict promises. *)

\* An ERROR is never released, whatever the policy says of its validator.
THEOREM ErrorsAreNeverReleased == Spec => []ErrorIsNeverReleased
PROOF
  <1>1. ASSUME IInv PROVE ErrorIsNeverReleased
    <2> SUFFICES ASSUME NEW i \in DOMAIN results, results[i].state = "ERROR",
                        decision # "none", decision # "raised"
                 PROVE  decision = "BLOCK"
      BY DEF ErrorIsNeverReleased
    <2>1. ~Raises(policy, results) /\ decision = Verdict(policy, results)
      BY <1>1 DEF IInv, DecisionIsVerdict, Verdict
    <2>2. "BLOCK" \in Actions(policy, results[i])
      BY DEF Actions
    <2> QED BY <2>1, <2>2, VerdictByResult
  <1> QED BY <1>1, EngineInvariant, PTL

\* A failure is relaxed only by the words of the policy.
THEOREM FailuresAreRelaxedOnlyByPolicy == Spec => []RelaxedOnlyByPolicy
PROOF
  <1>1. ASSUME IInv PROVE RelaxedOnlyByPolicy
    <2> SUFFICES ASSUME decision \in {"ALLOW", "WARN"},
                        NEW i \in DOMAIN results, results[i].state = "FAIL"
                 PROVE  LET v == results[i].validator IN
                          \/ Upper(policy[v]) \in {"ALLOW", "WARN"}
                          \/ /\ policy[v] = NotADict
                             /\ Upper(policy[Default]) \in {"ALLOW", "WARN"}
      BY DEF RelaxedOnlyByPolicy
    <2> DEFINE v == results[i].validator
    <2>1. ~Raises(policy, results) /\ decision = Verdict(policy, results)
      BY <1>1 DEF IInv, DecisionIsVerdict, Verdict
    <2>2. "BLOCK" \notin Actions(policy, results[i]) /\ ~Unusable(policy, results[i])
      BY <2>1, VerdictByResult DEF Raises
    <2>3. OnFail(policy, v) \in {"ALLOW", "WARN"}
      BY <2>2 DEF Actions, Unusable, GateActions
    <2>4. PolicyEntry(policy, v) # NoOnFail /\ Upper(PolicyEntry(policy, v)) \in {"ALLOW", "WARN"}
      BY <2>3 DEF OnFail
    <2> QED BY <2>4 DEF PolicyEntry
  <1> QED BY <1>1, EngineInvariant, PTL

\* A BLOCK always has a reason that accounts for it.
THEOREM EveryBlockIsExplained == Spec => []BlockIsExplained
PROOF
  <1>1. ASSUME IInv PROVE BlockIsExplained
    <2> SUFFICES ASSUME decision = "BLOCK"
                 PROVE  \E i \in DOMAIN reasons :
                          \/ reasons[i].state = "ERROR"
                          \/ /\ reasons[i].state = "FAIL"
                             /\ OnFail(policy, reasons[i].validator) = "BLOCK"
      BY DEF BlockIsExplained
    <2>1. ~Raises(policy, results) /\ decision = Verdict(policy, results)
      BY <1>1 DEF IInv, DecisionIsVerdict, Verdict
    <2>2. PICK i \in DOMAIN results : "BLOCK" \in Actions(policy, results[i])
      BY <2>1, VerdictByResult
    <2>3. index = Len(results) + 1 /\ Len(reasons) = Len(results)
      BY <1>1 DEF IInv, Collected, TypeOK, GateActions
    <2>4. i \in DOMAIN reasons /\ reasons[i] = results[i]
      BY <1>1, <2>3 DEF IInv, Collected, TypeOK
    <2>5. \/ results[i].state = "ERROR"
          \/ results[i].state = "FAIL" /\ OnFail(policy, results[i].validator) = "BLOCK"
      BY <2>2, BlockContributed
    <2> QED BY <2>4, <2>5
  <1> QED BY <1>1, EngineInvariant, PTL

\* Doing worse never makes a release easier.
THEOREM WorseNeverHelps == Spec => []WorseIsNeverReleasedMore
PROOF
  <1>1. ASSUME TypeOK PROVE WorseIsNeverReleasedMore
    <2> SUFFICES ASSUME NEW i \in DOMAIN results, NEW s \in Worse(results[i].state)
                 PROVE  Rank(Verdict(policy, [results EXCEPT ![i].state = s]))
                          >= Rank(Verdict(policy, results))
      BY DEF WorseIsNeverReleasedMore
    <2> DEFINE worse == [results EXCEPT ![i].state = s]
    <2>0. results[i] \in Results /\ DOMAIN results = 1..Len(results)
      BY <1>1 DEF TypeOK
    <2>1. /\ DOMAIN worse = DOMAIN results
          /\ \A k \in DOMAIN results : k # i => worse[k] = results[k]
          /\ worse[i].state = s /\ worse[i].validator = results[i].validator
      BY <2>0, <1>1 DEF TypeOK, Results
    <2>2. s \in {"FAIL", "ERROR"} /\ (results[i].state = "FAIL" => s = "ERROR") /\ results[i].state # "ERROR"
      BY DEF Worse
    <2> HIDE DEF worse
    <2>3. Verdict(policy, worse) \in Outcomes /\ Verdict(policy, results) \in Outcomes
      BY VerdictByResult DEF Verdict, Outcomes
    <2>4. ASSUME Raises(policy, worse)
          PROVE  Rank(Verdict(policy, worse)) >= Rank(Verdict(policy, results))
      BY <2>3, <2>4, Ranks DEF Verdict
    <2>5. ASSUME ~Raises(policy, worse)
          PROVE  Rank(Verdict(policy, worse)) >= Rank(Verdict(policy, results))
      <3>1. CASE s = "ERROR"
        <4>1. "BLOCK" \in Actions(policy, worse[i])
          BY <3>1, <2>1 DEF Actions
        <4>2. Verdict(policy, worse) = "BLOCK"
          BY <4>1, <2>1, <2>5, VerdictByResult
        <4> QED BY <4>2, <2>3, Ranks
      <3>2. CASE s = "FAIL"
        <4>1. Actions(policy, results[i]) = {} /\ ~Unusable(policy, results[i])
          BY <3>2, <2>2 DEF Actions, Unusable
        <4>2. ~Raises(policy, results)
          BY <4>1, <2>1, <2>5 DEF Raises
        <4>3. \A k \in DOMAIN results : Actions(policy, results[k]) \subseteq Actions(policy, worse[k])
          BY <4>1, <2>1
        <4>4. Verdict(policy, results) = "BLOCK" => Verdict(policy, worse) = "BLOCK"
          BY <4>2, <4>3, <2>1, <2>5, VerdictByResult
        <4>5. Verdict(policy, worse) = "ALLOW" => Verdict(policy, results) = "ALLOW"
          BY <4>2, <4>3, <2>1, <2>5, VerdictByResult
        <4>6. Verdict(policy, results) \in GateActions /\ Verdict(policy, worse) \in GateActions
          BY <4>2, <2>5, VerdictByResult
        <4> QED BY <4>4, <4>5, <4>6, Ranks DEF GateActions
      <3> QED BY <3>1, <3>2, <2>2
    <2> QED BY <2>4, <2>5 DEF worse
  <1> QED BY <1>1, TypeCorrect, PTL

=============================================================================
