----------------------------- MODULE GateEngine -----------------------------
(***************************************************************************)
(* GateDecisionEngine.evaluate of src/core/engine.py, one validator result *)
(* per step: it looks up the policy, collects an action for each result    *)
(* that is FAIL or ERROR and a reason for every result, and reduces the    *)
(* actions to one.                                                         *)
(***************************************************************************)
EXTENDS GateVerdict

VARIABLES
  policy,    \* the policy the engine was constructed with
  results,   \* the list of validator results
  index,     \* the next result
  actions,   \* the actions collected (only membership is ever tested)
  reasons,   \* one reason for each result passed: its validator and state
  decision   \* "none" while evaluating, then an action or "raised"

vars == <<policy, results, index, actions, reasons, decision>>

Init ==
  /\ policy \in Policies
  /\ results \in Seq(Results)
  /\ index = 1
  /\ actions = {}
  /\ reasons = << >>
  /\ decision = "none"

\* self.policy.get on something that is not a mapping.
RaiseOnPolicy ==
  /\ decision = "none"
  /\ policy = NotADict
  /\ decision' = "raised"
  /\ UNCHANGED <<policy, results, index, actions, reasons>>

\* GateAction(...) or .upper() raises on this validator's on_fail.
RaiseOnResult ==
  /\ decision = "none"
  /\ policy # NotADict
  /\ index \in DOMAIN results
  /\ Unusable(policy, results[index])
  /\ decision' = "raised"
  /\ UNCHANGED <<policy, results, index, actions, reasons>>

TakeResult ==
  /\ decision = "none"
  /\ policy # NotADict
  /\ index \in DOMAIN results
  /\ ~Unusable(policy, results[index])
  /\ actions' = actions \cup Actions(policy, results[index])
  /\ reasons' = Append(reasons, results[index])
  /\ index' = index + 1
  /\ UNCHANGED <<policy, results, decision>>

\* Slip: evaluate returns with the last result not looked at.
DecideEarly ==
  /\ decision = "none"
  /\ policy # NotADict
  /\ index >= Len(results)
  /\ decision' = FinalAction(actions)
  /\ UNCHANGED <<policy, results, index, actions, reasons>>

Decide ==
  /\ decision = "none"
  /\ policy # NotADict
  /\ index = Len(results) + 1
  /\ decision' = FinalAction(actions)
  /\ UNCHANGED <<policy, results, index, actions, reasons>>

Next == RaiseOnPolicy \/ RaiseOnResult \/ TakeResult \/ Decide

Spec == Init /\ [][Next]_vars

-----------------------------------------------------------------------------
(* Properties. *)

\* Types; and reasons run in step with the loop, one for each result passed.
TypeOK ==
  /\ policy \in Policies
  /\ results \in Seq(Results)
  /\ index \in 1..(Len(results) + 1)
  /\ actions \subseteq GateActions
  /\ reasons \in Seq(Results)
  /\ Len(reasons) = index - 1
  /\ decision \in Outcomes \cup {"none"}

\* The loop computes the verdict of the list: whatever the order of the
\* results, and raising for one validator only if no earlier return skips it.
DecisionIsVerdict ==
  decision # "none" => decision = Verdict(policy, results)

\* A result that is ERROR keeps the release back whatever the policy says of
\* that validator: evaluate ends in BLOCK or does not end in a decision.
ErrorIsNeverReleased ==
  (\E i \in DOMAIN results : results[i].state = "ERROR")
    => decision \in {"none", "BLOCK", "raised"}

\* A failed validator is allowed or warned about only where the policy says
\* so in words: in its own entry, or, if it has none, in the default entry.
\* A misspelt, empty or missing entry never relaxes anything.
RelaxedOnlyByPolicy ==
  decision \in {"ALLOW", "WARN"} =>
    \A i \in DOMAIN results :
      results[i].state = "FAIL" =>
        LET v == results[i].validator IN
        \/ Upper(policy[v]) \in {"ALLOW", "WARN"}
        \/ policy[v] = NotADict /\ Upper(policy[Default]) \in {"ALLOW", "WARN"}

\* How far a verdict keeps a release back; an uncaught exception exits
\* non-zero just as BLOCK does.
Rank(outcome) ==
  CASE outcome = "ALLOW" -> 0
    [] outcome = "WARN"  -> 1
    [] OTHER             -> 2

Worse(s) ==
  CASE s = "ERROR" -> {}
    [] s = "FAIL"  -> {"ERROR"}
    [] OTHER       -> {"FAIL", "ERROR"}

\* Under one policy, a list in which some validator did worse is never
\* released more easily.
WorseIsNeverReleasedMore ==
  \A i \in DOMAIN results : \A s \in Worse(results[i].state) :
    Rank(Verdict(policy, [results EXCEPT ![i].state = s])) >= Rank(Verdict(policy, results))

\* Every BLOCK can be traced to a reason in the decision: a validator that
\* ended in ERROR, or one that failed and that the policy blocks.
BlockIsExplained ==
  decision = "BLOCK" =>
    \E i \in DOMAIN reasons :
      \/ reasons[i].state = "ERROR"
      \/ reasons[i].state = "FAIL" /\ OnFail(policy, reasons[i].validator) = "BLOCK"

=============================================================================
