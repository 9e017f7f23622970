---------------------------- MODULE GateVerdict ----------------------------
(***************************************************************************)
(* What the gate policy promises, as functions of a policy and of the list *)
(* of validator results: the data of src/core/models.py, the policy lookup *)
(* of GateDecisionEngine.evaluate, and the verdict of the whole list,      *)
(* stated over the set of results rather than as a loop.                   *)
(***************************************************************************)
EXTENDS Naturals, Sequences, Wording

CONSTANTS
  Validators,  \* the validator names a result or a policy may carry
  Default,     \* the key "default" of the rules mapping
  NotADict,    \* a missing or malformed entry: anything but a mapping
  NoOnFail,    \* a mapping without the key "on_fail"
  Texts        \* the values of "on_fail" that policies contain

ASSUME PolicyAssumption ==
  /\ Default \notin Validators
  /\ NotADict \notin Texts
  /\ NoOnFail \notin Texts
  /\ NotADict # NoOnFail

States == {"PASS", "FAIL", "ERROR", "SKIPPED", "NOT_APPLICABLE"}

GateActions == {"ALLOW", "WARN", "BLOCK"}

Results == [validator : Validators, state : States]

Entries == Texts \cup {NotADict, NoOnFail}

\* A policy is the mapping under "rules" (a "rules" that is not a mapping
\* behaves as one without a single entry), or a file that is not a mapping.
Policies == [Validators \cup {Default} -> Entries] \cup {NotADict}

-----------------------------------------------------------------------------
(* One result. *)

\* Slip: "default" is consulted before the validator's own entry.
DefaultFirst(policy, v) ==
  IF policy[Default] # NotADict THEN policy[Default]
  ELSE IF policy[v] # NotADict THEN policy[v] ELSE NoOnFail

\* The validator's own entry, else the default entry, else the fail-safe one
\* (whose on_fail is what a missing on_fail means: BLOCK).
PolicyEntry(policy, v) ==
  IF policy[v] # NotADict THEN policy[v]
  ELSE IF policy[Default] # NotADict THEN policy[Default] ELSE NoOnFail

\* Slip: a mapping without on_fail is taken to allow.
OnFailDefaultsToAllow(policy, v) ==
  LET entry == PolicyEntry(policy, v)
  IN  IF entry = NoOnFail THEN "ALLOW" ELSE Upper(entry)

OnFail(policy, v) ==
  LET entry == PolicyEntry(policy, v)
  IN  IF entry = NoOnFail THEN "BLOCK" ELSE Upper(entry)

\* GateAction(action_str) knows only three words; it is only called, and so
\* only raises, for a validator that failed.
Unusable(policy, r) == r.state = "FAIL" /\ OnFail(policy, r.validator) \notin GateActions

\* Slip: ERROR is resolved by the policy, as FAIL is.
PolicyDecidesErrors(policy, r) ==
  IF r.state \in {"ERROR", "FAIL"} THEN {OnFail(policy, r.validator)} ELSE {}

\* What one result adds to the list of actions.
Actions(policy, r) ==
  CASE r.state = "ERROR" -> {"BLOCK"}
    [] r.state = "FAIL"  -> {OnFail(policy, r.validator)}
    [] OTHER             -> {}

-----------------------------------------------------------------------------
(* The whole list. *)

\* Slip: the branches are tested in the wrong order.
WarnBeforeBlock(actions) ==
  IF "WARN" \in actions THEN "WARN" ELSE IF "BLOCK" \in actions THEN "BLOCK" ELSE "ALLOW"

FinalAction(actions) ==
  IF "BLOCK" \in actions THEN "BLOCK" ELSE IF "WARN" \in actions THEN "WARN" ELSE "ALLOW"

Raises(policy, results) ==
  IF policy = NotADict THEN TRUE ELSE \E i \in DOMAIN results : Unusable(policy, results[i])

\* The outcome of evaluate: an uncaught exception, or an action.
Verdict(policy, results) ==
  IF Raises(policy, results) THEN "raised"
  ELSE FinalAction(UNION {Actions(policy, results[i]) : i \in DOMAIN results})

Outcomes == GateActions \cup {"raised"}

=============================================================================
