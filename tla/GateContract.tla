---------------------------- MODULE GateContract ----------------------------
(***************************************************************************)
(* What a gate run owes the pipeline that called it, without saying how it *)
(* gets there: at most one decision, evidence of that decision on disk     *)
(* before anything is published, and exit status 0 only for a decision     *)
(* other than BLOCK whose evidence is complete.  A run may fail at any     *)
(* time, with exit status 1 or killed from outside.                        *)
(***************************************************************************)
VARIABLES
  verdict,    \* the decision, "none" before there is one
  recorded,   \* the decision a complete evidence file states
  published,  \* the decision handed to the workflow's outputs
  exit        \* "running", then "0", "1" or "killed"

vars == <<verdict, recorded, published, exit>>

Actions == {"ALLOW", "WARN", "BLOCK"}

Init ==
  /\ verdict = "none"
  /\ recorded = "none"
  /\ published = "none"
  /\ exit = "running"

Decide ==
  /\ exit = "running"
  /\ verdict = "none"
  /\ verdict' \in Actions
  /\ UNCHANGED <<recorded, published, exit>>

Record ==
  /\ exit = "running"
  /\ verdict # "none"
  /\ recorded = "none"
  /\ recorded' = verdict
  /\ UNCHANGED <<verdict, published, exit>>

Publish ==
  /\ exit = "running"
  /\ recorded # "none"
  /\ published = "none"
  /\ published' = recorded
  /\ UNCHANGED <<verdict, recorded, exit>>

Succeed ==
  /\ exit = "running"
  /\ recorded \in {"ALLOW", "WARN"}
  /\ exit' = "0"
  /\ UNCHANGED <<verdict, recorded, published>>

Fail ==
  /\ exit = "running"
  /\ exit' \in {"1", "killed"}
  /\ UNCHANGED <<verdict, recorded, published>>

Next == Decide \/ Record \/ Publish \/ Succeed \/ Fail

Spec == Init /\ [][Next]_vars

=============================================================================
