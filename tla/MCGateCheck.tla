---------------------------- MODULE MCGateCheck ----------------------------
(***************************************************************************)
(* GateCheck on a small instance: the four kinds of gate call (with and    *)
(* without the opt-in domains), registries that agree or disagree with the *)
(* tools, strict, relaxed and broken policies.                             *)
(***************************************************************************)
EXTENDS GateCheck

CONSTANTS
  listed,       \* a rule that a registry may catalogue
  unlisted,     \* a rule that no registry catalogues
  MaxFindings   \* bound on the findings of one run

MCRules == {listed, unlisted}

MCWords == {"CRITICAL", "HIGH", "MEDIUM", "LOW", "FAIL", "WARN", "INFO"}

MCRegistries ==
  {[r \in {} |-> Absent]} \cup
  {[r \in {listed} |-> [severity |-> "HIGH", gate_behavior |-> "FAIL"]]}

Report1(r, s) == <<[rule |-> r, severity |-> s]>>

MCReports ==
  {<< >>, Report1(unlisted, "CRITICAL"), Report1(listed, "HIGH"), Report1(unlisted, "LOW"),
   Report1(unlisted, "MEDIUM") \o Report1(listed, "HIGH"), Report1(Unhashable, "LOW")}

Sourcing(schema, traceability) ==
  [openapi |-> "tool", policy |-> "tool", schema |-> schema, traceability |-> traceability,
   security |-> "skipped", governance |-> "skipped"]

Call(sources, environment) == [sources |-> sources, checks |-> 1, environment |-> environment]

MCCalls ==
  {Call(Sourcing("skipped", "skipped"), "production"), Call(Sourcing("tool", "tool"), "dev")}

MCRequests == {[identity |-> FALSE, github |-> FALSE], [identity |-> TRUE, github |-> TRUE]}

Named == {"spectral", "opa", "schema", "traceability", "identity-contract"}

\* The shipped policy; one that relaxes opa and the identity contract; one
\* whose only entry is a relaxed default; one with a misspelt action; no mapping.
MCPolicyFiles ==
  {[v \in Validators \cup {Default} |-> "BLOCK"],
   [v \in Validators \cup {Default} |->
      IF v \in {"opa", "identity-contract"} THEN "warn" ELSE NotADict],
   [v \in Validators \cup {Default} |-> IF v = Default THEN "ALLOW" ELSE NotADict],
   [v \in Validators \cup {Default} |-> IF v = "spectral" THEN "bogus" ELSE NoOnFail],
   NotADict}

WithinBounds == Len(findings') + Len(schema_findings') <= MaxFindings

MCNext == GateNext /\ WithinBounds

MCSpec ==
  /\ GateInit
  /\ [][MCNext]_vars
  /\ WF_vars(GateStep)
  /\ WF_vars(At("validate") /\ OwnStep /\ UNCHANGED gateVars /\ WithinBounds)

=============================================================================
