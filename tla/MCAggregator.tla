---------------------------- MODULE MCAggregator ----------------------------
(***************************************************************************)
(* AggregatorMain on a small instance: one rule that registries may        *)
(* catalogue and one that none does, a handful of registries chosen for    *)
(* the ways in which they can disagree with the tool, at most MaxFindings  *)
(* findings.  The command line asks for the first two domains, and finds   *)
(* at its first load one of two registries.                                *)
(***************************************************************************)
EXTENDS AggregatorMain

CONSTANTS
  listed,       \* a rule that a registry may catalogue
  unlisted,     \* a rule that no registry catalogues
  MaxFindings   \* bound on the findings of one call

MCRules == {listed, unlisted}

MCWords == {"CRITICAL", "HIGH", "MEDIUM", "LOW", "FAIL", "WARN", "INFO", "critical", "URGENT"}

Meta1(s, g) == [r \in {listed} |-> [severity |-> s, gate_behavior |-> g]]

MCRegistries ==
  {[r \in {} |-> Absent]} \cup
  {Meta1(Absent, Absent), Meta1("critical", "INFO"), Meta1("LOW", "WARN"),
   Meta1("HIGH", "FAIL"), Meta1("URGENT", "FAIL")}

Report1(r, s) == <<[rule |-> r, severity |-> s]>>

MCReports ==
  {<< >>, Report1(listed, "CRITICAL"), Report1(unlisted, "HIGH"),
   Report1(unlisted, "MEDIUM") \o Report1(listed, "LOW"),
   Report1(unlisted, "critical"), Report1(unlisted, "URGENT"), Report1(Unhashable, "LOW")}

MCInjections ==
  {<< >>, <<BareString>>,
   <<[rule |-> NoRule, severity |-> Absent, category |-> Absent]>>,
   <<[rule |-> listed, severity |-> "HIGH", category |-> Absent]>>,
   <<[rule |-> Unhashable, severity |-> "LOW", category |-> "policy"]>>}

Only(S, source, rest) == [d \in Domains |-> IF d \in S THEN source ELSE rest]

SpecDomains == {"openapi", "policy"}

Call(sources, environment) == [sources |-> sources, checks |-> 2, environment |-> environment]

\* The command line of the gate, that of the aggregator with everything
\* switched on, and a caller that injects everything.
MCCalls ==
  {Call(Only(SpecDomains, "tool", "skipped"), e) : e \in {"production", "dev", "staging"}} \cup
  {Call(Only(Domains, "tool", "tool"), "dev"),
   Call(Only(Domains, "injected", "injected"), "production")}

WithinBounds == Len(findings') + Len(schema_findings') <= MaxFindings

MCListings == {[r \in {} |-> Absent], Meta1("LOW", "WARN")}

MCInit ==
  /\ MainInit
  /\ options.cli => call \in {Call(Only(SpecDomains, "tool", "skipped"), e) : e \in {"production", "dev"}}

MCNext == MainNext /\ WithinBounds

MCSpec == MCInit /\ [][MCNext]_allVars /\ WF_allVars(MainStep /\ WithinBounds)

=============================================================================
