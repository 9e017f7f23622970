----------------------------- MODULE MCEvidence -----------------------------
(***************************************************************************)
(* Evidence on a small instance: a call with two registries, a ruleset and *)
(* two Rego files, and a call in which one file plays two parts and there  *)
(* is no ruleset; files change at most MaxChanges times in a run.          *)
(***************************************************************************)
EXTENDS Evidence, FiniteSets

CONSTANTS
  spec, registry, other, ruleset, rego, rego2, extra,
  MaxChanges   \* bound on the changes that other processes make

VARIABLE changes

MCFiles == {spec, registry, other, ruleset, rego, rego2, extra}

MCCalls ==
  {[policy |-> extra, spec |-> spec, registries |-> {registry}, rego |-> {rego, rego2},
    data |-> {}, ruleset |-> {ruleset}, targets |-> {}],
   [policy |-> extra, spec |-> spec, registries |-> {registry, other}, rego |-> {rego},
    data |-> {extra}, ruleset |-> {}, targets |-> {spec, extra}]}

mcVars == <<vars, changes>>

\* At first, a file is absent only where that matters: a registry or a Rego
\* file that is not there.
MCInit ==
  /\ Init
  /\ changes = 0
  /\ \A f \in Files : disk[f] = Absent => f \in {registry, rego}
  /\ \A f \in Files : disk[f] \in {Absent, CHOOSE c \in Contents : TRUE}

MCNext ==
  /\ Next
  /\ changes' = changes + (IF disk' # disk THEN 1 ELSE 0)
  /\ changes' <= MaxChanges

MCSpec == MCInit /\ [][MCNext]_mcVars

=============================================================================
