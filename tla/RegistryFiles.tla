--------------------------- MODULE RegistryFiles ---------------------------
(***************************************************************************)
(* What load_registry of validators/run_all.py reads: a comma-separated    *)
(* list of paths, each naming a YAML file with a "rules" list.             *)
(*                                                                         *)
(* A file is abstracted to how reading it ends: it is missing, or reading  *)
(* it raises before any rule is looked at (broken YAML, a top level that   *)
(* is not a mapping, "rules: null"), or it yields a list of entries.  An   *)
(* entry keeps what the loader looks at: its id ("rule_id", else "id", and *)
(* NoId when it has neither), whether its domain is "governance", and,     *)
(* standing for everything else the mapping says, its body.  Two mappings  *)
(* are equal in Python exactly when the two records are.                   *)
(***************************************************************************)
EXTENDS Naturals, Sequences

CONSTANTS
  RuleIds,         \* the ids rules are catalogued under
  GovIds,          \* those that begin with "GOV-"
  NoId,            \* Python's None, the id of an entry that has none
  Bodies,          \* everything else an entry can say
  MalformedEntry,  \* an element of "rules" on which the loop body raises: not a
                   \* mapping, a domain that is not text, an id that is a list
  Paths            \* the paths the caller may list

ASSUME RegistryAssumption ==
  /\ GovIds \subseteq RuleIds
  /\ NoId \notin RuleIds

RuleEntry == [id : RuleIds \cup {NoId}, governance : BOOLEAN, body : Bodies]

Entry == RuleEntry \cup {MalformedEntry}

File ==
  {f \in [kind : {"missing", "unreadable", "rules"}, entries : Seq(Entry)] :
     f.kind # "rules" => f.entries = << >>}

\* An entry the loader takes: a mapping that respects the governance
\* namespace (an entry without an id is let through).
Legal(e) ==
  /\ e # MalformedEntry
  /\ e.governance => e.id \in GovIds \cup {NoId}

NoRules == [id \in {} |-> NoId]

=============================================================================
