--------------------------- MODULE RegistryMerge ---------------------------
(***************************************************************************)
(* The promise of load_registry, without the order in which it works: all  *)
(* entries of all files that exist are looked at together.  If each is     *)
(* legal and no two with the same id differ, the result is their union;    *)
(* otherwise the load raises and there is no registry.  In particular the  *)
(* order of the paths cannot change a rule.                                *)
(***************************************************************************)
EXTENDS RegistryFiles

VARIABLES
  paths,    \* the listed paths, in order
  content,  \* the file each path names
  rules,    \* the registry handed to the caller
  outcome   \* "loading", "loaded" or "raised"

vars == <<paths, content, rules, outcome>>

Entries(i) == content[paths[i]].entries

\* Every entry of every listed file.
AllEntries == UNION {{Entries(i)[j] : j \in DOMAIN Entries(i)} : i \in DOMAIN paths}

Consistent ==
  /\ \A i \in DOMAIN paths : content[paths[i]].kind # "unreadable"
  /\ \A e \in AllEntries : Legal(e)
  /\ \A e, f \in AllEntries : e.id = f.id => e = f

Union == [id \in {e.id : e \in AllEntries} |-> CHOOSE e \in AllEntries : e.id = id]

Init ==
  /\ paths \in Seq(Paths)
  /\ content \in [Paths -> File]
  /\ rules = NoRules
  /\ outcome = "loading"

Load ==
  /\ outcome = "loading"
  /\ Consistent
  /\ rules' = Union
  /\ outcome' = "loaded"
  /\ UNCHANGED <<paths, content>>

Refuse ==
  /\ outcome = "loading"
  /\ ~Consistent
  /\ outcome' = "raised"
  /\ UNCHANGED <<paths, content, rules>>

Next == Load \/ Refuse

Spec == Init /\ [][Next]_vars

=============================================================================
