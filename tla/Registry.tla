------------------------------ MODULE Registry ------------------------------
(***************************************************************************)
(* load_registry of validators/run_all.py, one file opened and one rule    *)
(* merged per step.  The loader walks the listed paths in order, skips a   *)
(* path that does not exist, and merges each entry into `rules`, raising   *)
(* ValueError when a governance id is outside the GOV- namespace or when   *)
(* the id is already bound to a different definition.                      *)
(***************************************************************************)
EXTENDS RegistryFiles

VARIABLES
  paths,      \* the paths listed by the caller
  content,    \* the file each path names
  pathIndex,  \* the path being read
  ruleIndex,  \* the next entry of the open file; 0 while no file is open
  rules,      \* the registry built so far
  sources,    \* for each bound id, the path that bound it last
  outcome     \* "loading", "loaded" or "raised"

input == <<paths, content>>
vars == <<paths, content, pathIndex, ruleIndex, rules, sources, outcome>>

-----------------------------------------------------------------------------
(* The loader. *)

\* The inputs are left to the configuration, which starts from a set of them.
StartsEmpty ==
  /\ pathIndex = 1
  /\ ruleIndex = 0
  /\ rules = NoRules
  /\ sources = NoRules
  /\ outcome = "loading"

Init ==
  /\ paths \in Seq(Paths)
  /\ content \in [Paths -> File]
  /\ StartsEmpty

OpenFile == content[paths[pathIndex]]

BetweenFiles == outcome = "loading" /\ ruleIndex = 0 /\ pathIndex \in DOMAIN paths

InFile == outcome = "loading" /\ ruleIndex # 0

\* "registry file not found, skipping".
SkipMissing ==
  /\ BetweenFiles
  /\ OpenFile.kind = "missing"
  /\ pathIndex' = pathIndex + 1
  /\ UNCHANGED <<input, ruleIndex, rules, sources, outcome>>

\* open, safe_load or data.get raises: nothing catches it.
RaiseUnreadable ==
  /\ BetweenFiles
  /\ OpenFile.kind = "unreadable"
  /\ outcome' = "raised"
  /\ UNCHANGED <<input, pathIndex, ruleIndex, rules, sources>>

Open ==
  /\ BetweenFiles
  /\ OpenFile.kind = "rules"
  /\ ruleIndex' = 1
  /\ UNCHANGED <<input, pathIndex, rules, sources, outcome>>

\* Slip: the later definition silently replaces the earlier one.
SilentOverride(e) == Legal(e)

\* The namespace check comes before the conflict check; either aborts.
Mergeable(e) ==
  /\ Legal(e)
  /\ e.id \in DOMAIN rules => rules[e.id] = e

\* Slip: on a conflict the first definition is kept, but the path is noted.
KeepFirstRule ==
  /\ InFile
  /\ ruleIndex \in DOMAIN OpenFile.entries
  /\ LET e == OpenFile.entries[ruleIndex] IN
       /\ Legal(e)
       /\ rules' = [id \in DOMAIN rules \cup {e.id} |-> IF id \in DOMAIN rules THEN rules[id] ELSE e]
       /\ sources' = [id \in DOMAIN rules \cup {e.id} |->
                        IF id = e.id THEN paths[pathIndex] ELSE sources[id]]
  /\ ruleIndex' = ruleIndex + 1
  /\ UNCHANGED <<input, pathIndex, outcome>>

MergeRule ==
  /\ InFile
  /\ ruleIndex \in DOMAIN OpenFile.entries
  /\ LET e == OpenFile.entries[ruleIndex] IN
       /\ Mergeable(e)
       /\ rules' = [id \in DOMAIN rules \cup {e.id} |-> IF id = e.id THEN e ELSE rules[id]]
       /\ sources' = [id \in DOMAIN rules \cup {e.id} |->
                        IF id = e.id THEN paths[pathIndex] ELSE sources[id]]
  /\ ruleIndex' = ruleIndex + 1
  /\ UNCHANGED <<input, pathIndex, outcome>>

RaiseOnRule ==
  /\ InFile
  /\ ruleIndex \in DOMAIN OpenFile.entries
  /\ ~Mergeable(OpenFile.entries[ruleIndex])
  /\ outcome' = "raised"
  /\ UNCHANGED <<input, pathIndex, ruleIndex, rules, sources>>

EndOfFile ==
  /\ InFile
  /\ ruleIndex = Len(OpenFile.entries) + 1
  /\ pathIndex' = pathIndex + 1
  /\ ruleIndex' = 0
  /\ UNCHANGED <<input, rules, sources, outcome>>

Return ==
  /\ outcome = "loading"
  /\ ruleIndex = 0
  /\ pathIndex = Len(paths) + 1
  /\ outcome' = "loaded"
  /\ UNCHANGED <<input, pathIndex, ruleIndex, rules, sources>>

Next ==
  \/ SkipMissing
  \/ RaiseUnreadable
  \/ Open
  \/ MergeRule
  \/ RaiseOnRule
  \/ EndOfFile
  \/ Return

Spec == Init /\ [][Next]_vars

-----------------------------------------------------------------------------
(* Properties. *)

Entries(i) == content[paths[i]].entries

\* The variables range over what their comments say, and the two maps of the
\* loader (`rules` and `sources`) always bind the same ids.
TypeOK ==
  /\ paths \in Seq(Paths)
  /\ content \in [Paths -> File]
  /\ pathIndex \in 1..(Len(paths) + 1)
  /\ ruleIndex \in Nat
  /\ ruleIndex # 0 =>
       /\ pathIndex \in DOMAIN paths
       /\ ruleIndex \in 1..(Len(Entries(pathIndex)) + 1)
  /\ DOMAIN rules \subseteq RuleIds \cup {NoId}
  /\ rules \in [DOMAIN rules -> RuleEntry]
  /\ sources \in [DOMAIN rules -> Paths]
  /\ outcome \in {"loading", "loaded", "raised"}

\* A registry that load_registry returns holds every entry of every file it
\* was given, unaltered: no later path or later entry has replaced one, none
\* was dropped, and the only paths without effect are the missing ones.
NothingOverridden ==
  outcome = "loaded" =>
    \A i \in DOMAIN paths :
      /\ content[paths[i]].kind # "unreadable"
      /\ \A j \in DOMAIN Entries(i) :
           LET e == Entries(i)[j] IN
             /\ Legal(e)
             /\ e.id \in DOMAIN rules
             /\ rules[e.id] = e

\* The path the loader would blame in a conflict message really defines the
\* rule as bound, even when identical copies came from several paths.
SourceDefinesRule ==
  \A id \in DOMAIN rules :
    \E j \in DOMAIN content[sources[id]].entries :
      content[sources[id]].entries[j] = rules[id]

\* Once an id is bound, no step of the loader binds it to something else or
\* forgets it.
NeverRebound ==
  [][\A id \in DOMAIN rules : id \in DOMAIN rules' /\ rules'[id] = rules[id]]_vars

\* load_registry implements the merge that looks at all entries at once.
Merge == INSTANCE RegistryMerge WITH
           rules <- IF outcome = "loaded" THEN rules ELSE NoRules

MergeSpec == Merge!Spec

=============================================================================
