--------------------------- MODULE RegistryProofs ---------------------------
(***************************************************************************)
(* load_registry, proved for every list of paths and every content of the  *)
(* files: the loader's typing, that no definition is ever overridden, and  *)
(* that the loop implements the order-free merge of RegistryMerge.         *)
(*                                                                         *)
(* The inductive invariant says what the two loops have established so     *)
(* far: `rules` is exactly the union of the entries already passed.        *)
(***************************************************************************)
EXTENDS Registry, SequenceTheorems, TLAPS

\* Entry j of path i has been merged.
Passed(i, j) == i < pathIndex \/ (i = pathIndex /\ j < ruleIndex)

PathsRead ==
  /\ \A i \in DOMAIN paths : i < pathIndex => content[paths[i]].kind # "unreadable"
  /\ ruleIndex # 0 => content[paths[pathIndex]].kind = "rules"
  /\ outcome = "loaded" => pathIndex = Len(paths) + 1

PassedAreBound ==
  \A i \in DOMAIN paths : \A j \in DOMAIN Entries(i) :
    Passed(i, j) =>
      /\ Legal(Entries(i)[j])
      /\ Entries(i)[j].id \in DOMAIN rules
      /\ rules[Entries(i)[j].id] = Entries(i)[j]

BoundWerePassed ==
  \A id \in DOMAIN rules :
    \E i \in DOMAIN paths : \E j \in DOMAIN Entries(i) :
      /\ Passed(i, j)
      /\ Entries(i)[j] = rules[id]
      /\ rules[id].id = id
      /\ rules[id] # MalformedEntry

IInv == TypeOK /\ PathsRead /\ PassedAreBound /\ BoundWerePassed /\ SourceDefinesRule

-----------------------------------------------------------------------------
\* The entries of the file at any listed path form a sequence.
LEMMA FileTyped ==
  ASSUME TypeOK, NEW i \in DOMAIN paths
  PROVE  /\ paths[i] \in Paths
         /\ content[paths[i]] \in File
         /\ Entries(i) \in Seq(Entry)
         /\ DOMAIN Entries(i) = 1..Len(Entries(i))
         /\ Len(Entries(i)) \in Nat
         /\ content[paths[i]].kind # "rules" => DOMAIN Entries(i) = {}
         /\ DOMAIN paths = 1..Len(paths)
         /\ Len(paths) \in Nat
PROOF
  <1>1. paths \in Seq(Paths) /\ content \in [Paths -> File]
    BY DEF TypeOK
  <1>2. DOMAIN paths = 1..Len(paths) /\ Len(paths) \in Nat
    BY <1>1
  <1>3. paths[i] \in Paths
    BY <1>1
  <1>4. content[paths[i]] \in File
    BY <1>1, <1>2
  <1>5. Entries(i) \in Seq(Entry)
    BY <1>4 DEF File, Entries
  <1>6. content[paths[i]].kind # "rules" => Entries(i) = << >>
    BY <1>4 DEF File, Entries
  <1> QED BY <1>2, <1>3, <1>4, <1>5, <1>6

\* The initial state satisfies the inductive invariant.
LEMMA InitIInv == Init => IInv
PROOF
  <1> SUFFICES ASSUME Init PROVE IInv
    OBVIOUS
  <1>1. TypeOK
    BY DEF Init, StartsEmpty, TypeOK, NoRules
  <1>2. PathsRead /\ PassedAreBound
    BY FileTyped, <1>1 DEF Init, StartsEmpty, PathsRead, PassedAreBound, Passed
  <1>3. BoundWerePassed /\ SourceDefinesRule
    BY DEF Init, StartsEmpty, NoRules, BoundWerePassed, SourceDefinesRule
  <1> QED BY <1>1, <1>2, <1>3 DEF IInv

-----------------------------------------------------------------------------
\* Every step of the loader, and every stuttering step, preserves the
\* inductive invariant.  Only MergeRule touches the two maps.
LEMMA NextIInv == IInv /\ [Next]_vars => IInv'
PROOF
  <1> SUFFICES ASSUME IInv, [Next]_vars PROVE IInv'
    OBVIOUS
  <1> USE DEF IInv
  <1>1. CASE SkipMissing
    <2> USE <1>1 DEF SkipMissing, BetweenFiles, OpenFile
    <2>0. pathIndex \in DOMAIN paths /\ UNCHANGED <<input, ruleIndex, rules, sources, outcome>>
      OBVIOUS
    <2>1. TypeOK'
      BY FileTyped, <2>0 DEF TypeOK, input, Entries
    <2>2. \A i \in DOMAIN paths : \A j \in DOMAIN Entries(i) : Passed(i, j)' <=> Passed(i, j)
      BY FileTyped, <2>0 DEF TypeOK, Passed, Entries
    <2>3. PathsRead'
      BY FileTyped, <2>0 DEF PathsRead, input, TypeOK
    <2>4. PassedAreBound' /\ BoundWerePassed' /\ SourceDefinesRule'
      BY <2>0, <2>2 DEF PassedAreBound, BoundWerePassed, SourceDefinesRule, input, Entries
    <2> QED BY <2>1, <2>3, <2>4
  <1>2. CASE RaiseUnreadable \/ RaiseOnRule
    <2>0. /\ UNCHANGED <<input, pathIndex, ruleIndex, rules, sources>>
          /\ outcome' = "raised"
      BY <1>2 DEF RaiseUnreadable, RaiseOnRule
    <2>1. TypeOK' /\ PathsRead'
      BY <2>0 DEF TypeOK, PathsRead, input, Entries
    <2>2. PassedAreBound' /\ BoundWerePassed' /\ SourceDefinesRule'
      BY <2>0 DEF PassedAreBound, BoundWerePassed, SourceDefinesRule, input, Entries, Passed
    <2> QED BY <2>1, <2>2
  <1>3. CASE Open
    <2> USE <1>3 DEF Open, BetweenFiles, OpenFile
    <2>0. /\ pathIndex \in DOMAIN paths /\ ruleIndex = 0 /\ ruleIndex' = 1
          /\ UNCHANGED <<input, pathIndex, rules, sources, outcome>>
      OBVIOUS
    <2>1. TypeOK'
      BY FileTyped, <2>0 DEF TypeOK, input, Entries
    <2>2. \A i \in DOMAIN paths : \A j \in DOMAIN Entries(i) : Passed(i, j)' <=> Passed(i, j)
      BY FileTyped, <2>0 DEF TypeOK, Passed, Entries
    <2>3. PathsRead'
      BY <2>0 DEF PathsRead, input
    <2>4. PassedAreBound' /\ BoundWerePassed' /\ SourceDefinesRule'
      BY <2>0, <2>2 DEF PassedAreBound, BoundWerePassed, SourceDefinesRule, input, Entries
    <2> QED BY <2>1, <2>3, <2>4
  <1>4. CASE MergeRule
    <2> DEFINE e == Entries(pathIndex)[ruleIndex]
    <2>0. /\ ruleIndex # 0 /\ ruleIndex \in DOMAIN Entries(pathIndex) /\ ruleIndex' = ruleIndex + 1
          /\ Legal(e) /\ (e.id \in DOMAIN rules => rules[e.id] = e)
          /\ rules' = [id \in DOMAIN rules \cup {e.id} |-> IF id = e.id THEN e ELSE rules[id]]
          /\ sources' = [id \in DOMAIN rules \cup {e.id} |->
                           IF id = e.id THEN paths[pathIndex] ELSE sources[id]]
          /\ UNCHANGED <<input, pathIndex, outcome>>
          /\ outcome = "loading"
      BY <1>4 DEF MergeRule, InFile, OpenFile, Entries, Mergeable
    <2>1. /\ pathIndex \in DOMAIN paths /\ pathIndex \in Nat /\ ruleIndex \in Nat
          /\ e \in RuleEntry /\ paths[pathIndex] \in Paths
      <3>1. pathIndex \in DOMAIN paths /\ pathIndex \in Nat /\ ruleIndex \in Nat
        BY <2>0 DEF TypeOK
      <3>2. e \in Entry /\ paths[pathIndex] \in Paths
        BY <2>0, <3>1, FileTyped
      <3> QED BY <3>1, <3>2, <2>0 DEF Entry, Legal
    <2> HIDE DEF e
    <2>2. TypeOK'
      <3>1. ruleIndex' \in 1..(Len(Entries(pathIndex)) + 1)
        BY <2>0, <2>1, FileTyped
      <3>2. e.id \in RuleIds \cup {NoId}
        BY <2>1 DEF RuleEntry
      <3>3. /\ DOMAIN rules' \subseteq RuleIds \cup {NoId}
            /\ \A id \in DOMAIN rules' : rules'[id] \in RuleEntry
            /\ DOMAIN sources' = DOMAIN rules'
            /\ \A id \in DOMAIN sources' : sources'[id] \in Paths
        BY <2>0, <2>1, <3>2 DEF TypeOK
      <3> QED BY <2>0, <2>1, <3>1, <3>3 DEF TypeOK, input, Entries
    <2>3. \A i \in DOMAIN paths : \A j \in DOMAIN Entries(i) :
            Passed(i, j)' <=> Passed(i, j) \/ (i = pathIndex /\ j = ruleIndex)
      <3> SUFFICES ASSUME NEW i \in DOMAIN paths, NEW j \in DOMAIN Entries(i)
                   PROVE  Passed(i, j)' <=> Passed(i, j) \/ (i = pathIndex /\ j = ruleIndex)
        OBVIOUS
      <3>1. i \in Nat /\ j \in Nat
        BY FileTyped
      <3> QED BY <3>1, <2>0, <2>1 DEF Passed
    <2>4. PathsRead'
      BY <2>0 DEF PathsRead, input
    <2>5. \A id \in DOMAIN rules : id \in DOMAIN rules' /\ rules'[id] = rules[id]
      BY <2>0
    <2>6. PassedAreBound'
      <3> SUFFICES ASSUME NEW i \in DOMAIN paths, NEW j \in DOMAIN Entries(i), Passed(i, j)'
                   PROVE  /\ Legal(Entries(i)[j])
                          /\ Entries(i)[j].id \in DOMAIN rules'
                          /\ rules'[Entries(i)[j].id] = Entries(i)[j]
        BY <2>0 DEF PassedAreBound, input, Entries
      <3>1. CASE Passed(i, j)
        BY <3>1, <2>5 DEF PassedAreBound
      <3>2. CASE i = pathIndex /\ j = ruleIndex
        BY <3>2, <2>0 DEF e
      <3> QED BY <3>1, <3>2, <2>3
    <2>7. BoundWerePassed'
      <3> SUFFICES ASSUME NEW id \in DOMAIN rules'
                   PROVE  \E i \in DOMAIN paths : \E j \in DOMAIN Entries(i) :
                            /\ Passed(i, j)' /\ Entries(i)[j] = rules'[id]
                            /\ rules'[id].id = id /\ rules'[id] # MalformedEntry
        BY <2>0 DEF BoundWerePassed, input, Entries
      <3>1. CASE id = e.id
        BY <3>1, <2>0, <2>1, <2>3 DEF Legal, e
      <3>2. CASE id # e.id
        BY <3>2, <2>0, <2>3 DEF BoundWerePassed
      <3> QED BY <3>1, <3>2
    <2>8. SourceDefinesRule'
      <3> SUFFICES ASSUME NEW id \in DOMAIN rules'
                   PROVE  \E j \in DOMAIN content[sources'[id]].entries :
                            content[sources'[id]].entries[j] = rules'[id]
        BY <2>0 DEF SourceDefinesRule, input
      <3>1. CASE id = e.id
        BY <3>1, <2>0 DEF e, Entries
      <3>2. CASE id # e.id
        BY <3>2, <2>0 DEF SourceDefinesRule, TypeOK
      <3> QED BY <3>1, <3>2
    <2> QED BY <2>2, <2>4, <2>6, <2>7, <2>8
  <1>5. CASE EndOfFile
    <2>0. /\ ruleIndex # 0 /\ ruleIndex' = 0 /\ pathIndex' = pathIndex + 1
          /\ ruleIndex = Len(Entries(pathIndex)) + 1
          /\ UNCHANGED <<input, rules, sources, outcome>>
          /\ outcome = "loading"
      BY <1>5 DEF EndOfFile, InFile, OpenFile, Entries
    <2>1. pathIndex \in DOMAIN paths
      BY <2>0 DEF TypeOK
    <2>2. TypeOK'
      BY FileTyped, <2>0, <2>1 DEF TypeOK, input, Entries
    <2>3. \A i \in DOMAIN paths : \A j \in DOMAIN Entries(i) : Passed(i, j)' <=> Passed(i, j)
      <3> SUFFICES ASSUME NEW i \in DOMAIN paths, NEW j \in DOMAIN Entries(i)
                   PROVE  Passed(i, j)' <=> Passed(i, j)
        OBVIOUS
      <3>1. i \in Nat /\ j \in 1..Len(Entries(i)) /\ Len(Entries(i)) \in Nat
        BY FileTyped
      <3> QED BY <3>1, <2>0, <2>1 DEF Passed, TypeOK
    <2>4. PathsRead'
      BY FileTyped, <2>0, <2>1 DEF PathsRead, input, TypeOK
    <2>5. PassedAreBound' /\ BoundWerePassed' /\ SourceDefinesRule'
      BY <2>0, <2>3 DEF PassedAreBound, BoundWerePassed, SourceDefinesRule, input, Entries
    <2> QED BY <2>2, <2>4, <2>5
  <1>6. CASE Return
    <2>0. /\ UNCHANGED <<input, pathIndex, ruleIndex, rules, sources>>
          /\ outcome' = "loaded" /\ pathIndex = Len(paths) + 1 /\ ruleIndex = 0
      BY <1>6 DEF Return
    <2>1. TypeOK' /\ PathsRead'
      BY <2>0 DEF TypeOK, PathsRead, input, Entries
    <2>2. PassedAreBound' /\ BoundWerePassed' /\ SourceDefinesRule'
      BY <2>0 DEF PassedAreBound, BoundWerePassed, SourceDefinesRule, input, Entries, Passed
    <2> QED BY <2>1, <2>2
  <1>7. CASE UNCHANGED vars
    BY <1>7 DEF vars, TypeOK, PathsRead, PassedAreBound, BoundWerePassed, SourceDefinesRule,
                Passed, Entries
  <1> QED BY <1>1, <1>2, <1>3, <1>4, <1>5, <1>6, <1>7 DEF Next

-----------------------------------------------------------------------------
\* The inductive invariant holds throughout every load.
THEOREM LoaderInvariant == Spec => []IInv
PROOF
  <1> QED BY InitIInv, NextIInv, PTL DEF Spec

\* The loader's state keeps its types, whatever the files say.
THEOREM TypeCorrect == Spec => []TypeOK
PROOF
  <1>1. IInv => TypeOK
    BY DEF IInv
  <1> QED BY <1>1, LoaderInvariant, PTL

\* When the loader is done every entry has been passed.
LEMMA AllPassed ==
  ASSUME IInv, outcome = "loaded", NEW i \in DOMAIN paths
  PROVE  /\ content[paths[i]].kind # "unreadable"
         /\ \A j \in DOMAIN Entries(i) :
              /\ Passed(i, j)
              /\ Legal(Entries(i)[j])
              /\ Entries(i)[j].id \in DOMAIN rules
              /\ rules[Entries(i)[j].id] = Entries(i)[j]
PROOF
  <1>1. i < pathIndex
    BY FileTyped DEF IInv, PathsRead
  <1> QED BY <1>1 DEF IInv, PathsRead, PassedAreBound, Passed

\* No definition is overridden or lost: the registry returned holds every
\* entry of every file, for any number of paths in any order.
THEOREM NothingIsOverridden == Spec => []NothingOverridden
PROOF
  <1>1. IInv => NothingOverridden
    BY AllPassed DEF NothingOverridden
  <1> QED BY <1>1, LoaderInvariant, PTL

\* The source kept for a rule is always a file that defines it just so.
THEOREM SourcesAreWitnesses == Spec => []SourceDefinesRule
PROOF
  <1>1. IInv => SourceDefinesRule
    BY DEF IInv
  <1> QED BY <1>1, LoaderInvariant, PTL

\* No step rebinds or forgets an id.
THEOREM RulesAreNeverRebound == Spec => NeverRebound
PROOF
  <1>1. [Next]_vars => [\A id \in DOMAIN rules : id \in DOMAIN rules' /\ rules'[id] = rules[id]]_vars
    <2> SUFFICES ASSUME [Next]_vars, NEW id \in DOMAIN rules
                 PROVE  id \in DOMAIN rules' /\ rules'[id] = rules[id]
      OBVIOUS
    <2>1. CASE MergeRule
      BY <2>1 DEF MergeRule, Mergeable
    <2>2. CASE UNCHANGED rules
      BY <2>2
    <2> QED BY <2>1, <2>2
         DEF Next, SkipMissing, RaiseUnreadable, Open, RaiseOnRule, EndOfFile, Return, vars
  <1> QED BY <1>1, PTL DEF Spec, NeverRebound

-----------------------------------------------------------------------------
(* The loop implements the order-free merge. *)

\* A loader that has come to the end has seen consistent files, and what it
\* returns is their union.
LEMMA LoadedIsUnion ==
  IInv /\ outcome = "loaded" => Merge!Consistent /\ rules = Merge!Union
PROOF
  <1> SUFFICES ASSUME IInv, outcome = "loaded"
               PROVE  Merge!Consistent /\ rules = Merge!Union
    OBVIOUS
  <1> DEFINE All == Merge!AllEntries
  <1>1. \A e \in All : Legal(e) /\ e.id \in DOMAIN rules /\ rules[e.id] = e
    BY AllPassed DEF Merge!AllEntries, Merge!Entries, Entries
  <1>2. \A id \in DOMAIN rules : rules[id] \in All /\ rules[id].id = id
    BY DEF IInv, BoundWerePassed, Merge!AllEntries, Merge!Entries, Entries
  <1>3. Merge!Consistent
    BY <1>1, AllPassed DEF Merge!Consistent, Legal, Merge!Legal
  <1> HIDE DEF All
  <1>4. DOMAIN rules = {e.id : e \in All}
    BY <1>1, <1>2
  <1>5. \A id \in DOMAIN rules : rules[id] = CHOOSE e \in All : e.id = id
    BY <1>1, <1>2
  <1>6. rules = [id \in DOMAIN rules |-> rules[id]]
    BY DEF IInv, TypeOK
  <1>7. rules = [id \in {e.id : e \in All} |-> CHOOSE e \in All : e.id = id]
    BY <1>4, <1>5, <1>6
  <1> QED BY <1>3, <1>7 DEF Merge!Union, All

\* A loader raises only on files that are not consistent.
LEMMA RaiseMeansInconsistent ==
  ASSUME IInv, RaiseUnreadable \/ RaiseOnRule
  PROVE  ~Merge!Consistent
PROOF
  <1>1. CASE RaiseUnreadable
    BY <1>1 DEF RaiseUnreadable, BetweenFiles, OpenFile, Merge!Consistent
  <1>2. CASE RaiseOnRule
    <2> DEFINE e == Entries(pathIndex)[ruleIndex]
    <2>1. /\ pathIndex \in DOMAIN paths /\ ruleIndex \in DOMAIN Entries(pathIndex)
          /\ ~Mergeable(e)
      BY <1>2 DEF RaiseOnRule, InFile, OpenFile, Entries, IInv, TypeOK
    <2>2. e \in Merge!AllEntries
      BY <2>1 DEF Merge!AllEntries, Merge!Entries, Entries
    <2>3. CASE ~Legal(e)
      BY <2>2, <2>3 DEF Merge!Consistent, Legal, Merge!Legal
    <2>4. CASE e.id \in DOMAIN rules /\ rules[e.id] # e
      <3>1. rules[e.id] \in Merge!AllEntries /\ rules[e.id].id = e.id
        BY <2>4 DEF IInv, BoundWerePassed, Merge!AllEntries, Merge!Entries, Entries
      <3> QED BY <3>1, <2>2, <2>4 DEF Merge!Consistent
    <2> QED BY <2>1, <2>3, <2>4 DEF Mergeable
  <1> QED BY <1>1, <1>2

\* Whatever the order of the paths, load_registry returns the union of all
\* files when they agree and raises when they do not.
THEOREM LoaderImplementsMerge == Spec => MergeSpec
PROOF
  <1>1. Init => Merge!Init
    BY DEF Init, StartsEmpty, Merge!Init, NoRules, Merge!NoRules, File, Merge!File, Entry, Merge!Entry, RuleEntry, Merge!RuleEntry
  <1>2. IInv /\ IInv' /\ [Next]_vars => [Merge!Next]_Merge!vars
    <2> SUFFICES ASSUME IInv, IInv', [Next]_vars PROVE [Merge!Next]_Merge!vars
      OBVIOUS
    <2>1. CASE RaiseUnreadable \/ RaiseOnRule
      <3>1. /\ outcome = "loading" /\ outcome' = "raised" /\ UNCHANGED <<input, rules>>
        BY <2>1 DEF RaiseUnreadable, RaiseOnRule, BetweenFiles, InFile
      <3> QED BY <3>1, <2>1, RaiseMeansInconsistent DEF Merge!Next, Merge!Refuse, input
    <2>2. CASE Return
      <3>1. /\ outcome = "loading" /\ outcome' = "loaded" /\ UNCHANGED <<input, rules>>
        BY <2>2 DEF Return
      <3>2. (IInv /\ outcome = "loaded" => Merge!Consistent /\ rules = Merge!Union)'
        BY LoadedIsUnion, PTL
      <3>3. Merge!Consistent /\ rules = Merge!Union
        BY <3>1, <3>2 DEF Merge!Consistent, Merge!Union, Merge!AllEntries, Merge!Entries, input
      <3> QED BY <3>1, <3>3 DEF Merge!Next, Merge!Load, input
    <2>3. CASE SkipMissing \/ Open \/ MergeRule \/ EndOfFile \/ UNCHANGED vars
      <3>1. UNCHANGED <<input, outcome>> /\ (outcome = "loading" \/ UNCHANGED rules)
        BY <2>3 DEF SkipMissing, Open, MergeRule, EndOfFile, BetweenFiles, InFile, vars, input
      <3> QED BY <3>1 DEF Merge!vars, input
    <2> QED BY <2>1, <2>2, <2>3 DEF Next
  <1> QED BY <1>1, <1>2, LoaderInvariant, PTL DEF Spec, MergeSpec, Merge!Spec

=============================================================================
