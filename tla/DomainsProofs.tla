---------------------------- MODULE DomainsProofs ----------------------------
(***************************************************************************)
(* What the domains find, for every input: that the traceability report is *)
(* exact, that the adapters and engines of the other domains lose nothing  *)
(* between a payload and its findings, and that the interpreter of schemas *)
(* accepts what is valid and nothing else.                                 *)
(***************************************************************************)
EXTENDS Traceability, Domains, SequenceTheorems, FiniteSetTheorems, WellFoundedInduction, TLAPS

-----------------------------------------------------------------------------
(* A bounded, non-empty set of positions has a last one.  The prover has no *)
(* usable induction; the sets of positions beyond a given one, which are    *)
(* well-founded under inclusion, stand in for it.                           *)

LEMMA LastExists ==
  ASSUME NEW n \in Nat, NEW S, S \subseteq 1..n, S # {}
  PROVE  \E k \in S : \A j \in S : j <= k
<1> DEFINE Beyond(k) == {j \in S : j > k}
           Tails == {Beyond(k) : k \in S}
<1>1. IsFiniteSet(S)
  <2>1. IsFiniteSet(1..n) /\ S \in SUBSET (1..n)
    BY FS_Interval
  <2> QED  BY <2>1, FS_Subset
<1>2. Tails \subseteq FiniteSubsetsOf(S) /\ Tails # {}
  <2>1. Tails \subseteq SUBSET S
    OBVIOUS
  <2>2. Tails # {}
    OBVIOUS
  <2> HIDE DEF Tails
  <2> QED  BY <1>1, <2>1, <2>2, FS_FiniteSubsetsOfFinite
<1>3. PICK least \in Tails : \A tail \in Tails : <<tail, least>> \notin StrictSubsetOrdering(S)
  <2> HIDE DEF Tails
  <2> QED  BY <1>2, FS_StrictSubsetOrderingWellFounded, WFMin
<1>4. PICK k \in S : least = Beyond(k)
  OBVIOUS
<1>5. \A j \in S : ~ (j > k)
  <2> SUFFICES ASSUME NEW j \in S, j > k
               PROVE  FALSE
    OBVIOUS
  <2>1. S \subseteq Nat
    OBVIOUS
  <2>2. Beyond(j) \subseteq Beyond(k)
    <3> SUFFICES ASSUME NEW x \in S, x > j
                 PROVE  x > k
      OBVIOUS
    <3>1. x \in Nat /\ j \in Nat /\ k \in Nat
      BY <2>1
    <3> QED  BY <3>1
  <2>3. j \in Beyond(k) /\ j \notin Beyond(j)
    BY <2>1
  <2>4. <<Beyond(j), Beyond(k)>> \in StrictSubsetOrdering(S)
    <3> HIDE DEF Beyond
    <3>1. Beyond(j) \subseteq S /\ Beyond(k) \subseteq S
      BY DEF Beyond
    <3> QED  BY <2>2, <2>3, <3>1 DEF StrictSubsetOrdering
  <2>5. Beyond(j) \in Tails
    OBVIOUS
  <2> QED  BY <1>3, <1>4, <2>4, <2>5
<1>6. \A j \in S : j <= k
  BY <1>5
<1> QED  BY <1>6

-----------------------------------------------------------------------------
(* Traceability.  The inductive invariant: mapped and findings are what the *)
(* rules and the requirements passed so far account for.                    *)

RulesPassed ==
  CASE phase = "load" -> {}
    [] phase = "rules" -> DOMAIN registry \ unchecked
    [] OTHER -> DOMAIN registry

RequirementsPassed ==
  CASE phase = "requirements" -> DOMAIN requirements \ unchecked
    [] phase = "done" -> DOMAIN requirements
    [] OTHER -> {}

MappedSoFar == mapped = {registry[id].requirement_id : id \in RulesPassed} \ {NoId}

FoundSoFar ==
  \A f : f \in findings <=>
    \/ \E id \in RulesPassed : f \in RuleGaps(id)
    \/ \E id \in RequirementsPassed :
         requirements[id] /\ id \notin mapped /\ f = Finding("TRC-004", "LOW", id)

Loaded ==
  phase # "load" /\ catalogue.kind = "requirements" => requirements = Catalogue(catalogue.entries)

IInv ==
  /\ TypeOK
  /\ phase # "raised" => MappedSoFar /\ FoundSoFar /\ Loaded
  /\ phase = "raised" => findings = {}
  /\ phase = "load" => mapped = {} /\ unchecked = {}
  /\ phase = "done" => unchecked = {}

\* The gaps of a rule are findings.
LEMMA GapType ==
  ASSUME TypeOK, NEW id \in DOMAIN registry
  PROVE  RuleGaps(id) \subseteq [rule : {"TRC-001", "TRC-002", "TRC-003", "TRC-004"},
                                 severity : DOMAIN DefaultGateBehavior,
                                 about : Rules \cup Requirements \cup {NoId}]
<1>1. {"LOW", "MEDIUM", "HIGH"} \subseteq DOMAIN DefaultGateBehavior
  BY DEF DefaultGateBehavior
<1>2. id \in Rules \cup {NoId}
  BY DEF TypeOK
<1> QED  BY <1>1, <1>2 DEF RuleGaps, Finding

CatalogueEntries == [id : Requirements \cup {NoId}, mandatory : BOOLEAN]

LEMMA EntryType ==
  ASSUME NEW entries \in Seq(CatalogueEntries), NEW k \in DOMAIN entries
  PROVE  entries[k].id \in Requirements \cup {NoId} /\ entries[k].mandatory \in BOOLEAN
<1>1. entries[k] \in CatalogueEntries
  OBVIOUS
<1>2. \A e \in CatalogueEntries : e.id \in Requirements \cup {NoId}
  BY DEF CatalogueEntries
<1>3. \A e \in CatalogueEntries : e.mandatory \in BOOLEAN
  BY Zenon DEF CatalogueEntries
<1> QED  BY <1>1, <1>2, <1>3

\* The dictionary of the catalogue, which keeps the last entry of each id.
LEMMA CatalogueKeepsLast ==
  ASSUME NEW entries \in Seq(CatalogueEntries)
  PROVE  /\ DOMAIN Catalogue(entries) = {entries[k].id : k \in DOMAIN entries}
         /\ Catalogue(entries) \in [DOMAIN Catalogue(entries) -> BOOLEAN]
         /\ \A k \in DOMAIN entries : \E last \in DOMAIN entries :
              /\ last >= k
              /\ entries[last].id = entries[k].id
              /\ Catalogue(entries)[entries[k].id] = entries[last].mandatory
<1> DEFINE Same(id) == {k \in DOMAIN entries : entries[k].id = id}
           Ids == {entries[k].id : k \in DOMAIN entries}
<1>1. DOMAIN entries = 1..Len(entries) /\ Len(entries) \in Nat
  OBVIOUS
<1>2. ASSUME NEW id \in Ids
      PROVE  /\ KeptEntry(entries, id) \in Same(id)
             /\ \A j \in Same(id) : j <= KeptEntry(entries, id)
  <2>1. Same(id) \subseteq 1..Len(entries) /\ Same(id) # {}
    BY <1>1
  <2>2. \E k \in Same(id) : \A j \in Same(id) : j <= k
    <3> HIDE DEF Same
    <3> QED  BY <1>1, <2>1, LastExists
  <2>3. \E k \in DOMAIN entries :
          entries[k].id = id /\ \A j \in DOMAIN entries : entries[j].id = id => j <= k
    BY <2>2
  <2> QED  BY <2>3 DEF KeptEntry
<1>3. DOMAIN Catalogue(entries) = Ids
  BY DEF Catalogue
<1>4. \A id \in Ids : Catalogue(entries)[id] = entries[KeptEntry(entries, id)].mandatory
  BY DEF Catalogue
<1>5. \A id \in Ids : Catalogue(entries)[id] \in BOOLEAN
  <2> TAKE id \in Ids
  <2>1. KeptEntry(entries, id) \in DOMAIN entries
    BY <1>2
  <2>2. \A k \in DOMAIN entries : entries[k].mandatory \in BOOLEAN
    BY EntryType
  <2> HIDE DEF Ids
  <2> QED  BY <1>4, <2>1, <2>2
<1>6. Catalogue(entries) \in [Ids -> BOOLEAN]
  BY <1>5 DEF Catalogue
<1>7. ASSUME NEW k \in DOMAIN entries
      PROVE  \E last \in DOMAIN entries :
               /\ last >= k
               /\ entries[last].id = entries[k].id
               /\ Catalogue(entries)[entries[k].id] = entries[last].mandatory
  <2> DEFINE last == KeptEntry(entries, entries[k].id)
  <2>1. entries[k].id \in Ids
    OBVIOUS
  <2>2. last \in Same(entries[k].id) /\ k <= last
    BY <1>2, <2>1
  <2>3. Catalogue(entries)[entries[k].id] = entries[last].mandatory
    BY <1>4, <2>1
  <2>4. last \in Nat /\ k \in Nat
    BY <1>1, <2>2
  <2> HIDE DEF last
  <2> QED  BY <2>2, <2>3, <2>4
<1> QED  BY <1>3, <1>6, <1>7

LEMMA InitIInv == Init => IInv
<1> SUFFICES ASSUME Init
             PROVE  IInv
  OBVIOUS
<1> USE DEF Init, StartsEmpty
<1>1. TypeOK
  BY DEF TypeOK
<1>2. RulesPassed = {} /\ RequirementsPassed = {}
  BY DEF RulesPassed, RequirementsPassed
<1>3. MappedSoFar /\ FoundSoFar /\ Loaded
  BY <1>2 DEF MappedSoFar, FoundSoFar, Loaded
<1> QED  BY <1>1, <1>3 DEF IInv

LEMMA NextIInv == IInv /\ [Next]_vars => IInv'
<1> SUFFICES ASSUME IInv, [Next]_vars
             PROVE  IInv'
  OBVIOUS
<1> USE DEF IInv
<1>1. CASE LoadRequirements
  <2> USE <1>1 DEF LoadRequirements
  <2>1. TypeOK'
    <3>1. catalogue.kind # "missing" =>
            catalogue.entries \in Seq(CatalogueEntries)
      BY DEF TypeOK, CatalogueFile, CatalogueEntries
    <3>2. catalogue.kind # "missing" =>
            /\ DOMAIN Catalogue(catalogue.entries) \subseteq Requirements \cup {NoId}
            /\ Catalogue(catalogue.entries) \in [DOMAIN Catalogue(catalogue.entries) -> BOOLEAN]
      <4> SUFFICES ASSUME catalogue.kind # "missing"
                   PROVE  /\ DOMAIN Catalogue(catalogue.entries) \subseteq Requirements \cup {NoId}
                          /\ Catalogue(catalogue.entries) \in
                               [DOMAIN Catalogue(catalogue.entries) -> BOOLEAN]
        OBVIOUS
      <4> DEFINE es == catalogue.entries
      <4>1. es \in Seq(CatalogueEntries)
        BY <3>1
      <4>2. \A k \in DOMAIN es : es[k].id \in Requirements \cup {NoId}
        BY <4>1, EntryType
      <4> HIDE DEF es
      <4>3. /\ DOMAIN Catalogue(es) = {es[k].id : k \in DOMAIN es}
            /\ Catalogue(es) \in [DOMAIN Catalogue(es) -> BOOLEAN]
        BY <4>1, CatalogueKeepsLast
      <4>4. DOMAIN Catalogue(es) \subseteq Requirements \cup {NoId}
        BY <4>2, <4>3
      <4> QED  BY <4>3, <4>4 DEF es
    <3> QED  BY <3>2 DEF TypeOK
  <2>2. RulesPassed' = {} /\ RequirementsPassed' = {}
    BY DEF RulesPassed, RequirementsPassed
  <2>3. MappedSoFar' /\ FoundSoFar'
    BY <2>2 DEF MappedSoFar, FoundSoFar, RulesPassed, RequirementsPassed
  <2>4. Loaded'
    BY DEF Loaded, TypeOK, CatalogueFile
  <2> QED  BY <2>1, <2>3, <2>4
<1>2. CASE Raise
  <2> USE <1>2 DEF Raise
  <2>1. TypeOK'
    BY DEF TypeOK
  <2> QED  BY <2>1
<1>3. CASE CheckRule
  <2> USE <1>3 DEF CheckRule
  <2>1. PICK id \in unchecked :
          /\ registry[id].requirement_id # Unhashable
          /\ unchecked' = unchecked \ {id}
          /\ mapped' = mapped \cup ({registry[id].requirement_id} \ {NoId})
          /\ findings' = findings \cup RuleGaps(id)
    OBVIOUS
  <2>2. id \in DOMAIN registry /\ unchecked \subseteq DOMAIN registry
    BY DEF TypeOK
  <2>3. TypeOK'
    <3>1. registry[id].requirement_id \in Requirements \cup {NoId}
      BY <2>1, <2>2 DEF TypeOK, RuleEntry
    <3>2. mapped' \subseteq Requirements
      BY <2>1, <3>1 DEF TypeOK
    <3>3. findings' \subseteq [rule : {"TRC-001", "TRC-002", "TRC-003", "TRC-004"},
                               severity : DOMAIN DefaultGateBehavior,
                               about : Rules \cup Requirements \cup {NoId}]
      BY <2>1, <2>2, GapType DEF TypeOK
    <3> QED  BY <2>1, <2>2, <3>2, <3>3 DEF TypeOK
  <2>4. RulesPassed' = RulesPassed \cup {id}
    BY <2>1, <2>2 DEF RulesPassed
  <2>5. RequirementsPassed' = {} /\ RequirementsPassed = {}
    BY DEF RequirementsPassed
  <2>6. MappedSoFar'
    BY <2>1, <2>4 DEF MappedSoFar
  <2>7. FoundSoFar'
    <3>1. \A r : RuleGaps(r)' = RuleGaps(r)
      BY DEF RuleGaps
    <3>2. \A f : f \in findings' <=> \E r \in RulesPassed' : f \in RuleGaps(r)
      BY <2>1, <2>4, <2>5 DEF FoundSoFar
    <3>3. \A f : f \in findings' <=> \E r \in RulesPassed' : f \in RuleGaps(r)'
      BY <3>1, <3>2
    <3> QED  BY <2>5, <3>3 DEF FoundSoFar
  <2> QED  BY <2>3, <2>6, <2>7 DEF Loaded
<1>4. CASE RulesChecked
  <2> USE <1>4 DEF RulesChecked
  <2>1. TypeOK'
    BY DEF TypeOK
  <2>2. RulesPassed' = RulesPassed /\ RequirementsPassed' = {} /\ RequirementsPassed = {}
    BY DEF RulesPassed, RequirementsPassed
  <2>3. \A r : RuleGaps(r)' = RuleGaps(r)
    BY DEF RuleGaps
  <2>4. MappedSoFar' /\ FoundSoFar' /\ Loaded'
    BY <2>2, <2>3 DEF MappedSoFar, FoundSoFar, Loaded
  <2> QED  BY <2>1, <2>4
<1>5. CASE CheckRequirement
  <2> USE <1>5 DEF CheckRequirement
  <2>1. PICK id \in unchecked :
          /\ unchecked' = unchecked \ {id}
          /\ findings' = findings \cup
               (IF requirements[id] /\ id \notin mapped
                THEN {Finding("TRC-004", "LOW", id)} ELSE {})
    OBVIOUS
  <2>2. id \in DOMAIN requirements /\ unchecked \subseteq DOMAIN requirements
    BY DEF TypeOK
  <2>3. TypeOK'
    <3>1. "LOW" \in DOMAIN DefaultGateBehavior
      BY DEF DefaultGateBehavior
    <3>2. id \in Requirements \cup {NoId}
      BY <2>2 DEF TypeOK
    <3> QED  BY <2>1, <2>2, <3>1, <3>2 DEF TypeOK, Finding
  <2>4. RulesPassed' = RulesPassed
    BY DEF RulesPassed
  <2>5. RequirementsPassed' = RequirementsPassed \cup {id}
    BY <2>1, <2>2 DEF RequirementsPassed
  <2>6. MappedSoFar'
    BY <2>4 DEF MappedSoFar
  <2>7. \A r : RuleGaps(r)' = RuleGaps(r)
    BY DEF RuleGaps
  <2>8. FoundSoFar'
    <3> DEFINE Missing(q) == requirements[q] /\ q \notin mapped
    <3>1. \A f : f \in findings <=>
            \/ \E r \in RulesPassed : f \in RuleGaps(r)
            \/ \E q \in RequirementsPassed : Missing(q) /\ f = Finding("TRC-004", "LOW", q)
      BY DEF FoundSoFar
    <3>2. \A f : f \in findings' <=>
            f \in findings \/ (Missing(id) /\ f = Finding("TRC-004", "LOW", id))
      BY <2>1
    <3>3. \A f : f \in findings' <=>
            \/ \E r \in RulesPassed' : f \in RuleGaps(r)'
            \/ \E q \in RequirementsPassed' : Missing(q) /\ f = Finding("TRC-004", "LOW", q)
      <4> HIDE DEF Missing
      <4> QED  BY <2>4, <2>5, <2>7, <3>1, <3>2
    <3>4. \A q : Missing(q)' <=> Missing(q)
      OBVIOUS
    <3> QED  BY <3>3, <3>4 DEF FoundSoFar, Finding
  <2> QED  BY <2>3, <2>6, <2>8 DEF Loaded
<1>6. CASE Return
  <2> USE <1>6 DEF Return
  <2>1. TypeOK'
    BY DEF TypeOK
  <2>2. RulesPassed' = RulesPassed /\ RequirementsPassed' = RequirementsPassed
    BY DEF RulesPassed, RequirementsPassed
  <2>3. \A r : RuleGaps(r)' = RuleGaps(r)
    BY DEF RuleGaps
  <2>4. MappedSoFar' /\ FoundSoFar' /\ Loaded'
    BY <2>2, <2>3 DEF MappedSoFar, FoundSoFar, Loaded
  <2> QED  BY <2>1, <2>4
<1>7. CASE UNCHANGED vars
  <2> USE <1>7 DEF vars
  <2>1. TypeOK'
    BY DEF TypeOK
  <2>2. RulesPassed' = RulesPassed /\ RequirementsPassed' = RequirementsPassed
    BY DEF RulesPassed, RequirementsPassed
  <2>3. \A r : RuleGaps(r)' = RuleGaps(r)
    BY DEF RuleGaps
  <2>4. (MappedSoFar /\ FoundSoFar /\ Loaded) => (MappedSoFar' /\ FoundSoFar' /\ Loaded')
    BY <2>2, <2>3 DEF MappedSoFar, FoundSoFar, Loaded
  <2> QED  BY <2>1, <2>4
<1> QED  BY <1>1, <1>2, <1>3, <1>4, <1>5, <1>6, <1>7 DEF Next

\* The strengthened invariant holds in every state.
THEOREM Invariance == Spec => []IInv
BY InitIInv, NextIInv, PTL DEF Spec

-----------------------------------------------------------------------------
(* What the invariant implies. *)

\* The variables of check_traceability keep their types.
THEOREM TypeCorrect == Spec => []TypeOK
<1>1. IInv => TypeOK
  BY DEF IInv
<1> QED  BY <1>1, Invariance, PTL

\* The two loops of check_traceability find the four kinds of gaps and
\* nothing else, for every registry and catalogue.
THEOREM ReportsAreExact == Spec => []ReportIsExact
<1>1. IInv => ReportIsExact
  <2> SUFFICES ASSUME IInv, phase = "done"
               PROVE  findings = {Finding("TRC-001", "HIGH", id) : id \in Uncovered}
                                 \cup {Finding("TRC-002", "MEDIUM", id) : id \in Unexcused}
                                 \cup {Finding("TRC-003", "MEDIUM", id) : id \in Dangling}
                                 \cup {Finding("TRC-004", "LOW", id) : id \in Unmapped}
    BY DEF ReportIsExact
  <2>1. mapped = {registry[id].requirement_id : id \in DOMAIN registry} \ {NoId}
    BY DEF IInv, MappedSoFar, RulesPassed
  <2>2. \A q \in DOMAIN requirements :
          q \in Unmapped <=> requirements[q] /\ q \notin mapped
    BY <2>1 DEF Unmapped
  <2>3. \A f : f \in findings <=>
          \/ \E id \in DOMAIN registry : f \in RuleGaps(id)
          \/ \E id \in Unmapped : f = Finding("TRC-004", "LOW", id)
    BY <2>2 DEF IInv, FoundSoFar, RulesPassed, RequirementsPassed, Unmapped
  <2>4. \A id \in DOMAIN registry : \A f :
          f \in RuleGaps(id) <=>
            \/ id \in Uncovered /\ f = Finding("TRC-001", "HIGH", id)
            \/ id \in Unexcused /\ f = Finding("TRC-002", "MEDIUM", id)
            \/ id \in Dangling /\ f = Finding("TRC-003", "MEDIUM", id)
    <3> TAKE id \in DOMAIN registry
    <3> TAKE f
    <3>1. id \in Dangling <=>
            registry[id].requirement_id # NoId
            /\ registry[id].requirement_id \notin DOMAIN requirements
      BY DEF Dangling
    <3>2. id \in Unexcused <=>
            CoverageStatus(registry[id]) = "PARTIAL" /\ ~registry[id].coverage_reason
      BY DEF Unexcused
    <3>3. id \in Uncovered <=>
            CoverageStatus(registry[id]) = "NOT_COVERED" /\ IsMandatory(registry[id])
      BY DEF Uncovered
    <3> QED  BY <3>1, <3>2, <3>3 DEF RuleGaps
  <2>5. Uncovered \cup Unexcused \cup Dangling \subseteq DOMAIN registry
    BY DEF Uncovered, Unexcused, Dangling
  <2>6. \A f : f \in findings <=>
          \/ \E id \in Uncovered : f = Finding("TRC-001", "HIGH", id)
          \/ \E id \in Unexcused : f = Finding("TRC-002", "MEDIUM", id)
          \/ \E id \in Dangling : f = Finding("TRC-003", "MEDIUM", id)
          \/ \E id \in Unmapped : f = Finding("TRC-004", "LOW", id)
    BY <2>3, <2>4, <2>5
  <2> QED  BY <2>6
<1> QED  BY <1>1, Invariance, PTL

\* TRC-001 never holds up a rule as mandatory whose findings do not block in
\* production, whatever severity the tools report.
THEOREM MandatoryRulesBlock == Spec => []OnlyBlockersAreMandatory
<1>1. IInv => OnlyBlockersAreMandatory
  <2> SUFFICES ASSUME IInv, NEW f \in findings, f.rule = "TRC-001", NEW s \in Words
               PROVE  EffectOf(f.about, s) = "FAIL"
    BY DEF OnlyBlockersAreMandatory
  <2>1. PICK id \in DOMAIN registry : f.about = id /\ IsMandatory(registry[id])
    <3>1. phase # "raised"
      BY DEF IInv
    <3>2. \A q : Finding("TRC-004", "LOW", q).rule # "TRC-001"
      BY DEF Finding
    <3>3. PICK id \in RulesPassed : f \in RuleGaps(id)
      BY <3>1, <3>2 DEF IInv, FoundSoFar
    <3>4. id \in DOMAIN registry
      BY <3>3 DEF RulesPassed
    <3> QED  BY <3>3, <3>4 DEF RuleGaps, Finding
  <2>2. registry[id].gate_behavior # Absent
    BY <2>1 DEF IsMandatory, OrElse, Upper, LowerCase
  <2> DEFINE g == [rule |-> id, severity |-> s, category |-> Absent]
  <2>3. GateBehavior(g, registry) = "FAIL"
    BY <2>1, <2>2 DEF GateBehavior, Registered, OrElse, IsMandatory
  <2>4. \A severity : Effective(severity, "FAIL", "production") = "FAIL"
    BY DEF Effective, Relaxed, GatePolicies
  <2> QED  BY <2>1, <2>3, <2>4 DEF EffectOf
<1> QED  BY <1>1, Invariance, PTL

\* Every mandatory entry of the catalogue file is mapped, reported, or
\* overwritten by a later entry that is not mandatory.
THEOREM MandatoryEntriesAreTraced == Spec => []MandatoryIsTraced
<1>1. IInv => MandatoryIsTraced
  <2> SUFFICES ASSUME IInv, phase = "done", catalogue.kind = "requirements",
                      NEW k \in DOMAIN catalogue.entries, catalogue.entries[k].mandatory,
                      \A j \in DOMAIN catalogue.entries :
                        j > k /\ catalogue.entries[j].id = catalogue.entries[k].id
                          => catalogue.entries[j].mandatory,
                      \A id \in DOMAIN registry :
                        registry[id].requirement_id # catalogue.entries[k].id
               PROVE  Finding("TRC-004", "LOW", catalogue.entries[k].id) \in findings
    BY DEF MandatoryIsTraced
  <2> DEFINE es == catalogue.entries
  <2>1. es \in Seq(CatalogueEntries)
    BY DEF IInv, TypeOK, CatalogueFile, CatalogueEntries
  <2>2. requirements = Catalogue(es)
    BY DEF IInv, Loaded
  <2>3. es[k].id \in DOMAIN requirements
    BY <2>1, <2>2, CatalogueKeepsLast
  <2>4. PICK last \in DOMAIN es : /\ last >= k
                                  /\ es[last].id = es[k].id
                                  /\ requirements[es[k].id] = es[last].mandatory
    BY <2>1, <2>2, CatalogueKeepsLast
  <2>5. last \in Nat /\ k \in Nat
    BY <2>1
  <2>6. requirements[es[k].id]
    BY <2>4, <2>5
  <2>7. es[k].id \notin mapped
    BY DEF IInv, MappedSoFar, RulesPassed
  <2>8. RequirementsPassed = DOMAIN requirements
    BY DEF RequirementsPassed
  <2> QED  BY <2>3, <2>6, <2>7, <2>8 DEF IInv, FoundSoFar
<1> QED  BY <1>1, Invariance, PTL

-----------------------------------------------------------------------------
(* The calls of the other domains.  Their inputs never change, so that the  *)
(* invariant says no more than that an answer is the one for the input.     *)

AnswersInput ==
  /\ engine = "spectral" => outcome = <<ParseSpectral(input)>>
  /\ engine = "opa" => outcome = <<ParseOpa(input)>>
  /\ engine = "schema" => outcome = <<RunSchemaCheck(input)>>
  /\ engine = "identity" => outcome = <<RunCheck(input)>>
  /\ engine = "security" => outcome = <<SecurityScan(input)>>
  /\ engine = "governance" => outcome = <<GovernanceScan(input.target, input.cwd)>>

CallInv ==
  /\ engine \in Engines
  /\ input \in Inputs[engine]
  /\ outcome # << >> => AnswersInput

\* The one step of a call gives the answer to its input.
LEMMA CallStep == CallInv /\ [CallNext]_callVars => CallInv'
<1> SUFFICES ASSUME CallInv, [CallNext]_callVars
             PROVE  CallInv'
  OBVIOUS
<1>1. CASE CallNext
  <2>1. UNCHANGED <<engine, input>> /\ AnswersInput'
    BY <1>1 DEF CallNext, Answer, AnswersInput
  <2> QED  BY <2>1 DEF CallInv
<1>2. CASE UNCHANGED callVars
  BY <1>2 DEF callVars, CallInv, AnswersInput
<1> QED  BY <1>1, <1>2

LEMMA CallInvariance == CallSpec => []CallInv
<1>1. CallInit => CallInv
  BY DEF CallInit, CallInv
<1> QED  BY <1>1, CallStep, PTL DEF CallSpec

-----------------------------------------------------------------------------
(* Spectral. *)

\* For every list of items: parse_spectral_output makes one finding of each,
\* under a rule of the taxonomy, or raises.
THEOREM SpectralIsLossless == CallSpec => []SpectralLosesNothing
<1>1. CallInv => SpectralLosesNothing
  <2> SUFFICES ASSUME CallInv, Returned("spectral"), ~Result.raises
               PROVE  /\ input.shape = "list"
                      /\ Len(Result.findings) = Len(input.items)
                      /\ \A k \in DOMAIN input.items :
                           /\ Result.findings[k].rule \in Prefixed
                           /\ input.items[k].code \in Prefixed =>
                                Result.findings[k].rule = input.items[k].code
                           /\ Result.findings[k].severity \in DOMAIN DefaultGateBehavior
    BY DEF SpectralLosesNothing
  <2>1. Result = ParseSpectral(input)
    BY DEF CallInv, AnswersInput, Returned, Result
  <2>2. /\ input.shape = "list"
        /\ \A k \in DOMAIN input.items : ~Malformed(input.items[k])
        /\ Result.findings = [k \in DOMAIN input.items |-> SpectralFinding(input.items[k])]
    BY <2>1 DEF ParseSpectral, Unusable, Parsed
  <2>3. input.items \in Seq(SpectralItems)
    BY <2>2, InputsAssumption DEF CallInv, Returned, SpectralPayloads
  <2>4. Len(Result.findings) = Len(input.items)
    BY <2>2, <2>3
  <2>5. ASSUME NEW k \in DOMAIN input.items
        PROVE  /\ Result.findings[k].rule \in Prefixed
               /\ input.items[k].code \in Prefixed =>
                    Result.findings[k].rule = input.items[k].code
               /\ Result.findings[k].severity \in DOMAIN DefaultGateBehavior
    <3> DEFINE item == input.items[k]
    <3>1. Result.findings[k] = SpectralFinding(item)
      BY <2>2
    <3>2. item \in SpectralItems /\ ~Malformed(item)
      BY <2>2, <2>3
    <3>3. /\ item.code \in Rules \cup {Absent, NoRule}
          /\ item.severity \in Nat \cup {Absent}
      BY <3>2 DEF SpectralItems, Malformed
    <3> HIDE DEF item
    <3>4. /\ SpectralFinding(item).rule \in Prefixed
          /\ item.code \in Prefixed => SpectralFinding(item).rule = item.code
      BY <3>3, AdaptersAssumption DEF SpectralFinding, RuleId
    <3>5. SpectralFinding(item).severity \in DOMAIN DefaultGateBehavior
      <4>1. DOMAIN DefaultGateBehavior = {"CRITICAL", "HIGH", "MEDIUM", "LOW"}
        BY DEF DefaultGateBehavior
      <4>2. \A s \in 0..3 : SpectralSeverity[s] \in {"CRITICAL", "HIGH", "MEDIUM", "LOW"}
        BY DEF SpectralSeverity
      <4>3. DOMAIN SpectralSeverity = 0..3
        BY DEF SpectralSeverity
      <4> QED  BY <4>1, <4>2, <4>3 DEF SpectralFinding
    <3> QED  BY <3>1, <3>4, <3>5 DEF item
  <2> QED  BY <2>2, <2>4, <2>5
<1> QED  BY <1>1, CallInvariance, PTL

-----------------------------------------------------------------------------
(* The severities of the schema domain. *)

\* A finding of the schema domain carries one of the rules SCH-001 to SCH-005,
\* which no registry lists.
LEMMA SchemaRuleIsKnown ==
  ASSUME NEW keyword
  PROVE  RuleOf(keyword) \in SchemaRules
<1>1. CASE keyword \in DOMAIN KeywordToRule
  BY <1>1 DEF RuleOf, KeywordToRule, SchemaRules
<1>2. CASE keyword \notin DOMAIN KeywordToRule
  BY <1>2 DEF RuleOf, SchemaRules
<1> QED  BY <1>1, <1>2

\* The two rules that the shipped catalogue puts at HIGH.
LEMMA HighSchemaRules ==
  ASSUME NEW keyword
  PROVE  ShippedSeverities[RuleOf(keyword)] =
           IF keyword \in {"required", "type", "enum", "const"} THEN "HIGH" ELSE "MEDIUM"
<1>1. CASE keyword \in {"required", "type", "enum", "const"}
  BY <1>1 DEF RuleOf, KeywordToRule, SchemaRules, ShippedSeverities
<1>2. CASE keyword \in DOMAIN KeywordToRule \ {"required", "type", "enum", "const"}
  BY <1>2 DEF RuleOf, KeywordToRule, SchemaRules, ShippedSeverities
<1>3. CASE keyword \notin DOMAIN KeywordToRule
  BY <1>3 DEF RuleOf, KeywordToRule, SchemaRules, ShippedSeverities
<1> QED  BY <1>1, <1>2, <1>3

\* Outside a registry, production blocks exactly the severe findings.
LEMMA BlocksBySeverity ==
  ASSUME NEW f, f.rule # Unhashable, f.severity \in {"HIGH", "MEDIUM"}
  PROVE  Blocks(f) <=> f.severity = "HIGH"
<1> DEFINE empty == [r \in {} |-> Absent]
<1>1. ~Registered(f, empty)
  BY DEF Registered
<1>2. f.severity # Absent /\ Upper(f.severity) = f.severity
  BY WordsAssumption DEF Upper, LowerCase
<1>3. Severity(f, empty) = f.severity
  BY <1>1, <1>2 DEF Severity, OrElse, DefaultGateBehavior
<1>4. GateBehavior(f, empty) = IF f.severity = "HIGH" THEN "FAIL" ELSE "WARN"
  BY <1>1, <1>3 DEF GateBehavior, DefaultGateBehavior
<1>5. Effective(f.severity, GateBehavior(f, empty), "production") = GateBehavior(f, empty)
  BY DEF Effective, Relaxed, GatePolicies
<1>6. Resolve(f, empty, "production").effective = GateBehavior(f, empty)
  BY <1>3, <1>5 DEF Resolve
<1> QED  BY <1>4, <1>6 DEF Blocks

-----------------------------------------------------------------------------
(* The identity contract. *)

\* A check without a crash and without a reason objects to no source.
LEMMA SilentCheckIsClean ==
  ASSUME NEW files, NEW check \in {"scopes", "verifies"}, files \subseteq Sources,
         ~CheckFiles(files, check).crashed, CheckFiles(files, check).reasons = {}
  PROVE  \A f \in files : f.code = "parses" /\ f[check] = 0
<1>1. /\ \A f \in files : f.code # "null bytes"
      /\ UNION {Objections(f, check) : f \in files} = {}
  BY DEF CheckFiles, Crash, Found
<1>2. ASSUME NEW f \in files
      PROVE  f.code = "parses" /\ f[check] = 0
  <2>1. Objections(f, check) = {}
    BY <1>1
  <2> DEFINE nodes == IF f.code = "parses" THEN f[check] ELSE 1
  <2>2. nodes \in Nat
    BY DEF Sources
  <2>3. nodes = 0
    <3>1. 1 \notin 1..nodes
      BY <2>1 DEF Objections
    <3> HIDE DEF nodes
    <3> QED  BY <2>2, <3>1
  <2> QED  BY <2>3
<1> QED  BY <1>2

\* The contract passes a checkout only if everything it can see in it keeps to
\* the contract.
THEOREM IdentityIsSound == CallSpec => []PassedCheckoutIsClean
<1>1. CallInv => PassedCheckoutIsClean
  <2> DEFINE spec == SpecOf(input)
             scopes == CheckDeprecatedScopes(input)
             verifies == CheckNoReimplementation(input)
             openapi == CheckOpenapi(spec)
  <2> SUFFICES ASSUME CallInv, Returned("identity"), Result.action = "PASS"
               PROVE  /\ input.below_excluded
                         \/ \A f \in input.files :
                              Objectionable(f) =>
                                \/ f.place = "vendored"
                                \/ f.place = "auth_core" /\ f.code = "parses" /\ f.scopes = 0
                      /\ spec.kind \in {"none", "mapping"}
                      /\ \A o \in spec.operations :
                           \/ {401, 403} \subseteq o.responses
                           \/ o.security = "none"
                           \/ o.security = "absent" /\ spec.security # "required"
    BY DEF PassedCheckoutIsClean
  <2>1. Result = RunCheck(input)
    BY DEF CallInv, AnswersInput, Returned, Result
  <2>2. input \in Trees
    BY InputsAssumption DEF CallInv, Returned
  <2>3. \A c \in {scopes, verifies, openapi} : ~c.crashed /\ c.reasons = {}
    <3> HIDE DEF scopes, verifies, openapi
    <3>1. RunCheck(input) =
            IF \E c \in {scopes, verifies, openapi} : c.crashed
            THEN [action |-> "BLOCK", reasons |-> {<<"crash">>}]
            ELSE [action |-> IF UNION {c.reasons : c \in {scopes, verifies, openapi}} # {}
                             THEN "BLOCK" ELSE "PASS",
                  reasons |-> UNION {c.reasons : c \in {scopes, verifies, openapi}}]
      BY DEF RunCheck, scopes, verifies, openapi
    <3> QED  BY <2>1, <3>1
  <2>4. ASSUME ~input.below_excluded, NEW f \in input.files, Objectionable(f),
               f.place # "vendored"
        PROVE  f.place = "auth_core" /\ f.code = "parses" /\ f.scopes = 0
    <3>1. f \in SourceFiles(input) /\ SourceFiles(input) \subseteq Sources
      BY <2>2, <2>4 DEF SourceFiles, Excluded, Trees
    <3>2. f.code = "parses" /\ f.scopes = 0
      BY <2>3, <3>1, SilentCheckIsClean DEF CheckDeprecatedScopes
    <3>3. ~Exempt(f) => f.verifies = 0
      <4> DEFINE others == {g \in SourceFiles(input) : ~Exempt(g)}
      <4>1. others \subseteq Sources /\ (~Exempt(f) => f \in others)
        BY <3>1
      <4>2. \A g \in others : g.verifies = 0
        BY <2>3, <4>1, SilentCheckIsClean DEF CheckNoReimplementation
      <4> QED  BY <4>1, <4>2
    <3>4. f.scopes \in Nat /\ f.verifies \in Nat
      BY <3>1 DEF Sources
    <3> QED  BY <2>4, <3>2, <3>3, <3>4 DEF Objectionable, Exempt
  <2>5. spec \in Specs
    BY <2>2 DEF SpecOf, Trees
  <2> HIDE DEF spec, openapi
  <2>6. ~openapi.crashed /\ openapi.reasons = {}
    BY <2>3
  <2>7. /\ spec.kind \in {"none", "mapping"}
        /\ spec.kind = "mapping" => Undeclared(spec) = {}
    <3>1. spec.kind \in {"none", "no yaml", "unparsable", "not mapping", "mapping"}
      BY <2>5 DEF Specs
    <3>2. spec.kind # "not mapping"
      BY <2>6 DEF CheckOpenapi, Crash, openapi
    <3>3. spec.kind \notin {"no yaml", "unparsable"}
      <4> SUFFICES ASSUME spec.kind \in {"no yaml", "unparsable"}
                   PROVE  FALSE
        OBVIOUS
      <4>1. openapi = Found({<<"openapi", spec.kind>>})
        BY DEF CheckOpenapi, openapi
      <4> QED  BY <2>6, <4>1 DEF Found
    <3>4. spec.kind = "mapping" => {<<"openapi", o>> : o \in Undeclared(spec)} = {}
      <4> SUFFICES ASSUME spec.kind = "mapping"
                   PROVE  {<<"openapi", o>> : o \in Undeclared(spec)} = {}
        OBVIOUS
      <4>1. openapi = Found({<<"openapi", o>> : o \in Undeclared(spec)})
        BY DEF CheckOpenapi, openapi
      <4> QED  BY <2>6, <4>1 DEF Found
    <3> QED  BY <3>1, <3>2, <3>3, <3>4
  <2>8. spec.kind = "none" => spec.operations = {}
    BY <2>5 DEF Specs
  <2>9. ASSUME NEW o \in spec.operations
        PROVE  \/ {401, 403} \subseteq o.responses
               \/ o.security = "none"
               \/ o.security = "absent" /\ spec.security # "required"
    <3>1. spec.kind = "mapping"
      BY <2>7, <2>8, <2>9
    <3>2. o \in Operations
      BY <2>5, <2>9, <3>1 DEF Specs
    <3>3. o.security \in {"absent", "none", "required"}
      BY <3>2 DEF Operations, Security
    <3>4. {401, 403} \subseteq o.responses \/ ~RequiresAuth(o, spec.security)
      BY <2>7, <2>9, <3>1 DEF Undeclared
    <3> QED  BY <3>3, <3>4 DEF RequiresAuth
  <2> QED  BY <2>4, <2>7, <2>9
<1> QED  BY <1>1, CallInvariance, PTL

-----------------------------------------------------------------------------
(* The scans. *)

\* A clean security scan has seen no match, and a clean governance scan of a
\* directory has seen all three fields in one place of every document it reads.
THEOREM ScansAreComplete == CallSpec => []CleanScansAreComplete
<1>1. ASSUME CallInv, Returned("security"), Result.status = "PASS"
      PROVE  input.kind = "file" /\ \A n \in DOMAIN input.lines : input.lines[n] = {}
  <2>1. Result = SecurityScan(input)
    BY <1>1 DEF CallInv, AnswersInput, Returned, Result
  <2>2. input.kind = "file" /\ SecretLines(input.lines) = {}
    BY <1>1, <2>1 DEF SecurityScan
  <2>3. ASSUME NEW n \in DOMAIN input.lines
        PROVE  input.lines[n] = {}
    <3>1. {[line |-> n, pattern |-> p] : p \in input.lines[n]} = {}
      BY <2>2 DEF SecretLines
    <3> QED  BY <3>1
  <2> QED  BY <2>2, <2>3
<1>2. ASSUME CallInv, Returned("governance"), input.target.kind = "directory", Result = {},
             NEW d \in input.target.documents,
             d.directory \notin {"hidden", "venv", "governance"}, d.kind = "mapping"
      PROVE  \E place \in ToSet(d.info) \cup ToSet(d.metadata) \cup {d.root} : Fields \subseteq place
  <2>1. GovernanceScan(input.target, input.cwd) = {}
    BY <1>2 DEF CallInv, AnswersInput, Returned, Result
  <2>2. \A missing \in Fields : missing \notin MissingFields(d)
    <3> SUFFICES ASSUME NEW missing \in Fields, missing \in MissingFields(d)
                 PROVE  FALSE
      OBVIOUS
    <3>1. [document |-> d, missing |-> missing] \in GovernanceScan(input.target, input.cwd)
      BY <1>2 DEF GovernanceScan, LeftOut
    <3> QED  BY <2>1, <3>1
  <2>3. Fields \subseteq Metadata(d)
    BY <1>2, <2>2 DEF MissingFields
  <2>4. d.info \in Part /\ d.metadata \in Part
    BY <1>2, InputsAssumption DEF CallInv, Returned, GovernanceTargets, Documents
  <2>5. Metadata(d) \in ToSet(d.info) \cup ToSet(d.metadata) \cup {d.root}
    <3>1. CASE d.info = << >> /\ d.metadata = << >>
      BY <3>1 DEF Metadata
    <3>2. CASE d.info = << >> /\ d.metadata # << >>
      BY <2>4, <3>2 DEF Metadata, Part, ToSet
    <3>3. CASE d.info # << >>
      <4>1. PICK fields \in SUBSET Fields : d.info = <<fields>>
        BY <2>4, <3>3 DEF Part
      <4>2. d.metadata \in Seq(SUBSET Fields) /\ d.root \in SUBSET Fields
        <5>1. d.root \in SUBSET Fields
          BY <1>2, InputsAssumption DEF CallInv, Returned, GovernanceTargets, Documents
        <5>2. d.metadata = << >> \/ \E more \in SUBSET Fields : d.metadata = <<more>>
          BY <2>4 DEF Part
        <5>3. \A more \in SUBSET Fields : <<more>> \in Seq(SUBSET Fields)
          OBVIOUS
        <5>4. << >> \in Seq(SUBSET Fields)
          OBVIOUS
        <5> QED  BY <5>1, <5>2, <5>3, <5>4
      <4>3. Metadata(d) = fields
        BY <4>1, <4>2 DEF Metadata
      <4>4. fields \in ToSet(d.info)
        BY <4>1 DEF ToSet
      <4> QED  BY <4>3, <4>4
    <3> QED  BY <3>1, <3>2, <3>3
  <2> QED  BY <2>3, <2>5
<1>3. CallInv => CleanScansAreComplete
  BY <1>1, <1>2 DEF CleanScansAreComplete
<1> QED  BY <1>3, CallInvariance, PTL

-----------------------------------------------------------------------------
(* Flattening.  FlattenSeq is a recursive function; that there is one, and  *)
(* what holds of all its values, follows from LastExists.                   *)

LEMMA Climb ==
  ASSUME NEW n \in Nat \ {0}, NEW S, S \subseteq 1..n, 1 \in S,
         \A i \in S : i < n => i + 1 \in S
  PROVE  n \in S
<1>1. PICK last \in S : \A j \in S : j <= last
  BY LastExists
<1>2. ~ (last < n)
  BY <1>1
<1> QED  BY <1>1, <1>2

\* A function that flattens lists of any length.
LEMMA FlatteningExists ==
  ASSUME NEW n \in Nat \ {0}, NEW s
  PROVE  \E f : f = [i \in 1..n |-> IF i = 1 THEN s[i] ELSE f[i-1] \o s[i]]
<1> DEFINE Flattens(f, k) == f = [i \in 1..k |-> IF i = 1 THEN s[i] ELSE f[i-1] \o s[i]]
           Solved == {k \in 1..n : \E f : Flattens(f, k)}
<1>1. 1 \in Solved
  <2> DEFINE f == [i \in 1..1 |-> s[i]]
  <2>1. f = [i \in 1..1 |-> IF i = 1 THEN s[i] ELSE f[i-1] \o s[i]]
    OBVIOUS
  <2>2. \E g : Flattens(g, 1)
    BY <2>1
  <2>3. 1 \in 1..n
    OBVIOUS
  <2> HIDE DEF Flattens
  <2> QED  BY <2>2, <2>3
<1>2. ASSUME NEW k \in Solved, k < n
      PROVE  k + 1 \in Solved
  <2>1. k \in Nat /\ k \in 1..n /\ k + 1 \in 1..n
    BY <1>2
  <2>2. PICK f : Flattens(f, k)
    OBVIOUS
  <2> DEFINE g == [i \in 1..(k + 1) |-> IF i <= k THEN f[i] ELSE f[k] \o s[k + 1]]
  <2>3. \A i \in 1..k : g[i] = IF i = 1 THEN s[i] ELSE g[i-1] \o s[i]
    <3> SUFFICES ASSUME NEW i \in 1..k
                 PROVE  g[i] = IF i = 1 THEN s[i] ELSE g[i-1] \o s[i]
      OBVIOUS
    <3>1. g[i] = f[i] /\ (i # 1 => g[i-1] = f[i-1])
      <4>1. i \in 1..(k + 1) /\ i <= k
        BY <2>1
      <4>2. i # 1 => i - 1 \in 1..(k + 1) /\ i - 1 <= k
        BY <2>1
      <4> HIDE DEF Flattens
      <4> QED  BY <4>1, <4>2
    <3>2. f[i] = IF i = 1 THEN s[i] ELSE f[i-1] \o s[i]
      BY <2>2, Zenon
    <3> HIDE DEF g, Flattens
    <3> QED  BY <3>1, <3>2
  <2>4. g[k + 1] = IF k + 1 = 1 THEN s[k + 1] ELSE g[(k + 1) - 1] \o s[k + 1]
    <3>1. k \in 1..(k + 1) /\ k <= k /\ k + 1 \in 1..(k + 1) /\ ~ (k + 1 <= k)
      BY <2>1
    <3>2. k + 1 # 1 /\ (k + 1) - 1 = k
      BY <2>1
    <3> HIDE DEF Flattens
    <3>3. g[k] = f[k] /\ g[k + 1] = f[k] \o s[k + 1]
      BY <3>1
    <3> HIDE DEF g
    <3> QED  BY <3>2, <3>3
  <2>5. \A i \in 1..(k + 1) : i \in 1..k \/ i = k + 1
    BY <2>1
  <2>6. g = [i \in 1..(k + 1) |-> g[i]]
    OBVIOUS
  <2> HIDE DEF g
  <2>7. \A i \in 1..(k + 1) : g[i] = IF i = 1 THEN s[i] ELSE g[i-1] \o s[i]
    BY <2>3, <2>4, <2>5
  <2>8. Flattens(g, k + 1)
    BY <2>6, <2>7
  <2> QED  BY <2>1, <2>8
<1>3. n \in Solved
  <2>1. Solved \subseteq 1..n
    OBVIOUS
  <2> HIDE DEF Solved
  <2> QED  BY <1>1, <1>2, <2>1, Climb
<1> QED  BY <1>3

\* The values that FlattenSeq passes through, each from the one before.
LEMMA FlattenSteps ==
  ASSUME NEW T, NEW s \in Seq(T), Len(s) # 0
  PROVE  \E f : /\ f[1] = s[1]
                /\ \A i \in 1..Len(s) : i # 1 => f[i] = f[i-1] \o s[i]
                /\ FlattenSeq(s) = f[Len(s)]
<1> DEFINE n == Len(s)
           Flattens(f) == f = [i \in 1..n |-> IF i = 1 THEN s[i] ELSE f[i-1] \o s[i]]
           f == CHOOSE g : Flattens(g)
<1>1. n \in Nat \ {0}
  OBVIOUS
<1>2. \E g : Flattens(g)
  BY <1>1, FlatteningExists
<1>3. Flattens(f)
  <2> HIDE DEF Flattens
  <2> QED  BY <1>2
<1>4. FlattenSeq(s) = f[n]
  BY DEF FlattenSeq
<1> HIDE DEF f
<1>5. \A i \in 1..n : f[i] = IF i = 1 THEN s[i] ELSE f[i-1] \o s[i]
  BY <1>3
<1>6. 1 \in 1..n
  BY <1>1
<1>7. f[1] = s[1]
  BY <1>5, <1>6
<1>8. \A i \in 1..n : i # 1 => f[i] = f[i-1] \o s[i]
  BY <1>5
<1> QED  BY <1>4, <1>7, <1>8

\* The positions of a sequence that hold a member of V.
Hits(q, V) == {k \in DOMAIN q : q[k] \in V}

\* Only so many positions of a list can be hits.
LEMMA HitsAreFinite ==
  ASSUME NEW T, NEW q \in Seq(T), NEW V
  PROVE  IsFiniteSet(Hits(q, V)) /\ Cardinality(Hits(q, V)) \in Nat
<1>1. Hits(q, V) \in SUBSET (1..Len(q)) /\ Len(q) \in Nat
  BY DEF Hits
<1>2. IsFiniteSet(1..Len(q))
  BY <1>1, FS_Interval
<1> QED  BY <1>1, <1>2, FS_Subset, FS_CardinalityType

\* Sets that a bijection relates are of one size.
LEMMA SameSize ==
  ASSUME NEW S, NEW R, NEW g, IsFiniteSet(S), g \in Bijection(S, R)
  PROVE  IsFiniteSet(R) /\ Cardinality(R) = Cardinality(S)
<1>1. ExistsBijection(S, R)
  BY DEF ExistsBijection
<1> QED  BY <1>1, FS_Bijection

\* The hits of a concatenation are those of its two parts.
LEMMA HitsOfConcat ==
  ASSUME NEW T, NEW a \in Seq(T), NEW b \in Seq(T), NEW V
  PROVE  Cardinality(Hits(a \o b, V)) = Cardinality(Hits(a, V)) + Cardinality(Hits(b, V))
<1> DEFINE first == Hits(a, V)
           second == {k + Len(a) : k \in Hits(b, V)}
           shift == [k \in Hits(b, V) |-> k + Len(a)]
<1>1. Len(a) \in Nat /\ Hits(b, V) \subseteq Nat /\ Hits(a, V) \subseteq 1..Len(a)
  BY DEF Hits
<1>2. IsFiniteSet(second) /\ Cardinality(second) = Cardinality(Hits(b, V))
  <2>1. shift \in Bijection(Hits(b, V), second)
    <3>1. \A j, k \in Hits(b, V) : shift[j] = shift[k] => j = k
      BY <1>1
    <3>2. shift \in [Hits(b, V) -> second] /\ \A m \in second : \E k \in Hits(b, V) : shift[k] = m
      OBVIOUS
    <3> HIDE DEF shift, second
    <3> QED  BY <3>1, <3>2 DEF Bijection, Injection, Surjection, IsInjective
  <2>2. IsFiniteSet(Hits(b, V))
    BY HitsAreFinite
  <2> HIDE DEF shift, second
  <2> QED  BY <2>1, <2>2, SameSize
<1>3. first \cap second = {}
  <2>1. \A k \in Hits(b, V) : k >= 1
    BY DEF Hits
  <2> QED  BY <1>1, <2>1
<1>4. Hits(a \o b, V) = first \cup second
  <2>1. /\ a \o b \in Seq(T)
        /\ Len(a \o b) = Len(a) + Len(b)
        /\ \A i \in 1..(Len(a) + Len(b)) :
             (a \o b)[i] = IF i <= Len(a) THEN a[i] ELSE b[i - Len(a)]
    BY ConcatProperties
  <2>2. Len(a) \in Nat /\ Len(b) \in Nat /\ DOMAIN a = 1..Len(a) /\ DOMAIN b = 1..Len(b)
        /\ DOMAIN (a \o b) = 1..(Len(a) + Len(b))
    BY <2>1
  <2>3. \A i \in Hits(a \o b, V) : i \in first \/ i \in second
    <3> SUFFICES ASSUME NEW i \in Hits(a \o b, V), i \notin first
                 PROVE  i \in second
      OBVIOUS
    <3>1. i \in 1..(Len(a) + Len(b)) /\ (a \o b)[i] \in V
      BY <2>2 DEF Hits
    <3>2. ~ (i <= Len(a))
      BY <2>1, <2>2, <3>1 DEF Hits
    <3>3. i - Len(a) \in Hits(b, V)
      BY <2>1, <2>2, <3>1, <3>2 DEF Hits
    <3>4. i = (i - Len(a)) + Len(a)
      BY <2>2, <3>1
    <3> QED  BY <3>3, <3>4
  <2>4. \A i \in first : i \in Hits(a \o b, V)
    BY <2>1, <2>2 DEF Hits
  <2>5. \A k \in Hits(b, V) : k + Len(a) \in Hits(a \o b, V)
    <3> SUFFICES ASSUME NEW k \in Hits(b, V)
                 PROVE  k + Len(a) \in Hits(a \o b, V)
      OBVIOUS
    <3>1. k \in 1..Len(b) /\ b[k] \in V
      BY <2>2 DEF Hits
    <3>2. k + Len(a) \in 1..(Len(a) + Len(b)) /\ ~ (k + Len(a) <= Len(a)) /\ (k + Len(a)) - Len(a) = k
      BY <2>2, <3>1
    <3>3. (a \o b)[k + Len(a)] = b[k]
      BY <2>1, <3>2
    <3> QED  BY <2>2, <3>1, <3>2, <3>3 DEF Hits
  <2>6. \A i \in second : i \in Hits(a \o b, V)
    BY <2>5
  <2> HIDE DEF first, second
  <2> QED  BY <2>3, <2>4, <2>6
<1>5. IsFiniteSet(first) /\ Cardinality(first) \in Nat /\ Cardinality(Hits(b, V)) \in Nat
  BY HitsAreFinite
<1> HIDE DEF second, first
<1>6. Cardinality(first \cup second) = Cardinality(first) + Cardinality(second) - Cardinality({})
  BY <1>2, <1>3, <1>5, FS_Union
<1> QED  BY <1>2, <1>4, <1>5, <1>6, FS_EmptySet DEF first

\* A set is as large as the set of its members beside a tag.
LEMMA TaggedSize ==
  ASSUME NEW i, NEW A, IsFiniteSet(A)
  PROVE  IsFiniteSet({i} \X A) /\ Cardinality({i} \X A) = Cardinality(A)
<1> DEFINE tag == [x \in A |-> <<i, x>>]
<1>1. tag \in Bijection(A, {i} \X A)
  <2>1. \A x, y \in A : tag[x] = tag[y] => x = y
    OBVIOUS
  <2>2. tag \in [A -> {i} \X A] /\ \A p \in {i} \X A : \E x \in A : tag[x] = p
    OBVIOUS
  <2> HIDE DEF tag
  <2> QED  BY <2>1, <2>2 DEF Bijection, Injection, Surjection, IsInjective
<1> HIDE DEF tag
<1> QED  BY <1>1, SameSize

\* Places within parts, each with the part that it is in.
Tagged(A, parts) == UNION {{i} \X A[i] : i \in parts}

\* How many members of V there are after flattening: as many as there are
\* pairs of a part and of a place in it, however the places are named.
LEMMA FlattenHits ==
  ASSUME NEW T, NEW V, NEW s \in Seq(Seq(T)), NEW A,
         \A i \in DOMAIN s : IsFiniteSet(A[i]) /\ Cardinality(A[i]) = Cardinality(Hits(s[i], V))
  PROVE  /\ FlattenSeq(s) \in Seq(T)
         /\ IsFiniteSet(Tagged(A, DOMAIN s))
         /\ Cardinality(Tagged(A, DOMAIN s)) = Cardinality(Hits(FlattenSeq(s), V))
<1> DEFINE Pairs(k) == UNION {{i} \X A[i] : i \in 1..k}
           n == Len(s)
<1> USE DEF Tagged
<1>1. n \in Nat /\ DOMAIN s = 1..n
  OBVIOUS
<1>2. CASE n = 0
  <2>1. s = << >> /\ FlattenSeq(s) = << >>
    BY <1>2 DEF FlattenSeq
  <2>2. Tagged(A, DOMAIN s) = {} /\ Hits(FlattenSeq(s), V) = {}
    BY <2>1 DEF Hits
  <2>3. FlattenSeq(s) \in Seq(T)
    BY <2>1, EmptySeq
  <2> QED  BY <2>2, <2>3, FS_EmptySet
<1>3. CASE n # 0
  <2>1. PICK f : /\ f[1] = s[1]
                 /\ \A i \in 1..n : i # 1 => f[i] = f[i-1] \o s[i]
                 /\ FlattenSeq(s) = f[n]
    BY <1>3, FlattenSteps
  <2> DEFINE Good(k) == /\ f[k] \in Seq(T)
                        /\ IsFiniteSet(Pairs(k))
                        /\ Cardinality(Pairs(k)) = Cardinality(Hits(f[k], V))
             Solved == {k \in 1..n : Good(k)}
  <2>2. \A i \in 1..n : s[i] \in Seq(T)
    BY <1>1
  <2>3. 1 \in Solved
    <3>1. 1 \in 1..n
      BY <1>1, <1>3
    <3>2. Pairs(1) = {1} \X A[1]
      <4>1. \A i \in 1..1 : i = 1
        OBVIOUS
      <4> QED  BY <4>1
    <3> HIDE DEF Pairs
    <3>3. IsFiniteSet(Pairs(1)) /\ Cardinality(Pairs(1)) = Cardinality(A[1])
      <4>1. IsFiniteSet(A[1])
        BY <1>1, <3>1
      <4>2. IsFiniteSet({1} \X A[1]) /\ Cardinality({1} \X A[1]) = Cardinality(A[1])
        BY <4>1, TaggedSize
      <4> QED  BY <3>2, <4>2
    <3> QED  BY <1>1, <2>1, <2>2, <3>1, <3>3
  <2>4. ASSUME NEW k \in Solved, k < n
        PROVE  k + 1 \in Solved
    <3>1. k \in 1..n /\ k + 1 \in 1..n /\ k + 1 # 1 /\ (k + 1) - 1 = k
      BY <1>1, <2>4
    <3>2. f[k + 1] = f[k] \o s[k + 1]
      BY <2>1, <3>1
    <3>3. f[k] \in Seq(T) /\ s[k + 1] \in Seq(T)
      BY <2>2, <3>1
    <3>4. f[k + 1] \in Seq(T)
      BY <3>2, <3>3, ConcatProperties
    <3>5. Pairs(k + 1) = Pairs(k) \cup ({k + 1} \X A[k + 1])
      <4>1. 1..(k + 1) = (1..k) \cup {k + 1}
        BY <3>1
      <4> QED  BY <4>1
    <3>6. Pairs(k) \cap ({k + 1} \X A[k + 1]) = {}
      <4>1. k + 1 \notin 1..k
        BY <3>1
      <4>2. \A p \in Pairs(k) : p[1] \in 1..k
        OBVIOUS
      <4>3. \A p \in {k + 1} \X A[k + 1] : p[1] = k + 1
        OBVIOUS
      <4> HIDE DEF Pairs
      <4> QED  BY <4>1, <4>2, <4>3
    <3>7. /\ IsFiniteSet({k + 1} \X A[k + 1])
          /\ Cardinality({k + 1} \X A[k + 1]) = Cardinality(Hits(s[k + 1], V))
      BY <1>1, <3>1, TaggedSize
    <3>8. IsFiniteSet(Pairs(k)) /\ Cardinality(Pairs(k)) = Cardinality(Hits(f[k], V))
      OBVIOUS
    <3> HIDE DEF Pairs
    <3>9. /\ IsFiniteSet(Pairs(k + 1))
          /\ Cardinality(Pairs(k + 1)) =
               Cardinality(Pairs(k)) + Cardinality({k + 1} \X A[k + 1]) - Cardinality({})
      <4> DEFINE added == {k + 1} \X A[k + 1]
      <4>1. IsFiniteSet(added) /\ Pairs(k + 1) = Pairs(k) \cup added /\ Pairs(k) \cap added = {}
        BY <3>5, <3>6, <3>7
      <4> HIDE DEF added
      <4>2. /\ IsFiniteSet(Pairs(k) \cup added)
            /\ Cardinality(Pairs(k) \cup added) =
                 Cardinality(Pairs(k)) + Cardinality(added) - Cardinality(Pairs(k) \cap added)
        BY <3>8, <4>1, FS_Union
      <4> QED  BY <4>1, <4>2 DEF added
    <3>10. Cardinality(Hits(f[k + 1], V)) = Cardinality(Hits(f[k], V)) + Cardinality(Hits(s[k + 1], V))
      BY <3>2, <3>3, HitsOfConcat
    <3>11. Cardinality(Hits(f[k], V)) \in Nat /\ Cardinality(Hits(s[k + 1], V)) \in Nat
      BY <3>3, HitsAreFinite
    <3>12. Cardinality(Pairs(k + 1)) = Cardinality(Hits(f[k + 1], V))
      BY <3>7, <3>8, <3>9, <3>10, <3>11, FS_EmptySet
    <3> QED  BY <3>1, <3>4, <3>9, <3>12
  <2>5. n \in Solved
    <3>1. Solved \subseteq 1..n
      OBVIOUS
    <3> HIDE DEF Solved
    <3> QED  BY <1>1, <1>3, <2>3, <2>4, <3>1, Climb
  <2>6. Good(n)
    BY <2>5
  <2> QED  BY <1>1, <2>1, <2>6
<1> QED  BY <1>2, <1>3

-----------------------------------------------------------------------------
(* OPA. *)

Violating == {v \in Denials : IsViolation(v)}

\* One violation for each member of a list of messages, one for any other text.
LEMMA ValueHits ==
  ASSUME NEW value \in Values
  PROVE  /\ InValue(value) \in Seq(Denials)
         /\ IsFiniteSet(PlacesInValue(value))
         /\ Cardinality(PlacesInValue(value)) = Cardinality(Hits(InValue(value), Violating))
<1>1. CASE value.kind = "list"
  <2>1. InValue(value) = value.items
    BY <1>1 DEF InValue
  <2>2. value.items \in Seq(Denials)
    BY <1>1 DEF Values, Denials
  <2>3. PlacesInValue(value) = Hits(value.items, Violating)
    <3>1. \A n \in DOMAIN value.items : value.items[n] \in Denials
      BY <2>2
    <3> QED  BY <1>1, <3>1 DEF PlacesInValue, Hits, Violating
  <2> QED  BY <2>1, <2>2, <2>3, HitsAreFinite
<1>2. CASE value.kind = "mapping"
  <2>1. InValue(value) = <<value>>
    BY <1>2 DEF InValue
  <2>2. value \in Denials
    BY <1>2 DEF Values, Denials
  <2>3. <<value>> \in Seq(Denials)
    BY <2>2
  <2>4. PlacesInValue(value) = {0}
    BY <1>2 DEF PlacesInValue
  <2>5. Hits(<<value>>, Violating) = {1}
    BY <1>2, <2>2 DEF Hits, Violating, IsViolation
  <2> QED  BY <2>1, <2>3, <2>4, <2>5, FS_Singleton
<1>3. CASE value.kind \notin {"list", "mapping"}
  <2>1. InValue(value) = << >>
    BY <1>3 DEF InValue
  <2>2. PlacesInValue(value) = {}
    BY <1>3 DEF PlacesInValue
  <2>3. Hits(<< >>, Violating) = {}
    BY DEF Hits
  <2> QED  BY <2>1, <2>2, <2>3, FS_EmptySet, EmptySeq
<1> QED  BY <1>1, <1>2, <1>3

\* What InResult takes from one expression.
FromExpression(e) == IF e.kind # "mapping" THEN << >> ELSE InValue(e.value)

LEMMA ExpressionHits ==
  ASSUME NEW e \in Expressions
  PROVE  /\ FromExpression(e) \in Seq(Denials)
         /\ IsFiniteSet(PlacesInExpression(e))
         /\ Cardinality(PlacesInExpression(e)) = Cardinality(Hits(FromExpression(e), Violating))
<1>1. CASE e.kind = "mapping"
  <2>1. e.value \in Values
    BY <1>1 DEF Expressions
  <2>2. FromExpression(e) = InValue(e.value) /\ PlacesInExpression(e) = PlacesInValue(e.value)
    BY <1>1 DEF FromExpression, PlacesInExpression
  <2> QED  BY <2>1, <2>2, ValueHits
<1>2. CASE e.kind # "mapping"
  <2>1. FromExpression(e) = << >> /\ PlacesInExpression(e) = {}
    BY <1>2 DEF FromExpression, PlacesInExpression
  <2>2. Hits(<< >>, Violating) = {}
    BY DEF Hits
  <2> QED  BY <2>1, <2>2, FS_EmptySet, EmptySeq
<1> QED  BY <1>1, <1>2

\* What InResult takes from one item.
FromItem(item) ==
  IF item.kind # "mapping" THEN << >>
  ELSE FlattenSeq([j \in DOMAIN item.expressions |-> FromExpression(item.expressions[j])])

LEMMA ItemHits ==
  ASSUME NEW item \in ResultItems
  PROVE  /\ FromItem(item) \in Seq(Denials)
         /\ IsFiniteSet(PlacesInItem(item))
         /\ Cardinality(PlacesInItem(item)) = Cardinality(Hits(FromItem(item), Violating))
<1>1. CASE item.kind = "mapping"
  <2> DEFINE es == item.expressions
             s == [j \in DOMAIN es |-> FromExpression(es[j])]
             A == [j \in DOMAIN es |-> PlacesInExpression(es[j])]
  <2>1. es \in Seq(Expressions)
    BY <1>1 DEF ResultItems
  <2>2. FromItem(item) = FlattenSeq(s)
    BY <1>1 DEF FromItem
  <2>3. PlacesInItem(item) = UNION {{j} \X PlacesInExpression(es[j]) : j \in DOMAIN es}
    BY <1>1 DEF PlacesInItem
  <2> HIDE DEF es
  <2>4. \A j \in DOMAIN es : es[j] \in Expressions
    BY <2>1
  <2>5. s \in Seq(Seq(Denials))
    <3>1. \A j \in DOMAIN es : FromExpression(es[j]) \in Seq(Denials)
      BY <2>4, ExpressionHits
    <3> QED  BY <2>1, <3>1
  <2>6. \A j \in DOMAIN s :
          IsFiniteSet(A[j]) /\ Cardinality(A[j]) = Cardinality(Hits(s[j], Violating))
    BY <2>4, ExpressionHits
  <2>7. Tagged(A, DOMAIN s) = UNION {{j} \X PlacesInExpression(es[j]) : j \in DOMAIN es}
    BY DEF Tagged
  <2> HIDE DEF s, A
  <2>8. /\ FlattenSeq(s) \in Seq(Denials)
        /\ IsFiniteSet(Tagged(A, DOMAIN s))
        /\ Cardinality(Tagged(A, DOMAIN s)) = Cardinality(Hits(FlattenSeq(s), Violating))
    BY <2>5, <2>6, FlattenHits
  <2> QED  BY <2>2, <2>3, <2>7, <2>8
<1>2. CASE item.kind # "mapping"
  <2>1. FromItem(item) = << >> /\ PlacesInItem(item) = {}
    BY <1>2 DEF FromItem, PlacesInItem
  <2>2. Hits(<< >>, Violating) = {}
    BY DEF Hits
  <2> QED  BY <2>1, <2>2, FS_EmptySet, EmptySeq
<1> QED  BY <1>1, <1>2

\* The violations that are looked for in a result are the ones it holds.
LEMMA ResultHits ==
  ASSUME NEW payload, payload.items \in Seq(ResultItems)
  PROVE  /\ InResult(payload.items) \in Seq(Denials)
         /\ Cardinality(PlacesIn(payload)) = Cardinality(Hits(InResult(payload.items), Violating))
<1> DEFINE items == payload.items
           s == [i \in DOMAIN items |-> FromItem(items[i])]
           A == [i \in DOMAIN items |-> PlacesInItem(items[i])]
<1>1. InResult(items) = FlattenSeq(s)
  BY DEF InResult, FromItem, FromExpression
<1>2. PlacesIn(payload) = UNION {{i} \X PlacesInItem(items[i]) : i \in DOMAIN items}
  BY DEF PlacesIn
<1>3. items \in Seq(ResultItems)
  OBVIOUS
<1> HIDE DEF items
<1>4. \A i \in DOMAIN items : items[i] \in ResultItems
  BY <1>3
<1>5. s \in Seq(Seq(Denials))
  <2>1. \A i \in DOMAIN items : FromItem(items[i]) \in Seq(Denials)
    BY <1>4, ItemHits
  <2> QED  BY <1>3, <2>1
<1>6. \A i \in DOMAIN s :
        IsFiniteSet(A[i]) /\ Cardinality(A[i]) = Cardinality(Hits(s[i], Violating))
  BY <1>4, ItemHits
<1>7. Tagged(A, DOMAIN s) = UNION {{i} \X PlacesInItem(items[i]) : i \in DOMAIN items}
  BY DEF Tagged
<1> HIDE DEF s, A
<1>8. /\ FlattenSeq(s) \in Seq(Denials)
      /\ IsFiniteSet(Tagged(A, DOMAIN s))
      /\ Cardinality(Tagged(A, DOMAIN s)) = Cardinality(Hits(FlattenSeq(s), Violating))
  BY <1>5, <1>6, FlattenHits
<1> QED  BY <1>1, <1>2, <1>7, <1>8 DEF items

PolicyFindings ==
  [rule : Rules \cup {Unhashable, Unresolved}, severity : Words, category : {"policy"}]

LEMMA OneFindingEach ==
  ASSUME NEW v \in Denials
  PROVE  /\ PolicyFinding(v) \in Seq(PolicyFindings)
         /\ Hits(PolicyFinding(v), PolicyFindings) = IF IsViolation(v) THEN {1} ELSE {}
<1>1. CASE v.kind = "string"
  <2> DEFINE f == [rule |-> Unresolved, severity |-> "HIGH", category |-> "policy"]
  <2>1. PolicyFinding(v) = <<f>>
    BY <1>1 DEF PolicyFinding
  <2>2. f \in PolicyFindings
    BY WordsAssumption DEF PolicyFindings
  <2>3. IsViolation(v)
    BY <1>1 DEF IsViolation
  <2> HIDE DEF f
  <2>4. <<f>> \in Seq(PolicyFindings) /\ Hits(<<f>>, PolicyFindings) = {1}
    BY <2>2 DEF Hits
  <2> QED  BY <2>1, <2>3, <2>4
<1>2. CASE v.kind = "mapping"
  <2> DEFINE f == [rule |-> IF v.rule \in {Absent, NoRule} THEN Unresolved ELSE v.rule,
                   severity |-> OrElse(v.severity, "HIGH"), category |-> "policy"]
  <2>1. PolicyFinding(v) = <<f>>
    BY <1>2 DEF PolicyFinding
  <2>2. f \in PolicyFindings
    <3>1. v.rule \in Rules \cup {Absent, NoRule, Unhashable} /\ v.severity \in Words \cup {Absent}
      BY <1>2 DEF Denials
    <3>2. "HIGH" \in Words
      BY WordsAssumption
    <3> QED  BY <3>1, <3>2 DEF PolicyFindings, OrElse
  <2>3. IsViolation(v)
    BY <1>2 DEF IsViolation
  <2> HIDE DEF f
  <2>4. <<f>> \in Seq(PolicyFindings) /\ Hits(<<f>>, PolicyFindings) = {1}
    BY <2>2 DEF Hits
  <2> QED  BY <2>1, <2>3, <2>4
<1>3. CASE v.kind \notin {"string", "mapping"}
  <2>1. PolicyFinding(v) = << >> /\ ~IsViolation(v)
    BY <1>3 DEF PolicyFinding, IsViolation
  <2>2. Hits(<< >>, PolicyFindings) = {}
    BY DEF Hits
  <2> QED  BY <2>1, <2>2, EmptySeq
<1> QED  BY <1>1, <1>2, <1>3

\* There are as many findings as violations.
LEMMA FindingsCount ==
  ASSUME NEW found \in Seq(Denials)
  PROVE  LET all == FlattenSeq([k \in DOMAIN found |-> PolicyFinding(found[k])])
         IN  /\ all \in Seq(PolicyFindings)
             /\ Len(all) = Cardinality(Hits(found, Violating))
<1> DEFINE s == [k \in DOMAIN found |-> PolicyFinding(found[k])]
           A == [k \in DOMAIN found |-> IF IsViolation(found[k]) THEN {1} ELSE {}]
           pairs == Tagged(A, DOMAIN s)
           flat == FlattenSeq(s)
<1>1. \A k \in DOMAIN found : found[k] \in Denials
  OBVIOUS
<1>2. s \in Seq(Seq(PolicyFindings))
  <2>1. \A k \in DOMAIN found : PolicyFinding(found[k]) \in Seq(PolicyFindings)
    BY <1>1, OneFindingEach
  <2> QED  BY <2>1
<1>3. \A k \in DOMAIN s :
        IsFiniteSet(A[k]) /\ Cardinality(A[k]) = Cardinality(Hits(s[k], PolicyFindings))
  BY <1>1, OneFindingEach, FS_EmptySet, FS_Singleton
<1>4. /\ flat \in Seq(PolicyFindings)
      /\ Cardinality(pairs) = Cardinality(Hits(flat, PolicyFindings))
  <2> HIDE DEF s, A
  <2>1. /\ FlattenSeq(s) \in Seq(PolicyFindings)
        /\ IsFiniteSet(Tagged(A, DOMAIN s))
        /\ Cardinality(Tagged(A, DOMAIN s)) =
             Cardinality(Hits(FlattenSeq(s), PolicyFindings))
    BY <1>2, <1>3, FlattenHits
  <2> QED  BY <2>1
<1>5. Cardinality(Hits(flat, PolicyFindings)) = Len(flat)
  <2> HIDE DEF flat
  <2>1. Hits(flat, PolicyFindings) = 1..Len(flat) /\ Len(flat) \in Nat
    BY <1>4 DEF Hits
  <2>2. Cardinality(1..Len(flat)) = IF 1 > Len(flat) THEN 0 ELSE Len(flat) - 1 + 1
    <3> DEFINE n == Len(flat)
    <3>1. n \in Int /\ 1 \in Int
      BY <2>1
    <3> HIDE DEF n
    <3>2. Cardinality(1..n) = IF 1 > n THEN 0 ELSE n - 1 + 1
      BY <3>1, FS_Interval
    <3> QED  BY <3>2 DEF n
  <2> QED  BY <2>1, <2>2
<1>6. Cardinality(pairs) = Cardinality(Hits(found, Violating))
  <2> DEFINE g == [k \in Hits(found, Violating) |-> <<k, 1>>]
  <2>1. \A k \in DOMAIN found : IsViolation(found[k]) <=> k \in Hits(found, Violating)
    BY <1>1 DEF Hits, Violating
  <2>2. pairs = {<<k, 1>> : k \in Hits(found, Violating)}
    <3>1. \A k \in DOMAIN found : {k} \X A[k] = IF k \in Hits(found, Violating) THEN {<<k, 1>>} ELSE {}
      BY <2>1
    <3>2. DOMAIN s = DOMAIN found /\ Hits(found, Violating) \subseteq DOMAIN found
      BY DEF Hits
    <3> HIDE DEF s, A
    <3> QED  BY <3>1, <3>2 DEF Tagged
  <2>3. g \in Bijection(Hits(found, Violating), pairs)
    <3>1. \A j, k \in Hits(found, Violating) : g[j] = g[k] => j = k
      OBVIOUS
    <3>2. /\ g \in [Hits(found, Violating) -> pairs]
          /\ \A p \in pairs : \E k \in Hits(found, Violating) : g[k] = p
      <4> HIDE DEF pairs
      <4> QED  BY <2>2
    <3> HIDE DEF g, pairs
    <3> QED  BY <3>1, <3>2 DEF Bijection, Injection, Surjection, IsInjective
  <2>4. IsFiniteSet(Hits(found, Violating))
    BY HitsAreFinite
  <2> HIDE DEF g, pairs
  <2> QED  BY <2>3, <2>4, SameSize
<1> QED  BY <1>4, <1>5, <1>6

\* For every payload of `opa eval`: one finding for every violation that a
\* result holds, each under a rule, and one that says nothing of itself blocks.
THEOREM OpaIsLossless == CallSpec => []OpaLosesNothing
<1>1. CallInv => OpaLosesNothing
  <2> SUFFICES ASSUME CallInv, Returned("opa")
               PROVE  /\ input.shape = "result" =>
                           ~Result.raises /\ Len(Result.findings) = Cardinality(PlacesIn(input))
                      /\ \A k \in DOMAIN Result.findings :
                           /\ Result.findings[k].rule \notin {Absent, NoRule}
                           /\ Result.findings[k].rule = Unresolved
                                /\ Result.findings[k].severity = "HIGH" =>
                                Blocks(Result.findings[k])
    BY DEF OpaLosesNothing
  <2>1. Result = ParseOpa(input)
    BY DEF CallInv, AnswersInput, Returned, Result
  <2>2. input \in OpaPayloads
    BY InputsAssumption DEF CallInv, Returned
  <2> DEFINE found == Violations(input)
             flat == FlattenSeq([k \in DOMAIN found |-> PolicyFinding(found[k])])
  <2>3. found \in Seq(Denials)
    <3>1. CASE input.shape = "result"
      <4>1. input.items \in Seq(ResultItems)
        BY <2>2, <3>1 DEF OpaPayloads
      <4>2. found = InResult(input.items)
        BY <3>1 DEF Violations
      <4> QED  BY <4>1, <4>2, ResultHits
    <3>2. CASE input.shape = "list"
      <4>1. input.items \in Seq(Denials)
        BY <2>2, <3>2 DEF OpaPayloads
      <4>2. found = input.items
        BY <3>2 DEF Violations
      <4> QED  BY <4>1, <4>2
    <3>3. CASE input.shape = "bare"
      <4>1. input.deny \in Seq(Denials) /\ input.violations \in Seq(Denials)
        BY <2>2, <3>3 DEF OpaPayloads
      <4>2. found = IF input.deny # << >> THEN input.deny ELSE input.violations
        BY <3>3 DEF Violations
      <4> QED  BY <4>1, <4>2
    <3>4. CASE input.shape \notin {"result", "list", "bare"}
      <4>1. found = << >>
        BY <3>4 DEF Violations
      <4> QED  BY <4>1, EmptySeq
    <3> QED  BY <3>1, <3>2, <3>3, <3>4
  <2>4. ASSUME input.shape = "result"
        PROVE  ~Result.raises /\ Len(Result.findings) = Cardinality(PlacesIn(input))
    <3>1. Result = Parsed(flat)
      BY <2>1, <2>4 DEF ParseOpa
    <3>2. input.items \in Seq(ResultItems) /\ found = InResult(input.items)
      BY <2>2, <2>4 DEF OpaPayloads, Violations
    <3> HIDE DEF found
    <3>3. Len(flat) = Cardinality(Hits(found, Violating))
      BY <2>3, FindingsCount
    <3>4. Cardinality(PlacesIn(input)) = Cardinality(Hits(found, Violating))
      BY <3>2, ResultHits
    <3> HIDE DEF flat
    <3> QED  BY <3>1, <3>3, <3>4 DEF Parsed
  <2>5. ASSUME NEW k \in DOMAIN Result.findings
        PROVE  /\ Result.findings[k].rule \notin {Absent, NoRule}
               /\ Result.findings[k].rule = Unresolved /\ Result.findings[k].severity = "HIGH" =>
                    Blocks(Result.findings[k])
    <3>1. Result.findings \in {<< >>, flat}
      BY <2>1 DEF ParseOpa, Unusable, Parsed
    <3> HIDE DEF found
    <3>2. flat \in Seq(PolicyFindings)
      BY <2>3, FindingsCount
    <3> HIDE DEF flat
    <3>3. Result.findings[k] \in PolicyFindings
      BY <2>5, <3>1, <3>2
    <3> DEFINE f == Result.findings[k]
    <3>4. f.rule \in Rules \cup {Unhashable, Unresolved}
      BY <3>3 DEF PolicyFindings
    <3> HIDE DEF f
    <3>5. f.rule \notin {Absent, NoRule}
      BY <3>4, AdaptersAssumption, WordsAssumption
    <3>6. f.rule = Unresolved /\ f.severity = "HIGH" => Blocks(f)
      BY AdaptersAssumption, BlocksBySeverity
    <3> QED  BY <3>5, <3>6 DEF f
  <2> QED  BY <2>4, <2>5
<1> QED  BY <1>1, CallInvariance, PTL

-----------------------------------------------------------------------------
(* Induction and recursion.  The prover unfolds a recursive function only   *)
(* where there is a function that solves its equation; that of validate,    *)
(* and the others that count down, do have one.                             *)

\* A set that holds 0 and, with every number, the next one holds them all.
LEMMA Induct ==
  ASSUME NEW S, 0 \in S, \A n \in Nat : n \in S => n + 1 \in S
  PROVE  Nat \subseteq S
<1> SUFFICES ASSUME NEW m \in Nat
             PROVE  m \in S
  OBVIOUS
<1> DEFINE T == {i \in 1..(m + 1) : i - 1 \in S}
<1>1. 1 \in T
  <2>1. 1 \in 1..(m + 1) /\ 1 - 1 = 0
    OBVIOUS
  <2> QED  BY <2>1
<1>2. ASSUME NEW i \in T, i < m + 1
      PROVE  i + 1 \in T
  <2>1. i \in 1..(m + 1) /\ i - 1 \in Nat /\ i - 1 \in S
    BY <1>2
  <2>2. (i - 1) + 1 \in S
    BY <2>1
  <2>3. (i - 1) + 1 = (i + 1) - 1 /\ i + 1 \in 1..(m + 1)
    BY <1>2, <2>1
  <2> QED  BY <2>2, <2>3
<1>3. m + 1 \in T
  <2>1. m + 1 \in Nat \ {0} /\ T \subseteq 1..(m + 1)
    OBVIOUS
  <2> HIDE DEF T
  <2> QED  BY <1>1, <1>2, <2>1, Climb
<1>4. (m + 1) - 1 = m
  OBVIOUS
<1> QED  BY <1>3, <1>4

\* Iterating a function.
Iterable(F, base, step) ==
  \E f \in [Nat -> F] : f[0] = base /\ \A n \in Nat : f[n + 1] = step[f[n]]

\* From any state there is a sequence of steps, of any length.
LEMMA IterationExists ==
  ASSUME NEW F, NEW base \in F, NEW step \in [F -> F]
  PROVE  Iterable(F, base, step)
<1> DEFINE Iterates(h, k) == /\ h \in [0..k -> F]
                             /\ h[0] = base
                             /\ \A i \in 0..k : i # k => h[i + 1] = step[h[i]]
           Known == {k \in Nat : \E h : Iterates(h, k)}
<1>1. 0 \in Known
  <2> DEFINE h == [i \in 0..0 |-> base]
  <2>1. Iterates(h, 0)
    OBVIOUS
  <2> QED  BY <2>1
<1>2. ASSUME NEW k \in Nat, k \in Known
      PROVE  k + 1 \in Known
  <2>1. PICK h : Iterates(h, k)
    BY <1>2
  <2> DEFINE g == [i \in 0..(k + 1) |-> IF i = k + 1 THEN step[h[k]] ELSE h[i]]
  <2>2. h[k] \in F
    BY <2>1
  <2>3. g \in [0..(k + 1) -> F]
    <3> SUFFICES ASSUME NEW i \in 0..(k + 1)
                 PROVE  (IF i = k + 1 THEN step[h[k]] ELSE h[i]) \in F
      OBVIOUS
    <3>1. i # k + 1 => i \in 0..k
      OBVIOUS
    <3> QED  BY <2>1, <2>2, <3>1
  <2>4. g[0] = base
    <3>1. 0 \in 0..(k + 1) /\ 0 # k + 1
      OBVIOUS
    <3> QED  BY <2>1, <3>1
  <2>5. ASSUME NEW i \in 0..(k + 1), i # k + 1
        PROVE  g[i + 1] = step[g[i]]
    <3>1. i \in 0..k /\ i + 1 \in 0..(k + 1) /\ (i + 1 = k + 1 <=> i = k)
      BY <2>5
    <3>2. g[i] = h[i]
      BY <2>5
    <3>3. CASE i = k
      BY <3>1, <3>2, <3>3
    <3>4. CASE i # k
      <4>1. g[i + 1] = h[i + 1]
        BY <3>1, <3>4
      <4> QED  BY <2>1, <3>1, <3>2, <3>4, <4>1
    <3> QED  BY <3>3, <3>4
  <2>6. Iterates(g, k + 1)
    <3> HIDE DEF g
    <3> QED  BY <2>3, <2>4, <2>5
  <2> QED  BY <2>6
<1>3. Nat \subseteq Known
  <2> HIDE DEF Known
  <2> QED  BY <1>1, <1>2, Induct
<1> DEFINE H(k) == CHOOSE h : Iterates(h, k)
           f == [n \in Nat |-> H(n)[n]]
<1>4. ASSUME NEW k \in Nat
      PROVE  Iterates(H(k), k)
  <2>1. \E h : Iterates(h, k)
    BY <1>3
  <2> HIDE DEF Iterates
  <2> QED  BY <2>1
<1>5. ASSUME NEW n \in Nat
      PROVE  H(n + 1)[n] = H(n)[n]
  <2> DEFINE a == H(n + 1)
             b == H(n)
             Same == {i \in Nat : i <= n => a[i] = b[i]}
  <2>1. Iterates(a, n + 1) /\ Iterates(b, n)
    <3>1. n + 1 \in Nat
      OBVIOUS
    <3> HIDE DEF Iterates, H
    <3> QED  BY <1>4, <3>1
  <2> HIDE DEF a, b, H
  <2>2. 0 \in Same
    BY <2>1
  <2>3. ASSUME NEW i \in Nat, i \in Same
        PROVE  i + 1 \in Same
    <3> SUFFICES ASSUME i + 1 <= n
                 PROVE  a[i + 1] = b[i + 1]
      OBVIOUS
    <3>1. i \in 0..n /\ i # n /\ i \in 0..(n + 1) /\ i # n + 1 /\ i <= n
      OBVIOUS
    <3>2. a[i] = b[i]
      BY <2>3, <3>1
    <3>3. a[i + 1] = step[a[i]] /\ b[i + 1] = step[b[i]]
      BY <2>1, <3>1
    <3> QED  BY <3>2, <3>3
  <2>4. Nat \subseteq Same
    <3> HIDE DEF Same
    <3> QED  BY <2>2, <2>3, Induct
  <2>5. n \in Same
    BY <2>4
  <2> QED  BY <2>5 DEF a, b
<1> HIDE DEF H
<1>6. f \in [Nat -> F]
  <2>1. \A n \in Nat : n \in 0..n /\ H(n)[n] \in F
    BY <1>4
  <2> QED  BY <2>1
<1>7. f[0] = base
  BY <1>4
<1>8. ASSUME NEW n \in Nat
      PROVE  f[n + 1] = step[f[n]]
  <2>1. n \in 0..(n + 1) /\ n # n + 1 /\ n + 1 \in Nat
    OBVIOUS
  <2>2. H(n + 1)[n + 1] = step[H(n + 1)[n]]
    BY <1>4, <2>1
  <2> QED  BY <1>5, <2>1, <2>2
<1> HIDE DEF f
<1> QED  BY <1>6, <1>7, <1>8 DEF Iterable

\* Recursion that counts down: where what holds of an element after n steps is
\* found from what holds of the elements that it leads to after one step less.
CountsDown(A, R, base, next, rule) ==
  \E f \in [Nat \X A -> R] : \A n \in Nat, a \in A :
    f[<<n, a>>] = IF n = 0 THEN base[a]
                  ELSE rule[<<a, [b \in next[a] |-> f[<<n - 1, b>>]]>>]

\* There is a function that counts down a number of calls: the base where none
\* is left, and the rule applied to what the calls below give elsewhere.
LEMMA RecursionExists ==
  ASSUME NEW A, NEW R, NEW base \in [A -> R],
         NEW next, \A a \in A : next[a] \subseteq A,
         NEW rule, \A a \in A : \A g \in [next[a] -> R] : rule[<<a, g>>] \in R
  PROVE  CountsDown(A, R, base, next, rule)
<1> DEFINE F == [A -> R]
           Under(g, a) == [b \in next[a] |-> g[b]]
           step == [g \in F |-> [a \in A |-> rule[<<a, Under(g, a)>>]]]
<1>1. step \in [F -> F]
  <2> SUFFICES ASSUME NEW g \in F, NEW a \in A
               PROVE  rule[<<a, Under(g, a)>>] \in R
    OBVIOUS
  <2>1. Under(g, a) \in [next[a] -> R]
    OBVIOUS
  <2> HIDE DEF Under
  <2> QED  BY <2>1
<1>2. PICK F2 \in [Nat -> F] : F2[0] = base /\ \A n \in Nat : F2[n + 1] = step[F2[n]]
  <2>1. base \in F
    OBVIOUS
  <2> HIDE DEF F, step
  <2>2. Iterable(F, base, step)
    BY <1>1, <2>1, IterationExists
  <2> QED  BY <2>2 DEF Iterable
<1> DEFINE f == [p \in Nat \X A |-> F2[p[1]][p[2]]]
<1>3. \A n \in Nat : F2[n] \in F
  BY <1>2
<1>4. f \in [Nat \X A -> R]
  <2> SUFFICES ASSUME NEW p \in Nat \X A
               PROVE  F2[p[1]][p[2]] \in R
    OBVIOUS
  <2>1. p[1] \in Nat /\ p[2] \in A
    OBVIOUS
  <2> QED  BY <1>3, <2>1
<1>5. \A n \in Nat, a \in A : f[<<n, a>>] = F2[n][a]
  OBVIOUS
<1>6. ASSUME NEW n \in Nat, NEW a \in A, n # 0
      PROVE  f[<<n, a>>] = rule[<<a, [b \in next[a] |-> f[<<n - 1, b>>]]>>]
  <2>1. n - 1 \in Nat /\ (n - 1) + 1 = n
    BY <1>6
  <2>2. F2[n] = step[F2[n - 1]]
    BY <1>2, <2>1
  <2>3. step[F2[n - 1]] = [c \in A |-> rule[<<c, Under(F2[n - 1], c)>>]]
    BY <1>3, <2>1
  <2>4. F2[n][a] = rule[<<a, Under(F2[n - 1], a)>>]
    <3> HIDE DEF Under, step
    <3> QED  BY <2>2, <2>3
  <2>5. Under(F2[n - 1], a) = [b \in next[a] |-> f[<<n - 1, b>>]]
    <3>1. \A b \in next[a] : f[<<n - 1, b>>] = F2[n - 1][b]
      BY <1>5, <2>1
    <3> HIDE DEF f
    <3> QED  BY <3>1
  <2> HIDE DEF f, Under
  <2> QED  BY <1>5, <2>4, <2>5
<1>7. \A a \in A : f[<<0, a>>] = base[a]
  BY <1>2, <1>5
<1> HIDE DEF f
<1> QED  BY <1>4, <1>6, <1>7 DEF CountsDown

\* A set of numbers that is not empty has a least one.
LEMMA LeastExists ==
  ASSUME NEW S, S \subseteq Nat, S # {}
  PROVE  \E m \in S : \A j \in S : m <= j
<1> DEFINE HasLeast == \E m \in S : \A j \in S : m <= j
           T == {n \in Nat : (\E e \in S : e <= n) => HasLeast}
<1>1. 0 \in T
  <2> SUFFICES ASSUME NEW e \in S, e <= 0
               PROVE  HasLeast
    OBVIOUS
  <2>1. \A j \in S : e <= j
    OBVIOUS
  <2> QED  BY <2>1
<1>2. ASSUME NEW n \in Nat, n \in T
      PROVE  n + 1 \in T
  <2> SUFFICES ASSUME NEW e \in S, e <= n + 1, \A j \in S : ~ (j <= n)
               PROVE  HasLeast
    BY <1>2
  <2>1. \A j \in S : e <= j
    OBVIOUS
  <2> QED  BY <2>1
<1>3. Nat \subseteq T
  <2> HIDE DEF T
  <2> QED  BY <1>1, <1>2, Induct
<1>4. PICK e \in S : TRUE
  OBVIOUS
<1>5. e \in Nat /\ e \in T /\ e <= e
  BY <1>3
<1> QED  BY <1>5

\* The least member is what Min chooses.
LEMMA MinIsMember ==
  ASSUME NEW S, S \subseteq Nat, S # {}
  PROVE  Min(S) \in S
BY LeastExists DEF Min

\* Schemas under the references.
AllSchemas(defs) == \A d \in DOMAIN defs : defs[d] \in JsonSchemas

\* The arguments of keywords are what the assumption on schemas says.
LEMMA Subschemas ==
  ASSUME NEW s \in JsonSchemas
  PROVE  /\ "oneOf" \in DOMAIN s => s.oneOf \in Seq(JsonSchemas) /\ s.oneOf # << >>
         /\ "allOf" \in DOMAIN s => s.allOf \in Seq(JsonSchemas)
         /\ "additionalProperties" \in DOMAIN s => s.additionalProperties \in Seq(JsonSchemas)
         /\ "items" \in DOMAIN s => s.items \in JsonSchemas
         /\ "if" \in DOMAIN s => s.if \in JsonSchemas
         /\ "then" \in DOMAIN s => s.then \in JsonSchemas
         /\ "else" \in DOMAIN s => s.else \in JsonSchemas
BY SchemasAssumption

\* Whatever a schema applies in place is a schema.
LEMMA InPlaceSchemas ==
  ASSUME NEW s \in JsonSchemas, NEW defs, AllSchemas(defs)
  PROVE  InPlace(s, defs) \subseteq JsonSchemas
<1>1. \A q \in Seq(JsonSchemas) : ToSet(q) \subseteq JsonSchemas
  BY DEF ToSet
<1>2. \A keyword \in DOMAIN s \cap {"if", "then", "else"} : s[keyword] \in JsonSchemas
  BY SchemasAssumption
<1>3. \A keyword \in DOMAIN s \cap {"oneOf", "allOf"} : ToSet(s[keyword]) \subseteq JsonSchemas
  BY SchemasAssumption, <1>1
<1> QED  BY <1>2, <1>3 DEF InPlace, AllSchemas

\* Whatever a check leads to inside its value is a check.
LEMMA BelowChecks ==
  ASSUME NEW x \in JsonValues, NEW s \in JsonSchemas
  PROVE  /\ Below(x, s) \subseteq Checks
         /\ \A c \in Below(x, s) : c[1] \in Inside(x)
<1>1. Inside(x) \subseteq JsonValues
  BY ValuesAssumption
<1>2. CASE x.kind = "object"
  <2>1. \A key \in DOMAIN x.members : x.members[key] \in Inside(x)
    BY <1>2 DEF Inside
  <2>2. \A key \in Described(x, s) : key \in DOMAIN x.members /\ s.properties[key] \in JsonSchemas
    BY SchemasAssumption DEF Described
  <2>3. \A key \in Additional(x, s) : key \in DOMAIN x.members
    BY DEF Additional
  <2>4. \A keyword \in DOMAIN s \cap {"additionalProperties"} : ToSet(s[keyword]) \subseteq JsonSchemas
    BY SchemasAssumption DEF ToSet
  <2>5. ASSUME NEW c \in Below(x, s)
        PROVE  c \in Inside(x) \X JsonSchemas
    BY <1>2, <2>1, <2>2, <2>3, <2>4 DEF Below
  <2> QED  BY <1>1, <2>5 DEF Checks
<1>3. CASE x.kind = "array"
  <2>1. ToSet(x.items) = Inside(x)
    BY <1>3 DEF Inside
  <2>2. \A keyword \in DOMAIN s \cap {"items"} : s[keyword] \in JsonSchemas
    BY SchemasAssumption
  <2>3. ASSUME NEW c \in Below(x, s)
        PROVE  c \in Inside(x) \X JsonSchemas
    BY <1>3, <2>1, <2>2 DEF Below
  <2> QED  BY <1>1, <2>3 DEF Checks
<1>4. CASE x.kind \notin {"object", "array"}
  BY <1>4 DEF Below
<1> QED  BY <1>2, <1>3, <1>4

\* Whatever a check leads to is a check.
LEMMA LeadsToChecks ==
  ASSUME NEW x \in JsonValues, NEW s \in JsonSchemas, NEW defs, AllSchemas(defs)
  PROVE  LeadsTo(x, s, defs) \subseteq Checks
<1>1. {x} \X InPlace(s, defs) \subseteq Checks
  BY InPlaceSchemas DEF Checks
<1> QED  BY <1>1, BelowChecks DEF LeadsTo

-----------------------------------------------------------------------------
(* Sequences of which every member is in a set. *)

AllIn(q, V) == \A i \in DOMAIN q : q[i] \in V

\* All of a concatenation is in a set if all of both parts is.
LEMMA ConcatAllIn ==
  ASSUME NEW T, NEW V, NEW a \in Seq(T), NEW b \in Seq(T)
  PROVE  /\ a \o b \in Seq(T)
         /\ AllIn(a \o b, V) <=> AllIn(a, V) /\ AllIn(b, V)
<1> DEFINE c == a \o b
<1>1. c \in Seq(T) /\ Len(c) = Len(a) + Len(b)
  BY ConcatProperties
<1>2. \A i \in 1..(Len(a) + Len(b)) : c[i] = IF i <= Len(a) THEN a[i] ELSE b[i - Len(a)]
  BY ConcatProperties
<1>3. Len(a) \in Nat /\ Len(b) \in Nat /\ DOMAIN a = 1..Len(a) /\ DOMAIN b = 1..Len(b)
  OBVIOUS
<1> HIDE DEF c
<1>4. DOMAIN c = 1..(Len(a) + Len(b))
  BY <1>1
<1>5. ASSUME AllIn(c, V)
      PROVE  AllIn(a, V) /\ AllIn(b, V)
  <2>1. ASSUME NEW i \in DOMAIN a
        PROVE  a[i] \in V
    <3>1. i \in DOMAIN c /\ i <= Len(a) /\ i \in 1..(Len(a) + Len(b))
      BY <1>3, <1>4, <2>1
    <3> QED  BY <1>2, <1>5, <3>1 DEF AllIn
  <2>2. ASSUME NEW i \in DOMAIN b
        PROVE  b[i] \in V
    <3> DEFINE j == Len(a) + i
    <3>1. j \in 1..(Len(a) + Len(b)) /\ ~ (j <= Len(a)) /\ j - Len(a) = i
      BY <1>3, <2>2
    <3> HIDE DEF j
    <3>2. c[j] = b[i] /\ j \in DOMAIN c
      BY <1>2, <1>4, <3>1
    <3> QED  BY <1>5, <3>2 DEF AllIn
  <2> QED  BY <2>1, <2>2 DEF AllIn
<1>6. ASSUME AllIn(a, V), AllIn(b, V), NEW i \in DOMAIN c
      PROVE  c[i] \in V
  <2>1. CASE i <= Len(a)
    <3>1. i \in DOMAIN a /\ c[i] = a[i]
      BY <1>2, <1>3, <1>4, <1>6, <2>1
    <3> QED  BY <1>6, <3>1 DEF AllIn
  <2>2. CASE ~ (i <= Len(a))
    <3>1. i \in 1..(Len(a) + Len(b)) /\ i - Len(a) \in DOMAIN b
      BY <1>3, <1>4, <1>6, <2>2
    <3>2. c[i] = b[i - Len(a)]
      BY <1>2, <2>2, <3>1
    <3> QED  BY <1>6, <3>1, <3>2 DEF AllIn
  <2> QED  BY <2>1, <2>2
<1> QED  BY <1>1, <1>5, <1>6 DEF AllIn, c

\* A concatenation is empty if both parts are.
LEMMA ConcatIsEmpty ==
  ASSUME NEW T, NEW a \in Seq(T), NEW b \in Seq(T)
  PROVE  /\ a \o b \in Seq(T)
         /\ a \o b = << >> <=> a = << >> /\ b = << >>
BY ConcatProperties, ConcatSimplifications, ConcatEmptySeq, EmptySeq

\* What is flattened is empty if all its parts are.
LEMMA FlattenIsEmpty ==
  ASSUME NEW T, NEW s \in Seq(Seq(T))
  PROVE  /\ FlattenSeq(s) \in Seq(T)
         /\ FlattenSeq(s) = << >> <=> AllIn(s, {<< >>})
<1> DEFINE n == Len(s)
<1>1. n \in Nat /\ DOMAIN s = 1..n
  OBVIOUS
<1>2. CASE n = 0
  <2>1. s = << >> /\ FlattenSeq(s) = << >>
    BY <1>2 DEF FlattenSeq
  <2>2. DOMAIN s = {}
    BY <1>1, <1>2
  <2>3. AllIn(s, {<< >>})
    BY <2>2 DEF AllIn
  <2>4. << >> \in Seq(T)
    BY EmptySeq
  <2> QED  BY <2>1, <2>3, <2>4
<1>3. CASE n # 0
  <2>1. PICK f : /\ f[1] = s[1]
                 /\ \A i \in 1..n : i # 1 => f[i] = f[i-1] \o s[i]
                 /\ FlattenSeq(s) = f[n]
    BY <1>3, FlattenSteps
  <2> DEFINE Good(k) == /\ f[k] \in Seq(T)
                        /\ f[k] = << >> <=> \A i \in 1..k : s[i] = << >>
             Solved == {k \in 1..n : Good(k)}
  <2>2. \A i \in 1..n : s[i] \in Seq(T)
    BY <1>1
  <2>3. 1 \in Solved
    <3>1. 1 \in 1..n
      BY <1>1, <1>3
    <3>2. \A i \in 1..1 : i = 1
      OBVIOUS
    <3>3. 1 \in 1..1
      OBVIOUS
    <3> QED  BY <2>1, <2>2, <3>1, <3>2, <3>3
  <2>4. ASSUME NEW k \in Solved, k < n
        PROVE  k + 1 \in Solved
    <3>1. k \in 1..n /\ k + 1 \in 1..n /\ k + 1 # 1 /\ (k + 1) - 1 = k
      BY <1>1, <2>4
    <3>2. f[k + 1] = f[k] \o s[k + 1]
      BY <2>1, <3>1
    <3>3. f[k] \in Seq(T) /\ s[k + 1] \in Seq(T)
      BY <2>2, <3>1
    <3>4. f[k + 1] \in Seq(T) /\ (f[k + 1] = << >> <=> f[k] = << >> /\ s[k + 1] = << >>)
      BY <3>2, <3>3, ConcatIsEmpty
    <3>5. 1..(k + 1) = (1..k) \cup {k + 1}
      BY <3>1
    <3>6. f[k + 1] = << >> <=> \A i \in 1..(k + 1) : s[i] = << >>
      BY <3>4, <3>5
    <3> QED  BY <3>1, <3>4, <3>6
  <2>5. n \in Solved
    <3>1. n \in Nat \ {0} /\ Solved \subseteq 1..n
      BY <1>1, <1>3
    <3> HIDE DEF Solved, n
    <3> QED  BY <2>3, <2>4, <3>1, Climb
  <2>6. Good(n)
    BY <2>5
  <2> QED  BY <1>1, <2>1, <2>6 DEF AllIn
<1> QED  BY <1>2, <1>3

\* SetToSeq lists all of a finite set.
LEMMA SetIsListed ==
  ASSUME NEW S, IsFiniteSet(S)
  PROVE  /\ SetToSeq(S) \in Seq(S)
         /\ \A e \in S : \E i \in DOMAIN SetToSeq(S) : SetToSeq(S)[i] = e
<1> DEFINE n == Cardinality(S)
           f == SetToSeq(S)
<1>1. n \in Nat /\ ExistsBijection(1..n, S)
  BY FS_CardinalityType
<1>2. PICK g \in [1..n -> S] : IsInjective(g)
  BY <1>1 DEF ExistsBijection, Bijection, Injection
<1>3. f \in [1..n -> S] /\ IsInjective(f)
  BY <1>2 DEF SetToSeq
<1> HIDE DEF f, n
<1>4. f \in Injection(1..n, S)
  BY <1>3 DEF Injection
<1>5. IsFiniteSet(1..n) /\ Cardinality(1..n) = n
  BY <1>1, FS_Interval
<1>6. f \in Surjection(1..n, S)
  BY <1>4, <1>5, FS_Injection DEF n
<1>7. f \in Seq(S)
  BY <1>1, <1>3
<1>8. \A e \in S : \E i \in 1..n : f[i] = e
  BY <1>6 DEF Surjection
<1> QED  BY <1>3, <1>7, <1>8 DEF f

-----------------------------------------------------------------------------
(* The errors of a value that need no subschema, and the assertions. *)

LEMMA OneMember ==
  ASSUME NEW T, NEW e \in T
  PROVE  <<e>> \in Seq(T) /\ <<e>> # << >>
<1>1. <<e>> \in Seq(T)
  OBVIOUS
<1>2. Len(<<e>>) = 1 /\ Len(<< >>) = 0
  OBVIOUS
<1> QED  BY <1>1, <1>2

\* The keywords that are reported are known ones.
LEMMA KeywordsReported ==
  {"const", "enum", "minLength", "pattern", "format", "minimum", "required",
   "additionalProperties", "minItems", "uniqueItems", "type", "oneOf"} \subseteq KnownKeywords
BY DEF KnownKeywords

\* A keyword is blamed only where something is wrong.
LEMMA BlameIsEmpty ==
  ASSUME NEW keyword \in KnownKeywords, NEW wrong \in BOOLEAN
  PROVE  /\ Blame(keyword, wrong) \in Seq(KnownKeywords)
         /\ Blame(keyword, wrong) = << >> <=> ~wrong
<1>1. <<keyword>> \in Seq(KnownKeywords) /\ <<keyword>> # << >>
  BY OneMember
<1>2. << >> \in Seq(KnownKeywords)
  BY EmptySeq
<1> QED  BY <1>1, <1>2 DEF Blame

\* No repetition, no error.
LEMMA RepeatedIsEmpty ==
  ASSUME NEW keyword \in KnownKeywords, NEW S, IsFiniteSet(S)
  PROVE  /\ Repeated(keyword, Cardinality(S)) \in Seq(KnownKeywords)
         /\ Repeated(keyword, Cardinality(S)) = << >> <=> S = {}
<1> DEFINE n == Cardinality(S)
           q == Repeated(keyword, n)
<1>1. n \in Nat /\ (n = 0 <=> S = {})
  BY FS_CardinalityType, FS_EmptySet
<1> HIDE DEF n
<1>2. q \in Seq(KnownKeywords) /\ Len(q) = n
  BY <1>1 DEF Repeated
<1> HIDE DEF q
<1>3. q = << >> <=> n = 0
  BY <1>2, EmptySeq
<1> QED  BY <1>1, <1>2, <1>3 DEF n, q

LEMMA SubsetIsFinite ==
  ASSUME NEW S, IsFiniteSet(S), NEW T, T \subseteq S
  PROVE  IsFiniteSet(T)
BY FS_Subset

\* const and enum report nothing exactly if they hold, where Python's == is that of JSON.
LEMMA ValueErrorsAreFailures ==
  ASSUME NEW x \in JsonValues, NEW s \in JsonSchemas
  PROVE  /\ ValueErrors(x, s) \in Seq(KnownKeywords)
         /\ ~Confuses(x, s) =>
              (ValueErrors(x, s) = << >>
                 <=> /\ "const" \in DOMAIN s => x = s.const
                     /\ "enum" \in DOMAIN s => x \in s.enum)
<1> DEFINE wrongConst == "const" \in DOMAIN s /\ ~PythonEqual(x, s.const)
           wrongEnum == "enum" \in DOMAIN s /\ \A v \in s.enum : ~PythonEqual(x, v)
<1>1. wrongConst \in BOOLEAN /\ wrongEnum \in BOOLEAN
  OBVIOUS
<1>2. ASSUME ~Confuses(x, s)
      PROVE  /\ wrongConst <=> "const" \in DOMAIN s /\ x # s.const
             /\ wrongEnum <=> "enum" \in DOMAIN s /\ x \notin s.enum
  BY <1>2 DEF Confuses, Confused
<1>3. ValueErrors(x, s) = Blame("const", wrongConst) \o Blame("enum", wrongEnum)
  BY DEF ValueErrors
<1> HIDE DEF wrongConst, wrongEnum
<1>4. /\ ValueErrors(x, s) \in Seq(KnownKeywords)
      /\ ValueErrors(x, s) = << >> <=> ~wrongConst /\ ~wrongEnum
  <2>1. /\ Blame("const", wrongConst) \in Seq(KnownKeywords)
        /\ Blame("const", wrongConst) = << >> <=> ~wrongConst
    BY <1>1, BlameIsEmpty, KeywordsReported
  <2>2. /\ Blame("enum", wrongEnum) \in Seq(KnownKeywords)
        /\ Blame("enum", wrongEnum) = << >> <=> ~wrongEnum
    BY <1>1, BlameIsEmpty, KeywordsReported
  <2> QED  BY <1>3, <2>1, <2>2, ConcatIsEmpty
<1> QED  BY <1>2, <1>4

\* So the keywords for texts,
LEMMA TextErrorsAreFailures ==
  ASSUME NEW x \in JsonValues, NEW s \in JsonSchemas
  PROVE  /\ TextErrors(x, s) \in Seq(KnownKeywords)
         /\ TextErrors(x, s) = << >>
              <=> (x.kind = "string" =>
                     /\ "minLength" \in DOMAIN s => Length(x.text) >= s.minLength
                     /\ "pattern" \in DOMAIN s => Matches(s.pattern, x.text)
                     /\ "format" \in DOMAIN s /\ s.format = "date-time" => IsDateTime(x.text))
<1>1. CASE x.kind # "string"
  BY <1>1, EmptySeq DEF TextErrors
<1>2. CASE x.kind = "string"
  <2> DEFINE short == "minLength" \in DOMAIN s /\ Length(x.text) < s.minLength
             other == "pattern" \in DOMAIN s /\ ~Matches(s.pattern, x.text)
             timeless == "format" \in DOMAIN s /\ s.format = "date-time" /\ ~IsDateTime(x.text)
  <2>1. short \in BOOLEAN /\ other \in BOOLEAN /\ timeless \in BOOLEAN
    OBVIOUS
  <2>2. short <=> "minLength" \in DOMAIN s /\ ~ (Length(x.text) >= s.minLength)
    <3>1. Length(x.text) \in Int /\ ("minLength" \in DOMAIN s => s.minLength \in Int)
      BY <1>2, ValuesAssumption, SchemasAssumption
    <3> QED  BY <3>1
  <2>3. TextErrors(x, s) =
          (Blame("minLength", short) \o Blame("pattern", other)) \o Blame("format", timeless)
    BY <1>2 DEF TextErrors
  <2>4. (x.kind = "string" =>
           /\ "minLength" \in DOMAIN s => Length(x.text) >= s.minLength
           /\ "pattern" \in DOMAIN s => Matches(s.pattern, x.text)
           /\ "format" \in DOMAIN s /\ s.format = "date-time" => IsDateTime(x.text))
          <=> ~short /\ ~other /\ ~timeless
    BY <1>2, <2>2
  <2> HIDE DEF short, other, timeless
  <2>5. /\ TextErrors(x, s) \in Seq(KnownKeywords)
        /\ TextErrors(x, s) = << >> <=> ~short /\ ~other /\ ~timeless
    <3>1. /\ Blame("minLength", short) \in Seq(KnownKeywords)
          /\ Blame("minLength", short) = << >> <=> ~short
      BY <2>1, BlameIsEmpty, KeywordsReported
    <3>2. /\ Blame("pattern", other) \in Seq(KnownKeywords)
          /\ Blame("pattern", other) = << >> <=> ~other
      BY <2>1, BlameIsEmpty, KeywordsReported
    <3>3. /\ Blame("format", timeless) \in Seq(KnownKeywords)
          /\ Blame("format", timeless) = << >> <=> ~timeless
      BY <2>1, BlameIsEmpty, KeywordsReported
    <3>4. /\ Blame("minLength", short) \o Blame("pattern", other) \in Seq(KnownKeywords)
          /\ Blame("minLength", short) \o Blame("pattern", other) = << >> <=> ~short /\ ~other
      BY <3>1, <3>2, ConcatIsEmpty
    <3> QED  BY <2>3, <3>3, <3>4, ConcatIsEmpty
  <2> QED  BY <2>4, <2>5
<1> QED  BY <1>1, <1>2

\* for numbers,
LEMMA NumberErrorsAreFailures ==
  ASSUME NEW x \in JsonValues, NEW s \in JsonSchemas
  PROVE  /\ NumberErrors(x, s) \in Seq(KnownKeywords)
         /\ NumberErrors(x, s) = << >>
              <=> (IsNumber(x) /\ "minimum" \in DOMAIN s => x.num >= s.minimum)
<1> DEFINE low == IsNumber(x) /\ "minimum" \in DOMAIN s /\ x.num < s.minimum
<1>1. low \in BOOLEAN
  OBVIOUS
<1>2. low <=> ~(IsNumber(x) /\ "minimum" \in DOMAIN s => x.num >= s.minimum)
  <2>1. (IsNumber(x) => x.num \in Int) /\ ("minimum" \in DOMAIN s => s.minimum \in Int)
    BY ValuesAssumption, SchemasAssumption
  <2> QED  BY <2>1
<1>3. NumberErrors(x, s) = Blame("minimum", low)
  BY DEF NumberErrors
<1> HIDE DEF low
<1>4. Blame("minimum", low) \in Seq(KnownKeywords) /\ (Blame("minimum", low) = << >> <=> ~low)
  BY <1>1, BlameIsEmpty, KeywordsReported
<1> QED  BY <1>2, <1>3, <1>4

\* for objects,
LEMMA ObjectErrorsAreFailures ==
  ASSUME NEW x \in JsonValues, NEW s \in JsonSchemas
  PROVE  /\ ObjectErrors(x, s) \in Seq(KnownKeywords)
         /\ ObjectErrors(x, s) = << >>
              <=> (x.kind = "object" =>
                     /\ "required" \in DOMAIN s => s.required \subseteq DOMAIN x.members
                     /\ "additionalProperties" \in DOMAIN s /\ s.additionalProperties = << >> =>
                          Additional(x, s) = {})
<1>1. CASE x.kind # "object"
  BY <1>1, EmptySeq DEF ObjectErrors
<1>2. CASE x.kind = "object"
  <2> DEFINE missing == s.required \ DOMAIN x.members
             more == Additional(x, s)
             a == IF "required" \in DOMAIN s THEN Repeated("required", Cardinality(missing)) ELSE << >>
             b == IF "additionalProperties" \in DOMAIN s /\ s.additionalProperties = << >>
                  THEN Repeated("additionalProperties", Cardinality(more)) ELSE << >>
  <2>1. IsFiniteSet(more)
    <3>1. IsFiniteSet(DOMAIN x.members)
      BY <1>2, ValuesAssumption
    <3>2. more \subseteq DOMAIN x.members
      BY DEF Additional
    <3> QED  BY <3>1, <3>2, SubsetIsFinite
  <2>2. "required" \in DOMAIN s => IsFiniteSet(missing)
    <3>1. "required" \in DOMAIN s => IsFiniteSet(s.required)
      BY SchemasAssumption
    <3>2. missing \subseteq s.required
      OBVIOUS
    <3> HIDE DEF missing
    <3> QED  BY <3>1, <3>2, SubsetIsFinite
  <2>3. missing = {} <=> s.required \subseteq DOMAIN x.members
    OBVIOUS
  <2> HIDE DEF missing, more
  <2>4. a \in Seq(KnownKeywords) /\ (a = << >> <=> ("required" \in DOMAIN s => missing = {}))
    BY <2>2, RepeatedIsEmpty, KeywordsReported, EmptySeq
  <2>5. /\ b \in Seq(KnownKeywords)
        /\ b = << >> <=> ("additionalProperties" \in DOMAIN s /\ s.additionalProperties = << >> =>
                            more = {})
    BY <2>1, RepeatedIsEmpty, KeywordsReported, EmptySeq
  <2>6. ObjectErrors(x, s) = a \o b
    BY <1>2 DEF ObjectErrors, missing, more
  <2> HIDE DEF a, b
  <2>7. /\ ObjectErrors(x, s) \in Seq(KnownKeywords)
        /\ ObjectErrors(x, s) = << >> <=> a = << >> /\ b = << >>
    BY <2>4, <2>5, <2>6, ConcatIsEmpty
  <2> QED  BY <1>2, <2>3, <2>4, <2>5, <2>7 DEF more
<1> QED  BY <1>1, <1>2

\* and for arrays.
LEMMA ArrayErrorsAreFailures ==
  ASSUME NEW x \in JsonValues, NEW s \in JsonSchemas
  PROVE  /\ ArrayErrors(x, s) \in Seq(KnownKeywords)
         /\ ~Confuses(x, s) =>
              (ArrayErrors(x, s) = << >>
                 <=> (x.kind = "array" =>
                        /\ "minItems" \in DOMAIN s => Len(x.items) >= s.minItems
                        /\ "uniqueItems" \in DOMAIN s /\ s.uniqueItems =>
                             \A i, j \in DOMAIN x.items : x.items[i] = x.items[j] => i = j))
<1>1. CASE x.kind # "array"
  BY <1>1, EmptySeq DEF ArrayErrors
<1>2. CASE x.kind = "array"
  <2> DEFINE few == "minItems" \in DOMAIN s /\ Len(x.items) < s.minItems
             a == Blame("minItems", few)
             unique == "uniqueItems" \in DOMAIN s /\ s.uniqueItems
             b == IF "uniqueItems" \in DOMAIN s /\ s.uniqueItems
                  THEN Repeated("uniqueItems", Cardinality(Duplicates(x.items))) ELSE << >>
  <2>1. x.items \in Seq(JsonValues) /\ Len(x.items) \in Nat /\ DOMAIN x.items = 1..Len(x.items)
    <3>1. x.items \in Seq(JsonValues)
      BY <1>2, ValuesAssumption
    <3> QED  BY <3>1
  <2>2. few <=> "minItems" \in DOMAIN s /\ ~ (Len(x.items) >= s.minItems)
    <3>1. "minItems" \in DOMAIN s => s.minItems \in Int
      BY SchemasAssumption
    <3> QED  BY <2>1, <3>1
  <2>3. few \in BOOLEAN
    OBVIOUS
  <2>4. IsFiniteSet(Duplicates(x.items))
    <3>1. IsFiniteSet(1..Len(x.items))
      BY <2>1, FS_Interval
    <3>2. Duplicates(x.items) \subseteq 1..Len(x.items)
      BY <2>1 DEF Duplicates
    <3> QED  BY <3>1, <3>2, SubsetIsFinite
  <2>5. ASSUME ~Confuses(x, s), unique
        PROVE  Duplicates(x.items) = {}
                 <=> \A i, j \in DOMAIN x.items : x.items[i] = x.items[j] => i = j
    <3>1. \A i, j \in DOMAIN x.items : PythonEqual(x.items[i], x.items[j]) <=> x.items[i] = x.items[j]
      BY <1>2, <2>5 DEF Confuses, Confused
    <3>2. \A i \in DOMAIN x.items : \A j \in 1..(i - 1) : j \in DOMAIN x.items /\ j # i
      BY <2>1
    <3>3. Duplicates(x.items) =
            {i \in DOMAIN x.items : \E j \in 1..(i - 1) : x.items[i] = x.items[j]}
      BY <3>1, <3>2 DEF Duplicates
    <3>4. ASSUME NEW i \in DOMAIN x.items, NEW j \in DOMAIN x.items, x.items[i] = x.items[j], i # j
          PROVE  Duplicates(x.items) # {}
      <4>1. CASE j < i
        <5>1. j \in 1..(i - 1)
          BY <2>1, <3>4, <4>1
        <5> QED  BY <3>3, <3>4, <5>1
      <4>2. CASE i < j
        <5>1. i \in 1..(j - 1)
          BY <2>1, <3>4, <4>2
        <5> QED  BY <3>3, <3>4, <5>1
      <4>3. i \in Int /\ j \in Int
        BY <2>1, <3>4
      <4> QED  BY <3>4, <4>1, <4>2, <4>3
    <3>5. ASSUME NEW i \in Duplicates(x.items)
          PROVE  \E k, j \in DOMAIN x.items : x.items[k] = x.items[j] /\ k # j
      BY <3>2, <3>3, <3>5
    <3> QED  BY <3>4, <3>5
  <2>6. ArrayErrors(x, s) = a \o b
    BY <1>2 DEF ArrayErrors
  <2>7. b \in Seq(KnownKeywords) /\ (b = << >> <=> (unique => Duplicates(x.items) = {}))
    BY <2>4, RepeatedIsEmpty, KeywordsReported, EmptySeq
  <2> HIDE DEF few
  <2>8. a \in Seq(KnownKeywords) /\ (a = << >> <=> ~few)
    BY <2>3, BlameIsEmpty, KeywordsReported
  <2> HIDE DEF a, b, unique
  <2>9. /\ ArrayErrors(x, s) \in Seq(KnownKeywords)
        /\ ArrayErrors(x, s) = << >> <=> a = << >> /\ b = << >>
    BY <2>6, <2>7, <2>8, ConcatIsEmpty
  <2>10. unique <=> "uniqueItems" \in DOMAIN s /\ s.uniqueItems
    BY DEF unique
  <2> QED  BY <1>2, <2>2, <2>5, <2>7, <2>8, <2>9, <2>10
<1> QED  BY <1>1, <1>2

\* The engine reports nothing of a value itself exactly if it meets the
\* assertions that need no subschema: but for the type, which is looked at
\* first, and for members that are not allowed.
LEMMA OwnErrorsAreFailures ==
  ASSUME NEW x \in JsonValues, NEW s \in JsonSchemas
  PROVE  /\ OwnErrors(x, s) \in Seq(KnownKeywords)
         /\ ~Confuses(x, s) /\ ("type" \in DOMAIN s => HasType(x, s.type)) =>
              (OwnErrors(x, s) = << >>
                 <=> /\ OwnAssertions(x, s)
                     /\ x.kind = "object" /\ "additionalProperties" \in DOMAIN s
                          /\ s.additionalProperties = << >> => Additional(x, s) = {})
<1> DEFINE v == ValueErrors(x, s)
           t == TextErrors(x, s)
           m == NumberErrors(x, s)
           o == ObjectErrors(x, s)
           a == ArrayErrors(x, s)
           parts == <<v, t, m, o, a>>
<1>1. /\ v \in Seq(KnownKeywords) /\ t \in Seq(KnownKeywords) /\ m \in Seq(KnownKeywords)
      /\ o \in Seq(KnownKeywords) /\ a \in Seq(KnownKeywords)
  BY ValueErrorsAreFailures, TextErrorsAreFailures, NumberErrorsAreFailures,
     ObjectErrorsAreFailures, ArrayErrorsAreFailures
<1>2. /\ OwnErrors(x, s) \in Seq(KnownKeywords)
      /\ OwnErrors(x, s) = << >> <=> v = << >> /\ t = << >> /\ m = << >> /\ o = << >> /\ a = << >>
  <2>1. OwnErrors(x, s) = FlattenSeq(parts)
    BY DEF OwnErrors
  <2> HIDE DEF v, t, m, o, a
  <2>2. parts \in Seq(Seq(KnownKeywords))
    BY <1>1
  <2>3. AllIn(parts, {<< >>}) <=> v = << >> /\ t = << >> /\ m = << >> /\ o = << >> /\ a = << >>
    <3>1. DOMAIN parts = 1..5
      OBVIOUS
    <3>2. parts[1] = v /\ parts[2] = t /\ parts[3] = m /\ parts[4] = o /\ parts[5] = a
      OBVIOUS
    <3>3. \A i \in 1..5 : i \in {1, 2, 3, 4, 5}
      OBVIOUS
    <3>4. {1, 2, 3, 4, 5} \subseteq 1..5
      OBVIOUS
    <3> HIDE DEF parts
    <3> QED  BY <3>1, <3>2, <3>3, <3>4 DEF AllIn
  <2> HIDE DEF parts
  <2> QED  BY <2>1, <2>2, <2>3, FlattenIsEmpty
<1> HIDE DEF v, t, m, o, a
<1>3. ASSUME ~Confuses(x, s), "type" \in DOMAIN s => HasType(x, s.type)
      PROVE  v = << >> /\ t = << >> /\ m = << >> /\ o = << >> /\ a = << >>
               <=> /\ OwnAssertions(x, s)
                   /\ x.kind = "object" /\ "additionalProperties" \in DOMAIN s
                        /\ s.additionalProperties = << >> => Additional(x, s) = {}
  <2>1. v = << >> <=> /\ "const" \in DOMAIN s => x = s.const
                      /\ "enum" \in DOMAIN s => x \in s.enum
    BY <1>3, ValueErrorsAreFailures DEF v
  <2>2. t = << >> <=> (x.kind = "string" =>
                         /\ "minLength" \in DOMAIN s => Length(x.text) >= s.minLength
                         /\ "pattern" \in DOMAIN s => Matches(s.pattern, x.text)
                         /\ "format" \in DOMAIN s /\ s.format = "date-time" => IsDateTime(x.text))
    BY TextErrorsAreFailures DEF t
  <2>3. m = << >> <=> (IsNumber(x) /\ "minimum" \in DOMAIN s => x.num >= s.minimum)
    BY NumberErrorsAreFailures DEF m
  <2>4. o = << >> <=> (x.kind = "object" =>
                         /\ "required" \in DOMAIN s => s.required \subseteq DOMAIN x.members
                         /\ "additionalProperties" \in DOMAIN s /\ s.additionalProperties = << >> =>
                              Additional(x, s) = {})
    BY ObjectErrorsAreFailures DEF o
  <2>5. a = << >> <=> (x.kind = "array" =>
                         /\ "minItems" \in DOMAIN s => Len(x.items) >= s.minItems
                         /\ "uniqueItems" \in DOMAIN s /\ s.uniqueItems =>
                              \A i, j \in DOMAIN x.items : x.items[i] = x.items[j] => i = j)
    BY <1>3, ArrayErrorsAreFailures DEF a
  <2> QED  BY <1>3, <2>1, <2>2, <2>3, <2>4, <2>5, Zenon DEF OwnAssertions
<1> QED  BY <1>2, <1>3

-----------------------------------------------------------------------------
(* What evaluations add up to. *)

Quiet == {e \in Evaluations : e.raises = "nothing"}
Passing == {e \in Evaluations : e.errors = << >>}

\* An exception and a list of errors are evaluations; the empty list is passing.
LEMMA RaisedAndErrors ==
  /\ \A why \in {"gap", "recursion"} : Raised(why) \in Evaluations /\ Raised(why) \notin Quiet
  /\ \A q \in Seq(KnownKeywords) :
       /\ Errors(q) \in Evaluations /\ Errors(q) \in Quiet
       /\ Errors(q) \in Passing <=> q = << >>
<1>1. << >> \in Seq(KnownKeywords)
  BY EmptySeq
<1> QED  BY <1>1 DEF Raised, Errors, Evaluations, Quiet, Passing

\* The first exception among evaluations is an evaluation that raises.
LEMMA NoneRaises ==
  ASSUME NEW outs \in Seq(Evaluations)
  PROVE  /\ Raises(outs) = {} <=> AllIn(outs, Quiet)
         /\ Raises(outs) # {} => outs[Min(Raises(outs))] \in Evaluations \ Quiet
<1>1. \A k \in DOMAIN outs : outs[k] \in Evaluations
  OBVIOUS
<1>2. Raises(outs) = {} <=> AllIn(outs, Quiet)
  BY <1>1 DEF Raises, AllIn, Quiet
<1>3. ASSUME Raises(outs) # {}
      PROVE  outs[Min(Raises(outs))] \in Evaluations \ Quiet
  <2>1. Raises(outs) \subseteq Nat
    BY DEF Raises
  <2>2. Min(Raises(outs)) \in Raises(outs)
    BY <1>3, <2>1, MinIsMember
  <2> DEFINE k == Min(Raises(outs))
  <2>3. k \in Raises(outs)
    BY <2>2
  <2> HIDE DEF k
  <2>4. outs[k] \in Evaluations \ Quiet
    BY <1>1, <2>3 DEF Raises, Quiet
  <2> QED  BY <2>4 DEF k
<1> QED  BY <1>2, <1>3

\* Evaluations add up quietly if each is quiet, and pass if each passes.
LEMMA CollectAddsUp ==
  ASSUME NEW outs \in Seq(Evaluations)
  PROVE  /\ Collect(outs) \in Evaluations
         /\ Collect(outs) \in Quiet <=> AllIn(outs, Quiet)
         /\ Collect(outs) \in Quiet => (Collect(outs) \in Passing <=> AllIn(outs, Passing))
<1> DEFINE parts == [k \in DOMAIN outs |-> outs[k].errors]
<1>1. CASE Raises(outs) # {}
  BY <1>1, NoneRaises DEF Collect
<1>2. CASE Raises(outs) = {}
  <2>1. \A k \in DOMAIN outs : outs[k] \in Evaluations
    OBVIOUS
  <2>2. \A k \in DOMAIN outs : outs[k].errors \in Seq(KnownKeywords)
    BY <2>1 DEF Evaluations
  <2>3. DOMAIN outs = 1..Len(outs) /\ Len(outs) \in Nat
    OBVIOUS
  <2>4. parts \in Seq(Seq(KnownKeywords))
    BY <2>2, <2>3
  <2>5. AllIn(parts, {<< >>}) <=> AllIn(outs, Passing)
    BY <2>1 DEF AllIn, Passing
  <2>6. Collect(outs) = Errors(FlattenSeq(parts))
    BY <1>2 DEF Collect
  <2> HIDE DEF parts
  <2>7. /\ FlattenSeq(parts) \in Seq(KnownKeywords)
        /\ FlattenSeq(parts) = << >> <=> AllIn(parts, {<< >>})
    BY <2>4, FlattenIsEmpty
  <2> QED  BY <1>2, <2>5, <2>6, <2>7, RaisedAndErrors, NoneRaises
<1> QED  BY <1>1, <1>2

\* The alternatives of a oneOf: the closest exists, whatever they report.
LEMMA ClosestExists ==
  ASSUME NEW outs \in Seq(Evaluations), outs # << >>
  PROVE  \E k \in DOMAIN outs :
           \A j \in DOMAIN outs :
             \/ Len(outs[k].errors) < Len(outs[j].errors)
             \/ Len(outs[k].errors) = Len(outs[j].errors) /\ k <= j
<1> DEFINE size == [k \in DOMAIN outs |-> Len(outs[k].errors)]
           Sizes == {size[k] : k \in DOMAIN outs}
<1>1. DOMAIN outs = 1..Len(outs) /\ Len(outs) \in Nat /\ Len(outs) # 0
  BY EmptySeq
<1>2. \A k \in DOMAIN outs : size[k] \in Nat
  <2>1. \A k \in DOMAIN outs : outs[k].errors \in Seq(KnownKeywords)
    <3>1. \A k \in DOMAIN outs : outs[k] \in Evaluations
      OBVIOUS
    <3> QED  BY <3>1 DEF Evaluations
  <2>2. \A q \in Seq(KnownKeywords) : Len(q) \in Nat
    OBVIOUS
  <2> QED  BY <2>1, <2>2
<1>3. \A k \in DOMAIN outs : Len(outs[k].errors) = size[k]
  OBVIOUS
<1> HIDE DEF size
<1>4. Sizes \subseteq Nat /\ Sizes # {}
  <2>1. 1 \in DOMAIN outs
    BY <1>1
  <2> QED  BY <1>2, <2>1
<1>5. PICK least \in Sizes : \A n \in Sizes : least <= n
  <2> HIDE DEF Sizes
  <2> QED  BY <1>4, LeastExists
<1> DEFINE Shortest == {k \in DOMAIN outs : size[k] = least}
<1>6. Shortest \subseteq Nat /\ Shortest # {}
  BY <1>1, <1>5
<1>7. PICK k \in Shortest : \A j \in Shortest : k <= j
  <2> HIDE DEF Shortest
  <2> QED  BY <1>6, LeastExists
<1>8. ASSUME NEW j \in DOMAIN outs
      PROVE  \/ size[k] < size[j]
             \/ size[k] = size[j] /\ k <= j
  <2>1. size[j] \in Nat /\ size[k] = least /\ least \in Nat /\ least <= size[j]
    BY <1>2, <1>5, <1>7, <1>8
  <2>2. CASE size[j] = least
    BY <1>7, <2>1, <2>2
  <2>3. CASE size[j] # least
    BY <2>1, <2>3
  <2> QED  BY <2>2, <2>3
<1> QED  BY <1>3, <1>7, <1>8

\* oneOf passes exactly if one of its alternatives does, and it raises if any does.
LEMMA OneOfCounts ==
  ASSUME NEW outs \in Seq(Evaluations), outs # << >>
  PROVE  /\ OneOf(outs) \in Evaluations
         /\ OneOf(outs) \in Quiet <=> AllIn(outs, Quiet)
         /\ OneOf(outs) \in Quiet =>
              (OneOf(outs) \in Passing
                 <=> Cardinality({k \in DOMAIN outs : outs[k].errors = << >>}) = 1)
<1> DEFINE Matching == {k \in DOMAIN outs : outs[k].errors = << >>}
           closest == CHOOSE k \in DOMAIN outs :
                        \A j \in DOMAIN outs :
                          \/ Len(outs[k].errors) < Len(outs[j].errors)
                          \/ Len(outs[k].errors) = Len(outs[j].errors) /\ k <= j
           all == <<"oneOf">> \o outs[closest].errors
<1>1. closest \in DOMAIN outs
  BY ClosestExists
<1>2. OneOf(outs) = IF Raises(outs) # {} THEN outs[Min(Raises(outs))]
                    ELSE IF Cardinality(Matching) = 1 THEN Errors(<< >>)
                    ELSE IF Matching # {} THEN Errors(<<"oneOf">>)
                    ELSE Errors(all)
  BY DEF OneOf
<1> HIDE DEF closest
<1>3. <<"oneOf">> \in Seq(KnownKeywords) /\ <<"oneOf">> # << >>
  BY OneMember, KeywordsReported
<1>4. all \in Seq(KnownKeywords) /\ all # << >>
  <2>1. outs[closest].errors \in Seq(KnownKeywords)
    <3>1. outs[closest] \in Evaluations
      BY <1>1
    <3> QED  BY <3>1 DEF Evaluations
  <2> QED  BY <1>3, <2>1, ConcatIsEmpty
<1>5. << >> \in Seq(KnownKeywords)
  BY EmptySeq
<1> HIDE DEF all, Matching
<1>6. CASE Raises(outs) # {}
  BY <1>2, <1>6, NoneRaises
<1>7. CASE Raises(outs) = {}
  <2>1. OneOf(outs) \in {Errors(<< >>), Errors(<<"oneOf">>), Errors(all)}
    BY <1>2, <1>7
  <2>2. OneOf(outs) \in Evaluations /\ OneOf(outs) \in Quiet
    BY <1>3, <1>4, <1>5, <2>1, RaisedAndErrors
  <2>3. OneOf(outs) \in Passing <=> Cardinality(Matching) = 1
    <3>1. CASE Cardinality(Matching) = 1
      BY <1>2, <1>5, <1>7, <3>1, RaisedAndErrors
    <3>2. CASE Cardinality(Matching) # 1
      <4>1. OneOf(outs) \in {Errors(<<"oneOf">>), Errors(all)}
        BY <1>2, <1>7, <3>2
      <4> QED  BY <1>3, <1>4, <3>2, <4>1, RaisedAndErrors
    <3> QED  BY <3>1, <3>2
  <2> QED  BY <1>7, <2>2, <2>3, NoneRaises DEF Matching
<1> QED  BY <1>6, <1>7

-----------------------------------------------------------------------------
(* The parts of an evaluation, given the evaluations that it calls for. *)

LEMMA EvaluatedParts ==
  ASSUME NEW x \in JsonValues, NEW s \in JsonSchemas, NEW defs, AllSchemas(defs),
         NEW o \in [LeadsTo(x, s, defs) -> Evaluations], NEW V
  PROVE  /\ Evaluated(x, s, o) \in Seq(Evaluations)
         /\ AllIn(Evaluated(x, s, o), V)
              <=> /\ x.kind = "object" =>
                       \A key \in Described(x, s) : o[<<x.members[key], s.properties[key]>>] \in V
                  /\ x.kind = "array" /\ "items" \in DOMAIN s =>
                       \A i \in DOMAIN x.items : o[<<x.items[i], s.items>>] \in V
<1>1. CASE x.kind = "object"
  <2> DEFINE keys == SetToSeq(Described(x, s))
             answer == [key \in Described(x, s) |-> o[<<x.members[key], s.properties[key]>>]]
  <2>1. IsFiniteSet(Described(x, s))
    <3>1. IsFiniteSet(DOMAIN x.members)
      BY <1>1, ValuesAssumption
    <3>2. Described(x, s) \subseteq DOMAIN x.members
      BY DEF Described
    <3> QED  BY <3>1, <3>2, SubsetIsFinite
  <2>2. /\ keys \in Seq(Described(x, s))
        /\ \A key \in Described(x, s) : \E i \in DOMAIN keys : keys[i] = key
    BY <2>1, SetIsListed
  <2>3. ASSUME NEW key \in Described(x, s)
        PROVE  answer[key] \in Evaluations
    <3>1. <<x.members[key], s.properties[key]>> \in LeadsTo(x, s, defs)
      BY <1>1 DEF LeadsTo, Below
    <3> QED  BY <3>1
  <2>4. Evaluated(x, s, o) =
          [i \in DOMAIN keys |-> o[<<x.members[keys[i]], s.properties[keys[i]]>>]]
    BY <1>1 DEF Evaluated
  <2> HIDE DEF keys
  <2>5. DOMAIN keys = 1..Len(keys) /\ Len(keys) \in Nat
        /\ \A i \in DOMAIN keys : keys[i] \in Described(x, s)
    BY <2>2
  <2>6. \A i \in DOMAIN keys : answer[keys[i]] = o[<<x.members[keys[i]], s.properties[keys[i]]>>]
    BY <2>5
  <2>7. Evaluated(x, s, o) = [i \in DOMAIN keys |-> answer[keys[i]]]
    BY <2>4, <2>6
  <2>8. (\A key \in Described(x, s) : o[<<x.members[key], s.properties[key]>>] \in V)
          <=> \A key \in Described(x, s) : answer[key] \in V
    OBVIOUS
  <2> HIDE DEF answer
  <2>9. Evaluated(x, s, o) \in Seq(Evaluations)
    BY <2>3, <2>5, <2>7
  <2>10. AllIn(Evaluated(x, s, o), V) <=> \A key \in Described(x, s) : answer[key] \in V
    BY <2>2, <2>5, <2>7 DEF AllIn
  <2> QED  BY <1>1, <2>8, <2>9, <2>10
<1>2. CASE x.kind = "array" /\ "items" \in DOMAIN s
  <2>1. x.items \in Seq(JsonValues)
    BY <1>2, ValuesAssumption
  <2>2. Evaluated(x, s, o) = [i \in DOMAIN x.items |-> o[<<x.items[i], s.items>>]]
    BY <1>2 DEF Evaluated
  <2>3. ASSUME NEW i \in DOMAIN x.items
        PROVE  o[<<x.items[i], s.items>>] \in Evaluations
    <3>1. s["items"] = s.items
      OBVIOUS
    <3>2. <<x.items[i], s.items>> \in ToSet(x.items) \X {s["items"]}
      BY <3>1 DEF ToSet
    <3>3. <<x.items[i], s.items>> \in LeadsTo(x, s, defs)
      BY <1>2, <3>2 DEF LeadsTo, Below
    <3> QED  BY <3>3
  <2>4. Evaluated(x, s, o) \in Seq(Evaluations)
    <3>1. DOMAIN x.items = 1..Len(x.items) /\ Len(x.items) \in Nat
      BY <2>1
    <3> QED  BY <2>2, <2>3, <3>1
  <2>5. AllIn(Evaluated(x, s, o), V) <=> \A i \in DOMAIN x.items : o[<<x.items[i], s.items>>] \in V
    BY <2>2 DEF AllIn
  <2> QED  BY <1>2, <2>4, <2>5
<1>3. CASE x.kind # "object" /\ ~(x.kind = "array" /\ "items" \in DOMAIN s)
  <2>1. Evaluated(x, s, o) = << >>
    BY <1>3 DEF Evaluated
  <2>2. << >> \in Seq(Evaluations) /\ AllIn(<< >>, V)
    BY EmptySeq DEF AllIn
  <2> QED  BY <1>3, <2>1, <2>2
<1> QED  BY <1>1, <1>2, <1>3

\* The schemas that are applied to the value itself.
LEMMA AppliedInPlace ==
  ASSUME NEW x, NEW s \in JsonSchemas, NEW defs
  PROVE  /\ "oneOf" \in DOMAIN s =>
              \A i \in DOMAIN s.oneOf : <<x, s.oneOf[i]>> \in LeadsTo(x, s, defs)
         /\ "allOf" \in DOMAIN s =>
              \A i \in DOMAIN s.allOf : <<x, s.allOf[i]>> \in LeadsTo(x, s, defs)
         /\ "if" \in DOMAIN s => <<x, s.if>> \in LeadsTo(x, s, defs)
         /\ "then" \in DOMAIN s => <<x, s["then"]>> \in LeadsTo(x, s, defs)
         /\ "else" \in DOMAIN s => <<x, s["else"]>> \in LeadsTo(x, s, defs)
         /\ "ref" \in DOMAIN s /\ s.ref \in DOMAIN defs =>
              <<x, defs[s.ref]>> \in LeadsTo(x, s, defs)
<1>1. /\ "if" \in DOMAIN s => s.if \in InPlace(s, defs)
      /\ "then" \in DOMAIN s => s["then"] \in InPlace(s, defs)
      /\ "else" \in DOMAIN s => s["else"] \in InPlace(s, defs)
  BY DEF InPlace
<1>2. /\ "oneOf" \in DOMAIN s => \A i \in DOMAIN s.oneOf : s.oneOf[i] \in InPlace(s, defs)
      /\ "allOf" \in DOMAIN s => \A i \in DOMAIN s.allOf : s.allOf[i] \in InPlace(s, defs)
  BY DEF InPlace, ToSet
<1>3. "ref" \in DOMAIN s /\ s.ref \in DOMAIN defs => defs[s.ref] \in InPlace(s, defs)
  BY DEF InPlace
<1>4. \A t \in InPlace(s, defs) : <<x, t>> \in LeadsTo(x, s, defs)
  BY DEF LeadsTo
<1> QED  BY <1>1, <1>2, <1>3, <1>4

\* The same of the evaluation of oneOf,
LEMMA AlternativesParts ==
  ASSUME NEW x \in JsonValues, NEW s \in JsonSchemas, NEW defs, AllSchemas(defs),
         NEW o \in [LeadsTo(x, s, defs) -> Evaluations]
  PROVE  /\ Alternatives(x, s, o) \in Seq(Evaluations)
         /\ AllIn(Alternatives(x, s, o), Quiet)
              <=> ("oneOf" \in DOMAIN s =>
                     \A i \in DOMAIN s.oneOf : o[<<x, s.oneOf[i]>>] \in Quiet)
         /\ AllIn(Alternatives(x, s, o), Quiet) =>
              (AllIn(Alternatives(x, s, o), Passing)
                 <=> ("oneOf" \in DOMAIN s =>
                        Cardinality({i \in DOMAIN s.oneOf : o[<<x, s.oneOf[i]>>].errors = << >>}) = 1))
<1>1. CASE "oneOf" \notin DOMAIN s
  <2>1. << >> \in Seq(Evaluations) /\ \A V : AllIn(<< >>, V)
    BY EmptySeq DEF AllIn
  <2> QED  BY <1>1, <2>1 DEF Alternatives
<1>2. CASE "oneOf" \in DOMAIN s
  <2> DEFINE outs == [i \in DOMAIN s.oneOf |-> o[<<x, s.oneOf[i]>>]]
  <2>1. s.oneOf \in Seq(JsonSchemas) /\ s.oneOf # << >>
    BY <1>2, Subschemas
  <2>2. \A i \in DOMAIN s.oneOf : o[<<x, s.oneOf[i]>>] \in Evaluations
    BY <1>2, AppliedInPlace
  <2>3. DOMAIN s.oneOf = 1..Len(s.oneOf) /\ Len(s.oneOf) \in Nat /\ Len(s.oneOf) # 0
    BY <2>1, EmptySeq
  <2>4. outs \in Seq(Evaluations) /\ Len(outs) = Len(s.oneOf)
    BY <2>2, <2>3
  <2>5. outs # << >>
    <3> HIDE DEF outs
    <3> QED  BY <2>3, <2>4, EmptySeq
  <2>6. Alternatives(x, s, o) = <<OneOf(outs)>>
    BY <1>2 DEF Alternatives
  <2>7. AllIn(outs, Quiet) <=> \A i \in DOMAIN s.oneOf : o[<<x, s.oneOf[i]>>] \in Quiet
    BY DEF AllIn
  <2>8. {k \in DOMAIN outs : outs[k].errors = << >>} =
          {i \in DOMAIN s.oneOf : o[<<x, s.oneOf[i]>>].errors = << >>}
    OBVIOUS
  <2> HIDE DEF outs
  <2>9. /\ OneOf(outs) \in Evaluations
        /\ OneOf(outs) \in Quiet <=> AllIn(outs, Quiet)
        /\ OneOf(outs) \in Quiet =>
             (OneOf(outs) \in Passing
                <=> Cardinality({k \in DOMAIN outs : outs[k].errors = << >>}) = 1)
    BY <2>4, <2>5, OneOfCounts
  <2>10. <<OneOf(outs)>> \in Seq(Evaluations)
    BY <2>9, OneMember
  <2>11. \A V : AllIn(<<OneOf(outs)>>, V) <=> OneOf(outs) \in V
    BY DEF AllIn
  <2> QED  BY <1>2, <2>6, <2>7, <2>8, <2>9, <2>10, <2>11
<1> QED  BY <1>1, <1>2

\* and of those of allOf.
LEMMA ConjunctsParts ==
  ASSUME NEW x \in JsonValues, NEW s \in JsonSchemas, NEW defs, AllSchemas(defs),
         NEW o \in [LeadsTo(x, s, defs) -> Evaluations], NEW V
  PROVE  /\ Conjuncts(x, s, o) \in Seq(Evaluations)
         /\ AllIn(Conjuncts(x, s, o), V)
              <=> ("allOf" \in DOMAIN s => \A i \in DOMAIN s.allOf : o[<<x, s.allOf[i]>>] \in V)
<1>1. CASE "allOf" \notin DOMAIN s
  <2>1. << >> \in Seq(Evaluations) /\ AllIn(<< >>, V)
    BY EmptySeq DEF AllIn
  <2> QED  BY <1>1, <2>1 DEF Conjuncts
<1>2. CASE "allOf" \in DOMAIN s
  <2>1. s.allOf \in Seq(JsonSchemas)
    BY <1>2, Subschemas
  <2>2. \A i \in DOMAIN s.allOf : o[<<x, s.allOf[i]>>] \in Evaluations
    BY <1>2, AppliedInPlace
  <2>3. Conjuncts(x, s, o) = [i \in DOMAIN s.allOf |-> o[<<x, s.allOf[i]>>]]
    BY <1>2 DEF Conjuncts
  <2>4. Conjuncts(x, s, o) \in Seq(Evaluations)
    <3>1. DOMAIN s.allOf = 1..Len(s.allOf) /\ Len(s.allOf) \in Nat
      BY <2>1
    <3> QED  BY <2>2, <2>3, <3>1
  <2> QED  BY <1>2, <2>3, <2>4 DEF AllIn
<1> QED  BY <1>1, <1>2

\* Of the two branches only the one that the premise chooses is looked at.
LEMMA ConditionalParts ==
  ASSUME NEW x \in JsonValues, NEW s \in JsonSchemas, NEW defs, AllSchemas(defs),
         NEW o \in [LeadsTo(x, s, defs) -> Evaluations]
  PROVE  /\ Conditional(x, s, o) \in Seq(Evaluations)
         /\ (\A c \in LeadsTo(x, s, defs) : o[c] \in Quiet) => AllIn(Conditional(x, s, o), Quiet)
         /\ AllIn(Conditional(x, s, o), Quiet) /\ "if" \in DOMAIN s =>
              /\ o[<<x, s.if>>] \in Quiet
              /\ o[<<x, s.if>>] \in Passing /\ "then" \in DOMAIN s =>
                   /\ o[<<x, s["then"]>>] \in Quiet
                   /\ AllIn(Conditional(x, s, o), Passing) <=> o[<<x, s["then"]>>] \in Passing
              /\ o[<<x, s.if>>] \notin Passing /\ "else" \in DOMAIN s =>
                   /\ o[<<x, s["else"]>>] \in Quiet
                   /\ AllIn(Conditional(x, s, o), Passing) <=> o[<<x, s["else"]>>] \in Passing
              /\ (o[<<x, s.if>>] \in Passing /\ "then" \notin DOMAIN s)
                   \/ (o[<<x, s.if>>] \notin Passing /\ "else" \notin DOMAIN s) =>
                   AllIn(Conditional(x, s, o), Passing)
         /\ "if" \notin DOMAIN s => AllIn(Conditional(x, s, o), Passing)
<1>1. << >> \in Seq(Evaluations) /\ \A V : AllIn(<< >>, V)
  BY EmptySeq DEF AllIn
<1>2. \A e \in Evaluations : <<e>> \in Seq(Evaluations) /\ \A V : AllIn(<<e>>, V) <=> e \in V
  BY OneMember DEF AllIn
<1>3. CASE "if" \notin DOMAIN s
  BY <1>1, <1>3 DEF Conditional
<1>4. CASE "if" \in DOMAIN s
  <2> DEFINE premise == o[<<x, s.if>>]
             branch == IF premise.errors = << >> THEN "then" ELSE "else"
             chosen == o[<<x, s[branch]>>]
  <2>1. <<x, s.if>> \in LeadsTo(x, s, defs) /\ premise \in Evaluations
    BY <1>4, AppliedInPlace
  <2>2. branch \in DOMAIN s => <<x, s[branch]>> \in LeadsTo(x, s, defs) /\ chosen \in Evaluations
    BY AppliedInPlace
  <2>3. Conditional(x, s, o) = IF premise.raises # "nothing" THEN <<premise>>
                               ELSE IF branch \in DOMAIN s THEN <<chosen>> ELSE << >>
    BY <1>4 DEF Conditional
  <2>4. /\ premise \in Quiet <=> premise.raises = "nothing"
        /\ premise \in Passing <=> premise.errors = << >>
    BY <2>1 DEF Quiet, Passing
  <2>5. (premise \in Passing => branch = "then") /\ (premise \notin Passing => branch = "else")
    BY <2>4
  <2> HIDE DEF premise, branch, chosen
  <2>6. CASE premise \notin Quiet
    <3>1. Conditional(x, s, o) = <<premise>>
      BY <2>3, <2>4, <2>6
    <3> QED  BY <1>2, <1>4, <2>1, <2>6, <3>1 DEF premise
  <2>7. CASE premise \in Quiet /\ branch \in DOMAIN s
    <3>1. Conditional(x, s, o) = <<chosen>>
      BY <2>3, <2>4, <2>7
    <3>2. chosen = o[<<x, s[branch]>>]
      BY DEF chosen
    <3>3. /\ premise \in Passing => chosen = o[<<x, s["then"]>>] /\ "then" \in DOMAIN s
          /\ premise \notin Passing => chosen = o[<<x, s["else"]>>] /\ "else" \in DOMAIN s
      BY <2>5, <2>7, <3>2
    <3>4. /\ Conditional(x, s, o) \in Seq(Evaluations)
          /\ \A V : AllIn(Conditional(x, s, o), V) <=> chosen \in V
      BY <1>2, <2>2, <2>7, <3>1
    <3>5. (\A c \in LeadsTo(x, s, defs) : o[c] \in Quiet) => chosen \in Quiet
      BY <2>2, <2>7, <3>2
    <3>6. o[<<x, s.if>>] = premise
      BY DEF premise
    <3> QED  BY <1>4, <2>7, <3>3, <3>4, <3>5, <3>6, Zenon
  <2>8. CASE premise \in Quiet /\ branch \notin DOMAIN s
    <3>1. Conditional(x, s, o) = << >>
      BY <2>3, <2>4, <2>8
    <3>2. /\ premise \in Passing => "then" \notin DOMAIN s
          /\ premise \notin Passing => "else" \notin DOMAIN s
      BY <2>5, <2>8
    <3>3. o[<<x, s.if>>] = premise
      BY DEF premise
    <3> QED  BY <1>1, <1>4, <2>8, <3>1, <3>2, <3>3, Zenon
  <2> QED  BY <2>6, <2>7, <2>8
<1> QED  BY <1>3, <1>4

\* The body of validate, where it gets as far as the subschemas.
Parts(x, s, o) ==
  <<Errors(OwnErrors(x, s))>> \o Evaluated(x, s, o) \o Alternatives(x, s, o)
  \o Conjuncts(x, s, o) \o Conditional(x, s, o)

\* What validate adds up is what its parts are.
LEMMA PartsOfEvaluation ==
  ASSUME NEW x \in JsonValues, NEW s \in JsonSchemas, NEW defs, AllSchemas(defs),
         NEW o \in [LeadsTo(x, s, defs) -> Evaluations], NEW V
  PROVE  /\ Parts(x, s, o) \in Seq(Evaluations)
         /\ AllIn(Parts(x, s, o), V)
              <=> /\ Errors(OwnErrors(x, s)) \in V
                  /\ AllIn(Evaluated(x, s, o), V)
                  /\ AllIn(Alternatives(x, s, o), V)
                  /\ AllIn(Conjuncts(x, s, o), V)
                  /\ AllIn(Conditional(x, s, o), V)
<1> DEFINE own == Errors(OwnErrors(x, s))
           a == Evaluated(x, s, o)
           b == Alternatives(x, s, o)
           c == Conjuncts(x, s, o)
           d == Conditional(x, s, o)
<1>1. own \in Evaluations
  BY OwnErrorsAreFailures, RaisedAndErrors
<1>2. /\ a \in Seq(Evaluations) /\ b \in Seq(Evaluations)
      /\ c \in Seq(Evaluations) /\ d \in Seq(Evaluations)
  BY EvaluatedParts, AlternativesParts, ConjunctsParts, ConditionalParts
<1>3. Parts(x, s, o) = <<own>> \o a \o b \o c \o d
  BY DEF Parts
<1> HIDE DEF own, a, b, c, d
<1>4. <<own>> \in Seq(Evaluations) /\ (AllIn(<<own>>, V) <=> own \in V)
  BY <1>1, OneMember DEF AllIn
<1>5. <<own>> \o a \in Seq(Evaluations) /\ (AllIn(<<own>> \o a, V) <=> own \in V /\ AllIn(a, V))
  BY <1>2, <1>4, ConcatAllIn
<1>6. /\ <<own>> \o a \o b \in Seq(Evaluations)
      /\ AllIn(<<own>> \o a \o b, V) <=> own \in V /\ AllIn(a, V) /\ AllIn(b, V)
  BY <1>2, <1>5, ConcatAllIn
<1>7. /\ <<own>> \o a \o b \o c \in Seq(Evaluations)
      /\ AllIn(<<own>> \o a \o b \o c, V) <=> own \in V /\ AllIn(a, V) /\ AllIn(b, V) /\ AllIn(c, V)
  BY <1>2, <1>6, ConcatAllIn
<1>8. /\ <<own>> \o a \o b \o c \o d \in Seq(Evaluations)
      /\ AllIn(<<own>> \o a \o b \o c \o d, V)
           <=> own \in V /\ AllIn(a, V) /\ AllIn(b, V) /\ AllIn(c, V) /\ AllIn(d, V)
  BY <1>2, <1>7, ConcatAllIn
<1> QED  BY <1>3, <1>8 DEF own, a, b, c, d

\* validate returns errors, or raises one of its two exceptions.
LEMMA EvaluationType ==
  ASSUME NEW x \in JsonValues, NEW s \in JsonSchemas, NEW defs, AllSchemas(defs),
         NEW o \in [LeadsTo(x, s, defs) -> Evaluations]
  PROVE  Evaluation(x, s, defs, o) \in Evaluations
<1>1. "ref" \in DOMAIN s /\ s.ref \in DOMAIN defs => o[<<x, defs[s.ref]>>] \in Evaluations
  BY AppliedInPlace
<1>2. Raised("gap") \in Evaluations
  BY RaisedAndErrors
<1>3. Errors(<<"type">>) \in Evaluations
  BY OneMember, KeywordsReported, RaisedAndErrors
<1>4. Collect(Parts(x, s, o)) \in Evaluations
  BY PartsOfEvaluation, CollectAddsUp
<1> QED  BY <1>1, <1>2, <1>3, <1>4 DEF Evaluation, Parts

-----------------------------------------------------------------------------
(* The engine and JSON Schema, one assertion at a time. *)

\* Answers that agree with what holds of the checks below.
Agree(o, v) ==
  \A c \in DOMAIN o : o[c] \in Quiet => (o[c] \in Passing <=> v[c])

\* If the checks that a check leads to are judged right, so is the check, unless
\* a keyword is passed over or values are confused.
LEMMA JudgedRight ==
  ASSUME NEW x \in JsonValues, NEW s \in JsonSchemas, NEW defs, AllSchemas(defs),
         NEW o \in [LeadsTo(x, s, defs) -> Evaluations],
         NEW v \in [LeadsTo(x, s, defs) -> BOOLEAN],
         Agree(o, v), ~PassesOver(s), ~Confuses(x, s),
         Evaluation(x, s, defs, o) \in Quiet
  PROVE  Evaluation(x, s, defs, o) \in Passing
           <=> OwnAssertions(x, s) /\ Assertions(x, s, defs, v)
<1>0. \A c \in LeadsTo(x, s, defs) : o[c] \in Quiet => (o[c] \in Passing <=> v[c])
  BY DEF Agree
<1>1. CASE "ref" \in DOMAIN s
  <2>1. DOMAIN s = {"ref"}
    BY <1>1 DEF PassesOver
  <2>2. s.ref \in DOMAIN defs
    BY <1>1, RaisedAndErrors DEF Evaluation
  <2>3. Evaluation(x, s, defs, o) = o[<<x, defs[s.ref]>>]
    BY <1>1, <2>2 DEF Evaluation
  <2>4. Evaluation(x, s, defs, o) \in Passing <=> v[<<x, defs[s.ref]>>]
    BY <1>0, <1>1, <2>2, <2>3, AppliedInPlace
  <2>5. OwnAssertions(x, s)
    BY <2>1 DEF OwnAssertions
  <2>6. Described(x, s) = {}
    BY <2>1 DEF Described
  <2>7. Assertions(x, s, defs, v) <=> v[<<x, defs[s.ref]>>]
    BY <2>1, <2>2, <2>6 DEF Assertions
  <2> QED  BY <2>4, <2>5, <2>7
<1>2. CASE "ref" \notin DOMAIN s /\ "type" \in DOMAIN s /\ ~HasType(x, s.type)
  <2>1. ~OwnAssertions(x, s)
    BY <1>2 DEF OwnAssertions
  <2>2. Evaluation(x, s, defs, o) = Errors(<<"type">>)
    BY <1>2, RaisedAndErrors DEF Evaluation
  <2>3. Errors(<<"type">>) \notin Passing
    <3>1. <<"type">> \in Seq(KnownKeywords) /\ <<"type">> # << >>
      BY OneMember, KeywordsReported
    <3> QED  BY <3>1, RaisedAndErrors
  <2> QED  BY <2>1, <2>2, <2>3
<1>3. CASE "ref" \notin DOMAIN s /\ ("type" \in DOMAIN s => HasType(x, s.type))
  <2>1. Evaluation(x, s, defs, o) = Collect(Parts(x, s, o))
    BY <1>3, RaisedAndErrors DEF Evaluation, Parts
  <2>2. /\ AllIn(Parts(x, s, o), Quiet)
        /\ Evaluation(x, s, defs, o) \in Passing <=> AllIn(Parts(x, s, o), Passing)
    BY <2>1, PartsOfEvaluation, CollectAddsUp
  <2>3. /\ AllIn(Evaluated(x, s, o), Quiet) /\ AllIn(Alternatives(x, s, o), Quiet)
        /\ AllIn(Conjuncts(x, s, o), Quiet) /\ AllIn(Conditional(x, s, o), Quiet)
    BY <2>2, PartsOfEvaluation
  <2>4. Errors(OwnErrors(x, s)) \in Passing
          <=> /\ OwnAssertions(x, s)
              /\ x.kind = "object" /\ "additionalProperties" \in DOMAIN s
                   /\ s.additionalProperties = << >> => Additional(x, s) = {}
    BY <1>3, OwnErrorsAreFailures, RaisedAndErrors
  <2> DEFINE P1 == x.kind = "object" =>
                     \A key \in Described(x, s) : v[<<x.members[key], s.properties[key]>>]
             P2 == x.kind = "array" /\ "items" \in DOMAIN s =>
                     \A i \in DOMAIN x.items : v[<<x.items[i], s.items>>]
             P3 == "oneOf" \in DOMAIN s => Cardinality({i \in DOMAIN s.oneOf : v[<<x, s.oneOf[i]>>]}) = 1
             P4 == "allOf" \in DOMAIN s => \A i \in DOMAIN s.allOf : v[<<x, s.allOf[i]>>]
             P5 == "if" \in DOMAIN s =>
                     IF v[<<x, s.if>>] THEN "then" \in DOMAIN s => v[<<x, s["then"]>>]
                     ELSE "else" \in DOMAIN s => v[<<x, s["else"]>>]
  <2>5. AllIn(Evaluated(x, s, o), Passing) <=> P1 /\ P2
    <3>1. ASSUME x.kind = "object", NEW key \in Described(x, s)
          PROVE  <<x.members[key], s.properties[key]>> \in LeadsTo(x, s, defs)
      BY <3>1 DEF LeadsTo, Below
    <3>2. ASSUME x.kind = "array", "items" \in DOMAIN s, NEW i \in DOMAIN x.items
          PROVE  <<x.items[i], s.items>> \in LeadsTo(x, s, defs)
      <4>1. <<x.items[i], s.items>> \in ToSet(x.items) \X {s["items"]}
        BY DEF ToSet
      <4> QED  BY <3>2, <4>1 DEF LeadsTo, Below
    <3>3. /\ x.kind = "object" =>
               \A key \in Described(x, s) : o[<<x.members[key], s.properties[key]>>] \in Quiet
          /\ x.kind = "array" /\ "items" \in DOMAIN s =>
               \A i \in DOMAIN x.items : o[<<x.items[i], s.items>>] \in Quiet
      BY <2>3, EvaluatedParts
    <3>4. AllIn(Evaluated(x, s, o), Passing)
            <=> /\ x.kind = "object" =>
                     \A key \in Described(x, s) : o[<<x.members[key], s.properties[key]>>] \in Passing
                /\ x.kind = "array" /\ "items" \in DOMAIN s =>
                     \A i \in DOMAIN x.items : o[<<x.items[i], s.items>>] \in Passing
      BY EvaluatedParts
    <3>5. (x.kind = "object" =>
             \A key \in Described(x, s) : o[<<x.members[key], s.properties[key]>>] \in Passing) <=> P1
      BY <1>0, <3>1, <3>3
    <3>6. (x.kind = "array" /\ "items" \in DOMAIN s =>
             \A i \in DOMAIN x.items : o[<<x.items[i], s.items>>] \in Passing) <=> P2
      BY <1>0, <3>2, <3>3
    <3> HIDE DEF P1, P2
    <3> QED  BY <3>4, <3>5, <3>6
  <2>6. AllIn(Alternatives(x, s, o), Passing) <=> P3
    <3>1. ASSUME "oneOf" \in DOMAIN s
          PROVE  {i \in DOMAIN s.oneOf : o[<<x, s.oneOf[i]>>].errors = << >>}
                   = {i \in DOMAIN s.oneOf : v[<<x, s.oneOf[i]>>]}
      <4>1. \A i \in DOMAIN s.oneOf : <<x, s.oneOf[i]>> \in LeadsTo(x, s, defs)
        BY <3>1, AppliedInPlace
      <4>2. \A i \in DOMAIN s.oneOf : o[<<x, s.oneOf[i]>>] \in Quiet
        BY <2>3, <3>1, AlternativesParts
      <4>3. \A i \in DOMAIN s.oneOf : o[<<x, s.oneOf[i]>>].errors = << >> <=> v[<<x, s.oneOf[i]>>]
        BY <1>0, <4>1, <4>2 DEF Passing, Quiet
      <4> QED  BY <4>3
    <3>2. AllIn(Alternatives(x, s, o), Passing)
            <=> ("oneOf" \in DOMAIN s =>
                   Cardinality({i \in DOMAIN s.oneOf : o[<<x, s.oneOf[i]>>].errors = << >>}) = 1)
      BY <2>3, AlternativesParts
    <3>3. CASE "oneOf" \in DOMAIN s
      <4>1. Cardinality({i \in DOMAIN s.oneOf : o[<<x, s.oneOf[i]>>].errors = << >>})
              = Cardinality({i \in DOMAIN s.oneOf : v[<<x, s.oneOf[i]>>]})
        BY <3>1, <3>3
      <4> QED  BY <3>2, <3>3, <4>1
    <3>4. CASE "oneOf" \notin DOMAIN s
      BY <3>2, <3>4
    <3> QED  BY <3>3, <3>4
  <2>7. AllIn(Conjuncts(x, s, o), Passing) <=> P4
    <3>1. "allOf" \in DOMAIN s => \A i \in DOMAIN s.allOf : o[<<x, s.allOf[i]>>] \in Quiet
      BY <2>3, ConjunctsParts
    <3>2. "allOf" \in DOMAIN s => \A i \in DOMAIN s.allOf : <<x, s.allOf[i]>> \in LeadsTo(x, s, defs)
      BY AppliedInPlace
    <3>3. AllIn(Conjuncts(x, s, o), Passing)
            <=> ("allOf" \in DOMAIN s => \A i \in DOMAIN s.allOf : o[<<x, s.allOf[i]>>] \in Passing)
      BY ConjunctsParts
    <3> QED  BY <1>0, <3>1, <3>2, <3>3
  <2>8. AllIn(Conditional(x, s, o), Passing) <=> P5
    <3>1. /\ "if" \in DOMAIN s => <<x, s.if>> \in LeadsTo(x, s, defs)
          /\ "then" \in DOMAIN s => <<x, s["then"]>> \in LeadsTo(x, s, defs)
          /\ "else" \in DOMAIN s => <<x, s["else"]>> \in LeadsTo(x, s, defs)
      BY AppliedInPlace
    <3>2. CASE "if" \notin DOMAIN s
      BY <3>2, ConditionalParts
    <3>3. CASE "if" \in DOMAIN s
      <4> DEFINE p == o[<<x, s.if>>]
                 t == o[<<x, s["then"]>>]
                 e == o[<<x, s["else"]>>]
                 all == AllIn(Conditional(x, s, o), Passing)
      <4>1. /\ p \in Quiet
            /\ p \in Passing /\ "then" \in DOMAIN s => t \in Quiet /\ (all <=> t \in Passing)
            /\ p \notin Passing /\ "else" \in DOMAIN s => e \in Quiet /\ (all <=> e \in Passing)
            /\ \/ p \in Passing /\ "then" \notin DOMAIN s
               \/ p \notin Passing /\ "else" \notin DOMAIN s
               => all
        BY <2>3, <3>3, ConditionalParts
      <4>2. /\ p \in Quiet => (p \in Passing <=> v[<<x, s.if>>])
            /\ "then" \in DOMAIN s => (t \in Quiet => (t \in Passing <=> v[<<x, s["then"]>>]))
            /\ "else" \in DOMAIN s => (e \in Quiet => (e \in Passing <=> v[<<x, s["else"]>>]))
        BY <1>0, <3>1, <3>3
      <4> HIDE DEF p, t, e, all
      <4>3. all <=> P5
        BY <3>3, <4>1, <4>2
      <4> QED  BY <4>3 DEF all
    <3> QED  BY <3>2, <3>3
  <2>9. (x.kind = "object" /\ "additionalProperties" \in DOMAIN s
           /\ s.additionalProperties = << >> => Additional(x, s) = {})
          <=> (x.kind = "object" /\ "additionalProperties" \in DOMAIN s =>
                 \A key \in Additional(x, s) :
                   \E i \in DOMAIN s.additionalProperties :
                     v[<<x.members[key], s.additionalProperties[i]>>])
    <3>1. "additionalProperties" \in DOMAIN s => s.additionalProperties = << >>
      BY DEF PassesOver
    <3>2. DOMAIN << >> = {}
      OBVIOUS
    <3> QED  BY <3>1, <3>2
  <2>10. Evaluation(x, s, defs, o) \in Passing
           <=> /\ Errors(OwnErrors(x, s)) \in Passing
               /\ P1 /\ P2 /\ P3 /\ P4 /\ P5
    <3> HIDE DEF P1, P2, P3, P4, P5
    <3> QED  BY <2>2, <2>5, <2>6, <2>7, <2>8, PartsOfEvaluation
  <2>11. Assertions(x, s, defs, v)
           <=> /\ x.kind = "object" /\ "additionalProperties" \in DOMAIN s =>
                    \A key \in Additional(x, s) :
                      \E i \in DOMAIN s.additionalProperties :
                        v[<<x.members[key], s.additionalProperties[i]>>]
               /\ P1 /\ P2 /\ P3 /\ P4 /\ P5
    BY <1>3, Zenon DEF Assertions
  <2> HIDE DEF P1, P2, P3, P4, P5
  <2> QED  BY <2>4, <2>9, <2>10, <2>11
<1> QED  BY <1>1, <1>2, <1>3

\* Where the checks below raise nothing, only a gap of the engine raises.
LEMMA OnlyGapsRaise ==
  ASSUME NEW x \in JsonValues, NEW s \in JsonSchemas, NEW defs, AllSchemas(defs),
         NEW o \in [LeadsTo(x, s, defs) -> Evaluations],
         \A c \in LeadsTo(x, s, defs) : o[c] \in Quiet,
         ~Gap(s, defs)
  PROVE  Evaluation(x, s, defs, o) \in Quiet
<1>1. "ref" \in DOMAIN s => s.ref \in DOMAIN defs /\ o[<<x, defs[s.ref]>>] \in Quiet
  BY AppliedInPlace DEF Gap
<1>2. DOMAIN s \subseteq KnownKeywords
  BY DEF Gap
<1>3. "type" \in DOMAIN s => ~TypeRaises(x, s.type)
  BY DEF Gap, TypeRaises, ToSet
<1>4. Errors(<<"type">>) \in Quiet
  BY OneMember, KeywordsReported, RaisedAndErrors
<1>5. Collect(Parts(x, s, o)) \in Quiet
  <2>1. Errors(OwnErrors(x, s)) \in Quiet
    BY OwnErrorsAreFailures, RaisedAndErrors
  <2>2. AllIn(Evaluated(x, s, o), Quiet)
    <3>1. ASSUME x.kind = "object", NEW key \in Described(x, s)
          PROVE  <<x.members[key], s.properties[key]>> \in LeadsTo(x, s, defs)
      BY <3>1 DEF LeadsTo, Below
    <3>2. ASSUME x.kind = "array", "items" \in DOMAIN s, NEW i \in DOMAIN x.items
          PROVE  <<x.items[i], s.items>> \in LeadsTo(x, s, defs)
      <4>1. <<x.items[i], s.items>> \in ToSet(x.items) \X {s["items"]}
        BY DEF ToSet
      <4> QED  BY <3>2, <4>1 DEF LeadsTo, Below
    <3> QED  BY <3>1, <3>2, EvaluatedParts
  <2>3. AllIn(Alternatives(x, s, o), Quiet)
    BY AppliedInPlace, AlternativesParts
  <2>4. AllIn(Conjuncts(x, s, o), Quiet)
    BY AppliedInPlace, ConjunctsParts
  <2>5. AllIn(Conditional(x, s, o), Quiet)
    BY ConditionalParts
  <2> QED  BY <2>1, <2>2, <2>3, <2>4, <2>5, PartsOfEvaluation, CollectAddsUp
<1> QED  BY <1>1, <1>2, <1>3, <1>4, <1>5 DEF Evaluation, Parts

-----------------------------------------------------------------------------
(* The recursive functions, one step at a time. *)

LEMMA OutcomesSteps ==
  ASSUME NEW defs, AllSchemas(defs)
  PROVE  \A n \in Nat, c \in Checks :
           /\ Outcomes(defs)[<<n, c>>] \in Evaluations
           /\ Outcomes(defs)[<<n, c>>] =
                IF n = 0 THEN Raised("recursion")
                ELSE Evaluation(c[1], c[2], defs,
                       [d \in LeadsTo(c[1], c[2], defs) |-> Outcomes(defs)[<<n - 1, d>>]])
<1> DEFINE next == [c \in Checks |-> LeadsTo(c[1], c[2], defs)]
           Under(c, g) == Evaluation(c[1], c[2], defs, g)
           rule == [p \in UNION {{c} \X [next[c] -> Evaluations] : c \in Checks} |-> Under(p[1], p[2])]
           base == [c \in Checks |-> Raised("recursion")]
           Below1(f, n, c) == [d \in LeadsTo(c[1], c[2], defs) |-> f[<<n - 1, d>>]]
           Step(f, n, c) == IF n = 0 THEN Raised("recursion") ELSE Under(c, Below1(f, n, c))
           Solves(f) == f = [call \in Nat \X Checks |-> Step(f, call[1], call[2])]
<1>1. \A c \in Checks : c[1] \in JsonValues /\ c[2] \in JsonSchemas
  BY DEF Checks
<1>2. \A c \in Checks : next[c] = LeadsTo(c[1], c[2], defs) /\ next[c] \subseteq Checks
  BY <1>1, LeadsToChecks
<1>3. \A c \in Checks : \A g \in [next[c] -> Evaluations] : Under(c, g) \in Evaluations
  <2> HIDE DEF next
  <2> QED  BY <1>1, <1>2, EvaluationType
<1>4. \A c \in Checks : \A g \in [next[c] -> Evaluations] :
        rule[<<c, g>>] = Under(c, g)
  <2> HIDE DEF next, Under
  <2> SUFFICES ASSUME NEW c \in Checks, NEW g \in [next[c] -> Evaluations]
               PROVE  rule[<<c, g>>] = Under(c, g)
    OBVIOUS
  <2>1. <<c, g>> \in {c} \X [next[c] -> Evaluations]
    OBVIOUS
  <2>2. <<c, g>> \in UNION {{d} \X [next[d] -> Evaluations] : d \in Checks}
    BY <2>1
  <2> QED  BY <2>2
<1>5. Raised("recursion") \in Evaluations
  BY RaisedAndErrors
<1>6. CountsDown(Checks, Evaluations, base, next, rule)
  <2>1. base \in [Checks -> Evaluations]
    BY <1>5
  <2>2. \A c \in Checks : \A g \in [next[c] -> Evaluations] : rule[<<c, g>>] \in Evaluations
    <3> HIDE DEF next, rule, Under
    <3> QED  BY <1>3, <1>4
  <2> HIDE DEF base, next, rule
  <2> QED  BY <1>2, <2>1, <2>2, RecursionExists
<1>7. PICK f \in [Nat \X Checks -> Evaluations] :
        \A n \in Nat, c \in Checks :
          f[<<n, c>>] = IF n = 0 THEN base[c] ELSE rule[<<c, [d \in next[c] |-> f[<<n - 1, d>>]]>>]
  BY <1>6 DEF CountsDown
<1>8. ASSUME NEW n \in Nat, NEW c \in Checks
      PROVE  f[<<n, c>>] = Step(f, n, c)
  <2>1. CASE n = 0
    BY <1>7, <2>1
  <2>2. CASE n # 0
    <3> DEFINE g == [d \in next[c] |-> f[<<n - 1, d>>]]
    <3>1. n - 1 \in Nat
      BY <2>2
    <3>2. \A d \in next[c] : f[<<n - 1, d>>] \in Evaluations
      <4> HIDE DEF next
      <4> QED  BY <1>2, <1>7, <3>1
    <3>3. g \in [next[c] -> Evaluations]
      BY <3>2
    <3>4. g = Below1(f, n, c)
      BY <1>2
    <3>5. f[<<n, c>>] = rule[<<c, g>>]
      <4> HIDE DEF rule, next
      <4> QED  BY <1>7, <2>2
    <3> HIDE DEF g, rule, next, Under, Below1
    <3>6. f[<<n, c>>] = Under(c, g)
      BY <1>4, <3>3, <3>5
    <3> QED  BY <2>2, <3>4, <3>6
  <2> QED  BY <2>1, <2>2
<1>9. \E h : Solves(h)
  <2> HIDE DEF Step
  <2>1. \A call \in Nat \X Checks :
          /\ call[1] \in Nat /\ call[2] \in Checks /\ call = <<call[1], call[2]>>
          /\ f[call] = Step(f, call[1], call[2])
    BY <1>8
  <2>2. f = [call \in Nat \X Checks |-> f[call]]
    OBVIOUS
  <2>3. Solves(f)
    BY <2>1, <2>2
  <2> QED  BY <2>3
<1> DEFINE h == CHOOSE g : Solves(g)
<1>10. Outcomes(defs) = h
  BY DEF Outcomes
<1>11. Solves(h)
  <2> HIDE DEF Solves
  <2> QED  BY <1>9
<1> HIDE DEF h
<1>12. \A n \in Nat, c \in Checks : h[<<n, c>>] = Step(h, n, c)
  <2>1. \A n \in Nat, c \in Checks :
          <<n, c>> \in Nat \X Checks /\ <<n, c>>[1] = n /\ <<n, c>>[2] = c
    OBVIOUS
  <2> HIDE DEF Step
  <2> QED  BY <1>11, <2>1
<1> DEFINE Typed == {n \in Nat : \A c \in Checks : h[<<n, c>>] \in Evaluations}
<1>13. 0 \in Typed
  BY <1>5, <1>12
<1>14. ASSUME NEW n \in Nat, n \in Typed
       PROVE  n + 1 \in Typed
  <2> SUFFICES ASSUME NEW c \in Checks
               PROVE  h[<<n + 1, c>>] \in Evaluations
    OBVIOUS
  <2>1. n + 1 \in Nat /\ n + 1 # 0 /\ (n + 1) - 1 = n
    OBVIOUS
  <2>2. Below1(h, n + 1, c) \in [next[c] -> Evaluations]
    <3>1. \A d \in next[c] : h[<<n, d>>] \in Evaluations
      <4> HIDE DEF next
      <4> QED  BY <1>2, <1>14
    <3>2. Below1(h, n + 1, c) = [d \in next[c] |-> h[<<n, d>>]]
      BY <1>2, <2>1
    <3> HIDE DEF next, Below1
    <3> QED  BY <3>1, <3>2
  <2>3. h[<<n + 1, c>>] = Under(c, Below1(h, n + 1, c))
    <3> HIDE DEF Under, Below1
    <3> QED  BY <1>12, <2>1
  <2> HIDE DEF Under, Below1, next
  <2> QED  BY <1>3, <2>2, <2>3
<1>15. Nat \subseteq Typed
  <2> HIDE DEF Typed
  <2> QED  BY <1>13, <1>14, Induct
<1> QED  BY <1>10, <1>12, <1>15

\* So do the verdicts of JSON Schema,
LEMMA VerdictsSteps ==
  ASSUME NEW defs, AllSchemas(defs)
  PROVE  \A n \in Nat, c \in Checks :
           /\ Verdicts(defs)[<<n, c>>] \in BOOLEAN
           /\ Verdicts(defs)[<<n, c>>]
                <=> /\ n # 0
                    /\ OwnAssertions(c[1], c[2])
                    /\ Assertions(c[1], c[2], defs,
                         [d \in LeadsTo(c[1], c[2], defs) |-> Verdicts(defs)[<<n - 1, d>>]])
<1> DEFINE next == [c \in Checks |-> LeadsTo(c[1], c[2], defs)]
           Under(c, g) == OwnAssertions(c[1], c[2]) /\ Assertions(c[1], c[2], defs, g)
           rule == [p \in UNION {{c} \X [next[c] -> BOOLEAN] : c \in Checks} |->
                      IF Under(p[1], p[2]) THEN TRUE ELSE FALSE]
           base == [c \in Checks |-> FALSE]
           Below1(f, n, c) == [d \in LeadsTo(c[1], c[2], defs) |-> f[<<n - 1, d>>]]
           Step(f, n, c) == n # 0 /\ OwnAssertions(c[1], c[2])
                              /\ Assertions(c[1], c[2], defs, Below1(f, n, c))
           Solves(f) == f = [call \in Nat \X Checks |-> Step(f, call[1], call[2])]
<1>1. \A c \in Checks : c[1] \in JsonValues /\ c[2] \in JsonSchemas
  BY DEF Checks
<1>2. \A c \in Checks : next[c] = LeadsTo(c[1], c[2], defs) /\ next[c] \subseteq Checks
  BY <1>1, LeadsToChecks
<1>3. \A c \in Checks : \A g \in [next[c] -> BOOLEAN] :
        rule[<<c, g>>] \in BOOLEAN /\ (rule[<<c, g>>] <=> Under(c, g))
  <2> HIDE DEF next, Under
  <2> SUFFICES ASSUME NEW c \in Checks, NEW g \in [next[c] -> BOOLEAN]
               PROVE  rule[<<c, g>>] = IF Under(c, g) THEN TRUE ELSE FALSE
    OBVIOUS
  <2>1. <<c, g>> \in {c} \X [next[c] -> BOOLEAN]
    OBVIOUS
  <2>2. <<c, g>> \in UNION {{d} \X [next[d] -> BOOLEAN] : d \in Checks}
    BY <2>1
  <2> QED  BY <2>2
<1>6. CountsDown(Checks, BOOLEAN, base, next, rule)
  <2>1. base \in [Checks -> BOOLEAN]
    OBVIOUS
  <2>2. \A c \in Checks : \A g \in [next[c] -> BOOLEAN] : rule[<<c, g>>] \in BOOLEAN
    <3> HIDE DEF next, rule, Under
    <3> QED  BY <1>3
  <2> HIDE DEF base, next, rule
  <2> QED  BY <1>2, <2>1, <2>2, RecursionExists
<1>7. PICK f \in [Nat \X Checks -> BOOLEAN] :
        \A n \in Nat, c \in Checks :
          f[<<n, c>>] = IF n = 0 THEN base[c] ELSE rule[<<c, [d \in next[c] |-> f[<<n - 1, d>>]]>>]
  BY <1>6 DEF CountsDown
<1>8. ASSUME NEW n \in Nat, NEW c \in Checks
      PROVE  f[<<n, c>>] <=> Step(f, n, c)
  <2>1. CASE n = 0
    <3>1. f[<<n, c>>] = base[c] /\ ~base[c]
      <4> HIDE DEF rule, next
      <4> QED  BY <1>7, <2>1
    <3> QED  BY <2>1, <3>1
  <2>2. CASE n # 0
    <3> DEFINE g == [d \in next[c] |-> f[<<n - 1, d>>]]
    <3>1. n - 1 \in Nat
      BY <2>2
    <3>2. \A d \in next[c] : f[<<n - 1, d>>] \in BOOLEAN
      <4> HIDE DEF next
      <4> QED  BY <1>2, <1>7, <3>1
    <3>3. g \in [next[c] -> BOOLEAN]
      BY <3>2
    <3>4. g = Below1(f, n, c)
      BY <1>2
    <3>5. f[<<n, c>>] = rule[<<c, g>>]
      <4> HIDE DEF rule, next
      <4> QED  BY <1>7, <2>2
    <3>6. Step(f, n, c) <=> Under(c, Below1(f, n, c))
      <4> HIDE DEF Below1
      <4> QED  BY <2>2
    <3> HIDE DEF g, rule, next, Under, Below1, Step
    <3>7. f[<<n, c>>] <=> Under(c, g)
      BY <1>3, <3>3, <3>5
    <3> QED  BY <3>4, <3>6, <3>7
  <2> QED  BY <2>1, <2>2
<1>9. \E h : Solves(h)
  <2> HIDE DEF Step
  <2>1. \A call \in Nat \X Checks :
          /\ call[1] \in Nat /\ call[2] \in Checks /\ call = <<call[1], call[2]>>
          /\ f[call] \in BOOLEAN
          /\ f[call] <=> Step(f, call[1], call[2])
    BY <1>8
  <2>2. Step(f, 0, 0) \in BOOLEAN /\ \A n, c : Step(f, n, c) \in BOOLEAN
    BY Zenon DEF Step
  <2>3. \A call \in Nat \X Checks : f[call] = Step(f, call[1], call[2])
    BY <2>1, <2>2
  <2>4. f = [call \in Nat \X Checks |-> f[call]]
    OBVIOUS
  <2>5. Solves(f)
    BY <2>3, <2>4
  <2> QED  BY <2>5
<1> DEFINE h == CHOOSE g : Solves(g)
<1>10. Verdicts(defs) = h
  BY DEF Verdicts
<1>11. Solves(h)
  <2> HIDE DEF Solves
  <2> QED  BY <1>9
<1> HIDE DEF h
<1>12. \A n \in Nat, c \in Checks : h[<<n, c>>] = Step(h, n, c)
  <2>1. \A n \in Nat, c \in Checks :
          <<n, c>> \in Nat \X Checks /\ <<n, c>>[1] = n /\ <<n, c>>[2] = c
    OBVIOUS
  <2> HIDE DEF Step
  <2> QED  BY <1>11, <2>1
<1>13. \A n, c : Step(h, n, c) \in BOOLEAN
  BY Zenon
<1> QED  BY <1>10, <1>12, <1>13

\* the checks reached,
LEMMA ReachedSteps ==
  ASSUME NEW defs, AllSchemas(defs)
  PROVE  \A n \in Nat, c \in Checks : n # 0 =>
           \A e : e \in Reached(defs)[<<n, c>>]
                   <=> e = c \/ \E d \in LeadsTo(c[1], c[2], defs) : e \in Reached(defs)[<<n - 1, d>>]
<1> DEFINE next == [c \in Checks |-> LeadsTo(c[1], c[2], defs)]
           rule == [p \in UNION {{c} \X [next[c] -> SUBSET Checks] : c \in Checks} |->
                      {p[1]} \cup UNION {p[2][d] : d \in next[p[1]]}]
           base == [c \in Checks |-> {}]
           Step(f, n, c) == IF n = 0 THEN {}
                            ELSE {c} \cup UNION {f[<<n - 1, d>>] : d \in LeadsTo(c[1], c[2], defs)}
           Solves(f) == f = [call \in Nat \X Checks |-> Step(f, call[1], call[2])]
<1>1. \A c \in Checks : c[1] \in JsonValues /\ c[2] \in JsonSchemas
  BY DEF Checks
<1>2. \A c \in Checks : next[c] = LeadsTo(c[1], c[2], defs) /\ next[c] \subseteq Checks
  BY <1>1, LeadsToChecks
<1>3. \A c \in Checks : \A g \in [next[c] -> SUBSET Checks] :
        /\ rule[<<c, g>>] = {c} \cup UNION {g[d] : d \in next[c]}
        /\ rule[<<c, g>>] \in SUBSET Checks
  <2> HIDE DEF next
  <2> SUFFICES ASSUME NEW c \in Checks, NEW g \in [next[c] -> SUBSET Checks]
               PROVE  /\ rule[<<c, g>>] = {c} \cup UNION {g[d] : d \in next[c]}
                      /\ rule[<<c, g>>] \in SUBSET Checks
    OBVIOUS
  <2>1. <<c, g>> \in {c} \X [next[c] -> SUBSET Checks]
    OBVIOUS
  <2>2. <<c, g>> \in UNION {{d} \X [next[d] -> SUBSET Checks] : d \in Checks}
    BY <2>1
  <2>3. rule[<<c, g>>] = {c} \cup UNION {g[d] : d \in next[c]}
    BY <2>2
  <2>4. \A d \in next[c] : g[d] \subseteq Checks
    OBVIOUS
  <2> HIDE DEF rule
  <2> QED  BY <2>3, <2>4
<1>6. CountsDown(Checks, SUBSET Checks, base, next, rule)
  <2>1. base \in [Checks -> SUBSET Checks]
    OBVIOUS
  <2>2. \A c \in Checks : \A g \in [next[c] -> SUBSET Checks] : rule[<<c, g>>] \in SUBSET Checks
    <3> HIDE DEF next, rule
    <3> QED  BY <1>3
  <2> HIDE DEF base, next, rule
  <2> QED  BY <1>2, <2>1, <2>2, RecursionExists
<1>7. PICK f \in [Nat \X Checks -> SUBSET Checks] :
        \A n \in Nat, c \in Checks :
          f[<<n, c>>] = IF n = 0 THEN base[c] ELSE rule[<<c, [d \in next[c] |-> f[<<n - 1, d>>]]>>]
  BY <1>6 DEF CountsDown
<1>8. ASSUME NEW n \in Nat, NEW c \in Checks
      PROVE  f[<<n, c>>] = Step(f, n, c)
  <2>1. CASE n = 0
    <3>1. f[<<n, c>>] = base[c] /\ base[c] = {}
      <4> HIDE DEF rule, next
      <4> QED  BY <1>7, <2>1
    <3> QED  BY <2>1, <3>1
  <2>2. CASE n # 0
    <3> DEFINE g == [d \in next[c] |-> f[<<n - 1, d>>]]
    <3>1. n - 1 \in Nat
      BY <2>2
    <3>2. \A d \in next[c] : f[<<n - 1, d>>] \in SUBSET Checks
      <4> HIDE DEF next
      <4> QED  BY <1>2, <1>7, <3>1
    <3>3. g \in [next[c] -> SUBSET Checks]
      BY <3>2
    <3>4. f[<<n, c>>] = rule[<<c, g>>]
      <4> HIDE DEF rule, next
      <4> QED  BY <1>7, <2>2
    <3>5. f[<<n, c>>] = {c} \cup UNION {g[d] : d \in next[c]}
      <4> HIDE DEF rule, next, g
      <4> QED  BY <1>3, <3>3, <3>4
    <3>6. \A d \in next[c] : g[d] = f[<<n - 1, d>>]
      OBVIOUS
    <3>7. next[c] = LeadsTo(c[1], c[2], defs)
      BY <1>2
    <3> HIDE DEF g, rule, next
    <3>8. {g[d] : d \in next[c]} = {f[<<n - 1, d>>] : d \in LeadsTo(c[1], c[2], defs)}
      BY <3>6, <3>7
    <3> QED  BY <2>2, <3>5, <3>8
  <2> QED  BY <2>1, <2>2
<1>9. \E h : Solves(h)
  <2> HIDE DEF Step
  <2>1. \A call \in Nat \X Checks :
          /\ call[1] \in Nat /\ call[2] \in Checks /\ call = <<call[1], call[2]>>
          /\ f[call] = Step(f, call[1], call[2])
    BY <1>8
  <2>2. f = [call \in Nat \X Checks |-> f[call]]
    OBVIOUS
  <2>3. Solves(f)
    BY <2>1, <2>2
  <2> QED  BY <2>3
<1> DEFINE h == CHOOSE g : Solves(g)
<1>10. Reached(defs) = h
  BY DEF Reached
<1>11. Solves(h)
  <2> HIDE DEF Solves
  <2> QED  BY <1>9
<1> HIDE DEF h
<1>12. \A n \in Nat, c \in Checks : h[<<n, c>>] = Step(h, n, c)
  <2>1. \A n \in Nat, c \in Checks :
          <<n, c>> \in Nat \X Checks /\ <<n, c>>[1] = n /\ <<n, c>>[2] = c
    OBVIOUS
  <2> HIDE DEF Step
  <2> QED  BY <1>11, <2>1
<1>13. ASSUME NEW n \in Nat, NEW c \in Checks, n # 0, NEW e
       PROVE  e \in h[<<n, c>>]
                <=> e = c \/ \E d \in LeadsTo(c[1], c[2], defs) : e \in h[<<n - 1, d>>]
  <2>1. h[<<n, c>>] = {c} \cup UNION {h[<<n - 1, d>>] : d \in LeadsTo(c[1], c[2], defs)}
    BY <1>12, <1>13
  <2> QED  BY <2>1
<1> QED  BY <1>10, <1>13

\* Values are inside values, and schemas apply schemas: the two uses of Chains.
LEMMA NestsSteps ==
  /\ \A x \in JsonValues : Nests(0, x)
  /\ \A n \in Nat, x \in JsonValues : n # 0 => (Nests(n, x) <=> \E y \in Inside(x) : Nests(n - 1, y))
<1> DEFINE next == [x \in JsonValues |-> Inside(x)]
           rule == [p \in UNION {{x} \X [next[x] -> BOOLEAN] : x \in JsonValues} |->
                      IF \E y \in next[p[1]] : p[2][y] THEN TRUE ELSE FALSE]
           base == [x \in JsonValues |-> TRUE]
           Step(f, n, x) == n = 0 \/ \E y \in Inside(x) : f[<<n - 1, y>>]
           Solves(f) == f = [start \in Nat \X JsonValues |-> Step(f, start[1], start[2])]
<1>2. \A x \in JsonValues : next[x] = Inside(x) /\ next[x] \subseteq JsonValues
  BY ValuesAssumption
<1>3. \A x \in JsonValues : \A g \in [next[x] -> BOOLEAN] :
        rule[<<x, g>>] \in BOOLEAN /\ (rule[<<x, g>>] <=> \E y \in next[x] : g[y])
  <2> HIDE DEF next
  <2> SUFFICES ASSUME NEW x \in JsonValues, NEW g \in [next[x] -> BOOLEAN]
               PROVE  rule[<<x, g>>] = IF \E y \in next[x] : g[y] THEN TRUE ELSE FALSE
    OBVIOUS
  <2>1. <<x, g>> \in {x} \X [next[x] -> BOOLEAN]
    OBVIOUS
  <2>2. <<x, g>> \in UNION {{y} \X [next[y] -> BOOLEAN] : y \in JsonValues}
    BY <2>1
  <2> QED  BY <2>2
<1>6. CountsDown(JsonValues, BOOLEAN, base, next, rule)
  <2>1. base \in [JsonValues -> BOOLEAN]
    OBVIOUS
  <2>2. \A x \in JsonValues : \A g \in [next[x] -> BOOLEAN] : rule[<<x, g>>] \in BOOLEAN
    <3> HIDE DEF next, rule
    <3> QED  BY <1>3
  <2> HIDE DEF base, next, rule
  <2> QED  BY <1>2, <2>1, <2>2, RecursionExists
<1>7. PICK f \in [Nat \X JsonValues -> BOOLEAN] :
        \A n \in Nat, x \in JsonValues :
          f[<<n, x>>] = IF n = 0 THEN base[x] ELSE rule[<<x, [y \in next[x] |-> f[<<n - 1, y>>]]>>]
  BY <1>6 DEF CountsDown
<1>8. ASSUME NEW n \in Nat, NEW x \in JsonValues
      PROVE  f[<<n, x>>] <=> Step(f, n, x)
  <2>1. CASE n = 0
    <3>1. f[<<n, x>>] = base[x] /\ base[x]
      <4> HIDE DEF rule, next
      <4> QED  BY <1>7, <2>1
    <3> QED  BY <2>1, <3>1
  <2>2. CASE n # 0
    <3> DEFINE g == [y \in next[x] |-> f[<<n - 1, y>>]]
    <3>1. n - 1 \in Nat
      BY <2>2
    <3>2. \A y \in next[x] : f[<<n - 1, y>>] \in BOOLEAN
      <4> HIDE DEF next
      <4> QED  BY <1>2, <1>7, <3>1
    <3>3. g \in [next[x] -> BOOLEAN]
      BY <3>2
    <3>4. f[<<n, x>>] = rule[<<x, g>>]
      <4> HIDE DEF rule, next
      <4> QED  BY <1>7, <2>2
    <3>5. f[<<n, x>>] <=> \E y \in next[x] : g[y]
      <4> HIDE DEF rule, next, g
      <4> QED  BY <1>3, <3>3, <3>4
    <3>6. \A y \in next[x] : g[y] = f[<<n - 1, y>>]
      OBVIOUS
    <3>7. next[x] = Inside(x)
      BY <1>2
    <3> HIDE DEF g, rule, next
    <3> QED  BY <2>2, <3>5, <3>6, <3>7
  <2> QED  BY <2>1, <2>2
<1>9. \E h : Solves(h)
  <2> HIDE DEF Step
  <2>1. \A start \in Nat \X JsonValues :
          /\ start[1] \in Nat /\ start[2] \in JsonValues /\ start = <<start[1], start[2]>>
          /\ f[start] \in BOOLEAN
          /\ f[start] <=> Step(f, start[1], start[2])
    BY <1>8
  <2>2. \A n, x : Step(f, n, x) \in BOOLEAN
    BY Zenon DEF Step
  <2>3. \A start \in Nat \X JsonValues : f[start] = Step(f, start[1], start[2])
    BY <2>1, <2>2
  <2>4. f = [start \in Nat \X JsonValues |-> f[start]]
    OBVIOUS
  <2>5. Solves(f)
    BY <2>3, <2>4
  <2> QED  BY <2>5
<1> DEFINE h == CHOOSE g : Solves(g)
<1>10. \A n, x : Nests(n, x) = h[<<n, x>>]
  BY DEF Nests, Chains
<1>11. Solves(h)
  <2> HIDE DEF Solves
  <2> QED  BY <1>9
<1> HIDE DEF h
<1>12. \A n \in Nat, x \in JsonValues : h[<<n, x>>] = Step(h, n, x)
  <2>1. \A n \in Nat, x \in JsonValues :
          <<n, x>> \in Nat \X JsonValues /\ <<n, x>>[1] = n /\ <<n, x>>[2] = x
    OBVIOUS
  <2> HIDE DEF Step
  <2> QED  BY <1>11, <2>1
<1>13. \A x \in JsonValues : Nests(0, x)
  BY <1>10, <1>12
<1>14. ASSUME NEW n \in Nat, NEW x \in JsonValues, n # 0
       PROVE  Nests(n, x) <=> \E y \in Inside(x) : Nests(n - 1, y)
  <2>1. h[<<n, x>>] <=> \E y \in Inside(x) : h[<<n - 1, y>>]
    BY <1>12, <1>14
  <2> QED  BY <1>10, <2>1, Zenon
<1> QED  BY <1>13, <1>14

\* and the length of chains of schemas.
LEMMA CirclesSteps ==
  ASSUME NEW defs, AllSchemas(defs)
  PROVE  /\ \A s \in JsonSchemas : Circles(0, s, defs)
         /\ \A n \in Nat, s \in JsonSchemas :
              n # 0 => (Circles(n, s, defs) <=> \E t \in InPlace(s, defs) : Circles(n - 1, t, defs))
<1> DEFINE next == [s \in JsonSchemas |-> InPlace(s, defs)]
           rule == [p \in UNION {{s} \X [next[s] -> BOOLEAN] : s \in JsonSchemas} |->
                      IF \E t \in next[p[1]] : p[2][t] THEN TRUE ELSE FALSE]
           base == [s \in JsonSchemas |-> TRUE]
           Step(f, n, s) == n = 0 \/ \E t \in InPlace(s, defs) : f[<<n - 1, t>>]
           Solves(f) == f = [start \in Nat \X JsonSchemas |-> Step(f, start[1], start[2])]
<1>2. \A s \in JsonSchemas : next[s] = InPlace(s, defs) /\ next[s] \subseteq JsonSchemas
  BY InPlaceSchemas
<1>3. \A s \in JsonSchemas : \A g \in [next[s] -> BOOLEAN] :
        rule[<<s, g>>] \in BOOLEAN /\ (rule[<<s, g>>] <=> \E t \in next[s] : g[t])
  <2> HIDE DEF next
  <2> SUFFICES ASSUME NEW s \in JsonSchemas, NEW g \in [next[s] -> BOOLEAN]
               PROVE  rule[<<s, g>>] = IF \E t \in next[s] : g[t] THEN TRUE ELSE FALSE
    OBVIOUS
  <2>1. <<s, g>> \in {s} \X [next[s] -> BOOLEAN]
    OBVIOUS
  <2>2. <<s, g>> \in UNION {{t} \X [next[t] -> BOOLEAN] : t \in JsonSchemas}
    BY <2>1
  <2> QED  BY <2>2
<1>6. CountsDown(JsonSchemas, BOOLEAN, base, next, rule)
  <2>1. base \in [JsonSchemas -> BOOLEAN]
    OBVIOUS
  <2>2. \A s \in JsonSchemas : \A g \in [next[s] -> BOOLEAN] : rule[<<s, g>>] \in BOOLEAN
    <3> HIDE DEF next, rule
    <3> QED  BY <1>3
  <2> HIDE DEF base, next, rule
  <2> QED  BY <1>2, <2>1, <2>2, RecursionExists
<1>7. PICK f \in [Nat \X JsonSchemas -> BOOLEAN] :
        \A n \in Nat, s \in JsonSchemas :
          f[<<n, s>>] = IF n = 0 THEN base[s] ELSE rule[<<s, [t \in next[s] |-> f[<<n - 1, t>>]]>>]
  BY <1>6 DEF CountsDown
<1>8. ASSUME NEW n \in Nat, NEW s \in JsonSchemas
      PROVE  f[<<n, s>>] <=> Step(f, n, s)
  <2>1. CASE n = 0
    <3>1. f[<<n, s>>] = base[s] /\ base[s]
      <4> HIDE DEF rule, next
      <4> QED  BY <1>7, <2>1
    <3> QED  BY <2>1, <3>1
  <2>2. CASE n # 0
    <3> DEFINE g == [t \in next[s] |-> f[<<n - 1, t>>]]
    <3>1. n - 1 \in Nat
      BY <2>2
    <3>2. \A t \in next[s] : f[<<n - 1, t>>] \in BOOLEAN
      <4> HIDE DEF next
      <4> QED  BY <1>2, <1>7, <3>1
    <3>3. g \in [next[s] -> BOOLEAN]
      BY <3>2
    <3>4. f[<<n, s>>] = rule[<<s, g>>]
      <4> HIDE DEF rule, next
      <4> QED  BY <1>7, <2>2
    <3>5. f[<<n, s>>] <=> \E t \in next[s] : g[t]
      <4> HIDE DEF rule, next, g
      <4> QED  BY <1>3, <3>3, <3>4
    <3>6. \A t \in next[s] : g[t] = f[<<n - 1, t>>]
      OBVIOUS
    <3>7. next[s] = InPlace(s, defs)
      BY <1>2
    <3> HIDE DEF g, rule, next
    <3> QED  BY <2>2, <3>5, <3>6, <3>7
  <2> QED  BY <2>1, <2>2
<1>9. \E h : Solves(h)
  <2> HIDE DEF Step
  <2>1. \A start \in Nat \X JsonSchemas :
          /\ start[1] \in Nat /\ start[2] \in JsonSchemas /\ start = <<start[1], start[2]>>
          /\ f[start] \in BOOLEAN
          /\ f[start] <=> Step(f, start[1], start[2])
    BY <1>8
  <2>2. \A n, s : Step(f, n, s) \in BOOLEAN
    BY Zenon DEF Step
  <2>3. \A start \in Nat \X JsonSchemas : f[start] = Step(f, start[1], start[2])
    BY <2>1, <2>2
  <2>4. f = [start \in Nat \X JsonSchemas |-> f[start]]
    OBVIOUS
  <2>5. Solves(f)
    BY <2>3, <2>4
  <2> QED  BY <2>5
<1> DEFINE h == CHOOSE g : Solves(g)
<1>10. \A n, s : Circles(n, s, defs) = h[<<n, s>>]
  BY DEF Circles, Chains
<1>11. Solves(h)
  <2> HIDE DEF Solves
  <2> QED  BY <1>9
<1> HIDE DEF h
<1>12. \A n \in Nat, s \in JsonSchemas : h[<<n, s>>] = Step(h, n, s)
  <2>1. \A n \in Nat, s \in JsonSchemas :
          <<n, s>> \in Nat \X JsonSchemas /\ <<n, s>>[1] = n /\ <<n, s>>[2] = s
    OBVIOUS
  <2> HIDE DEF Step
  <2> QED  BY <1>11, <2>1
<1>13. \A s \in JsonSchemas : Circles(0, s, defs)
  BY <1>10, <1>12
<1>14. ASSUME NEW n \in Nat, NEW s \in JsonSchemas, n # 0
       PROVE  Circles(n, s, defs) <=> \E t \in InPlace(s, defs) : Circles(n - 1, t, defs)
  <2>1. h[<<n, s>>] <=> \E t \in InPlace(s, defs) : h[<<n - 1, t>>]
    BY <1>12, <1>14
  <2> QED  BY <1>10, <2>1, Zenon
<1> QED  BY <1>13, <1>14

\* Neither chains nor checks appear from nowhere.
LEMMA NestsLess ==
  ASSUME NEW h \in Nat \ {0}, NEW x \in JsonValues, ~Nests(h, x), NEW y \in Inside(x)
  PROVE  /\ h - 1 \in Nat \ {0}
         /\ y \in JsonValues /\ ~Nests(h - 1, y)
<1>1. y \in JsonValues
  BY ValuesAssumption
<1>2. ~Nests(h - 1, y)
  BY NestsSteps
<1>3. h - 1 # 0
  BY <1>1, <1>2, NestsSteps
<1> QED  BY <1>1, <1>2, <1>3

\* One schema on, there is room for one schema less.
LEMMA CirclesLess ==
  ASSUME NEW defs, AllSchemas(defs), NEW k \in Nat \ {0}, NEW s \in JsonSchemas,
         ~Circles(k, s, defs), NEW t \in InPlace(s, defs)
  PROVE  /\ k - 1 \in Nat \ {0}
         /\ t \in JsonSchemas /\ ~Circles(k - 1, t, defs)
<1>1. t \in JsonSchemas
  BY InPlaceSchemas
<1>2. ~Circles(k - 1, t, defs)
  BY CirclesSteps
<1>3. k - 1 # 0
  BY <1>1, <1>2, CirclesSteps
<1> QED  BY <1>1, <1>2, <1>3

\* What is reached from a check that another leads to is reached from that one.
LEMMA ReachedFrom ==
  ASSUME NEW defs, AllSchemas(defs), NEW n \in Nat, NEW m \in Nat, m = n + 1, NEW c \in Checks
  PROVE  /\ c \in Reached(defs)[<<m, c>>]
         /\ \A d \in LeadsTo(c[1], c[2], defs) :
              Reached(defs)[<<n, d>>] \subseteq Reached(defs)[<<m, c>>]
<1>1. m # 0 /\ m - 1 = n
  OBVIOUS
<1>2. \A e : e \in Reached(defs)[<<m, c>>]
               <=> e = c \/ \E d \in LeadsTo(c[1], c[2], defs) : e \in Reached(defs)[<<m - 1, d>>]
  BY <1>1, ReachedSteps
<1> QED  BY <1>1, <1>2

-----------------------------------------------------------------------------
(* The engine and JSON Schema, however deep the checks go. *)

\* What the engine accepts is valid and what it rejects is not, to whatever
\* depth one looks that is no less than the one at which it did not raise.
LEMMA EngineIsRight ==
  ASSUME NEW defs, AllSchemas(defs)
  PROVE  \A n \in Nat, m \in Nat, c \in Checks :
           /\ n <= m
           /\ Outcomes(defs)[<<n, c>>] \in Quiet
           /\ \A d \in Reached(defs)[<<n, c>>] : ~PassesOver(d[2]) /\ ~Confuses(d[1], d[2])
           => (Outcomes(defs)[<<n, c>>] \in Passing <=> Verdicts(defs)[<<m, c>>])
<1> DEFINE Fine(n, c) == \A d \in Reached(defs)[<<n, c>>] : ~PassesOver(d[2]) /\ ~Confuses(d[1], d[2])
           Right(n, m, c) == Outcomes(defs)[<<n, c>>] \in Quiet /\ Fine(n, c) =>
                               (Outcomes(defs)[<<n, c>>] \in Passing <=> Verdicts(defs)[<<m, c>>])
           S == {n \in Nat : \A m \in Nat, c \in Checks : n <= m => Right(n, m, c)}
<1>1. 0 \in S
  <2>1. \A c \in Checks : Outcomes(defs)[<<0, c>>] \notin Quiet
    BY OutcomesSteps, RaisedAndErrors
  <2> QED  BY <2>1
<1>2. ASSUME NEW n \in Nat, n \in S
      PROVE  n + 1 \in S
  <2> SUFFICES ASSUME NEW m \in Nat, NEW c \in Checks, n + 1 <= m,
                      Outcomes(defs)[<<n + 1, c>>] \in Quiet, Fine(n + 1, c)
               PROVE  Outcomes(defs)[<<n + 1, c>>] \in Passing <=> Verdicts(defs)[<<m, c>>]
    OBVIOUS
  <2> DEFINE x == c[1]
             s == c[2]
             Calls == LeadsTo(x, s, defs)
             o == [d \in Calls |-> Outcomes(defs)[<<n, d>>]]
             v == [d \in Calls |-> Verdicts(defs)[<<m - 1, d>>]]
  <2>1. x \in JsonValues /\ s \in JsonSchemas
    BY DEF Checks
  <2>2. Calls \subseteq Checks
    BY <2>1, LeadsToChecks
  <2>3. n + 1 \in Nat /\ n + 1 # 0 /\ (n + 1) - 1 = n /\ m # 0 /\ m - 1 \in Nat /\ n <= m - 1
    OBVIOUS
  <2>4. Outcomes(defs)[<<n + 1, c>>] = Evaluation(x, s, defs, o)
    BY <2>3, OutcomesSteps
  <2>5. Verdicts(defs)[<<m, c>>] <=> OwnAssertions(x, s) /\ Assertions(x, s, defs, v)
    BY <2>3, VerdictsSteps
  <2>6. o \in [Calls -> Evaluations]
    <3>1. \A d \in Calls : Outcomes(defs)[<<n, d>>] \in Evaluations
      <4> HIDE DEF Calls
      <4> QED  BY <2>2, OutcomesSteps
    <3> HIDE DEF Calls
    <3> QED  BY <3>1
  <2>7. v \in [Calls -> BOOLEAN]
    <3>1. \A d \in Calls : Verdicts(defs)[<<m - 1, d>>] \in BOOLEAN
      <4> HIDE DEF Calls
      <4> QED  BY <2>2, <2>3, VerdictsSteps
    <3> HIDE DEF Calls
    <3> QED  BY <3>1
  <2>8. Agree(o, v)
    <3>1. ASSUME NEW d \in Calls, Outcomes(defs)[<<n, d>>] \in Quiet
          PROVE  Outcomes(defs)[<<n, d>>] \in Passing <=> Verdicts(defs)[<<m - 1, d>>]
      <4>1. d \in Checks
        BY <2>2
      <4>2. Fine(n, d)
        <5>1. Reached(defs)[<<n, d>>] \subseteq Reached(defs)[<<n + 1, c>>]
          BY ReachedFrom
        <5> QED  BY <5>1
      <4>3. Right(n, m - 1, d)
        <5> HIDE DEF Right
        <5> QED  BY <1>2, <2>3, <4>1
      <4> QED  BY <3>1, <4>2, <4>3
    <3> HIDE DEF Calls
    <3> QED  BY <3>1 DEF Agree
  <2>9. ~PassesOver(s) /\ ~Confuses(x, s)
    BY <2>3, ReachedFrom
  <2> HIDE DEF o, v, x, s
  <2> QED  BY <2>1, <2>4, <2>5, <2>6, <2>7, <2>8, <2>9, JudgedRight
<1>3. Nat \subseteq S
  <2> HIDE DEF S
  <2> QED  BY <1>1, <1>2, Induct
<1> QED  BY <1>3

\* No call nests too deep where the value is nested less than h deep, less than
\* k schemas apply to each value inside it, j more of them to this one, and the
\* limit has room for all of them.
LEMMA RoomForCalls ==
  ASSUME NEW defs, AllSchemas(defs), NEW k \in Nat \ {0}
  PROVE  \A n \in Nat, h \in Nat \ {0}, j \in Nat \ {0}, c \in Checks :
           /\ ~Nests(h, c[1])
           /\ ~Circles(j, c[2], defs)
           /\ \A d \in Reached(defs)[<<n, c>>] : ~Gap(d[2], defs) /\ ~Circles(k, d[2], defs)
           /\ (h - 1) * k + j <= n
           => Outcomes(defs)[<<n, c>>] \in Quiet
<1> DEFINE Fine(n, c) == \A d \in Reached(defs)[<<n, c>>] : ~Gap(d[2], defs) /\ ~Circles(k, d[2], defs)
           Room(n, h, j, c) == /\ ~Nests(h, c[1])
                               /\ ~Circles(j, c[2], defs)
                               /\ Fine(n, c)
                               /\ (h - 1) * k + j <= n
           S == {n \in Nat : \A h \in Nat \ {0}, j \in Nat \ {0}, c \in Checks :
                               Room(n, h, j, c) => Outcomes(defs)[<<n, c>>] \in Quiet}
<1>0. \A h \in Nat \ {0} : (h - 1) * k \in Nat
  <2> SUFFICES ASSUME NEW h \in Nat \ {0}
               PROVE  (h - 1) * k \in Nat
    OBVIOUS
  <2>1. h - 1 \in Nat /\ k \in Nat
    OBVIOUS
  <2> QED  BY <2>1
<1>1. 0 \in S
  <2> SUFFICES ASSUME NEW h \in Nat \ {0}, NEW j \in Nat \ {0}, (h - 1) * k + j <= 0
               PROVE  FALSE
    OBVIOUS
  <2>1. (h - 1) * k \in Nat
    BY <1>0
  <2> DEFINE a == (h - 1) * k
  <2>2. a \in Nat /\ a + j <= 0
    BY <2>1
  <2> HIDE DEF a
  <2> QED  BY <2>2
<1>2. ASSUME NEW n \in Nat, n \in S
      PROVE  n + 1 \in S
  <2> SUFFICES ASSUME NEW h \in Nat \ {0}, NEW j \in Nat \ {0}, NEW c \in Checks, Room(n + 1, h, j, c)
               PROVE  Outcomes(defs)[<<n + 1, c>>] \in Quiet
    OBVIOUS
  <2> DEFINE x == c[1]
             s == c[2]
             Calls == LeadsTo(x, s, defs)
             o == [d \in Calls |-> Outcomes(defs)[<<n, d>>]]
  <2>1. x \in JsonValues /\ s \in JsonSchemas
    BY DEF Checks
  <2>2. Calls \subseteq Checks
    BY <2>1, LeadsToChecks
  <2>3. n + 1 \in Nat /\ n + 1 # 0 /\ (n + 1) - 1 = n
    OBVIOUS
  <2>4. Outcomes(defs)[<<n + 1, c>>] = Evaluation(x, s, defs, o)
    BY <2>3, OutcomesSteps
  <2>5. ASSUME NEW d \in Calls
        PROVE  Outcomes(defs)[<<n, d>>] \in Quiet
    <3>1. d \in Checks
      BY <2>2
    <3>2. Fine(n, d)
      <4>1. Reached(defs)[<<n, d>>] \subseteq Reached(defs)[<<n + 1, c>>]
        BY ReachedFrom
      <4> QED  BY <4>1
    <3>3. CASE d \in {x} \X InPlace(s, defs)
      <4>1. d[1] = x /\ d[2] \in InPlace(s, defs)
        BY <3>3
      <4>2. ~Nests(h, x) /\ ~Circles(j, s, defs)
        OBVIOUS
      <4> HIDE DEF x, s
      <4>3. j - 1 \in Nat \ {0} /\ ~Circles(j - 1, d[2], defs)
        BY <2>1, <4>1, <4>2, CirclesLess
      <4>4. (h - 1) * k + (j - 1) <= n
        <5> DEFINE a == (h - 1) * k
        <5>1. a \in Nat /\ a + j <= n + 1
          BY <1>0
        <5> HIDE DEF a
        <5>2. a + (j - 1) <= n
          BY <5>1
        <5> QED  BY <5>2 DEF a
      <4>5. Room(n, h, j - 1, d)
        <5> HIDE DEF Fine
        <5> QED  BY <3>2, <4>1, <4>2, <4>3, <4>4
      <4> HIDE DEF Room
      <4> QED  BY <1>2, <3>1, <4>3, <4>5
    <3>4. CASE d \in Below(x, s)
      <4>1. d[1] \in Inside(x)
        BY <2>1, <3>4, BelowChecks
      <4>2. ~Nests(h, x)
        OBVIOUS
      <4> HIDE DEF x
      <4>3. h - 1 \in Nat \ {0} /\ ~Nests(h - 1, d[1])
        BY <2>1, <4>1, <4>2, NestsLess
      <4>4. ((h - 1) - 1) * k + k <= n /\ n # 0
        <5> DEFINE a == (h - 1) * k
                   b == ((h - 1) - 1) * k
        <5>1. a \in Nat /\ b \in Nat /\ a + j <= n + 1
          BY <1>0, <4>3
        <5>2. a = b + k
          <6>1. h \in Int /\ k \in Int
            OBVIOUS
          <6> QED  BY <6>1
        <5> HIDE DEF a, b
        <5>3. b + k <= n /\ n # 0
          BY <5>1, <5>2
        <5> QED  BY <5>3 DEF b
      <4>5. d \in Reached(defs)[<<n, d>>]
        <5>1. n - 1 \in Nat /\ (n - 1) + 1 = n
          BY <4>4
        <5>2. d \in Reached(defs)[<<(n - 1) + 1, d>>]
          BY <3>1, <4>4, <5>1, ReachedFrom
        <5> QED  BY <5>1, <5>2
      <4>6. ~Circles(k, d[2], defs)
        BY <3>2, <4>5
      <4>7. Room(n, h - 1, k, d)
        <5> HIDE DEF Fine
        <5> QED  BY <3>2, <4>3, <4>4, <4>6
      <4> HIDE DEF Room
      <4> QED  BY <1>2, <3>1, <4>3, <4>7
    <3> QED  BY <2>5, <3>3, <3>4 DEF LeadsTo
  <2>6. o \in [Calls -> Evaluations] /\ \A d \in Calls : o[d] \in Quiet
    <3>1. \A d \in Calls : Outcomes(defs)[<<n, d>>] \in Evaluations
      <4> HIDE DEF Calls
      <4> QED  BY <2>2, OutcomesSteps
    <3> HIDE DEF Calls
    <3> QED  BY <2>5, <3>1
  <2>7. ~Gap(s, defs)
    <3>1. c \in Reached(defs)[<<n + 1, c>>]
      BY ReachedFrom
    <3> QED  BY <3>1
  <2> HIDE DEF o, x, s
  <2> QED  BY <2>1, <2>4, <2>6, <2>7, OnlyGapsRaise
<1>3. Nat \subseteq S
  <2> HIDE DEF S
  <2> QED  BY <1>1, <1>2, Induct
<1>4. \A n \in Nat, h \in Nat \ {0}, j \in Nat \ {0}, c \in Checks :
        Room(n, h, j, c) => Outcomes(defs)[<<n, c>>] \in Quiet
  <2> HIDE DEF Room
  <2> QED  BY <1>3
<1> QED  BY <1>4

-----------------------------------------------------------------------------
(* The schema domain. *)

LEMMA EvaluateType ==
  ASSUME NEW request, IsRequest(request)
  PROVE  /\ AllSchemas(request.defs)
         /\ <<request.value, request.schema>> \in Checks
         /\ Evaluate(request) \in Evaluations
         /\ Evaluate(request) =
              Outcomes(request.defs)[<<RecursionLimit, <<request.value, request.schema>>>>]
<1> DEFINE c == <<request.value, request.schema>>
<1>1. AllSchemas(request.defs) /\ c \in Checks
  BY DEF IsRequest, AllSchemas
<1>2. Evaluate(request) = Outcomes(request.defs)[<<RecursionLimit, c>>]
  BY DEF Evaluate, Validate
<1> HIDE DEF c
<1>3. Evaluate(request) \in Evaluations
  BY <1>1, <1>2, LimitAssumption, OutcomesSteps
<1> QED  BY <1>1, <1>2, <1>3 DEF c

\* What the schema domain returns, by way of the outcome of the engine.
LEMMA SchemaAnswer ==
  ASSUME CallInv, Returned("schema")
  PROVE  /\ Result = RunSchemaCheck(input)
         /\ IsRequest(input)
         /\ Evaluate(input).raises \in {"nothing", "gap", "recursion"}
         /\ Evaluate(input).errors \in Seq(KnownKeywords)
         /\ Result.raises <=> input.documents # "read" \/ Evaluate(input) \notin Quiet
         /\ ~Result.raises => (Result.findings = << >> <=> Evaluate(input) \in Passing)
<1>1. Result = RunSchemaCheck(input)
  BY DEF CallInv, AnswersInput, Returned, Result
<1>2. IsRequest(input)
  BY InputsAssumption DEF CallInv, Returned
<1>3. Evaluate(input) \in Evaluations
  BY <1>2, EvaluateType
<1> DEFINE outcomeOf == Evaluate(input)
           errors == outcomeOf.errors
<1>4. Result.raises <=> input.documents # "read" \/ outcomeOf.raises # "nothing"
  BY <1>1 DEF RunSchemaCheck
<1>5. ~Result.raises =>
        Result.findings = [k \in DOMAIN errors |->
                             [rule |-> RuleOf(errors[k]),
                              severity |-> SeverityOf(RuleOf(errors[k]), input.catalogue),
                              category |-> "schema"]]
  BY <1>1, <1>4 DEF RunSchemaCheck
<1> HIDE DEF outcomeOf
<1>6. /\ outcomeOf.raises \in {"nothing", "gap", "recursion"}
      /\ errors \in Seq(KnownKeywords)
      /\ outcomeOf \in Quiet <=> outcomeOf.raises = "nothing"
      /\ outcomeOf \in Passing <=> errors = << >>
  BY <1>3 DEF outcomeOf, Evaluations, Quiet, Passing
<1> HIDE DEF errors
<1>7. ~Result.raises => DOMAIN Result.findings = DOMAIN errors
  BY <1>5
<1>8. DOMAIN errors = {} <=> errors = << >>
  <2>1. DOMAIN errors = 1..Len(errors) /\ Len(errors) \in Nat
    BY <1>6
  <2>2. Len(errors) = 0 <=> errors = << >>
    BY <1>6, EmptySeq
  <2> QED  BY <2>1, <2>2
<1>9. ~Result.raises => (Result.findings = << >> <=> errors = << >>)
  <2>1. ASSUME ~Result.raises, errors = << >>
        PROVE  Result.findings = << >>
    BY <1>5, <2>1
  <2>2. ASSUME ~Result.raises, Result.findings = << >>
        PROVE  errors = << >>
    BY <1>7, <1>8, <2>2
  <2> QED  BY <2>1, <2>2
<1> QED  BY <1>1, <1>2, <1>4, <1>6, <1>9 DEF outcomeOf, errors

\* To whatever depth one asks of JSON Schema, once it is as deep as the calls.
AcceptsExactlyValidAnyDepth ==
  Returned("schema") /\ ~Result.raises =>
    \/ \E c \in AllChecks(input.value, input.schema, input.defs) :
         PassesOver(c[2]) \/ Confuses(c[1], c[2])
    \/ \A m \in Nat : RecursionLimit <= m =>
         (Result.findings = << >> <=> ValidTo(m, input.value, input.schema, input.defs))

\* For every value and every schema, references that lead round in a circle
\* included: what validate accepts is valid, to any depth, and what it rejects
\* is valid to none; the limit on recursion never turns one into the other.
THEOREM SchemaIsExactAtAnyDepth == CallSpec => []AcceptsExactlyValidAnyDepth
<1>1. CallInv => AcceptsExactlyValidAnyDepth
  <2> SUFFICES ASSUME CallInv, Returned("schema"), ~Result.raises,
                      \A c \in AllChecks(input.value, input.schema, input.defs) :
                        ~PassesOver(c[2]) /\ ~Confuses(c[1], c[2]),
                      NEW m \in Nat, RecursionLimit <= m
               PROVE  Result.findings = << >> <=> ValidTo(m, input.value, input.schema, input.defs)
    BY DEF AcceptsExactlyValidAnyDepth
  <2> DEFINE check == <<input.value, input.schema>>
             defs == input.defs
  <2>1. /\ AllSchemas(defs) /\ check \in Checks
        /\ Evaluate(input) = Outcomes(defs)[<<RecursionLimit, check>>]
    BY SchemaAnswer, EvaluateType
  <2>2. /\ Evaluate(input) \in Quiet
        /\ Result.findings = << >> <=> Evaluate(input) \in Passing
    BY SchemaAnswer
  <2>3. \A d \in Reached(defs)[<<RecursionLimit, check>>] : ~PassesOver(d[2]) /\ ~Confuses(d[1], d[2])
    BY DEF AllChecks
  <2>4. ValidTo(m, input.value, input.schema, input.defs) = Verdicts(defs)[<<m, check>>]
    BY DEF ValidTo
  <2> HIDE DEF check, defs
  <2>5. Outcomes(defs)[<<RecursionLimit, check>>] \in Passing <=> Verdicts(defs)[<<m, check>>]
    BY <2>1, <2>2, <2>3, LimitAssumption, EngineIsRight
  <2> QED  BY <2>1, <2>2, <2>4, <2>5
<1> QED  BY <1>1, CallInvariance, PTL

\* For every value and every schema of supported keywords: the domain finds
\* nothing exactly if the value is valid.
THEOREM SchemaIsExact == CallSpec => []AcceptsExactlyValid
<1>1. AcceptsExactlyValidAnyDepth => AcceptsExactlyValid
  <2>1. RecursionLimit \in Nat /\ RecursionLimit <= RecursionLimit
    BY LimitAssumption
  <2> QED  BY <2>1 DEF AcceptsExactlyValidAnyDepth, AcceptsExactlyValid
<1> QED  BY <1>1, SchemaIsExactAtAnyDepth, PTL

\* For every value and every schema: only an unsupported keyword or type, a
\* reference that leads nowhere, or more calls than can nest keep the engine
\* from an answer.
THEOREM SchemaErrorsAreGaps == CallSpec => []OnlyGapsAreErrors
<1>1. CallInv => OnlyGapsAreErrors
  <2> SUFFICES ASSUME CallInv, Returned("schema"), input.documents = "read",
                      \A c \in AllChecks(input.value, input.schema, input.defs) :
                        ~Gap(c[2], input.defs),
                      ~TooDeep(input.value, input.schema, input.defs)
               PROVE  ~Result.raises
    BY DEF OnlyGapsAreErrors
  <2> DEFINE check == <<input.value, input.schema>>
             defs == input.defs
  <2>1. /\ AllSchemas(defs) /\ check \in Checks
        /\ Evaluate(input) = Outcomes(defs)[<<RecursionLimit, check>>]
    BY SchemaAnswer, EvaluateType
  <2>2. AllChecks(input.value, input.schema, input.defs) = Reached(defs)[<<RecursionLimit, check>>]
    BY DEF AllChecks
  <2>3. PICK h \in 1..RecursionLimit, k \in 1..RecursionLimit :
          /\ h * k <= RecursionLimit
          /\ ~Nests(h, check[1])
          /\ \A c \in Reached(defs)[<<RecursionLimit, check>>] : ~Circles(k, c[2], defs)
    BY <2>2 DEF TooDeep
  <2>4. \A c \in Reached(defs)[<<RecursionLimit, check>>] : ~Gap(c[2], defs)
    BY <2>2
  <2> HIDE DEF check, defs
  <2>5. h \in Nat \ {0} /\ k \in Nat \ {0} /\ RecursionLimit \in Nat /\ RecursionLimit # 0
    BY LimitAssumption
  <2>6. ~Circles(k, check[2], defs)
    <3>1. RecursionLimit - 1 \in Nat /\ RecursionLimit = (RecursionLimit - 1) + 1
      BY <2>5
    <3>2. check \in Reached(defs)[<<RecursionLimit, check>>]
      BY <2>1, <2>5, <3>1, ReachedFrom
    <3> QED  BY <2>3, <3>2
  <2>7. (h - 1) * k + k <= RecursionLimit
    <3>1. (h - 1) * k = h * k - k
      <4>1. h \in Int /\ k \in Int
        BY <2>5
      <4> QED  BY <4>1
    <3> DEFINE a == h * k
               b == (h - 1) * k
    <3>2. a \in Int /\ b = a - k /\ a <= RecursionLimit
      BY <2>3, <2>5, <3>1
    <3> HIDE DEF a, b
    <3>3. b + k <= RecursionLimit
      BY <2>5, <3>2
    <3> QED  BY <3>3 DEF b
  <2>8. Outcomes(defs)[<<RecursionLimit, check>>] \in Quiet
    BY <2>1, <2>3, <2>4, <2>5, <2>6, <2>7, RoomForCalls
  <2> QED  BY <2>1, <2>8, SchemaAnswer
<1> QED  BY <1>1, CallInvariance, PTL

\* For every schema: every error becomes one finding, and
\* exactly those of a missing member, a wrong type or a wrong value block.
THEOREM SchemaFindingsBlock == CallSpec => []SchemaFailuresBlock
<1>1. CallInv => SchemaFailuresBlock
  <2> DEFINE keywords == Evaluate(input).errors
  <2> SUFFICES ASSUME CallInv, Returned("schema"), ~Result.raises
               PROVE  /\ Len(Result.findings) = Len(keywords)
                      /\ \A k \in DOMAIN keywords :
                           Blocks(Result.findings[k]) <=>
                             /\ input.catalogue
                             /\ keywords[k] \in {"required", "type", "enum", "const"}
    BY DEF SchemaFailuresBlock
  <2>1. Result = RunSchemaCheck(input)
    BY DEF CallInv, AnswersInput, Returned, Result
  <2>2. Result.findings =
          [k \in DOMAIN keywords |->
             [rule |-> RuleOf(keywords[k]),
              severity |-> SeverityOf(RuleOf(keywords[k]), input.catalogue),
              category |-> "schema"]]
    BY <2>1 DEF RunSchemaCheck
  <2>3. keywords \in Seq(KnownKeywords)
    BY SchemaAnswer
  <2> HIDE DEF keywords
  <2>4. Len(Result.findings) = Len(keywords)
    BY <2>2, <2>3
  <2>5. ASSUME NEW k \in DOMAIN keywords
        PROVE  Blocks(Result.findings[k]) <=>
                 /\ input.catalogue
                 /\ keywords[k] \in {"required", "type", "enum", "const"}
    <3> DEFINE f == Result.findings[k]
    <3>1. /\ f.rule = RuleOf(keywords[k])
          /\ f.severity = SeverityOf(RuleOf(keywords[k]), input.catalogue)
      BY <2>2
    <3> HIDE DEF f
    <3>2. f.rule # Unhashable
      BY <3>1, SchemaRuleIsKnown, InputsAssumption
    <3>3. f.severity = IF /\ input.catalogue
                          /\ keywords[k] \in {"required", "type", "enum", "const"}
                       THEN "HIGH" ELSE "MEDIUM"
      BY <3>1, HighSchemaRules DEF SeverityOf
    <3>4. f.severity \in {"HIGH", "MEDIUM"}
      BY <3>3
    <3>5. Blocks(f) <=> f.severity = "HIGH"
      BY <3>2, <3>4, BlocksBySeverity
    <3> QED  BY <3>3, <3>5 DEF f
  <2> QED  BY <2>4, <2>5
<1> QED  BY <1>1, CallInvariance, PTL

\* The exit status of schema/run.py tells what the aggregator gets, but for a
\* YAML error, circular references and a missing rules.json.
THEOREM CommandsAgree == CallSpec => []CommandAgreesWithDomain
<1>1. CallInv => CommandAgreesWithDomain
  <2> DEFINE outcomeOf == Evaluate(input)
  <2> SUFFICES ASSUME CallInv, Returned("schema")
               PROVE  /\ SchemaCommand(input) = "0" => ~Result.raises /\ Result.findings = << >>
                      /\ SchemaCommand(input) = "1" =>
                           \/ Result.findings # << >>
                           \/ outcomeOf.raises = "recursion"
                           \/ input.documents = "no YAML"
                      /\ SchemaCommand(input) = "2" => Result.raises \/ ~input.catalogue
    BY DEF CommandAgreesWithDomain
  <2>1. Result = RunSchemaCheck(input)
    BY DEF CallInv, AnswersInput, Returned, Result
  <2>2. /\ input.documents \in {"read", "unreadable", "no YAML"}
        /\ outcomeOf.raises \in {"nothing", "gap", "recursion"}
        /\ outcomeOf.errors \in Seq(KnownKeywords)
    BY SchemaAnswer DEF IsRequest
  <2>3. /\ Result.raises <=> input.documents # "read" \/ outcomeOf.raises # "nothing"
        /\ ~Result.raises => DOMAIN Result.findings = DOMAIN outcomeOf.errors
    BY <2>1 DEF RunSchemaCheck
  <2> HIDE DEF outcomeOf
  <2>4. ~Result.raises => (Result.findings = << >> <=> outcomeOf.errors = << >>)
    <3> SUFFICES ASSUME ~Result.raises
                 PROVE  Result.findings = << >> <=> outcomeOf.errors = << >>
      OBVIOUS
    <3>1. Result.findings = [k \in DOMAIN outcomeOf.errors |->
            [rule |-> RuleOf(outcomeOf.errors[k]),
             severity |-> SeverityOf(RuleOf(outcomeOf.errors[k]), input.catalogue),
             category |-> "schema"]]
      BY <2>1, <2>3 DEF RunSchemaCheck, outcomeOf
    <3>2. outcomeOf.errors = << >> => Result.findings = << >>
      BY <3>1
    <3>3. Result.findings = << >> => DOMAIN outcomeOf.errors = {}
      BY <3>1
    <3>4. DOMAIN outcomeOf.errors = {} => outcomeOf.errors = << >>
      <4> DEFINE errors == outcomeOf.errors
      <4>1. errors \in Seq(KnownKeywords)
        BY <2>2
      <4> HIDE DEF errors
      <4>2. DOMAIN errors = {} => Len(errors) = 0
        BY <4>1, LenProperties
      <4>3. Len(errors) = 0 => errors = << >>
        BY <4>1, EmptySeq
      <4> QED  BY <4>2, <4>3 DEF errors
    <3> QED  BY <3>2, <3>3, <3>4
  <2>5. SchemaCommand(input) =
          IF input.documents = "no YAML" THEN "1"
          ELSE IF \/ input.documents = "unreadable"
                  \/ ~input.catalogue
                  \/ outcomeOf.raises = "gap"
          THEN "2"
          ELSE IF outcomeOf.raises = "nothing" /\ outcomeOf.errors = << >> THEN "0" ELSE "1"
    BY DEF SchemaCommand, outcomeOf
  <2> QED  BY <2>2, <2>3, <2>4, <2>5
<1> QED  BY <1>1, CallInvariance, PTL

==============================================================================
