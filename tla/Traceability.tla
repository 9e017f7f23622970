---------------------------- MODULE Traceability ----------------------------
(***************************************************************************)
(* The traceability domain: load_requirements of validators/run_all.py and *)
(* check_traceability of traceability_engine.py.  Its subject is the rule  *)
(* registry itself: every rule that can block a release should map to a    *)
(* requirement of the catalogue, and every mandatory requirement to a rule.*)
(*                                                                         *)
(* The two loops run over sorted ids, which fixes the order of the         *)
(* findings and nothing else: here the order is any.                       *)
(***************************************************************************)
EXTENDS Naturals, Sequences, Resolution

CONSTANTS
  Requirements,  \* the ids of requirements
  NoId           \* Python's None: an entry without an id, a rule without a requirement

ASSUME RequirementsAssumption ==
  /\ NoId \notin Requirements \cup Rules
  /\ Unhashable \notin Requirements \cup {NoId}

\* What check_traceability looks at in a rule of the registry, and what
\* _resolve_finding does.  An empty coverage_status or requirement_id is like
\* none; a requirement_id that is a list or a mapping is Unhashable.
RuleEntry ==
  [severity : Words \cup {Absent}, gate_behavior : Words \cup {Absent},
   status : Words \cup {Absent}, coverage_status : Words \cup {Absent},
   coverage_reason : BOOLEAN, requirement_id : Requirements \cup {NoId, Unhashable}]

\* The catalogue file: not there, not readable (or not of the right shape),
\* or a list of requirements.
CatalogueFile ==
  [kind : {"missing", "unreadable", "requirements"},
   entries : Seq([id : Requirements \cup {NoId}, mandatory : BOOLEAN])]

Finding(rule, severity, about) == [rule |-> rule, severity |-> severity, about |-> about]

VARIABLES
  registry,      \* what load_registry returned
  catalogue,     \* the file at requirements_path
  requirements,  \* whether each catalogued requirement is mandatory
  phase,         \* "load", "rules", "requirements", then "done" or "raised"
  unchecked,     \* the ids that the current loop has not passed
  mapped,        \* mapped_requirement_ids
  findings       \* the findings so far

vars == <<registry, catalogue, requirements, phase, unchecked, mapped, findings>>

StartsEmpty ==
  /\ requirements = [id \in {} |-> FALSE]
  /\ phase = "load"
  /\ unchecked = {}
  /\ mapped = {}
  /\ findings = {}

Init ==
  /\ registry \in UNION {[ids -> RuleEntry] : ids \in SUBSET (Rules \cup {NoId})}
  /\ catalogue \in CatalogueFile
  /\ StartsEmpty

-----------------------------------------------------------------------------
(* The catalogue. *)

\* Slip: the first of several entries with one id is kept.
FirstEntry(entries, id) ==
  CHOOSE k \in DOMAIN entries :
    entries[k].id = id /\ \A j \in DOMAIN entries : entries[j].id = id => j >= k

\* The position of the entry that the dictionary keeps: the last one.
KeptEntry(entries, id) ==
  CHOOSE k \in DOMAIN entries :
    entries[k].id = id /\ \A j \in DOMAIN entries : entries[j].id = id => j <= k

Catalogue(entries) ==
  [id \in {entries[k].id : k \in DOMAIN entries} |-> entries[KeptEntry(entries, id)].mandatory]

\* sorted() raises when None has to be compared with a name.
Sortable(ids) == NoId \in ids => ids = {NoId}

LoadRequirements ==
  /\ phase = "load"
  /\ catalogue.kind # "unreadable"
  /\ Sortable(DOMAIN registry)
  /\ requirements' = IF catalogue.kind = "missing" THEN requirements
                     ELSE Catalogue(catalogue.entries)
  /\ phase' = "rules"
  /\ unchecked' = DOMAIN registry
  /\ UNCHANGED <<registry, catalogue, mapped, findings>>

\* An exception: the aggregator reports the domain as ERROR, without findings.
Raise ==
  /\ \/ phase = "load" /\ (catalogue.kind = "unreadable" \/ ~Sortable(DOMAIN registry))
     \/ phase = "rules" /\ \E id \in unchecked : registry[id].requirement_id = Unhashable
     \/ phase = "rules" /\ unchecked = {} /\ ~Sortable(DOMAIN requirements)
  /\ phase' = "raised"
  /\ findings' = {}
  /\ UNCHANGED <<registry, catalogue, requirements, unchecked, mapped>>

-----------------------------------------------------------------------------
(* The rules. *)

\* Slip: a rule that only warns counts as mandatory.
MandatoryUnlessInfo(rule) ==
  Upper(OrElse(rule.status, "active")) = "ACTIVE" /\ Upper(OrElse(rule.gate_behavior, "")) # "INFO"

\* _is_mandatory.
IsMandatory(rule) ==
  Upper(OrElse(rule.status, "active")) = "ACTIVE" /\ Upper(OrElse(rule.gate_behavior, "")) = "FAIL"

CoverageStatus(rule) ==
  IF rule.coverage_status # Absent THEN Upper(rule.coverage_status)
  ELSE IF rule.requirement_id # NoId THEN "COVERED" ELSE "NOT_COVERED"

\* What one turn of the first loop adds.
RuleGaps(id) ==
  LET rule == registry[id] IN
    (IF rule.requirement_id # NoId /\ rule.requirement_id \notin DOMAIN requirements
     THEN {Finding("TRC-003", "MEDIUM", id)} ELSE {})
    \cup
    (IF CoverageStatus(rule) = "PARTIAL" /\ ~rule.coverage_reason
     THEN {Finding("TRC-002", "MEDIUM", id)}
     ELSE IF CoverageStatus(rule) = "NOT_COVERED" /\ IsMandatory(rule)
          THEN {Finding("TRC-001", "HIGH", id)} ELSE {})

\* Slip: only rules that are fully covered count as mapped.
CheckRuleCoveredOnly ==
  /\ phase = "rules"
  /\ \E id \in unchecked :
       /\ registry[id].requirement_id # Unhashable
       /\ unchecked' = unchecked \ {id}
       /\ mapped' = IF CoverageStatus(registry[id]) = "COVERED"
                    THEN mapped \cup ({registry[id].requirement_id} \ {NoId}) ELSE mapped
       /\ findings' = findings \cup RuleGaps(id)
  /\ UNCHANGED <<registry, catalogue, requirements, phase>>

CheckRule ==
  /\ phase = "rules"
  /\ \E id \in unchecked :
       /\ registry[id].requirement_id # Unhashable
       /\ unchecked' = unchecked \ {id}
       /\ mapped' = mapped \cup ({registry[id].requirement_id} \ {NoId})
       /\ findings' = findings \cup RuleGaps(id)
  /\ UNCHANGED <<registry, catalogue, requirements, phase>>

-----------------------------------------------------------------------------
(* The requirements. *)

RulesChecked ==
  /\ phase = "rules"
  /\ unchecked = {}
  /\ Sortable(DOMAIN requirements)
  /\ phase' = "requirements"
  /\ unchecked' = DOMAIN requirements
  /\ UNCHANGED <<registry, catalogue, requirements, mapped, findings>>

CheckRequirement ==
  /\ phase = "requirements"
  /\ \E id \in unchecked :
       /\ unchecked' = unchecked \ {id}
       /\ findings' = findings \cup
            (IF requirements[id] /\ id \notin mapped THEN {Finding("TRC-004", "LOW", id)} ELSE {})
  /\ UNCHANGED <<registry, catalogue, requirements, phase, mapped>>

Return ==
  /\ phase = "requirements"
  /\ unchecked = {}
  /\ phase' = "done"
  /\ UNCHANGED <<registry, catalogue, requirements, unchecked, mapped, findings>>

Next ==
  \/ LoadRequirements
  \/ Raise
  \/ CheckRule
  \/ RulesChecked
  \/ CheckRequirement
  \/ Return

Spec == Init /\ [][Next]_vars

-----------------------------------------------------------------------------
(* Properties. *)

\* The variables range over what their comments say.
TypeOK ==
  /\ DOMAIN registry \subseteq Rules \cup {NoId} /\ registry \in [DOMAIN registry -> RuleEntry]
  /\ catalogue \in CatalogueFile
  /\ DOMAIN requirements \subseteq Requirements \cup {NoId}
  /\ requirements \in [DOMAIN requirements -> BOOLEAN]
  /\ phase \in {"load", "rules", "requirements", "done", "raised"}
  /\ unchecked \subseteq IF phase = "requirements" THEN DOMAIN requirements ELSE DOMAIN registry
  /\ mapped \subseteq Requirements
  /\ findings \subseteq [rule : {"TRC-001", "TRC-002", "TRC-003", "TRC-004"},
                         severity : DOMAIN DefaultGateBehavior,
                         about : Rules \cup Requirements \cup {NoId}]

\* The violations of the table in validators/traceability/README.md, as the
\* module's docstring numbers them, except that the second one is reported of
\* rules that are not mandatory, too.
Uncovered == {id \in DOMAIN registry :
                IsMandatory(registry[id]) /\ CoverageStatus(registry[id]) = "NOT_COVERED"}
Unexcused == {id \in DOMAIN registry :
                CoverageStatus(registry[id]) = "PARTIAL" /\ ~registry[id].coverage_reason}
Dangling  == {id \in DOMAIN registry :
                registry[id].requirement_id \notin DOMAIN requirements \cup {NoId}}
Unmapped  == {id \in DOMAIN requirements :
                /\ requirements[id]
                /\ \A r \in DOMAIN registry : registry[r].requirement_id = id => id = NoId}

\* The two loops find exactly the gaps of the table, each under its id and
\* severity; a requirement is unmapped only if no rule at all refers to it.
ReportIsExact ==
  phase = "done" =>
    findings = {Finding("TRC-001", "HIGH", id) : id \in Uncovered}
               \cup {Finding("TRC-002", "MEDIUM", id) : id \in Unexcused}
               \cup {Finding("TRC-003", "MEDIUM", id) : id \in Dangling}
               \cup {Finding("TRC-004", "LOW", id) : id \in Unmapped}

\* What _resolve_finding makes in production of a finding under this rule,
\* if the tool reports it with this severity.
EffectOf(id, severity) ==
  LET f == [rule |-> id, severity |-> severity, category |-> Absent]
  IN  Effective(Severity(f, registry), GateBehavior(f, registry), "production")

\* A rule that TRC-001 holds up as mandatory really blocks: whatever severity
\* its tool reports, its findings resolve to FAIL in production.  (Not the other
\* way round: a rule without gate_behavior blocks and is not mandatory.)
OnlyBlockersAreMandatory ==
  \A f \in findings : f.rule = "TRC-001" => \A s \in Words : EffectOf(f.about, s) = "FAIL"

\* Nothing in the catalogue file that is mandatory gets lost between loading
\* and the end of the second loop, except to a later entry with the same id.
MandatoryIsTraced ==
  phase = "done" /\ catalogue.kind = "requirements" =>
    \A k \in DOMAIN catalogue.entries :
      LET e == catalogue.entries[k] IN
        e.mandatory =>
          \/ \E id \in DOMAIN registry : registry[id].requirement_id = e.id
          \/ Finding("TRC-004", "LOW", e.id) \in findings
          \/ \E j \in DOMAIN catalogue.entries :
               j > k /\ catalogue.entries[j].id = e.id /\ ~catalogue.entries[j].mandatory

=============================================================================
