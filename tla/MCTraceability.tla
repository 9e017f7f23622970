--------------------------- MODULE MCTraceability ---------------------------
(***************************************************************************)
(* Traceability with one rule of any kind beside a second, simpler one, or *)
(* one without an id, and catalogues of at most two entries.               *)
(***************************************************************************)
EXTENDS Traceability

CONSTANTS
  r1, r2,  \* two rules
  q1, q2   \* two requirements

MCRules == {r1, r2}

MCRequirements == {q1, q2}

MCWords == {"CRITICAL", "HIGH", "MEDIUM", "LOW", "FAIL", "WARN", "INFO", "fail", "active",
            "ACTIVE", "draft", "NOT_COVERED", "COVERED", "partial", "PARTIAL"}

AnyRule ==
  [severity : {Absent, "CRITICAL"}, gate_behavior : {Absent, "fail", "WARN"},
   status : {Absent, "active", "draft"},
   coverage_status : {Absent, "NOT_COVERED", "COVERED", "partial"},
   coverage_reason : BOOLEAN, requirement_id : {q1, q2, NoId}]

PlainRule ==
  [severity : {"HIGH"}, gate_behavior : {"FAIL"}, status : {Absent},
   coverage_status : {Absent}, coverage_reason : {FALSE},
   requirement_id : {q2, NoId, Unhashable}]

MCRegistries ==
  {[id \in {} |-> NoId]} \cup
  {[id \in {r1, other} |-> IF id = r1 THEN a ELSE b] :
     a \in AnyRule, b \in PlainRule, other \in {r2, NoId}}

CatalogueEntry == [id : {q1, q2, NoId}, mandatory : BOOLEAN]

MCCatalogues ==
  {[kind |-> k, entries |-> << >>] : k \in {"missing", "unreadable"}} \cup
  {[kind |-> "requirements", entries |-> es] : es \in UNION {[1..n -> CatalogueEntry] : n \in 0..2}}

MCInit ==
  /\ registry \in MCRegistries
  /\ catalogue \in MCCatalogues
  /\ StartsEmpty

MCSpec == MCInit /\ [][Next]_vars

=============================================================================
