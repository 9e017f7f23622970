---------------------------- MODULE MCGateEngine ----------------------------
(* GateEngine on lists of at most MaxResults results. *)
EXTENDS GateEngine

CONSTANT MaxResults

MCInit ==
  /\ policy \in Policies
  /\ results \in UNION {[1..n -> Results] : n \in 0..MaxResults}
  /\ index = 1
  /\ actions = {}
  /\ reasons = << >>
  /\ decision = "none"

MCSpec == MCInit /\ [][Next]_vars

=============================================================================
