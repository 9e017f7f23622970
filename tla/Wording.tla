------------------------------ MODULE Wording ------------------------------
(* Python's str.upper on the words that registries, tools and policies use. *)

LowerCase ==
  [allow |-> "ALLOW", warn |-> "WARN", block |-> "BLOCK", fail |-> "FAIL", info |-> "INFO",
   critical |-> "CRITICAL", high |-> "HIGH", medium |-> "MEDIUM", low |-> "LOW",
   active |-> "ACTIVE", partial |-> "PARTIAL"]

\* A word without a lower-case letter, or that no test compares with, is kept.
Upper(text) == IF text \in DOMAIN LowerCase THEN LowerCase[text] ELSE text

=============================================================================
