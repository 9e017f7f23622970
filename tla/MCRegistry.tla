----------------------------- MODULE MCRegistry -----------------------------
(***************************************************************************)
(* A small instance of Registry: two paths that may be listed in any order *)
(* and more than once, files of at most MaxEntries entries.                *)
(***************************************************************************)
EXTENDS Registry

CONSTANTS
  MaxPaths,    \* bound on the length of the path list
  MaxEntries   \* bound on the entries of one file

Upto(S, n) == UNION {[1..k -> S] : k \in 0..n}

MCFiles ==
  {[kind |-> k, entries |-> << >>] : k \in {"missing", "unreadable"}} \cup
  {[kind |-> "rules", entries |-> es] : es \in Upto(Entry, MaxEntries)}

MCInit ==
  /\ paths \in Upto(Paths, MaxPaths)
  /\ content \in [Paths -> MCFiles]
  /\ StartsEmpty

MCSpec == MCInit /\ [][Next]_vars

=============================================================================
