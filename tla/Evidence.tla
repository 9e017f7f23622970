------------------------------ MODULE Evidence ------------------------------
(***************************************************************************)
(* The inputs part of the evidence chain: which files a gate run reads,    *)
(* which of them it hashes afterwards (src/core/evidence.py, called at     *)
(* src/cli.py:261-280), and what a reviewer may conclude from the digests  *)
(* although other processes (an editor, a checkout, a second job in the    *)
(* same workspace) change the files in the meantime.                       *)
(*                                                                         *)
(* A digest stands for the content it was computed from.                   *)
(***************************************************************************)
EXTENDS Naturals, Sequences

CONSTANTS
  Files,     \* the paths a run may touch
  Contents,  \* what a file may contain
  Absent,    \* what a path holds where there is no file
  NoFile,    \* no path
  Calls      \* how run_gate_check may be called

States == Contents \cup {Absent}

\* Which path plays which part. The policy directory is its files: those that
\* hash_directory looks for (*.rego) and the JSON and YAML files beside them.
ASSUME EvidenceAssumption ==
  /\ Absent \notin Contents
  /\ NoFile \notin Files
  /\ Calls \subseteq [policy : Files, spec : Files, registries : SUBSET Files,
                      rego : SUBSET Files, data : SUBSET Files,
                      ruleset : SUBSET Files, targets : SUBSET Files]

VARIABLES
  call,      \* the paths of this run
  disk,      \* what each path holds now
  stage,     \* what the run is doing, an index into Stages
  left,      \* the files that this stage has yet to read or to hash
  seen,      \* the contents that validators have read from each path
  held,      \* the contents that each path has had since it was first read
  broken,    \* a tool did not run, or failed: its domain is in ERROR
  decision,  \* the gate action
  probed,    \* the file that hash_file has found and not yet opened
  evidence,  \* the digests taken so far
  exit       \* "running", "saved" or "stopped"

vars == <<call, disk, stage, left, seen, held, broken, decision, probed, evidence, exit>>

-----------------------------------------------------------------------------
(* The order of things. *)

\* The reads, validator by validator, then the decision, then the digests in
\* the order of the dictionary, then save_chain.
Stages == <<"policy", "registries", "spectral", "opa", "targets", "decide",
            "spec_hash", "registry_hashes", "opa_policy_dir_hash", "ruleset_hash", "save">>

Running == exit = "running"

At(s) == Running /\ Stages[stage] = s

Tools == {"spectral", "opa"}

Reading == {"policy", "registries", "targets"} \cup Tools

Hashing == {"spec_hash", "registry_hashes", "opa_policy_dir_hash", "ruleset_hash"}

Present(fs) == {f \in fs : disk[f] # Absent}

\* Slip: the policy directory has no digest, only its path is kept.
PathOnly(c, s) ==
  CASE s = "spec_hash" -> {c.spec} [] s = "registry_hashes" -> c.registries
    [] s = "ruleset_hash" -> c.ruleset [] OTHER -> {}

\* The files that a digest of this field is made of; the policy directory is
\* listed (rglob) when its turn comes.
ToHash(c, s) ==
  CASE s = "spec_hash"           -> {c.spec}
    [] s = "registry_hashes"     -> c.registries
    [] s = "opa_policy_dir_hash" -> Present(c.rego)
    [] s = "ruleset_hash"        -> c.ruleset
    [] OTHER                     -> {}

\* The files that this validator reads.
ToRead(c, s) ==
  CASE s = "policy"     -> {c.policy}
    [] s = "registries" -> c.registries
    [] s = "spectral"   -> {c.spec} \cup c.ruleset
    [] s = "opa"        -> {c.spec} \cup c.rego \cup c.data
    [] s = "targets"    -> c.targets
    [] OTHER            -> {}

Init ==
  /\ call \in Calls
  /\ disk \in [Files -> States]
  /\ stage = 1
  /\ left = {call.policy}
  /\ seen = [f \in Files |-> {}]
  /\ held = [f \in Files |-> {}]
  /\ broken = FALSE
  /\ decision = "none"
  /\ probed = NoFile
  /\ evidence = {}
  /\ exit = "running"

Enter(n) ==
  /\ stage' = n
  /\ left' = ToRead(call, Stages[n]) \cup ToHash(call, Stages[n])

-----------------------------------------------------------------------------
(* The validators. *)

\* A validator reads one of its files. An absent one is read as absent: a
\* registry is skipped with a warning, a policy directory has one file less.
Read(f) ==
  /\ Running
  /\ Stages[stage] \in Reading
  /\ f \in left
  /\ left' = left \ {f}
  /\ seen' = [seen EXCEPT ![f] = @ \cup {disk[f]}]
  /\ held' = [held EXCEPT ![f] = @ \cup {disk[f]}]
  /\ UNCHANGED <<call, disk, stage, broken, decision, probed, evidence, exit>>

\* A tool is missing, hangs, or breaks off before it has read everything.
ToolBreaks ==
  /\ Running
  /\ Stages[stage] \in Tools
  /\ broken' = TRUE
  /\ Enter(stage + 1)
  /\ UNCHANGED <<call, disk, seen, held, decision, probed, evidence, exit>>

\* Everything was read, or hashed: on to the next stage.
Advance ==
  /\ Running
  /\ Stages[stage] \in Reading \cup Hashing
  /\ left = {}
  /\ Enter(stage + 1)
  /\ UNCHANGED <<call, disk, seen, held, broken, decision, probed, evidence, exit>>

\* Slip: a domain in ERROR is left to the policy.
DecideAnyhow ==
  /\ At("decide")
  /\ decision' \in {"ALLOW", "WARN", "BLOCK"}
  /\ Enter(stage + 1)
  /\ UNCHANGED <<call, disk, seen, held, broken, probed, evidence, exit>>

\* The decision, of which only this matters: ERROR is never released
\* (theorem SuccessMeansEvaluated of GateCheckProofs).
Decide ==
  /\ At("decide")
  /\ decision' \in IF broken THEN {"BLOCK"} ELSE {"ALLOW", "WARN", "BLOCK"}
  /\ Enter(stage + 1)
  /\ UNCHANGED <<call, disk, seen, held, broken, probed, evidence, exit>>

-----------------------------------------------------------------------------
(* The digests. *)

Entry(f, content) == [field |-> Stages[stage], file |-> f, digest |-> content]

\* hash_file asks is_file. If there is none, the path is kept with None (in
\* the directory's digest: with an empty string); otherwise it is opened next.
Probe(f) ==
  /\ Running
  /\ Stages[stage] \in Hashing
  /\ probed = NoFile
  /\ f \in left
  /\ IF disk[f] = Absent
     THEN /\ evidence' = evidence \cup {Entry(f, Absent)}
          /\ left' = left \ {f}
          /\ UNCHANGED probed
     ELSE /\ probed' = f
          /\ UNCHANGED <<evidence, left>>
  /\ UNCHANGED <<call, disk, stage, seen, held, broken, decision, exit>>

\* The file is opened and its bytes are hashed.
Hash(f) ==
  /\ probed = f
  /\ Running
  /\ disk[f] # Absent
  /\ evidence' = evidence \cup {Entry(f, disk[f])}
  /\ left' = left \ {f}
  /\ probed' = NoFile
  /\ UNCHANGED <<call, disk, stage, seen, held, broken, decision, exit>>

\* The chain is complete and is written to the evidence file.
Save ==
  /\ At("save")
  /\ exit' = "saved"
  /\ UNCHANGED <<call, disk, stage, left, seen, held, broken, decision, probed, evidence>>

\* The run ends without evidence: a file vanished between is_file and open, a
\* registry cannot be parsed, the job is cancelled.
Stop ==
  /\ Running
  /\ exit' = "stopped"
  /\ UNCHANGED <<call, disk, stage, left, seen, held, broken, decision, probed, evidence>>

-----------------------------------------------------------------------------
\* Somebody else writes, replaces, creates or removes a file.
Change(f) ==
  /\ Running
  /\ \E content \in States \ {disk[f]} :
       /\ disk' = [disk EXCEPT ![f] = content]
       /\ held' = [held EXCEPT ![f] = IF @ = {} THEN @ ELSE @ \cup {content}]
  /\ UNCHANGED <<call, stage, left, seen, broken, decision, probed, evidence, exit>>

GateStep ==
  \/ \E f \in Files : Read(f) \/ Probe(f) \/ Hash(f)
  \/ ToolBreaks
  \/ Advance
  \/ Decide
  \/ Save
  \/ Stop

Next == GateStep \/ \E f \in Files : Change(f)

Spec == Init /\ [][Next]_vars

-----------------------------------------------------------------------------
(* Properties. *)

Entries == [field : Hashing, file : Files, digest : States]

\* Every variable ranges over what its comment says.
TypeOK ==
  /\ call \in Calls
  /\ disk \in [Files -> States]
  /\ stage \in 1..Len(Stages)
  /\ left \subseteq Files
  /\ seen \in [Files -> SUBSET States]
  /\ held \in [Files -> SUBSET States]
  /\ broken \in BOOLEAN
  /\ decision \in {"none", "ALLOW", "WARN", "BLOCK"}
  /\ probed \in Files \cup {NoFile}
  /\ evidence \subseteq Entries
  /\ exit \in {"running", "saved", "stopped"}

Digests(field, f) == {e.digest : e \in {x \in evidence : x.field = field /\ x.file = f}}

\* The path has held one content since a validator first read it.
Quiet(f) == \E content \in States : held[f] = {content}

\* "this is what a reviewer actually verifies the decision against"
\* (src/cli.py:265-267): in a saved chain whose decision releases, the spec,
\* every registry and the ruleset have a digest (None where there was no
\* file), it is of a content that the path had since a validator first read
\* it, and if the path did not change it is of the one content that every
\* validator read.
ReleaseNamesWhatWasRead ==
  exit = "saved" /\ decision # "BLOCK" =>
    \A field \in Hashing \ {"opa_policy_dir_hash"} : \A f \in ToHash(call, field) :
      \E content \in held[f] :
        /\ Digests(field, f) = {content}
        /\ Quiet(f) => seen[f] = {content}

\* hash_directory "makes that difference visible": if the Rego files did not
\* change since OPA read them, the directory's digest is made of exactly the
\* Rego files that OPA evaluated, each in the content that OPA evaluated.
PolicyHashNamesRego ==
  exit = "saved" /\ decision # "BLOCK" /\ (\A f \in call.rego : Quiet(f)) =>
    \A f \in Files : \A content \in States :
      [field |-> "opa_policy_dir_hash", file |-> f, digest |-> content] \in evidence
        <=> f \in call.rego /\ content # Absent /\ content \in seen[f]

=============================================================================
