------------------------------- MODULE Scans -------------------------------
(***************************************************************************)
(* The scans of the last two domains: run_security_scan for one file,      *)
(* run_governance_scan for a directory tree.                               *)
(***************************************************************************)
EXTENDS Naturals, Sequences, SequencesExt

Fields == {"owner", "classification", "version"}

-----------------------------------------------------------------------------
(* Security. *)

\* A line is the set of the patterns that it matches.
SecurityTargets == [kind : {"missing", "directory", "no yaml", "file"}, lines : Seq(SUBSET STRING)]

\* One finding for every line and every pattern it matches.
SecretLines(lines) ==
  UNION {{[line |-> n, pattern |-> p] : p \in lines[n]} : n \in DOMAIN lines}

\* A target that does not exist, is a directory, or is no YAML is an ERROR.
SecurityScan(target) ==
  IF target.kind # "file" THEN [status |-> "ERROR", findings |-> {}]
  ELSE LET found == SecretLines(target.lines)
       IN  [status |-> IF found = {} THEN "PASS" ELSE "FAIL", findings |-> found]

-----------------------------------------------------------------------------
(* Governance. *)

\* A key of a document that holds fields, or is not there.
Part == {<< >>} \cup {<<fields>> : fields \in SUBSET Fields}

Documents ==
  [directory : {"own", "hidden", "venv", "governance"},
   kind : {"mapping", "no mapping", "unreadable"},
   info : Part, metadata : Part, root : SUBSET Fields]

GovernanceTargets ==
  [target : [kind : {"missing", "file", "directory"}, documents : SUBSET Documents],
   cwd : SUBSET Documents]

\* os.walk does not descend into .git and the like, venv, and any directory
\* with "governance" in its name.
LeftOut(directory) == directory \in {"hidden", "venv", "governance"}

\* Slip: the places are merged.
Merged(document) == UNION ToSet(document.info \o document.metadata \o <<document.root>>)

\* The fields under "info" (<<fields>>, or << >> without that key), else under
\* "metadata", else at the root; a value that is no mapping has no fields.
Metadata(document) == Head(document.info \o document.metadata \o <<document.root>>)

\* A document that cannot be read, and one that is no mapping, is passed over.
MissingFields(document) ==
  IF document.kind # "mapping" THEN {} ELSE Fields \ Metadata(document)

\* A target that does not exist is replaced by the working directory, and
\* os.walk finds nothing in a target that is a file.
GovernanceScan(target, cwd) ==
  LET walked == CASE target.kind = "missing" -> cwd
                  [] target.kind = "file"    -> {}
                  [] OTHER                   -> target.documents
  IN  {f \in [document : {d \in walked : ~LeftOut(d.directory)}, missing : Fields] :
         f.missing \in MissingFields(f.document)}

=============================================================================
