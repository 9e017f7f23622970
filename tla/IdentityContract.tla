-------------------------- MODULE IdentityContract --------------------------
(***************************************************************************)
(* run_check of validators/identity_contract/validate_identity_contract.py *)
(* on the checkout of a Studio: two checks of its Python sources, one of   *)
(* its OpenAPI document, and what is left of their reasons if one crashes. *)
(*                                                                         *)
(* A source is a record of where it lies and of how many nodes of its      *)
(* syntax tree a check objects to; a reason names its check and, for a     *)
(* source, the node.                                                       *)
(***************************************************************************)
EXTENDS Naturals

\* place: its directories within the checkout; code: how it reads.
Places == {"own", "vendored", "auth_core", "decoy"}
Codes == {"parses", "syntax error", "null bytes"}
Sources == [place : Places, code : Codes, scopes : Nat, verifies : Nat]

\* An operation of an OpenAPI document, and the document: whether it can be
\* read, its own security, its operations.
Security == {"absent", "none", "required"}
Operations == [security : Security, responses : SUBSET Nat]
Specs ==
  [kind : {"none", "no yaml", "unparsable", "not mapping"}, security : {"absent"}, operations : {{}}]
  \cup [kind : {"mapping"}, security : Security, operations : SUBSET Operations]

\* A checkout: whether it lies below a directory that _is_excluded knows, its
\* sources, and what openapi.yaml and openapi.yml are.
Trees == [below_excluded : BOOLEAN, files : SUBSET Sources, yaml : Specs, yml : Specs]

Crash == [crashed |-> TRUE, reasons |-> {}]
Found(reasons) == [crashed |-> FALSE, reasons |-> reasons]

-----------------------------------------------------------------------------
(* The two checks of the sources. *)

\* _is_excluded looks at the whole path, the part above the checkout as well.
Excluded(tree, f) == tree.below_excluded \/ f.place = "vendored"

SourceFiles(tree) == {f \in tree.files : ~Excluded(tree, f)}

\* The nodes that a check objects to, or one reason for a source that does
\* not parse.
Objections(f, check) ==
  {<<check, f, node>> : node \in 1..(IF f.code = "parses" THEN f[check] ELSE 1)}

\* ast.parse of Python 3.10 rejects null bytes with a ValueError, which
\* neither check expects.
CheckFiles(files, check) ==
  IF \E f \in files : f.code = "null bytes" THEN Crash
  ELSE Found(UNION {Objections(f, check) : f \in files})

\* claims["scopes"] or claims.get("scopes") is read.
CheckDeprecatedScopes(tree) == CheckFiles(SourceFiles(tree), "scopes")

\* Slip: the name of the package anywhere in the path is enough.
ExemptBySubstring(f) == f.place \in {"auth_core", "decoy"}

\* A directory is named exactly cloudforge_auth_core.
Exempt(f) == f.place = "auth_core"

\* jwt.decode is called or a PyJWKClient made, outside the one package.
CheckNoReimplementation(tree) ==
  CheckFiles({f \in SourceFiles(tree) : ~Exempt(f)}, "verifies")

-----------------------------------------------------------------------------
(* The check of the OpenAPI document. *)

\* `security` of the operation, even an empty one, before that of the
\* document.
RequiresAuth(operation, global) ==
  (IF operation.security = "absent" THEN global ELSE operation.security) = "required"

Undeclared(spec) ==
  {o \in spec.operations : RequiresAuth(o, spec.security) /\ ~({401, 403} \subseteq o.responses)}

\* A document that cannot be parsed is one reason, one that is no mapping (or
\* has responses that are none) crashes; without one there is nothing to say.
CheckOpenapi(spec) ==
  CASE spec.kind = "none"        -> Found({})
    [] spec.kind \in {"no yaml", "unparsable"} -> Found({<<"openapi", spec.kind>>})
    [] spec.kind = "not mapping" -> Crash
    [] OTHER                     -> Found({<<"openapi", o>> : o \in Undeclared(spec)})

\* openapi.yaml is looked at before openapi.yml, and only one of them.
SpecOf(tree) == IF tree.yaml.kind # "none" THEN tree.yaml ELSE tree.yml

-----------------------------------------------------------------------------
\* A crash in any of them leaves one reason, whatever was found before.
RunCheck(tree) ==
  LET checks  == {CheckDeprecatedScopes(tree), CheckNoReimplementation(tree),
                  CheckOpenapi(SpecOf(tree))}
      reasons == UNION {c.reasons : c \in checks}
  IN  IF \E c \in checks : c.crashed THEN [action |-> "BLOCK", reasons |-> {<<"crash">>}]
      ELSE [action |-> IF reasons # {} THEN "BLOCK" ELSE "PASS", reasons |-> reasons]

=============================================================================
