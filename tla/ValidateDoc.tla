----------------------------- MODULE ValidateDoc -----------------------------
(***************************************************************************)
(* The verdict on one document: validateDoc (internal/validator/           *)
(* validator.go) with variable substitution (internal/substitute), and     *)
(* what `flux-schema build` makes of the same document.                    *)
(*                                                                         *)
(* A document says whether it decodes ("yes", "no", or to nothing,         *)
(* "empty"), whether a "$" occurs in it, whether its metadata opts out of  *)
(* substitution, its body, and what substitution makes of it: another      *)
(* body, or the reason it fails. A body has an apiVersion and a kind (""   *)
(* when missing), may be named, says what Resolve finds for it (`found`,   *)
(* `schema`), has the value the schema sees, and whether its metadata, the *)
(* admission extensions and the CEL rules find fault with it.              *)
(***************************************************************************)
CONSTANT
  JudgeBySchema(_, _, _, _)    \* the verdict on a body whose schema was found,
                               \* less some paths, where others may be absent,
                               \* with or without CEL

PluginAPI == "plugin"     \* an apiVersion whose group is a Flux plugin's

\* A verdict with the status "none": the document is dropped.
Nothing == [status |-> "none", reason |-> ""]
Valid == [status |-> "valid", reason |-> ""]
Invalid(reason) == [status |-> "invalid", reason |-> reason]
Skipped(reason) == [status |-> "skipped", reason |-> reason]

\* skipKindMatcher and skipPathMatcher: what a pattern leaves out matches all.
Selects(m, b) == m.kind \in {"", b.kind} /\ m.apiVersion \in {"", b.apiVersion}

KindSkipped(b, o) == \E m \in o.skipKinds : Selects(m, b)

\* The paths of the patterns ms that are about b.
PathsFor(b, ms) == {m.path : m \in {n \in ms : Selects(n, b)}}

\* Substituter.Applies
Applies(d, o) == o.envsubst /\ d.dollar /\ ~d.optOut

SchemaNotFound(o) ==
  IF o.skipMissing THEN Skipped("schema-not-found") ELSE Invalid("schema-not-found")

\* Fault: the identity is looked at before the skip patterns.
JudgeIdentityFirst(b, o) ==
  IF "" \in {b.apiVersion, b.kind}
  THEN IF o.skipMissing THEN Skipped("schema-not-found") ELSE Invalid("schema-violation")
  ELSE IF ~b.named /\ b.apiVersion # PluginAPI THEN Invalid("schema-violation")
  ELSE IF KindSkipped(b, o) THEN Skipped("kind-skipped")
  ELSE IF b.found = "error" THEN Invalid("schema-load-error")
  ELSE IF b.found = "no" THEN SchemaNotFound(o)
  ELSE JudgeBySchema(b, PathsFor(b, o.skipPaths), PathsFor(b, o.absentPaths), o.skipCEL)

\* The checks on a document as it will be applied, in their order.
Judge(b, o) ==
  IF KindSkipped(b, o) THEN Skipped("kind-skipped")
  ELSE IF "" \in {b.apiVersion, b.kind}
  THEN IF o.skipMissing THEN Skipped("schema-not-found") ELSE Invalid("schema-violation")
  ELSE IF ~b.named /\ b.apiVersion # PluginAPI THEN Invalid("schema-violation")
  ELSE IF b.found = "error" THEN Invalid("schema-load-error")
  ELSE IF b.found = "no" THEN SchemaNotFound(o)
  ELSE JudgeBySchema(b, PathsFor(b, o.skipPaths), PathsFor(b, o.absentPaths), o.skipCEL)

\* validateDoc
VerdictOn(d, o) ==
  CASE d.decodes = "no" -> Invalid("yaml-parse-error")
    [] d.decodes = "empty" -> Nothing
    [] d.decodes = "yes" /\ ~Applies(d, o) -> Judge(d.body, o)
    [] d.decodes = "yes" /\ Applies(d, o) ->
         IF KindSkipped(d.body, o) THEN Skipped("kind-skipped")
         ELSE IF d.after.fails # "" THEN Invalid(d.after.fails)
         ELSE Judge(d.after.body, o)

-----------------------------------------------------------------------------
(* Substituter.Bytes, as buildCmdRun calls it: the document that is         *)
(* printed, or the reason none is.                                          *)

Printed(d) == [fails |-> "", doc |-> d]
Refused(d, reason) == [fails |-> reason, doc |-> d]

\* What Apply returns: no "$" is left for another substitution to read.
Substituted(d) ==
  IF d.decodes = "empty" THEN Printed([d EXCEPT !.dollar = FALSE])
  ELSE IF d.after.fails # "" THEN Refused(d, d.after.fails)
  ELSE Printed([d EXCEPT !.body = d.after.body, !.dollar = FALSE])

\* Fault: the opt-out of a resource is not looked at.
RenderedAlways(d, o) ==
  IF ~(o.envsubst /\ d.dollar) THEN Printed(d)
  ELSE IF d.decodes = "no" THEN Refused(d, "yaml-parse-error")
  ELSE Substituted(d)

Rendered(d, o) ==
  IF ~(o.envsubst /\ d.dollar) THEN Printed(d)
  ELSE IF d.decodes = "no" THEN Refused(d, "yaml-parse-error")
  ELSE IF ~Applies(d, o) THEN Printed(d)
  ELSE Substituted(d)
=============================================================================
