------------------------------ MODULE Documents ------------------------------
(***************************************************************************)
(* One document on the two ways a pipeline may take it: `flux-schema       *)
(* validate` with variable substitution, and `flux-schema build` with      *)
(* substitution piped into a `validate` without.                           *)
(***************************************************************************)
EXTENDS ValidateDoc

CONSTANT Cases     \* sets of documents, each with the options they meet

\* What of a document and of the options decides the order of the checks.
CasesAssumption ==
  \A c \in Cases :
    /\ \A d \in c.docs :
         /\ DOMAIN d = {"decodes", "dollar", "optOut", "body", "after"}
         /\ d.decodes \in {"yes", "no", "empty"}
    /\ \A o \in c.options :
         DOMAIN o = {"skipKinds", "skipMissing", "skipCEL", "envsubst", "skipPaths", "absentPaths"}
ASSUME CasesAssumption

VARIABLES
  doc, options,
  next,             \* "validate", "build", "revalidate", "done"
  verdict,          \* of `validate`
  built,            \* what `build` prints
  rebuiltVerdict    \* of `validate` on that

vars == <<doc, options, next, verdict, built, rebuiltVerdict>>

Init ==
  /\ \E c \in Cases : doc \in c.docs /\ options \in c.options
  /\ next = "validate"
  /\ verdict = Nothing /\ rebuiltVerdict = Nothing
  /\ built = Printed(doc)

Validate ==
  /\ next = "validate" /\ next' = "build"
  /\ verdict' = VerdictOn(doc, options)
  /\ UNCHANGED <<doc, options, built, rebuiltVerdict>>

\* buildCmdRun. It drops a document of comments alone before anything else,
\* which is one of those that validateDoc drops: neither gets a verdict.
Build ==
  /\ next = "build"
  /\ built' = Rendered(doc, options)
  /\ next' = IF built'.fails # "" THEN "done" ELSE "revalidate"
  /\ UNCHANGED <<doc, options, verdict, rebuiltVerdict>>

Revalidate ==
  /\ next = "revalidate" /\ next' = "done"
  /\ rebuiltVerdict' = VerdictOn(built.doc, [options EXCEPT !.envsubst = FALSE])
  /\ UNCHANGED <<doc, options, verdict, built>>

Terminated == next = "done" /\ UNCHANGED vars

Next == Validate \/ Build \/ Revalidate \/ Terminated

Spec == Init /\ [][Next]_vars

-----------------------------------------------------------------------------
(* What is applied to the cluster, where that is known.                     *)
Applied == IF Applies(doc, options) THEN doc.after.body ELSE doc.body
IsApplied == doc.decodes = "yes" /\ (Applies(doc, options) => doc.after.fails = "")

SkippedAsWritten == doc.decodes = "yes" /\ Applies(doc, options) /\ KindSkipped(doc.body, options)

(***************************************************************************)
(* docs/manifests-build.md: documents "are substituted with the same rules *)
(* as validation". What `build` prints is judged as the document was, and  *)
(* what it refuses is invalid for the same reason; but for a kind that is  *)
(* skipped as it is written, which only `validate` knows of.               *)
(***************************************************************************)
BuildThenValidateAgrees ==
  next = "done" /\ ~SkippedAsWritten =>
    verdict = IF built.fails # "" THEN Invalid(built.fails) ELSE rebuiltVerdict

(***************************************************************************)
(* A kind that is skipped, as written or as applied, is skipped whatever   *)
(* else is wrong with the document: no name, no apiVersion, an expression  *)
(* that does not evaluate, a schema that does not load.                    *)
(***************************************************************************)
SkippedKindIsSkipped ==
  next # "validate" /\ doc.decodes = "yes" =>
    /\ SkippedAsWritten => verdict = Skipped("kind-skipped")
    /\ IsApplied /\ KindSkipped(Applied, options) => verdict = Skipped("kind-skipped")
=============================================================================
