------------------------------ MODULE SkipFields ------------------------------
(***************************************************************************)
(* Documents whose schemas are the trees of SkipAbsent: what               *)
(* --skip-json-path and --skip-json-path-if-absent change of a verdict     *)
(* (internal/validator/validator.go).                                      *)
(***************************************************************************)
EXTENDS Documents, SkipAbsent

\* A path of a pattern has a segment: "/" is refused (parseJSONPathMatcher).
TreesAssumption ==
  \A c \in Cases :
    /\ \A d \in c.docs : \A b \in {d.body, d.after.body} : IsSchema(b.schema) /\ IsValue(b.value)
    /\ \A o \in c.options : \A m \in o.skipPaths : Len(m.path) \in Nat \ {0}
ASSUME TreesAssumption

\* What is wrong with b for a schema that was found; the paths in `stripped`
\* are taken out before anything looks at the value.
BodyVerdict(b, stripped, absent, skipCEL) ==
  LET v == Strip(b.value, stripped)
  IN  IF ~Accepts(b.schema, v, absent) \/ (b.badMetadata /\ b.apiVersion # PluginAPI) \/ b.notAdmitted
      THEN Invalid("schema-violation")
      ELSE IF b.celFault /\ ~skipCEL /\ ~HasSkippedAbsentPath(v, absent)
           THEN Invalid("cel-violation")
           ELSE Valid

-----------------------------------------------------------------------------
\* The verdict is that of the schema alone.
OfSchema ==
  /\ next # "validate" /\ IsApplied /\ ~KindSkipped(Applied, options) /\ ~SkippedAsWritten
  /\ "" \notin {Applied.apiVersion, Applied.kind} /\ Applied.named /\ Applied.found = "yes"
  /\ ~Applied.badMetadata /\ ~Applied.notAdmitted

Passes == verdict # Invalid("schema-violation")
Absent == PathsFor(Applied, options.absentPaths)

\* What --skip-json-path leaves of the value.
Remaining == Strip(Applied.value, PathsFor(Applied, options.skipPaths))

(***************************************************************************)
(* "Only the missing-field error is skipped" (docs/manifests-validation.md *)
(* :170): what --skip-json-path leaves of a document that passes satisfies *)
(* its schema without the requirements the patterns name; a field that was *)
(* removed is as absent as one never written. For schemas without `not`    *)
(* and `if`, whose conditions are decided before anything is skipped, and  *)
(* where no three oneOfs lie one in the other: what is ambiguous in the    *)
(* innermost counts as a match of the second, which then fails instead of  *)
(* matching.                                                               *)
(***************************************************************************)
NothingElseForgiven ==
  OfSchema /\ Passes /\ Unconditional(Applied.schema) /\ OneOfsNestedTwice(Applied.schema) =>
    Satisfies(Applied.schema, Remaining, Absent)

(***************************************************************************)
(* And every such document passes, where no alternative of an anyOf or a   *)
(* oneOf has a oneOf of its own.                                           *)
(***************************************************************************)
ForgivesEveryAbsence ==
  /\ OfSchema /\ Unconditional(Applied.schema) /\ PlainAlternatives(Applied.schema)
  /\ Satisfies(Applied.schema, Remaining, Absent)
  => Passes

(***************************************************************************)
(* "If the field is present, its value is still validated against the      *)
(* schema and CEL rules" (docs/manifests-validation.md:171): where every   *)
(* path is there the patterns change nothing, CEL rules included.          *)
(***************************************************************************)
PresentStillChecked ==
  next # "validate" /\ IsApplied /\ (\A path \in Absent : PathExists(Remaining, path)) =>
  verdict = VerdictOn(doc, [options EXCEPT !.absentPaths = {}])
=============================================================================
