----------------------------- MODULE Transformers -----------------------------
(***************************************************************************)
(* The passes that turn the definition of a kind into a stand-alone strict *)
(* JSON Schema (internal/extractor/transformers.go), and the two pipelines *)
(* made of them: buildSchema (kubernetes.go) and the one of                *)
(* versionsFromCRD (crd.go). A pass that changes a tree in place is an     *)
(* operator from the tree before it to the tree after it.                  *)
(*                                                                         *)
(* A reference "#/definitions/X" is written as the name X, one that is     *)
(* malformed as a name that is not defined.                                *)
(***************************************************************************)
EXTENDS Kinds, Functions, TLC

PreserveKey == "x-kubernetes-preserve-unknown-fields"
IntOrStringKey == "x-kubernetes-int-or-string"

StructuralKeys ==
  {"type", "properties", "items", "required", "oneOf", "allOf", "anyOf", "not",
   "additionalProperties", "enum", "format", "pattern", "minimum", "maximum", "minLength",
   "maxLength", "minItems", "maxItems", "uniqueItems", "minProperties", "maxProperties", "multipleOf"}
CombinatorKeys == {"oneOf", "anyOf", "allOf", "not"}
ValueKeywords == {"default", "example", "enum", "const"}
SchemaNameMaps == {"properties", "patternProperties", "$defs", "definitions"}
\* Vendor extensions that keepVendorExtension does not name.
VendorHints == {IntOrStringKey, "x-kubernetes-patch-strategy", "x-kubernetes-patch-merge-key",
                "x-kubernetes-group-version-kind"}

PreservesUnknown(n) == Says(n, PreserveKey, True)

-----------------------------------------------------------------------------
(* inlineRefs                                                               *)

Cyclic == Object([type |-> Str("object")] @@ (PreserveKey :> True))
Unresolved(name) == Object([type |-> Str("object"), description |-> Str(name)])

\* Structural keys of the inlined node win, all others those of the host.
OverlaySiblings(n, host) ==
  LET won == {k \in DOMAIN host.fields \ {"$ref"} : ~(k \in StructuralKeys /\ Has(n, k))}
  IN  [n EXCEPT !.fields = [k \in DOMAIN @ \cup won |-> IF k \in won THEN At(host, k) ELSE @[k]]]

\* The type name and the description that explain shows for a reference.
Named(n, name, target) ==
  LET typed == PutNew(n, TypeKey, Str(name))
  IN  IF target.t = "object" /\ Has(target, "description") /\ At(target, "description").t = "string"
      THEN Put(typed, TypeDescriptionKey, At(target, "description"))
      ELSE typed

RECURSIVE InlineRefs(_, _, _)
InlineRefs(n, defs, visiting) ==
  IF ~(Has(n, "$ref") /\ At(n, "$ref").t = "string")
  THEN Each(n, LAMBDA k, x : InlineRefs(x, defs, visiting))
  ELSE LET name == At(n, "$ref").leaf
       IN  IF name \in visiting THEN Cyclic
           ELSE IF name \notin DOMAIN defs THEN OverlaySiblings(Unresolved(name), n)
           ELSE LET target == InlineRefs(defs[name], defs, visiting \cup {name})
                IN  IF target.t # "object" THEN target
                    ELSE OverlaySiblings(Named(target, name, defs[name]), n)

-----------------------------------------------------------------------------
InjectGVK(n) ==
  LET props == IF HasObject(n, "properties") THEN At(n, "properties") ELSE Object(<<>>)
      required == SelectSeq(IF Has(n, "required") THEN At(n, "required").items ELSE <<>>,
                            LAMBDA x : x.t = "string")
      missing == SelectSeq(<<Str("apiVersion"), Str("kind")>>, LAMBDA x : x \notin ToSet(required))
      string == Object([type |-> Str("string")])
  IN  Put(Put(n, "properties", PutNew(PutNew(props, "apiVersion", string), "kind", string)),
          "required", Array(required \o missing))

IsIntOrString(n) == Says(n, "format", Str("int-or-string")) \/ Says(n, IntOrStringKey, True)

RECURSIVE ReplaceIntOrString(_)
ReplaceIntOrString(n) ==
  IF IsIntOrString(n)
  THEN Put(Drop(n, StructuralKeys \cup {IntOrStringKey}), "oneOf",
           Array(<<Object([type |-> Str("string")]), Object([type |-> Str("integer")])>>))
  ELSE Each(n, LAMBDA k, x : ReplaceIntOrString(x))

NullBranch == Object([type |-> Str("null")])

MarkNullable(n) ==
  IF Has(n, "type") /\ At(n, "type").t \in {"string", "array"}
  THEN IF "null" \in TypesOf(n) THEN n
       ELSE Put(n, "type", Array((IF At(n, "type").t = "string" THEN <<At(n, "type")>>
                                  ELSE At(n, "type").items) \o <<Str("null")>>))
  ELSE IF Has(n, "oneOf") /\ ~\E b \in ToSet(BranchesAt(n, "oneOf")) : Says(b, "type", Str("null"))
  THEN Put(n, "oneOf", Array(Append(BranchesAt(n, "oneOf"), NullBranch)))
  ELSE n

RECURSIVE NullableOptional(_)
NullableOptional(n) ==
  LET Optional(name, p) ==
        IF p.t # "object" THEN p
        ELSE NullableOptional(IF name \in StringsAt(n, "required") THEN p ELSE MarkNullable(p))
      Pass(k, x) ==
        IF k # "properties" THEN NullableOptional(x)
        ELSE IF x.t = "object" THEN Each(x, Optional) ELSE x
  IN  IF PreservesUnknown(n) THEN n ELSE Each(n, Pass)

-----------------------------------------------------------------------------
(* closeAdditionalProperties                                                *)

RECURSIVE CloseAlsoBranches(_)
\* Fault: the branches of a combinator are closed like any schema.
CloseAlsoBranches(n) ==
  LET Closed(k, x) ==
        IF k \in ValueKeywords THEN x
        ELSE IF k \in SchemaNameMaps /\ x.t = "object"
        THEN Each(x, LAMBDA name, child : CloseAlsoBranches(child))
        ELSE CloseAlsoBranches(x)
  IN  IF PreservesUnknown(n) THEN n
      ELSE Each(IF Has(n, "properties") THEN PutNew(n, "additionalProperties", False) ELSE n, Closed)

RECURSIVE CloseAdditionalProperties(_)
\* Every child but values and the branches of combinators; a map of names is
\* passed through to what it holds.
ClosedChild(k, x) ==
  IF k \in CombinatorKeys \cup ValueKeywords THEN x
  ELSE IF k \in SchemaNameMaps /\ x.t = "object"
  THEN Each(x, LAMBDA name, child : CloseAdditionalProperties(child))
  ELSE CloseAdditionalProperties(x)

CloseAdditionalProperties(n) ==
  IF PreservesUnknown(n) THEN n
  ELSE Each(IF Has(n, "properties") THEN PutNew(n, "additionalProperties", False) ELSE n, ClosedChild)

CloseAdditionalPropertiesChildren(n) == IF PreservesUnknown(n) THEN n ELSE Each(n, ClosedChild)

-----------------------------------------------------------------------------
RECURSIVE StripVendorExtensions(_)
StripVendorExtensions(n) ==
  Each(Drop(n, VendorHints), LAMBDA k, x : StripVendorExtensions(x))

InjectExplainMetadata(n, name, gvk, resource) ==
  LET typed == PutNew(n, TypeKey, Str(name))
      known == Put(typed, GVKKey, SaysKind(gvk))
  IN  IF resource.singular = "" /\ resource.plural = "" /\ resource.short = <<>> THEN known
      ELSE Put(known, ResourceKey, Object([singular |-> Str(resource.singular),
                                           plural |-> Str(resource.plural),
                                           shortNames |-> Strs(resource.short)]))

\* A pass that drops keys of schemas, never names in a map of names.
RECURSIVE StripKeys(_, _)
StripKeys(n, ks) ==
  LET Pass(k, x) ==
        IF k \in SchemaNameMaps /\ x.t = "object" THEN Each(x, LAMBDA name, child : StripKeys(child, ks))
        ELSE StripKeys(x, ks)
  IN  Each(Drop(n, ks), Pass)

StripExplainMetadata(n) ==
  StripKeys(n, {TypeKey, TypeDescriptionKey, GVKKey, ResourceKey, AliasKey})
StripExplainLookupMetadata(n) == StripKeys(n, {GVKKey, ResourceKey, AliasKey})

RECURSIVE StripEveryDescription(_)
\* Fault: a field named "description" goes with the descriptions.
StripEveryDescription(n) ==
  Each(Drop(n, {"description", TypeDescriptionKey}), LAMBDA k, x : StripEveryDescription(x))

StripDescriptions(n) == StripKeys(n, {"description", TypeDescriptionKey})

-----------------------------------------------------------------------------
BuildSchema(name, defs) ==
  LET inlined == InlineRefs(defs[name], defs, {name})
  IN  StripVendorExtensions(CloseAdditionalProperties(
        NullableOptional(ReplaceIntOrString(InjectGVK(inlined)))))

CRDSchema(schema) == ReplaceIntOrString(CloseAdditionalPropertiesChildren(schema))
=============================================================================
