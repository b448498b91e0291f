------------------------------- MODULE Catalog -------------------------------
(***************************************************************************)
(* The catalog that the extract commands write, as `explain` and its shell *)
(* completion read it, and as a validator uses its schemas.                *)
(***************************************************************************)
EXTENDS WrittenCatalog, Explain, Extractor, Fields

CONSTANTS
  Ecosystem,      \* the hosted catalog
  Samples,        \* documents to validate, by kind
  Plurals         \* the plural under which the API server serves a kind

-----------------------------------------------------------------------------
(* What the parameters of ExtractCmd stand for.                             *)

\* What each tool makes of a document, in any order of its paths.
Extracted(tool, doc) ==
  CASE tool = "k8s" -> {ExtractKubernetes(doc, o) : o \in PathOrders(doc)}
    [] tool = "openshift" -> {ExtractOpenShift(doc, o) : o \in PathOrders(doc)}
    [] OTHER -> {ExtractCRDs(doc)}

StripForOutput(json, c) ==
  LET known == CASE c.explain = "full" -> json
                 [] c.explain = "types" -> StripExplainLookupMetadata(json)
                 [] OTHER -> StripExplainMetadata(json)
  IN  IF c.strip THEN StripDescriptions(known) ELSE known

RECURSIVE Validates(_, _)
\* The JSON Schema n accepts the value v.
Validates(n, v) ==
  LET props == PropertiesOf(n)
      extra == DOMAIN v.fields \ DOMAIN props
      holds(k) == {b \in DOMAIN BranchesAt(n, k) : Validates(BranchesAt(n, k)[b], v)}
  IN  /\ Has(n, "type") => v.t \in TypesOf(n)
      /\ v.t = "object" =>
           /\ StringsAt(n, "required") \subseteq DOMAIN v.fields
           /\ \A k \in DOMAIN v.fields \cap DOMAIN props : Validates(props[k], At(v, k))
           /\ Says(n, "additionalProperties", False) => extra = {}
           /\ HasObject(n, "additionalProperties") =>
                \A k \in extra : Validates(At(n, "additionalProperties"), At(v, k))
      /\ v.t = "array" /\ Has(n, "items") => \A x \in ToSet(v.items) : Validates(At(n, "items"), x)
      /\ holds("allOf") = DOMAIN BranchesAt(n, "allOf")
      /\ Has(n, "anyOf") => holds("anyOf") # {}
      /\ Has(n, "oneOf") => Cardinality(holds("oneOf")) = 1

-----------------------------------------------------------------------------
Ran == pc = "idle" /\ exits # <<>>
AllClean == Ran /\ \A k \in DOMAIN exits : exits[k] = 0

-----------------------------------------------------------------------------
(* What is on disk.                                                         *)

SchemaPaths == {p \in DOMAIN trees["dir"] : p[1] = "schema" /\ ~HasAlias(trees["dir"][p])}

\* The names that a schema with explain metadata says its kind has.
ResourceAt(p) ==
  LET root == trees["dir"][p]
      r == At(root, ResourceKey)
  IN  IF ~HasObject(root, ResourceKey) THEN NoNames
      ELSE [singular |-> At(r, "singular").leaf, plural |-> At(r, "plural").leaf,
            short |-> [k \in DOMAIN At(r, "shortNames").items |-> At(r, "shortNames").items[k].leaf]]
Known(p) == [group |-> KindAt(p).group, version |-> KindAt(p).version, kind |-> KindAt(p).kind,
             resource |-> ResourceAt(p)]
NamesAt(p) == ({p[4], ResourceAt(p).singular, ResourceAt(p).plural} \cup ToSet(ResourceAt(p).short)) \ {""}

RECURSIVE CRDsIn(_)
CRDsIn(m) == ToSet(m.crd) \cup UNION {CRDsIn(x) : x \in ToSet(m.items)}

\* The kinds that a document has a schema for.
Declared(tool, doc) ==
  CASE tool = "crd" ->
         UNION {{GVK(c.group, v.name, c.kind) : v \in {w \in ToSet(c.versions) : w.schema # <<>>}} :
                  c \in UNION {CRDsIn(d.manifest) : d \in {x \in ToSet(doc) : x.parses}}}
    [] tool = "k8s" -> UNION {ToSet(d.gvks) : d \in {x \in ToSet(doc.definitions) : IsObject(x)}}
    [] OTHER -> {d.key.gvk : d \in {x \in ToSet(doc.definitions) :
                                      IsObject(x) /\ x.key.openshift /\ x.key.parses /\ GitOpsShaped(x)}}

Skipped == SkippedKinds \cup SkippedOpenShiftKinds

\* One input, document, version or file that fails does not stop the others:
\* every other kind has its schema when the command ends (the promise in the
\* comments of ExtractCRDs, ExtractKubernetes and ExtractOpenShift).
EveryKindIsExtracted ==
  [][Ends =>
       \A i \in ToSet(cmd.inputs) :
         i.readable /\ (cmd.tool = "crd" \/ i.doc.decodes) =>
           \A g \in Declared(cmd.tool, i.doc) :
             \/ g.kind \in Skipped \/ SchemaPath(g) \in broken
             \/ SchemaPath(g) \in DOMAIN trees[Dest]]_vars

-----------------------------------------------------------------------------
(* What explain finds.                                                      *)

\* After clean runs into one directory, every name of every kind in it finds
\* it: with its version given, exactly; qualified by its group, a version of
\* it, also beside the ecosystem catalog; alone, a kind of that name. Without
\* explain metadata the kind with its version does (docs/explain.md).
NamesFind ==
  AllClean =>
    \A p \in SchemaPaths :
      LET g == KindAt(p)
          here == GroupVersion(g.group, g.version)
          SameKind == {h \in {KindAt(q) : q \in SchemaPaths} : h.group = g.group /\ h.kind = g.kind}
          Namesakes(n) == {KindAt(q) : q \in {x \in SchemaPaths : n \in NamesAt(x)}}
          Versioned(n) == {<<locs, <<n>>, here, {g}>> : locs \in {<<Dir>>, <<Ecosystem, Dir>>}}
          Grouped(n) == {<<locs, <<n>> \o Segments[g.group], AnyVersion, SameKind>> :
                           locs \in {<<Dir>>, <<Dir, Ecosystem>>}}
          Alone(n) == <<<<Dir>>, <<n>>, AnyVersion, Namesakes(n)>>
          Asked(n) == Versioned(n)
            \cup (IF HasObject(trees["dir"][p], ResourceKey)
                  THEN {Alone(n)} \cup (IF g.group = "" THEN {} ELSE Grouped(n)) ELSE {})
          Finds(r, kinds) == r.st = "found" /\ r.x \in kinds
      IN  \A n \in NamesAt(p) : \A q \in Asked(n) : Finds(ExplainResource(q[1], q[2], q[3]), q[4])

\* After one clean run, completing any beginning of any name offers the
\* canonical names of just the kinds with a name that begins so, whichever
\* shard of one or two letters it is looked up in.
CompletionFindsNames ==
  AllClean /\ Len(exits) = 1 =>
    LET kinds == {p \in SchemaPaths : HasDiscoveryResource(Known(p)) /\ CanonicalName(Known(p)) # ""}
        names == UNION {MetadataNames(Known(p)) : p \in SchemaPaths}
        prefixes == UNION {{SubSeq(n, 1, k) : k \in 0 .. Len(n)} : n \in names}
    IN  \A x \in prefixes :
          CompleteResourceNames(<<Dir>>, x) =
            {CanonicalName(Known(p)) : p \in {q \in kinds : \E n \in MetadataNames(Known(q)) : StartsWith(n, x)}}

RECURSIVE Completed(_, _, _, _)
\* The references offered below expr, down to some depth.
Completed(locs, expr, gv, depth) ==
  LET Below(es) == es \cup UNION {Completed(locs, e, gv, depth - 1) : e \in es}
  IN  IF depth = 0 THEN {} ELSE Below(CompleteFieldNames(locs, Append(expr, ""), gv))

\* Every field reference that completion offers, at any depth, is one that
\* explain describes, as a field of the kind it was asked for: both split the
\* reference into resource, group and fields and walk the schema on their own.
CompletedFieldsExplain ==
  AllClean =>
    \A p \in SchemaPaths : \A locs \in {<<Dir>>, <<Dir, Ecosystem>>} :
      \A expr \in {<<p[4]>>, <<p[4]>> \o Segments[KindAt(p).group]} :
        LET Explained(e) == ExplainResource(locs, e, AnyVersion)
            Same(r, s) == s.st = "found" /\ s.x = r.x
            Below(r) == r.st = "found" => \A e \in Completed(locs, expr, AnyVersion, 4) : Same(r, Explained(e))
        IN  Below(Explained(expr))

\* Every field in a field index is one that explain describes, its array and
\* map markers left out: fields.go and explain.go walk the schema on their own.
IndexedFieldsExplain ==
  Ran => \A p \in {q \in SchemaPaths : IndexPath(q) \in DOMAIN trees["dir"]} :
           \A f \in trees["dir"][IndexPath(p)].fields :
             RenderOutput(trees["dir"][p], SelectSeq(f, LAMBDA x : x \notin {"[]", "<key>"}))

\* A kind that the API server lists under a plural is completed by it
\* (docs/explain.md: "plural.group for grouped resources and plural for core
\* resources").
CompletesThePlural ==
  AllClean /\ Len(exits) = 1 =>
    \A p \in SchemaPaths :
      p[4] \in DOMAIN Plurals /\ HasDiscoveryResource(Known(p)) =>
        Qualified(Plurals[p[4]], KindAt(p).group) \in CompleteResourceNames(<<Dir>>, p[4])

-----------------------------------------------------------------------------
(* What the schemas accept, said of their sources, the definitions of a     *)
(* swagger document and the schemas of a CustomResourceDefinition, by the   *)
(* one rule for all commands of docs/custom-schema-catalog.md:203-223.      *)

RECURSIVE Served(_, _, _)
\* m.defs and m.visiting resolve references; m.closed: unknown fields are
\* rejected; m.nullable: optional fields may be null; m.null: this one may.
Served(n, v, m) ==
  LET name == At(n, "$ref").leaf
      free == PreservesUnknown(n)
      below == [m EXCEPT !.closed = @ /\ ~free, !.nullable = @ /\ ~free, !.null = FALSE]
      branch == [below EXCEPT !.closed = FALSE]
      props == PropertiesOf(n)
      extra == DOMAIN v.fields \ DOMAIN props
      Branches(k) == {b \in DOMAIN BranchesAt(n, k) : Served(BranchesAt(n, k)[b], v, branch)}
      nullBranch == IF m.null /\ v.t = "null" /\ ~Has(n, "type") THEN 1 ELSE 0
      Field(k) == Served(props[k], At(v, k),
                         [below EXCEPT !.null = below.nullable /\ k \notin StringsAt(n, "required")])
  IN  IF Has(n, "$ref") /\ At(n, "$ref").t = "string"
      THEN IF name \in m.visiting \/ name \notin DOMAIN m.defs THEN v.t = "object" \/ (m.null /\ v.t = "null")
           ELSE Served(m.defs[name], v, [m EXCEPT !.visiting = @ \cup {name}])
      ELSE IF IsIntOrString(n) THEN v.t \in {"string", "integer"} \/ (m.null /\ v.t = "null")
      ELSE /\ Has(n, "type") => v.t \in TypesOf(n) \/ (m.null /\ v.t = "null")
           /\ v.t = "object" =>
                /\ StringsAt(n, "required") \subseteq DOMAIN v.fields
                /\ \A k \in DOMAIN v.fields \cap DOMAIN props : Field(k)
                /\ IF HasObject(n, "additionalProperties")
                   THEN \A k \in extra : Served(At(n, "additionalProperties"), At(v, k), below)
                   ELSE extra = {} \/ ~(Says(n, "additionalProperties", False)
                                          \/ (below.closed /\ Has(n, "properties")))
           /\ v.t = "array" /\ Has(n, "items") => \A x \in ToSet(v.items) : Served(At(n, "items"), x, below)
           /\ Branches("allOf") = DOMAIN BranchesAt(n, "allOf")
           /\ Has(n, "anyOf") => Branches("anyOf") # {}
           /\ Has(n, "oneOf") => Cardinality(Branches("oneOf")) + nullBranch = 1

\* A kind says which it is, and has no field that is not declared.
ServedKind(d, defs, v) ==
  LET tags == {"apiVersion", "kind"}
  IN  /\ tags \subseteq DOMAIN v.fields /\ \A k \in tags : At(v, k).t = "string"
      /\ Served(d.node, Drop(v, tags \ DOMAIN PropertiesOf(d.node)),
                [defs |-> defs, visiting |-> {d.name}, closed |-> TRUE, nullable |-> TRUE, null |-> FALSE])

ServedCustom(schema, v) == ServedKind([node |-> schema, name |-> ""], <<>>, v)

SchemaWritten == pc = "schema" /\ pc' = "names"

\* The schema that was written accepts the samples that a source of its kind
\* serves.
WrittenServes ==
  LET g == GVKOf(Head(todo))
      accepts(v) == Validates(trees'[Dest][SchemaPath(g)], v)
      docs == {i.doc : i \in {x \in ToSet(cmd.inputs) : x.readable}}
      versions == {w \in UNION {UNION {ToSet(c.versions) : c \in UNION {CRDsIn(d.manifest) : d \in ToSet(x)}} :
                                  x \in docs} : w.schema # <<>> /\ w.name = g.version}
      definitions(x) == {d \in ToSet(x.definitions) : g \in ToSet(d.gvks) \cup {d.key.gvk}}
  IN  g \in DOMAIN Samples =>
        \A v \in Samples[g] :
          IF cmd.tool = "crd"
          THEN \E w \in versions : accepts(v) <=> ServedCustom(w.schema[1], v)
          ELSE \E x \in docs : \E d \in definitions(x) :
                 accepts(v) <=> ServedKind(d, DefinitionsOf(x), v)

\* The documents that a written schema accepts are those that its source says
\* are served, references followed and unknown fields rejected, whatever is
\* stripped for output: the passes over the tree (transformers.go) do not undo
\* each other. The samples of a custom resource leave out what crd.go:131-132
\* does otherwise than the document says: they have apiVersion and kind, no
\* undeclared field beside them, and no null for an optional field.
SchemasServe == [][SchemaWritten => WrittenServes]_vars
=============================================================================
