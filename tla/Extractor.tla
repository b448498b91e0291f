------------------------------ MODULE Extractor ------------------------------
(***************************************************************************)
(* What ExtractKubernetes, ExtractOpenShift and ExtractCRDs make of a      *)
(* document (internal/extractor): schemas with the names they are known    *)
(* by, and the number of errors.                                           *)
(*                                                                         *)
(* A swagger document has its definitions in the order of their names,     *)
(* with what their x-kubernetes-group-version-kind lists or, for           *)
(* OpenShift, what their name parses to; a path is the sequence of its     *)
(* segments, and says which kinds its operations are about.                *)
(***************************************************************************)
EXTENDS Transformers

CONSTANT ShortNames      \* the native kinds that have short names, and these

SortByGVK(ss) ==
  LET Before(i, j) == \/ GVKBefore(GVKOf(ss[i]), GVKOf(ss[j]))
                      \/ GVKOf(ss[i]) = GVKOf(ss[j]) /\ i < j
      order == SortSeq([k \in DOMAIN ss |-> k], Before)
  IN  [k \in DOMAIN order |-> ss[order[k]]]

Schema(name, gvk, scope, resource, json) ==
  [group |-> gvk.group, version |-> gvk.version, kind |-> gvk.kind, scope |-> scope,
   resource |-> resource, json |-> InjectExplainMetadata(json, name, gvk, resource)]

Result(schemas, errors) == [schemas |-> schemas, errors |-> errors]

-----------------------------------------------------------------------------
(* Discovery names and scopes, from the paths of a swagger document.        *)

Parameters == {"{namespace}", "{name}"}

\* resourceNameFromPath: the segment after the version and the namespace.
ResourceNameFromPath(p) ==
  LET q == IF p # <<>> /\ Head(p) = "watch" THEN Tail(p) ELSE p
      base == IF Len(q) >= 2 /\ q[1] = "api" THEN 3 ELSE IF Len(q) >= 3 /\ q[1] = "apis" THEN 4 ELSE 0
      at == IF base \in DOMAIN q /\ q[base] = "namespaces" THEN base + 2 ELSE base
  IN  IF base = 0 \/ at \notin DOMAIN q \/ q[at] \in Parameters THEN "" ELSE q[at]

NativeShortNames(gvk) == IF gvk.kind \in DOMAIN ShortNames THEN ShortNames[gvk.kind] ELSE <<>>

\* The orders in which Go may range over the map of paths.
PathOrders(doc) ==
  LET ps == DOMAIN doc.paths
  IN  {o \in [1 .. Cardinality(ps) -> ps] : IsInjective(o)}

\* resourceNamesFromPaths: the first path that names gvk gives the plural.
ResourceNames(doc, order, gvk) ==
  LET naming == {k \in DOMAIN order : ResourceNameFromPath(order[k]) # "" /\ gvk \in doc.paths[order[k]]}
  IN  IF naming = {} THEN NoNames
      ELSE [singular |-> gvk.kind, plural |-> ResourceNameFromPath(order[Min(naming)]),
            short |-> NativeShortNames(gvk)]

Namespaced(p) == \E k \in DOMAIN p : k + 2 \in DOMAIN p /\ p[k] = "namespaces" /\ p[k + 1] = "{namespace}"

\* scopeFromPaths
ScopeOf(doc, gvk) ==
  LET ps == {p \in DOMAIN doc.paths : gvk \in doc.paths[p]}
  IN  IF ps = {} THEN "" ELSE IF \E p \in ps : Namespaced(p) THEN "Namespaced" ELSE "Cluster"

-----------------------------------------------------------------------------
DefinitionsOf(doc) ==
  [name \in {d.name : d \in ToSet(doc.definitions)} |->
     (CHOOSE d \in ToSet(doc.definitions) : d.name = name).node]

IsObject(d) == d.node.t = "object"

\* buildSchema fails on a definition that stands for something else.
Builds(doc, d) == InlineRefs(d.node, DefinitionsOf(doc), {d.name}).t = "object"

\* The schemas of the kinds Kinds(d) of the definitions ds, sorted, and one
\* error for each that cannot be built.
SchemasFor(doc, order, ds, Kinds(_), errors) ==
  LET Of(d, g) == Schema(d.name, g, ScopeOf(doc, g), ResourceNames(doc, order, g),
                         BuildSchema(d.name, DefinitionsOf(doc)))
      good == SelectSeq(ds, LAMBDA d : Builds(doc, d))
      bad == SelectSeq(ds, LAMBDA d : ~Builds(doc, d))
  IN  Result(SortByGVK(FlattenSeq([k \in DOMAIN good |->
               LET gs == Kinds(good[k]) IN [j \in DOMAIN gs |-> Of(good[k], gs[j])]])),
             FoldLeft(LAMBDA n, d : n + Len(Kinds(d)), errors, bad))

\* k8sSkipKindRe: WatchEvent and the kinds that end in Options.
SkippedKinds == {"watchevent", "deleteoptions"}

ExtractKubernetes(doc, order) ==
  LET Kinds(d) == SelectSeq(d.gvks, LAMBDA g : g.kind # "" /\ g.version # "" /\ g.kind \notin SkippedKinds)
  IN  IF ~doc.decodes THEN Result(<<>>, 1)
      ELSE SchemasFor(doc, order, SelectSeq(doc.definitions, IsObject), Kinds, 0)

\* openShiftSkipKindRe: kinds that are answers or configuration of a provider.
SkippedOpenShiftKinds == {"tokenreview", "podoptions"}

GitOpsShaped(d) == {"apiVersion", "kind", "metadata"} \subseteq DOMAIN PropertiesOf(d.node)

ExtractOpenShift(doc, order) ==
  LET Ours(d) == IsObject(d) /\ d.key.openshift /\ GitOpsShaped(d)
      Malformed(d) == Ours(d) /\ ~d.key.parses
      Wanted(d) == Ours(d) /\ d.key.parses /\ d.key.gvk.kind \notin SkippedOpenShiftKinds
  IN  IF ~doc.decodes THEN Result(<<>>, 1)
      ELSE SchemasFor(doc, order, SelectSeq(doc.definitions, Wanted), LAMBDA d : <<d.key.gvk>>,
                      Len(SelectSeq(doc.definitions, Malformed)))

-----------------------------------------------------------------------------
(* CustomResourceDefinitions. A manifest is a CRD or not, and may have      *)
(* items.                                                                   *)

RECURSIVE CollectCRDs(_)
CollectCRDs(m) == m.crd \o FlattenSeq([k \in DOMAIN m.items |-> CollectCRDs(m.items[k])])

\* Fault: the versions before one without a schema are lost.
VersionsUpToError(crd) ==
  IF crd.kind = "" \/ crd.group = "" \/ crd.versions = <<>> THEN Result(<<>>, 1)
  ELSE IF \E v \in ToSet(crd.versions) : v.schema = <<>> THEN Result(<<>>, 1)
  ELSE Result([k \in DOMAIN crd.versions |->
                 Schema(crd.kind, GVK(crd.group, crd.versions[k].name, crd.kind), crd.scope, crd.names,
                        CRDSchema(crd.versions[k].schema[1]))], 0)

VersionsFromCRD(crd) ==
  LET good == SelectSeq(crd.versions, LAMBDA v : v.schema # <<>>)
  IN  IF crd.kind = "" \/ crd.group = "" \/ crd.versions = <<>> THEN Result(<<>>, 1)
      ELSE Result([k \in DOMAIN good |->
                     Schema(crd.kind, GVK(crd.group, good[k].name, crd.kind), crd.scope, crd.names,
                            CRDSchema(good[k].schema[1]))],
                  Len(crd.versions) - Len(good))

\* Documents that do not parse are errors, and the others go on.
ExtractCRDs(docs) ==
  LET Of(d) == IF ~d.parses THEN <<Result(<<>>, 1)>>
               ELSE LET cs == CollectCRDs(d.manifest) IN [k \in DOMAIN cs |-> VersionsFromCRD(cs[k])]
      all == FlattenSeq([k \in DOMAIN docs |-> Of(docs[k])])
  IN  Result(FlattenSeq([k \in DOMAIN all |-> all[k].schemas]),
             FoldLeft(LAMBDA n, r : n + r.errors, 0, all))
=============================================================================
