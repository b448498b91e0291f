------------------------------- MODULE Explain -------------------------------
(***************************************************************************)
(* `flux-schema explain` and its shell completion (internal/explain): how  *)
(* a reference like "widgets.example.com.spec.size" finds a schema and a   *)
(* field of it in the schema locations, and what completion offers.        *)
(*                                                                         *)
(* A reference is the sequence of its dotted segments. Kinds are compared  *)
(* as they are resolved, without case.                                     *)
(***************************************************************************)
EXTENDS Lookup

CONSTANTS
  KubernetesGroups,   \* the groups guessed for a resource, in order
  VersionCandidates,  \* the versions guessed, in order
  KubeVersions,       \* versions as Kubernetes prefers them, best first
  KindGuesses,        \* the kinds that a resource name may stand for
  GuessedPlurals,     \* the plural that pluralResourceName makes of a name
  Segments            \* the dotted segments of a group

GroupVersion(g, v) == [set |-> TRUE, group |-> g, version |-> v]
AnyVersion == [set |-> FALSE, group |-> "", version |-> ""]

-----------------------------------------------------------------------------
(* The index of the ecosystem catalog, sorted.                              *)

MetadataLocations(locs) == SelectSeq(locs, LAMBDA l : ~l.ecosystem)

PluralName(r) == IF r.plural # "" THEN r.plural ELSE GuessedPlurals[r.name]
SingularName(r) == IF r.singular # "" THEN r.singular ELSE r.name

IndexNames(r) ==
  LET bases == ToSet(<<r.name, r.kind, SingularName(r), PluralName(r)>> \o r.short) \ {""}
  IN  bases \cup {Qualified(a, r.group) : a \in bases}

PlaceOf(x, s) == IF x \in ToSet(s) THEN Min({k \in DOMAIN s : s[k] = x}) ELSE Len(s) + 1

\* Known groups first, newer versions first, then kinds and plurals by name.
IndexBefore(rs, i, j) ==
  LET a == rs[i]  b == rs[j]
      Key(r) == <<PlaceOf(r.group, KubernetesGroups),
                  IF r.group \in ToSet(KubernetesGroups) THEN 0 ELSE Rank[r.group],
                  PlaceOf(r.version, KubeVersions), Rank[r.kind], Rank[PluralName(r)]>>
      differ == {k \in 1 .. 5 : Key(a)[k] # Key(b)[k]}
  IN  IF differ = {} THEN i < j ELSE Key(a)[Min(differ)] < Key(b)[Min(differ)]

ResourceIndex(locs) ==
  LET all == FlattenSeq([k \in DOMAIN locs |-> IF locs[k].ecosystem THEN locs[k].index ELSE <<>>])
      order == SortSeq([k \in DOMAIN all |-> k], LAMBDA i, j : IndexBefore(all, i, j))
  IN  [k \in DOMAIN order |-> all[order[k]]]

IndexFails(locs) == \E l \in ToSet(locs) : l.ecosystem /\ <<"index.json">> \in l.failing

-----------------------------------------------------------------------------
(* From a reference to a schema and the fields below it.                    *)

Join(segs) == FoldLeft(LAMBDA a, b : IF a = "" THEN b ELSE a \o "." \o b, "", segs)
Request(resource, group, fields) == [resource |-> resource, group |-> group, fields |-> fields]

\* Fault: only groups of Kubernetes look like groups.
LooksLikeKubernetesGroup(segs) == Join(segs) \in ToSet(KubernetesGroups)

LooksLikeAPIGroup(segs) == Len(segs) >= 2 \/ Join(segs) \in ToSet(KubernetesGroups)

\* The longest group first; last, no group at all.
ParseResourceExpression(expr, gv) ==
  LET ends == {n \in 2 .. Len(expr) : LooksLikeAPIGroup(SubSeq(expr, 2, n))}
      order == SetToSortSeq(ends, >)
      bare == Request(Head(expr), "", Tail(expr))
  IN  IF gv.set THEN <<bare>>
      ELSE Append([k \in DOMAIN order |->
                     Request(Head(expr), Join(SubSeq(expr, 2, order[k])),
                             SubSeq(expr, order[k] + 1, Len(expr)))], bare)

\* Fault: what follows the name is left out, group or not.
ParseFirstSegment(expr, gv) == <<Request(Head(expr), "", <<>>)>>

\* parseResourceOnlyExpression
ParseResourceOnly(expr, gv) ==
  IF gv.set \/ Len(expr) = 1 THEN <<Request(Head(expr), "", <<>>)>>
  ELSE IF LooksLikeAPIGroup(Tail(expr)) THEN <<Request(Head(expr), Join(Tail(expr)), <<>>)>>
  ELSE <<>>

LoadResourceReference(locs, key) ==
  LET metas == MetadataLocations(locs)
      Refs(k) == Load(metas[k], ReferencePath(key))
      Targets(k) == SetToSortSeq(Refs(k).x, GVKBefore)
      index == SelectSeq(ResourceIndex(locs), LAMBDA r : key \in IndexNames(r))
  IN  IF IndexFails(locs) \/ \E k \in DOMAIN metas : Refs(k).st = "failed" THEN Failed
      ELSE Found(FlattenSeq([k \in DOMAIN metas |-> IF Refs(k).st = "found" THEN Targets(k) ELSE <<>>])
                 \o [k \in DOMAIN index |-> GVKOf(index[k])])

ResolveFromReferences(locs, req, gv) ==
  LET Matches(t) == IF gv.set THEN t.group = gv.group /\ t.version = gv.version
                    ELSE req.group = "" \/ t.group = req.group
      \* The kind is the one of the target, whatever it redirects to.
      As(t, r) == IF r.st = "found" THEN [r EXCEPT !.x.gvk.kind = t.kind] ELSE r
      FirstTarget(ts) == FirstOf([k \in DOMAIN ts |-> As(ts[k], LoadGVK(locs, ts[k]))])
      FirstOfRefs(refs) == IF refs.st = "failed" THEN Failed ELSE FirstTarget(SelectSeq(refs.x, Matches))
  IN  FirstOfRefs(LoadResourceReference(locs, IF gv.set THEN req.resource ELSE Qualified(req.resource, req.group)))

\* The kinds that the name may stand for, in the groups and versions that it
\* may be of.
Guesses(req, gv) ==
  LET groups == IF gv.set THEN <<gv.group>> ELSE IF req.group = "" THEN KubernetesGroups ELSE <<req.group>>
      versions == IF gv.set THEN <<gv.version>> ELSE VersionCandidates
      kinds == IF req.resource \in DOMAIN KindGuesses THEN KindGuesses[req.resource] ELSE <<req.resource>>
      n == Len(versions) * Len(kinds)
  IN  [k \in 1 .. Len(groups) * n |->
         GVK(groups[((k - 1) \div n) + 1], versions[(((k - 1) % n) \div Len(kinds)) + 1],
             kinds[((k - 1) % Len(kinds)) + 1])]

Resolve(locs, reqs, gv) ==
  LET Guess(req) == LET gs == Guesses(req, gv) IN FirstOf([k \in DOMAIN gs |-> LoadGVK(locs, gs[k])])
      Or(r, req) == IF r.st # "absent" THEN r ELSE Guess(req)
      Try(req) == Or(ResolveFromReferences(locs, req, gv), req)
      With(r, req) == IF r.st = "found" THEN Found([schema |-> r.x, fields |-> req.fields]) ELSE r
  IN  FirstOf([k \in DOMAIN reqs |-> With(Try(reqs[k]), reqs[k])])

-----------------------------------------------------------------------------
(* Fields.                                                                  *)

Objects(n, k) == SelectSeq(BranchesAt(n, k), LAMBDA b : b.t = "object")

RECURSIVE RenderOutput(_, _)
\* The fields lead to something that is described.
RenderOutput(n, fs) ==
  IF fs = <<>> THEN TRUE
  ELSE IF HasObject(n, "properties") /\ HasObject(At(n, "properties"), Head(fs))
  THEN RenderOutput(At(At(n, "properties"), Head(fs)), Tail(fs))
  ELSE IF HasObject(n, "items") THEN RenderOutput(At(n, "items"), fs)
  ELSE IF HasObject(n, "additionalProperties") THEN RenderOutput(At(n, "additionalProperties"), fs)
  ELSE \E b \in ToSet(Objects(n, "allOf")) : RenderOutput(b, fs)

\* Explain: the reference is described, and as what.
ExplainResource(locs, expr, gv) ==
  LET Described(r) ==
        IF r.st = "found" /\ RenderOutput(r.x.schema.root, r.x.fields) THEN Found(r.x.schema.gvk)
        ELSE IF r.st = "found" THEN Failed ELSE r
  IN  Described(Resolve(locs, ParseResourceExpression(expr, gv), gv))

RECURSIVE FieldChild(_, _)
\* The child of that name: <<>> or a sequence of one.
FieldChild(n, name) ==
  LET Through(k) == IF HasObject(n, k) THEN FieldChild(At(n, k), name) ELSE <<>>
      branches == Objects(n, "allOf")
      own == IF HasObject(n, "properties") /\ HasObject(At(n, "properties"), name)
             THEN <<At(At(n, "properties"), name)>> ELSE <<>>
      all == own \o Through("items") \o Through("additionalProperties")
             \o FlattenSeq([k \in DOMAIN branches |-> FieldChild(branches[k], name)])
  IN  IF all = <<>> THEN <<>> ELSE <<Head(all)>>

RECURSIVE FieldPropertyNames(_)
FieldPropertyNames(n) ==
  DOMAIN PropertiesOf(n)
    \cup UNION {FieldPropertyNames(b) : b \in ToSet(Objects(n, "allOf"))}
    \cup UNION {FieldPropertyNames(At(n, k)) : k \in {j \in {"items", "additionalProperties"} : HasObject(n, j)}}

Parent(path) == SubSeq(path, 1, Len(path) - 1)
StartsWith(x, prefix) == Len(x) >= Len(prefix) /\ SubSeq(x, 1, Len(prefix)) = prefix

\* Completions of a field path, its last segment being the part to complete.
CompleteFieldPath(root, path) ==
  LET below == FoldLeft(LAMBDA ns, name : IF ns = <<>> THEN <<>> ELSE FieldChild(ns[1], name),
                        <<root>>, Parent(path))
  IN  IF below = <<>> THEN {}
      ELSE {Append(Parent(path), name) : name \in {x \in FieldPropertyNames(below[1]) : StartsWith(x, Last(path))}}

\* With an index only references are followed: nothing is guessed.
ResolveResourceOnly(locs, expr, gv) ==
  LET reqs == ParseResourceOnly(expr, gv)
      indexed == \E l \in ToSet(locs) : l.ecosystem
      SchemaOf(r) == IF r.st = "found" THEN Found(r.x.schema) ELSE r
  IN  IF indexed THEN FirstOf([k \in DOMAIN reqs |-> ResolveFromReferences(locs, reqs[k], gv)])
      ELSE SchemaOf(Resolve(locs, reqs, gv))

\* The longest resource that leaves a field to complete; a failure ends the
\* search.
CompleteFieldNames(locs, expr, gv) ==
  LET Offer(n, names) == IF names = {} THEN Absent ELSE Found({SubSeq(expr, 1, n) \o p : p \in names})
      Fields(n, r) ==
        IF r.st = "found" THEN Offer(n, CompleteFieldPath(r.x.root, SubSeq(expr, n + 1, Len(expr)))) ELSE r
      Split(n) == Fields(n, ResolveResourceOnly(locs, SubSeq(expr, 1, n), gv))
  IN  FirstOf([k \in 1 .. Len(expr) - 1 |-> Split(Len(expr) - k)]).x

-----------------------------------------------------------------------------
(* Completion of resource names.                                            *)

FirstLetters == {SubSeq(x, 1, 1) : x \in ToSet(Alphabet) \ {""}}

\* All shards of one letter for the empty prefix, else the one of its first two.
CompletionShardKeys(prefix) ==
  IF prefix = "" THEN FirstLetters ELSE {SubSeq(prefix, 1, Min({2, Len(prefix)}))}

CompletesTo(name, names, prefix) == \E x \in names \cup {name} : StartsWith(x, prefix)

CompleteResourceNames(locs, prefix) ==
  LET Shard(l, k) == Load(l, ShardPath(k))
      read == ToSet(MetadataLocations(locs)) \X CompletionShardKeys(prefix)
      index == ToSet(ResourceIndex(locs))
      InShard(r) == IF r.st # "found" THEN {}
                    ELSE {name \in DOMAIN r.x : CompletesTo(name, r.x[name], prefix)}
  IN  IF IndexFails(locs) \/ \E p \in read : Shard(p[1], p[2]).st = "failed" THEN {}
      ELSE UNION {InShard(Shard(p[1], p[2])) : p \in read}
           \cup {Qualified(PluralName(r), r.group) :
                   r \in {x \in index : CompletesTo(Qualified(PluralName(x), x.group), IndexNames(x), prefix)}}
=============================================================================
