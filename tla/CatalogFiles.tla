----------------------------- MODULE CatalogFiles -----------------------------
(***************************************************************************)
(* What the extract commands write beside the schemas, and where           *)
(* (cmd/flux-schema/extract.go, internal/tmpl): redirects for the aliases  *)
(* of a kind, references from its names, and shards of names for shell     *)
(* completion. A path is a kind of file and the names in it.               *)
(***************************************************************************)
EXTENDS Kinds

CONSTANT FieldPaths(_)     \* the field paths of a schema

-----------------------------------------------------------------------------
(* Paths and contents.                                                      *)

\* tmpl.Execute: the empty group is called core.
SchemaPath(g) == <<"schema", IF g.group = "" THEN "core" ELSE g.group, g.version, g.kind>>
IndexPath(p) == <<"index", p[2], p[3], p[4]>>
ReferencePath(key) == <<"refs", key>>
ShardPath(key) == <<"completion", key>>

Flattens(s) == s.kind # "" /\ s.version # ""
FlattenMap(s) == [group |-> s.group, version |-> s.version, kind |-> s.kind, fields |-> FieldPaths(s.json)]

\* Schema.ExplainAliases: the places of the names that get a redirect file,
\* each at the first of its places.
AliasNames(s) == <<s.resource.singular, s.resource.plural>> \o s.resource.short
ExplainAliases(s) ==
  {k \in 1 .. Len(AliasNames(s)) :
     /\ AliasNames(s)[k] \notin {"", s.kind}
     /\ \A j \in 1 .. k - 1 : AliasNames(s)[j] # AliasNames(s)[k]}

AliasPath(s, k) == SchemaPath([GVKOf(s) EXCEPT !.kind = AliasNames(s)[k]])
AliasFile(s) == Object([k \in {AliasKey} |-> SaysKind(GVKOf(s))])

\* What explain takes for an alias file.
HasAlias(root) ==
  /\ HasObject(root, AliasKey)
  /\ Has(At(root, AliasKey), "kind") /\ At(At(root, AliasKey), "kind").leaf # ""

-----------------------------------------------------------------------------
(* The explain metadata of a command that has written the schemas ss.       *)

HasDiscoveryResource(s) == s.resource # NoNames

Qualified(name, group) == IF group = "" THEN name ELSE name \o "." \o group

\* explainAliases: every name, alone and qualified by the group.
MetadataNames(s) ==
  LET bases == ({s.kind, s.resource.singular, s.resource.plural} \cup ToSet(s.resource.short)) \ {""}
  IN  bases \cup {Qualified(a, s.group) : a \in bases}

\* canonicalExplainName: "" for lists.
CanonicalName(s) ==
  LET named == SelectSeq(<<s.resource.plural, s.resource.singular, s.kind>>, LAMBDA x : x # "")
      EndsInList(x) == Len(x) >= 4 /\ SubSeq(x, Len(x) - 3, Len(x)) = "list"
  IN  IF named = <<>> \/ EndsInList(Head(named)) THEN "" ELSE Qualified(Head(named), s.group)

\* The names are of letters and digits in their first two places.
ShardKeys(name) == {SubSeq(name, 1, n) : n \in 1 .. Min({2, Len(name)})}

\* The targets of a key: in the file they are sorted by group, version and kind.
ExplainReferences(ss) ==
  LET named == {s \in ss : HasDiscoveryResource(s)}
  IN  [key \in UNION {MetadataNames(s) : s \in named} |->
         {GVKOf(s) : s \in {x \in named : key \in MetadataNames(x)}}]

\* The shards of the schemas ss, keys[s] being those that name s.
ShardsOf(ss, keys) ==
  LET named == {s \in ss : HasDiscoveryResource(s) /\ CanonicalName(s) # ""}
      In(key) == {s \in named : key \in keys[s]}
  IN  [key \in UNION {keys[s] : s \in named} |->
         [name \in {CanonicalName(s) : s \in In(key)} |->
            UNION {MetadataNames(s) : s \in {x \in In(key) : CanonicalName(x) = name}}]]

\* Fault: a resource is in the shards of its canonical name only.
ShardsByName(ss) == ShardsOf(ss, [s \in ss |-> ShardKeys(CanonicalName(s))])

ExplainCompletionShards(ss) ==
  ShardsOf(ss, [s \in ss |-> UNION {ShardKeys(a) : a \in MetadataNames(s)}])

\* The files of explain metadata, by path.
ExplainMetadata(ss) ==
  LET refs == ExplainReferences(ss)
      shards == ExplainCompletionShards(ss)
  IN  [p \in {ReferencePath(k) : k \in DOMAIN refs} \cup {ShardPath(k) : k \in DOMAIN shards} |->
         IF p[1] = "refs" THEN refs[p[2]] ELSE shards[p[2]]]
=============================================================================
