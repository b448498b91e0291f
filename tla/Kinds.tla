-------------------------------- MODULE Kinds --------------------------------
(***************************************************************************)
(* Kinds and the names they are known by (internal/extractor/types.go),    *)
(* and the extensions that carry them in a schema. Names are compared in   *)
(* lower case wherever they are compared, and are written in lower case    *)
(* here; "<" on them is their place in Alphabet.                           *)
(***************************************************************************)
EXTENDS SchemaTree

CONSTANT Alphabet      \* the names that occur, in alphabetical order

TypeKey == "x-flux-schema-type"
TypeDescriptionKey == "x-flux-schema-type-description"
GVKKey == "x-flux-schema-group-version-kind"
ResourceKey == "x-flux-schema-resource"
AliasKey == "x-flux-schema-alias"

Rank == [x \in ToSet(Alphabet) |-> CHOOSE k \in DOMAIN Alphabet : Alphabet[k] = x]

GVK(g, v, k) == [group |-> g, version |-> v, kind |-> k]
NoNames == [singular |-> "", plural |-> "", short |-> <<>>]
GVKOf(s) == GVK(s.group, s.version, s.kind)

\* By group, version and kind, as targetKey and sortSchemasByGVK compare.
GVKBefore(a, b) ==
  \/ Rank[a.group] < Rank[b.group]
  \/ a.group = b.group /\ Rank[a.version] < Rank[b.version]
  \/ a.group = b.group /\ a.version = b.version /\ Rank[a.kind] < Rank[b.kind]

\* What of the metadata of a schema says its kind: as injected.
SaysKind(g) == Object([group |-> Str(g.group), version |-> Str(g.version), kind |-> Str(g.kind)])
=============================================================================
