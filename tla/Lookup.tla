-------------------------------- MODULE Lookup --------------------------------
(***************************************************************************)
(* How explain finds the schema of a kind in the schema locations          *)
(* (internal/explain): the first location that has it, alias files         *)
(* followed.                                                               *)
(*                                                                         *)
(* A location is a catalog: its files by path, the files that fail to      *)
(* load, whether it is the ecosystem catalog, and the entries of its index *)
(* if it is.                                                               *)
(***************************************************************************)
EXTENDS CatalogFiles

Found(x) == [st |-> "found", x |-> x]
Absent == [st |-> "absent", x |-> {}]
Failed == [st |-> "failed", x |-> {}]
Redirected(g) == [st |-> "redirected", x |-> g]

\* The first of some lookups that is not absent: a failure ends the search.
FirstOf(rs) ==
  LET hits == {k \in DOMAIN rs : rs[k].st # "absent"}
  IN  IF hits = {} THEN Absent ELSE rs[Min(hits)]

Load(loc, p) ==
  IF p \in loc.failing THEN Failed ELSE IF p \in DOMAIN loc.files THEN Found(loc.files[p]) ELSE Absent

\* The group and version are the requested ones where an alias has none.
AliasOf(root, g) ==
  LET a == At(root, AliasKey)
      Or(k, x) == IF Has(a, k) /\ At(a, k).leaf # "" THEN At(a, k).leaf ELSE x
  IN  GVK(Or("group", g.group), Or("version", g.version), At(a, "kind").leaf)

\* What the schema says it is of, overridden by its field index.
Identify(loc, g, root) ==
  LET m == At(root, GVKKey)
      Or(x, y) == IF x = "" THEN y ELSE x
      said == IF HasObject(root, GVKKey)
              THEN GVK(At(m, "group").leaf, Or(At(m, "version").leaf, g.version), Or(At(m, "kind").leaf, g.kind))
              ELSE g
      i == Load(loc, IndexPath(SchemaPath(g)))
  IN  IF i.st = "found" THEN GVK(i.x.group, i.x.version, i.x.kind) ELSE said

\* The schema of a kind, or the kind to look up instead.
LoadFrom(loc, g) ==
  LET r == Load(loc, SchemaPath(g))
  IN  IF r.st # "found" THEN r
      ELSE IF HasAlias(r.x) THEN Redirected(AliasOf(r.x, g))
      ELSE Found([gvk |-> Identify(loc, g, r.x), root |-> r.x])

LoadOnce(locs, g) == FirstOf([k \in DOMAIN locs |-> LoadFrom(locs[k], g)])

Follow(locs, r) == IF r.st = "redirected" THEN LoadOnce(locs, r.x) ELSE r
Follow4(locs, r) == Follow(locs, Follow(locs, Follow(locs, Follow(locs, r))))

\* loadGVKDepth follows maxAliasDepth = 8 redirects; one more is a failure.
LoadGVK(locs, g) ==
  LET r == Follow4(locs, Follow4(locs, LoadOnce(locs, g)))
  IN  IF r.st = "redirected" THEN Failed ELSE r
=============================================================================
