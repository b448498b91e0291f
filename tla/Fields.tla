-------------------------------- MODULE Fields --------------------------------
(***************************************************************************)
(* The field index of a schema (internal/fields): one line for each field  *)
(* path. A path is the sequence of its segments, with "[]" for the items   *)
(* of an array and "<key>" for the values of a map.                        *)
(***************************************************************************)
EXTENDS SchemaTree

\* The one type of a node besides "null", if it has just one.
IsSingleType(n, t) == Has(n, "type") /\ TypesOf(n) \ {"null"} = {t}

RootMetadata == {"apiVersion", "kind", "metadata"}

RECURSIVE Emit(_, _, _)
\* The children of a field: the first of its items, its properties and its
\* additional properties that has properties.
EmitChildren(n, path) ==
  LET Below(k) == HasObject(n, k) /\ PropertiesOf(At(n, k)) # <<>>
  IN  IF IsSingleType(n, "array") /\ Below("items") THEN Emit(At(n, "items"), Append(path, "[]"), {})
      ELSE IF PropertiesOf(n) # <<>> THEN Emit(n, path, {})
      ELSE IF IsSingleType(n, "object") /\ Below("additionalProperties")
      THEN Emit(At(n, "additionalProperties"), Append(path, "<key>"), {})
      ELSE {}

Emit(n, path, skipped) ==
  UNION {{Append(path, k)} \cup EmitChildren(PropertiesOf(n)[k], Append(path, k))
           : k \in DOMAIN PropertiesOf(n) \ skipped}

\* The paths of a field index.
IndexedPaths(json) == Emit(json, <<>>, RootMetadata)
=============================================================================
