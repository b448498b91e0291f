------------------------------ MODULE SchemaTree ------------------------------
(***************************************************************************)
(* JSON documents as the extractor and the explainer hold them (`any`,     *)
(* decoded by encoding/json). A node is an object with its fields, an      *)
(* array with its items, or a scalar with its text.                        *)
(***************************************************************************)
EXTENDS Naturals, Sequences, FiniteSets, SequencesExt, FiniteSetsExt

Object(f) == [t |-> "object", leaf |-> "", fields |-> f, items |-> <<>>]
Array(s) == [t |-> "array", leaf |-> "", fields |-> <<>>, items |-> s]
Scalar(t, x) == [t |-> t, leaf |-> x, fields |-> <<>>, items |-> <<>>]
Str(x) == Scalar("string", x)
True == Scalar("boolean", "true")
False == Scalar("boolean", "false")
Null == Scalar("null", "")
Strs(xs) == Array([k \in DOMAIN xs |-> Str(xs[k])])

Has(n, k) == k \in DOMAIN n.fields
At(n, k) == n.fields[k]
Says(n, k, x) == Has(n, k) /\ At(n, k) = x
HasObject(n, k) == Has(n, k) /\ At(n, k).t = "object"

Put(n, k, x) == [n EXCEPT !.fields = [j \in DOMAIN @ \cup {k} |-> IF j = k THEN x ELSE @[j]]]
PutNew(n, k, x) == IF Has(n, k) THEN n ELSE Put(n, k, x)
Drop(n, ks) == [n EXCEPT !.fields = [j \in DOMAIN @ \ ks |-> @[j]]]

\* Op applied to every child of n, told the key it is under ("" in an array).
Each(n, Op(_, _)) ==
  [n EXCEPT !.fields = [k \in DOMAIN @ |-> Op(k, @[k])],
            !.items = [k \in DOMAIN @ |-> Op("", @[k])]]

\* The strings in the array under k: toStringSlice.
StringsAt(n, k) ==
  IF Has(n, k) THEN {x.leaf : x \in {y \in ToSet(At(n, k).items) : y.t = "string"}} ELSE {}

PropertiesOf(n) == IF HasObject(n, "properties") THEN At(n, "properties").fields ELSE <<>>
TypesOf(n) == IF At(n, "type").t = "string" THEN {At(n, "type").leaf} ELSE StringsAt(n, "type")
BranchesAt(n, k) == IF Has(n, k) THEN At(n, k).items ELSE <<>>
=============================================================================
