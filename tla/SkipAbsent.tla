------------------------------ MODULE SkipAbsent ------------------------------
(***************************************************************************)
(* --skip-json-path-if-absent (internal/validator/validator.go): the       *)
(* errors of a JSON Schema validation with the missing fields that a       *)
(* pattern names taken out, and the search for the alternatives of a oneOf *)
(* that this makes ambiguous.                                              *)
(*                                                                         *)
(* A value is a function from the paths in it; what is at a path is an     *)
(* object, an array or a scalar, and good or bad in itself (its type, its  *)
(* pattern...). An element of an array is named by its index in base ten;  *)
(* that Atoi would read "+1" and "01" as 1 is left out. A schema is the    *)
(* sequence of its nodes, the subschemas of a node before it and the root  *)
(* last. A node may require fields, want its value good, have schemas for  *)
(* fields, and combine schemas; which keyword selects the schema of a      *)
(* field, or of an element of an array, makes no difference here, and a    *)
(* $ref is an allOf of one schema. Error texts are left out: an error      *)
(* matters by whether it stays.                                            *)
(***************************************************************************)
EXTENDS Naturals, SequencesExt

\* The node that every value satisfies. `not`, `if`, `then` and `else` are
\* sequences of at most one schema.
AnyNode == [good |-> FALSE, required |-> {}, properties |-> <<>>, allOf |-> <<>>,
            anyOf |-> <<>>, oneOf |-> <<>>, not |-> <<>>, if |-> <<>>, then |-> <<>>, else |-> <<>>]

Branches(n) == {n.allOf, n.anyOf, n.oneOf, n.not, n.if, n.then, n.else}
Subschemas(n) == {n.properties[p] : p \in DOMAIN n.properties} \cup UNION {ToSet(ts) : ts \in Branches(n)}

IsSchema(s) ==
  /\ s \in Seq(ToSet(s)) /\ s # <<>>
  /\ \A k \in DOMAIN s :
       Subschemas(s[k]) \subseteq 1 .. k - 1 /\ \A ts \in Branches(s[k]) : ts \in Seq(ToSet(ts))

Shapes == {"object", "array", "scalar"}
IsValue(v) == v \in [DOMAIN v -> [good : BOOLEAN, is : Shapes]] /\ <<>> \in DOMAIN v

\* The fields of the value at l that a node n has a schema for.
Described(n, v, l) == {p \in DOMAIN n.properties : Append(l, p) \in DOMAIN v}
Missing(n, v, l) == {p \in n.required : v[l].is = "object" /\ Append(l, p) \notin DOMAIN v}

ExactlyOne(S) == \E x \in S : S = {x}
Several(S) == \E x, y \in S : x # y

-----------------------------------------------------------------------------
(* Paths.                                                                   *)

PathExists(v, path) == path \in DOMAIN v

\* What stripPath goes through to get to the field that it deletes.
ThroughObjects(v, path) == \A l \in DOMAIN v : IsStrictPrefix(l, path) => v[l].is = "object"

\* stripPath, for every path: --skip-json-path
Strip(v, paths) ==
  Restrict(v, {q \in DOMAIN v : \A path \in paths : IsPrefix(path, q) => ~ThroughObjects(v, path)})

\* Fault: a path that is there counts as well.
HasSkippedPath(v, P) == P # {}

HasSkippedAbsentPath(v, P) == \E path \in P : ~PathExists(v, path)

-----------------------------------------------------------------------------
(* The errors of the validator of the JSON Schema library, by what becomes  *)
(* of them: "pruned" or "kept".                                             *)

Fate(forgiven) == IF forgiven THEN "pruned" ELSE "kept"

\* Fault: one missing field that is named is enough.
SomeNamed(l, missing, P) == \E p \in missing : Append(l, p) \in P

\* keepRequiredFields keeps nothing.
AllNamed(l, missing, P) == \A p \in missing : Append(l, p) \in P

\* Fault: every alternative of an anyOf must be forgiven, not one of them.
PrunesLate(kind, causes, pruned) == IF kind = "oneOf" THEN ExactlyOne(pruned) ELSE pruned = causes

\* pruneSkippedAbsentRequired returns nil for an error with causes, of which
\* some are pruned.
Prunes(kind, causes, pruned) ==
  CASE kind = "anyOf" -> pruned # {}
    [] kind = "oneOf" -> ExactlyOne(pruned)
    [] kind = "allOf" -> pruned = causes

\* Of the schemas ts with the errors f: those without any for the value at l,
\* and those without one that is kept.
Holding(ts, l, f) == {i \in DOMAIN ts : f[ts[i]][l] = {}}
Settled(ts, l, f) == {i \in DOMAIN ts : "kept" \notin f[ts[i]][l]}

\* What an `if` leaves to be satisfied.
Chosen(n, l, f) == IF n.if = <<>> THEN <<>> ELSE IF Holding(n.if, l, f) = {} THEN n.else ELSE n.then

\* The errors of a node for the value at l, those of its subschemas being f.
ErrorsOf(n, v, l, P, f) ==
  LET If(cond, fate) == IF cond THEN {fate} ELSE {}
      FateOf(kind, ts) == Fate(Prunes(kind, DOMAIN ts, Settled(ts, l, f)))
  IN  UNION {If(n.good /\ ~v[l].good, "kept"),
             If(Missing(n, v, l) # {}, Fate(AllNamed(l, Missing(n, v, l), P))),
             UNION {f[n.properties[p]][Append(l, p)] : p \in Described(n, v, l)},
             If(Holding(n.not, l, f) # {}, "kept"),
             If(Holding(n.allOf, l, f) # DOMAIN n.allOf, FateOf("allOf", n.allOf)),
             If(n.anyOf # <<>> /\ Holding(n.anyOf, l, f) = {}, FateOf("anyOf", n.anyOf)),
             If(n.oneOf # <<>> /\ Holding(n.oneOf, l, f) = {}, FateOf("oneOf", n.oneOf)),
             If(Several(Holding(n.oneOf, l, f)), "kept"),
             UNION {f[t][l] : t \in ToSet(Chosen(n, l, f))}}

\* By node and path.
Failures(s, v, P) ==
  LET f[k \in DOMAIN s] == [l \in DOMAIN v |-> ErrorsOf(s[k], v, l, P, f)] IN f

-----------------------------------------------------------------------------
(* Ambiguity.                                                               *)

\* collectSkippedAbsentOneOfErrors finds something at a node, f being the
\* errors and a what it finds at the subschemas. A `then` that is not there
\* leaves the turn to `else`.
AmbiguityOf(n, v, l, f, a) ==
  LET matched == Settled(n.oneOf, l, f)
      branch == IF n.if = <<>> THEN <<>>
                ELSE IF n.then # <<>> /\ Settled(n.if, l, f) # {} THEN n.then ELSE n.else
  IN  \/ \E ts \in {n.allOf, n.anyOf} : \E i \in Settled(ts, l, f) : a[ts[i]][l]
      \/ Several(matched)
      \/ \E i \in matched : matched = {i} /\ a[n.oneOf[i]][l]
      \/ \E t \in ToSet(branch) : a[t][l]
      \/ \E p \in Described(n, v, l) : a[n.properties[p]][Append(l, p)]

Ambiguous(s, v, P) ==
  LET f == Failures(s, v, P)
      a[k \in DOMAIN s] == [l \in DOMAIN v |-> AmbiguityOf(s[k], v, l, f, a)]
  IN  a

\* validateDoc's `errs` is empty, for a value whose paths have been stripped.
Accepts(s, v, P) ==
  /\ "kept" \notin Failures(s, v, P)[Len(s)][<<>>]
  /\ HasSkippedAbsentPath(v, P) => ~Ambiguous(s, v, P)[Len(s)][<<>>]

-----------------------------------------------------------------------------
(* What the option means: a field that a pattern names is not required.     *)

\* A node is satisfied by the value at l, g saying the same of its subschemas.
SatisfiedAt(n, v, l, P, g) ==
  LET sat(ts) == {i \in DOMAIN ts : g[ts[i]][l]}
  IN  /\ n.good => v[l].good
      /\ \A p \in Missing(n, v, l) : Append(l, p) \in P
      /\ \A p \in Described(n, v, l) : g[n.properties[p]][Append(l, p)]
      /\ sat(n.not) = {}
      /\ sat(n.allOf) = DOMAIN n.allOf
      /\ n.anyOf # <<>> => sat(n.anyOf) # {}
      /\ n.oneOf # <<>> => ExactlyOne(sat(n.oneOf))
      /\ n.if # <<>> => LET t == IF sat(n.if) # {} THEN n.then ELSE n.else IN sat(t) = DOMAIN t

\* By node and path.
Satisfied(s, v, P) ==
  LET g[k \in DOMAIN s] == [l \in DOMAIN v |-> SatisfiedAt(s[k], v, l, P, g)] IN g

Satisfies(s, v, P) == Satisfied(s, v, P)[Len(s)][<<>>]

Unconditional(s) == \A k \in DOMAIN s : s[k].not = <<>> /\ s[k].if = <<>>

\* The nodes at and below each.
Below(s) == LET b[k \in DOMAIN s] == {k} \cup UNION {b[t] : t \in Subschemas(s[k])} IN b

WithoutOneOf(s, k) == \A j \in Below(s)[k] : s[j].oneOf = <<>>

\* No alternative of an anyOf or a oneOf has a oneOf of its own.
PlainAlternatives(s) == \A k \in DOMAIN s : \A t \in ToSet(s[k].anyOf) \cup ToSet(s[k].oneOf) : WithoutOneOf(s, t)

\* No oneOf is inside another that is inside a third.
OneOfsNestedTwice(s) ==
  \A k \in DOMAIN s : \A t \in ToSet(s[k].oneOf) :
    \A j \in Below(s)[t] : \A u \in ToSet(s[j].oneOf) : WithoutOneOf(s, u)
=============================================================================
