----------------------------- MODULE MCDocuments -----------------------------
(* Small schemas, values and options for SkipFields.                        *)
EXTENDS SkipFields

Leaf(n) == <<n>>
Requires(ps) == Leaf([AnyNode EXCEPT !.required = ps])
Good == Leaf([AnyNode EXCEPT !.good = TRUE])
Leaves == {Requires({"x"}), Requires({"y"}), Requires({"x", "y"}), Good,
           Leaf([AnyNode EXCEPT !.required = {"x"}, !.good = TRUE])}
Few == {Requires({"x"}), Requires({"y"}), Good}

\* The nodes of s and t, with their roots, under a new one.
Shift(s, d) ==
  LET Plus(ts) == [i \in DOMAIN ts |-> ts[i] + d]
  IN  [k \in DOMAIN s |-> [s[k] EXCEPT !.allOf = Plus(@), !.anyOf = Plus(@), !.oneOf = Plus(@)]]
Over(s, t, n) == s \o Shift(t, Len(s)) \o <<n>>
Roots(s, t) == <<Len(s), Len(s) + Len(t)>>
AllOf(s, t) == Over(s, t, [AnyNode EXCEPT !.allOf = Roots(s, t)])
AnyOf(s, t) == Over(s, t, [AnyNode EXCEPT !.anyOf = Roots(s, t)])
OneOf(s, t) == Over(s, t, [AnyNode EXCEPT !.oneOf = Roots(s, t)])

Combined(S, T) == UNION {{AllOf(s, t), AnyOf(s, t), OneOf(s, t)} : s \in S, t \in T}
Negated(S) == {Append(s, [AnyNode EXCEPT !.not = <<Len(s)>>]) : s \in S}
Conditional(S) ==
  UNION {LET a == <<Roots(s, t)[1]>>  b == <<Roots(s, t)[2]>>
         IN  {Over(s, t, [AnyNode EXCEPT !.if = a, !.then = b]),
              Over(s, t, [AnyNode EXCEPT !.if = a, !.else = b]),
              Over(s, t, [AnyNode EXCEPT !.if = a, !.then = b, !.else = a])} : s, t \in S}

\* Without x the innermost oneOf is ambiguous, so the one around it has one
\* alternative that is satisfied, and the outermost has two.
Thrice ==
  LET any == Leaf(AnyNode)
  IN  OneOf(OneOf(Requires({"x"}), AllOf(OneOf(any, Requires({"x"})), Requires({"x"}))), any)

Schemas ==
  {Leaf(AnyNode), Thrice} \cup Leaves \cup Combined(Leaves, Leaves) \cup Negated(Leaves) \cup Conditional(Few)
    \cup Combined(Combined(Few, Few), Few)

\* Objects with some fields, which are good.
Value(ok, fs) ==
  [q \in {<<>>} \cup {<<f>> : f \in fs} |->
     IF q = <<>> THEN [good |-> ok, is |-> "object"] ELSE [good |-> TRUE, is |-> "scalar"]]
Atom == Value(TRUE, {})
Values == {Value(ok, fs) : ok \in BOOLEAN, fs \in SUBSET {"x", "y"}}

\* A schema and a value of a field or of an element, for what it is in.
Within(s, p) == Append(s, [AnyNode EXCEPT !.properties = (p :> Len(s))])
In(shape, v, p) ==
  [q \in {<<>>} \cup {<<p>> \o r : r \in DOMAIN v} |->
     IF q = <<>> THEN [good |-> TRUE, is |-> shape] ELSE v[Tail(q)]]

\* The schema of the whole document, of its field `a`, or of the elements of
\* the array that `a` is.
Places == {<<>>, <<"a">>, <<"a", "0">>}
SchemaAt(place, s) ==
  CASE place = <<>> -> s
    [] place = <<"a">> -> Within(s, "a")
    [] place = <<"a", "0">> -> Within(Within(s, "0"), "a")
ValueAt(place, v) ==
  CASE place = <<>> -> v
    [] place = <<"a">> -> In("object", v, "a")
    [] place = <<"a", "0">> -> In("object", In("array", v, "0"), "a")

Body(schema, value) ==
  [apiVersion |-> "v1", kind |-> "K", named |-> TRUE, badMetadata |-> FALSE, notAdmitted |-> FALSE,
   celFault |-> FALSE, found |-> "yes", schema |-> schema, value |-> value]
Document(body) ==
  [decodes |-> "yes", dollar |-> FALSE, optOut |-> FALSE, body |-> body,
   after |-> [fails |-> "", body |-> body]]
Options ==
  [skipKinds |-> {}, skipMissing |-> FALSE, skipCEL |-> FALSE, envsubst |-> FALSE,
   skipPaths |-> {}, absentPaths |-> {}]
Pattern(kind, path) == [apiVersion |-> "", kind |-> kind, path |-> path]

\* Every schema with every value, for the patterns about its fields.
SchemaCase(place) ==
  [docs |-> {Document([Body(SchemaAt(place, s), ValueAt(place, v)) EXCEPT !.celFault = TRUE]) :
               s \in Schemas, v \in Values},
   options |-> {[Options EXCEPT !.absentPaths = {Pattern(scope, Append(place, p)) : p \in ps},
                                !.skipPaths = {Pattern("K", Append(place, p)) : p \in stripped}] :
                  ps \in {{"x"}, {"x", "y"}}, scope \in {"K", "L"}, stripped \in {{}, {"x"}}}]

\* Bodies, as written and as applied, that differ in what each check sees.
Bodies ==
  {[Body(Requires({"x"}), Value(TRUE, fs)) EXCEPT
      !.apiVersion = gvk[1], !.kind = gvk[2], !.named = named, !.found = found] :
     fs \in {{"x"}, {}}, named \in BOOLEAN, found \in {"yes", "no", "error"},
     gvk \in {<<"v1", "K">>, <<"", "K">>, <<PluginAPI, "L">>}}
    \cup {[Body(Leaf(AnyNode), Atom) EXCEPT !.badMetadata = TRUE, !.apiVersion = api] :
            api \in {"v1", PluginAPI}}
    \cup {[Body(Leaf(AnyNode), Atom) EXCEPT !.notAdmitted = TRUE], [Body(Leaf(AnyNode), Atom) EXCEPT !.celFault = TRUE]}

Afters ==
  {[fails |-> reason, body |-> Body(Leaf(AnyNode), Atom)] : reason \in {"envsubst-error", "yaml-parse-error"}}
    \cup {[fails |-> "", body |-> [Body(Leaf(AnyNode), Atom) EXCEPT !.kind = kind, !.named = kind = "K"]] :
            kind \in {"K", "L"}}

OptionSets ==
  {[Options EXCEPT !.skipKinds = kinds, !.skipMissing = missing, !.skipCEL = missing,
                   !.envsubst = subst, !.skipPaths = strip] :
     kinds \in {{}, {[apiVersion |-> "", kind |-> "K"]}, {[apiVersion |-> "v1", kind |-> "L"]}},
     missing, subst \in BOOLEAN, strip \in {{}, {Pattern("K", <<"x">>)}}}

\* Every outcome of substitution and of the checks.
VerdictCase ==
  [docs |-> [decodes : {"yes"}, dollar : BOOLEAN, optOut : BOOLEAN, body : Bodies, after : Afters],
   options |-> OptionSets]

UndecodedCase ==
  [docs |-> {[Document(Body(Leaf(AnyNode), Atom)) EXCEPT !.decodes = decodes, !.dollar = dollar] :
               decodes \in {"no", "empty"}, dollar \in BOOLEAN},
   options |-> OptionSets]

MCCases == {SchemaCase(place) : place \in Places} \cup {VerdictCase, UndecodedCase}
=============================================================================
