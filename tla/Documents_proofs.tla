--------------------------- MODULE Documents_proofs ---------------------------
(***************************************************************************)
(* The two ways of a document, proved for every document, every options    *)
(* and every judgement by schema: `build` piped into `validate` agrees     *)
(* with `validate`, and a skipped kind is skipped. Then, where the         *)
(* judgement is that of SkipFields, what --skip-json-path-if-absent does,  *)
(* for every schema, value and pattern.                                    *)
(*                                                                         *)
(* The invariant says what each of the two has computed when it has run,   *)
(* of a document and options the commands may have been given. What the    *)
(* schema trees come to is by induction over the nodes of a schema.        *)
(***************************************************************************)
EXTENDS SkipFields, TLAPS, SequenceTheorems, WellFoundedInduction

\* A document and options that the commands may be given.
IsInput ==
  /\ DOMAIN doc = {"decodes", "dollar", "optOut", "body", "after"}
  /\ doc.decodes \in {"yes", "no", "empty"}
  /\ DOMAIN options = {"skipKinds", "skipMissing", "skipCEL", "envsubst", "skipPaths", "absentPaths"}

\* For `build` piped into `validate`: substitution has been done.
Unsubstituted == [options EXCEPT !.envsubst = FALSE]

DocumentsInv ==
  /\ IsInput
  /\ next \in {"validate", "build", "revalidate", "done"}
  /\ next # "validate" => verdict = VerdictOn(doc, options)
  /\ next \in {"revalidate", "done"} => built = Rendered(doc, options)
  /\ next = "revalidate" => built.fails = ""
  /\ next = "done" /\ built.fails = "" => rebuiltVerdict = VerdictOn(built.doc, Unsubstituted)

-----------------------------------------------------------------------------
LEMMA DocumentsInit == Init => DocumentsInv
<1> SUFFICES ASSUME Init PROVE DocumentsInv
  OBVIOUS
<1>1. PICK c \in Cases : doc \in c.docs /\ options \in c.options
  BY DEF Init
<1>2. IsInput
  BY <1>1, CasesAssumption DEF CasesAssumption, IsInput
<1> QED BY <1>2 DEF Init, DocumentsInv

LEMMA DocumentsStep == DocumentsInv /\ [Next]_vars => DocumentsInv'
<1> SUFFICES ASSUME DocumentsInv, [Next]_vars PROVE DocumentsInv'
  OBVIOUS
<1>1. CASE Validate
  BY <1>1 DEF DocumentsInv, Validate, IsInput
<1>2. CASE Build
  BY <1>2 DEF DocumentsInv, Build, IsInput
<1>3. CASE Revalidate
  BY <1>3 DEF DocumentsInv, Revalidate, IsInput, Unsubstituted
<1>4. CASE UNCHANGED vars
  BY <1>4 DEF DocumentsInv, vars, IsInput, Unsubstituted
<1> QED BY <1>1, <1>2, <1>3, <1>4 DEF Next, Terminated

LEMMA DocumentsInvariant == Spec => []DocumentsInv
BY DocumentsInit, DocumentsStep, PTL DEF Spec

-----------------------------------------------------------------------------
(* What the operators compute.                                              *)

\* None of the checks after substitution looks at the option for it.
LEMMA JudgeIgnoresSubstitution ==
  ASSUME IsInput, NEW b
  PROVE  Judge(b, Unsubstituted) = Judge(b, options)
<1>1. /\ Unsubstituted.skipKinds = options.skipKinds
      /\ Unsubstituted.skipMissing = options.skipMissing
      /\ Unsubstituted.skipCEL = options.skipCEL
      /\ Unsubstituted.skipPaths = options.skipPaths
      /\ Unsubstituted.absentPaths = options.absentPaths
  BY DEF IsInput, Unsubstituted
<1> QED BY <1>1 DEF Judge, KindSkipped, SchemaNotFound

\* Without substitution the verdict is that on the document as it is written.
LEMMA UnsubstitutedVerdict ==
  ASSUME IsInput, NEW d, d.decodes \in {"yes", "no", "empty"}
  PROVE  VerdictOn(d, Unsubstituted) =
           IF d.decodes = "yes" THEN Judge(d.body, options)
           ELSE IF d.decodes = "no" THEN Invalid("yaml-parse-error") ELSE Nothing
<1>1. ~Applies(d, Unsubstituted)
  BY DEF IsInput, Applies, Unsubstituted
<1>2. Judge(d.body, Unsubstituted) = Judge(d.body, options)
  BY JudgeIgnoresSubstitution
<1> QED BY <1>1, <1>2 DEF VerdictOn

\* What `build` prints decodes as the document did; its body is that which is
\* applied.
LEMMA RenderedDocument ==
  ASSUME IsInput, Rendered(doc, options).fails = ""
  PROVE  /\ Rendered(doc, options).doc.decodes = doc.decodes
         /\ doc.decodes = "yes" => Rendered(doc, options).doc.body = Applied
<1>1. CASE Rendered(doc, options) = Printed(doc) /\ (doc.decodes = "yes" => ~Applies(doc, options))
  <2>1. Printed(doc).doc = doc
    BY DEF Printed
  <2>2. doc.decodes = "yes" => Applied = doc.body
    BY <1>1 DEF Applied, Applies
  <2> QED BY <1>1, <2>1, <2>2
<1>2. CASE /\ options.envsubst /\ doc.dollar /\ doc.decodes # "no" /\ Applies(doc, options)
           /\ Rendered(doc, options) = Substituted(doc)
  <2>1. CASE doc.decodes = "empty"
    <3> DEFINE d == [doc EXCEPT !.dollar = FALSE]
    <3>1. d.decodes = doc.decodes
      BY DEF IsInput
    <3>2. Rendered(doc, options) = Printed(d)
      BY <1>2, <2>1 DEF Substituted
    <3>3. Printed(d).doc = d
      BY DEF Printed
    <3> QED BY <2>1, <3>1, <3>2, <3>3
  <2>2. CASE doc.decodes = "yes"
    <3> DEFINE d == [doc EXCEPT !.body = doc.after.body, !.dollar = FALSE]
    <3>1. d.decodes = doc.decodes /\ d.body = doc.after.body
      BY DEF IsInput
    <3>2. doc.after.fails = ""
      <4>1. ASSUME doc.after.fails # "" PROVE FALSE
        <5>1. Rendered(doc, options) = Refused(doc, doc.after.fails)
          BY <1>2, <2>2, <4>1 DEF Substituted
        <5>2. Refused(doc, doc.after.fails).fails = doc.after.fails
          BY DEF Refused
        <5> QED BY <4>1, <5>1, <5>2
      <4> QED BY <4>1
    <3>3. Rendered(doc, options) = Printed(d)
      BY <1>2, <2>2, <3>2 DEF Substituted
    <3>4. Printed(d).doc = d
      BY DEF Printed
    <3>5. Applied = doc.after.body
      BY <1>2 DEF Applied, Applies
    <3> QED BY <3>1, <3>3, <3>4, <3>5
  <2> QED BY <1>2, <2>1, <2>2 DEF IsInput
<1> QED BY <1>1, <1>2 DEF Rendered, Applies, Refused

-----------------------------------------------------------------------------
(***************************************************************************)
(* What `build` prints is judged as the document was, and what it refuses  *)
(* is invalid for the same reason, whatever the document, the options and  *)
(* the schema: substitution is done alike on both ways (Substituter.Apply  *)
(* and Substituter.Bytes), and no check after it knows whether it was.     *)
(***************************************************************************)
THEOREM BuildAgreesWithValidate == Spec => []BuildThenValidateAgrees
<1>1. DocumentsInv => BuildThenValidateAgrees
  <2> SUFFICES ASSUME DocumentsInv, next = "done", ~SkippedAsWritten
               PROVE  verdict = IF built.fails # "" THEN Invalid(built.fails) ELSE rebuiltVerdict
    BY DEF BuildThenValidateAgrees
  <2>1. IsInput /\ verdict = VerdictOn(doc, options) /\ built = Rendered(doc, options)
    BY DEF DocumentsInv
  <2>2. CASE built.fails # ""
    <3>1. CASE doc.decodes = "no"
      BY <2>1, <2>2, <3>1 DEF Rendered, Printed, Refused, VerdictOn
    <3>2. CASE doc.decodes = "yes"
      <4>1. Applies(doc, options) /\ doc.after.fails # "" /\ built.fails = doc.after.fails
        BY <2>1, <2>2, <3>2 DEF Rendered, Substituted, Printed, Refused
      <4>2. ~KindSkipped(doc.body, options)
        BY <3>2, <4>1 DEF SkippedAsWritten
      <4> QED BY <2>1, <2>2, <3>2, <4>1, <4>2 DEF VerdictOn
    <3>3. CASE doc.decodes = "empty"
      BY <2>1, <2>2, <3>3 DEF Rendered, Substituted, Printed, Refused
    <3> QED BY <2>1, <3>1, <3>2, <3>3 DEF IsInput
  <2>3. CASE built.fails = ""
    <3>1. /\ built.doc.decodes = doc.decodes
          /\ doc.decodes = "yes" => built.doc.body = Applied
      BY <2>1, <2>3, RenderedDocument
    <3>2. rebuiltVerdict =
            IF doc.decodes = "yes" THEN Judge(built.doc.body, options)
            ELSE IF doc.decodes = "no" THEN Invalid("yaml-parse-error") ELSE Nothing
      <4>1. rebuiltVerdict = VerdictOn(built.doc, Unsubstituted)
        BY <2>3 DEF DocumentsInv
      <4> QED BY <2>1, <3>1, <4>1, UnsubstitutedVerdict DEF IsInput
    <3>3. CASE doc.decodes # "yes"
      BY <2>1, <2>3, <3>2, <3>3 DEF VerdictOn, IsInput
    <3>4. CASE doc.decodes = "yes" /\ ~Applies(doc, options)
      BY <2>1, <2>3, <3>1, <3>2, <3>4 DEF VerdictOn, Applied
    <3>5. CASE doc.decodes = "yes" /\ Applies(doc, options)
      <4>1. ~KindSkipped(doc.body, options)
        BY <3>5 DEF SkippedAsWritten
      <4>2. doc.after.fails = ""
        BY <2>1, <2>3, <3>5 DEF Rendered, Applies, Substituted, Refused
      <4> QED BY <2>1, <2>3, <3>1, <3>2, <3>5, <4>1, <4>2 DEF VerdictOn, Applied
    <3> QED BY <3>3, <3>4, <3>5
  <2> QED BY <2>2, <2>3
<1> QED BY <1>1, DocumentsInvariant, PTL

(***************************************************************************)
(* A kind that is skipped, as it is written or as it is applied, is        *)
(* skipped whatever else is wrong with the document (validateDoc matches   *)
(* --skip-kind before every check that can fail).                          *)
(***************************************************************************)
THEOREM SkippedKindsAreSkipped == Spec => []SkippedKindIsSkipped
<1>1. DocumentsInv => SkippedKindIsSkipped
  <2> SUFFICES ASSUME DocumentsInv, next # "validate", doc.decodes = "yes"
               PROVE  /\ SkippedAsWritten => verdict = Skipped("kind-skipped")
                      /\ IsApplied /\ KindSkipped(Applied, options) => verdict = Skipped("kind-skipped")
    BY DEF SkippedKindIsSkipped
  <2>1. verdict = IF ~Applies(doc, options) THEN Judge(doc.body, options)
                  ELSE IF KindSkipped(doc.body, options) THEN Skipped("kind-skipped")
                  ELSE IF doc.after.fails # "" THEN Invalid(doc.after.fails)
                  ELSE Judge(doc.after.body, options)
    BY DEF DocumentsInv, VerdictOn
  <2>2. ASSUME SkippedAsWritten
        PROVE  verdict = Skipped("kind-skipped")
    BY <2>1, <2>2 DEF SkippedAsWritten
  <2>3. ASSUME IsApplied, KindSkipped(Applied, options)
        PROVE  verdict = Skipped("kind-skipped")
    BY <2>1, <2>3 DEF IsApplied, Applied, Judge
  <2> QED BY <2>2, <2>3
<1> QED BY <1>1, DocumentsInvariant, PTL

-----------------------------------------------------------------------------
(* Functions by recursion over the nodes of a schema.                       *)

ByIndex == {p \in Nat \X Nat : p[1] < p[2]}

LEMMA ByIndexWellFounded == IsWellFoundedOn(ByIndex, Nat)
BY NatLessThanWellFounded DEF OpToRel, ByIndex

\* Induction over a set of naturals: what holds at a number whenever it holds
\* below it, holds at all.
LEMMA StrongInduction ==
  ASSUME NEW N \in Nat, NEW S,
         \A k \in 1 .. N : (\A j \in 1 .. k - 1 : j \in S) => k \in S
  PROVE  \A k \in 1 .. N : k \in S
<1> DEFINE T == {k \in Nat : k \in 1 .. N /\ k \notin S}
<1> SUFFICES ASSUME T # {} PROVE FALSE
  OBVIOUS
<1>1. PICK x \in T : \A y \in T : <<y, x>> \notin ByIndex
  BY WFMin, ByIndexWellFounded
<1>2. ASSUME NEW j \in 1 .. x - 1
      PROVE  j \in S
  <2>1. j \in Nat /\ j \in 1 .. N /\ <<j, x>> \in ByIndex
    BY <1>1 DEF ByIndex
  <2> QED BY <1>1, <2>1
<1> QED BY <1>1, <1>2

\* Functions by recursion: F[k][f] is the value at k, those below k being f.
Definitions(N, T) == [1 .. N -> [[1 .. N -> T] -> T]]
FromBelow(N, T, F) ==
  \A k \in 1 .. N : \A f, g \in [1 .. N -> T] : (\A j \in 1 .. k - 1 : f[j] = g[j]) => F[k][f] = F[k][g]
Solutions(N, T, F) == {f \in [1 .. N -> T] : \A k \in 1 .. N : f[k] = F[k][f]}

LEMMA Recursion ==
  ASSUME NEW N \in Nat, NEW T, T # {}, NEW F \in Definitions(N, T), FromBelow(N, T, F)
  PROVE  Solutions(N, T, F) # {}
<1> USE DEF Definitions, FromBelow, Solutions
<1> DEFINE Good(f, n) == f \in [1 .. N -> T] /\ \A k \in 1 .. n : f[k] = F[k][f]
           S == {n \in 1 .. N : \E f : Good(f, n)}
<1>1. CASE N = 0
  <2>1. PICK t \in T : TRUE
    OBVIOUS
  <2>2. [j \in 1 .. N |-> t] \in [1 .. N -> T] /\ 1 .. N = {}
    BY <1>1
  <2> QED BY <2>2
<1>2. CASE N # 0
  <2>1. ASSUME NEW k \in 1 .. N, \A j \in 1 .. k - 1 : j \in S
        PROVE  k \in S
    <3>1. PICK f : f \in [1 .. N -> T] /\ \A j \in 1 .. k - 1 : f[j] = F[j][f]
      <4>1. CASE k = 1
        <5>1. PICK t \in T : TRUE
          OBVIOUS
        <5>2. [j \in 1 .. N |-> t] \in [1 .. N -> T]
          OBVIOUS
        <5>3. \A j \in 1 .. k - 1 : FALSE
          BY <4>1
        <5> QED BY <5>2, <5>3
      <4>2. CASE k # 1
        <5>1. k - 1 \in 1 .. k - 1
          BY <4>2
        <5>2. k - 1 \in S
          BY <2>1, <5>1
        <5> QED BY <5>2
      <4> QED BY <4>1, <4>2
    <3> DEFINE g == [f EXCEPT ![k] = F[k][f]]
    <3>2. F[k][f] \in T
      BY <3>1
    <3>3. g \in [1 .. N -> T] /\ g[k] = F[k][f] /\ \A j \in 1 .. k - 1 : g[j] = f[j]
      BY <3>1, <3>2
    <3> HIDE DEF g
    <3>4. \A j \in 1 .. k : F[j][g] = F[j][f]
      <4> SUFFICES ASSUME NEW j \in 1 .. k PROVE F[j][g] = F[j][f]
        OBVIOUS
      <4>1. j \in 1 .. N /\ \A i \in 1 .. j - 1 : g[i] = f[i]
        BY <3>3
      <4> QED BY <3>1, <3>3, <4>1
    <3>5. \A j \in 1 .. k : g[j] = F[j][g]
      BY <3>1, <3>3, <3>4
    <3>6. Good(g, k)
      BY <3>3, <3>5
    <3> QED BY <3>6
  <2> HIDE DEF S
  <2>2. \A k \in 1 .. N : k \in S
    BY <2>1, StrongInduction
  <2>3. N \in 1 .. N
    BY <1>2
  <2>4. N \in S
    BY <2>2, <2>3
  <2> QED BY <2>4 DEF S
<1> QED BY <1>1, <1>2

-----------------------------------------------------------------------------
(* What a schema comes to at each node and path. "pruned" and "kept" are    *)
(* what may become of an error.                                             *)

Fates == {"pruned", "kept"}

LEMMA SchemaShape ==
  ASSUME NEW s, IsSchema(s)
  PROVE  /\ Len(s) \in Nat \ {0} /\ DOMAIN s = 1 .. Len(s)
         /\ \A k \in DOMAIN s : \A t \in Subschemas(s[k]) : t \in DOMAIN s /\ t \in 1 .. k - 1
<1>1. Len(s) \in Nat /\ DOMAIN s = 1 .. Len(s) /\ Len(s) # 0
  BY LenProperties, EmptySeq DEF IsSchema
<1> QED BY <1>1 DEF IsSchema

\* A schema in a branch of a node is one of its subschemas.
LEMMA BranchShape ==
  ASSUME NEW n, NEW ts \in Branches(n)
  PROVE  /\ \A i \in DOMAIN ts : ts[i] \in Subschemas(n)
         /\ ToSet(ts) \subseteq Subschemas(n)
BY DEF Subschemas, ToSet

\* The errors of a node are fates if those of its subschemas are.
LEMMA ErrorsTyped ==
  ASSUME NEW n, NEW v, NEW l \in DOMAIN v, NEW P, NEW f,
         \A t \in Subschemas(n) : f[t] \in [DOMAIN v -> SUBSET Fates]
  PROVE  ErrorsOf(n, v, l, P, f) \in SUBSET Fates
<1>1. \A p \in Described(n, v, l) : f[n.properties[p]][Append(l, p)] \subseteq Fates
  BY DEF Described, Subschemas
<1>2. Chosen(n, l, f) = <<>> \/ Chosen(n, l, f) \in Branches(n)
  BY DEF Chosen, Branches
<1>3. \A t \in ToSet(Chosen(n, l, f)) : f[t][l] \subseteq Fates
  <2>1. CASE Chosen(n, l, f) = <<>>
    BY <2>1 DEF ToSet
  <2>2. CASE Chosen(n, l, f) \in Branches(n)
    BY <2>2, BranchShape
  <2> QED BY <1>2, <2>1, <2>2
<1> QED BY <1>1, <1>3 DEF ErrorsOf, Fate, Fates

\* And they depend on no other node.
LEMMA ErrorsLocal ==
  ASSUME NEW n, NEW v, NEW l, NEW P, NEW f, NEW g, \A t \in Subschemas(n) : f[t] = g[t]
  PROVE  ErrorsOf(n, v, l, P, f) = ErrorsOf(n, v, l, P, g)
<1>1. ASSUME NEW ts \in Branches(n)
      PROVE  /\ Holding(ts, l, f) = Holding(ts, l, g)
             /\ Settled(ts, l, f) = Settled(ts, l, g)
  BY BranchShape DEF Holding, Settled
<1>2. Chosen(n, l, f) = Chosen(n, l, g)
  BY <1>1 DEF Chosen, Branches
<1>3. UNION {f[n.properties[p]][Append(l, p)] : p \in Described(n, v, l)}
        = UNION {g[n.properties[p]][Append(l, p)] : p \in Described(n, v, l)}
  <2>1. \A p \in Described(n, v, l) : f[n.properties[p]] = g[n.properties[p]]
    BY DEF Described, Subschemas
  <2> QED BY <2>1
<1>4. UNION {f[t][l] : t \in ToSet(Chosen(n, l, f))} = UNION {g[t][l] : t \in ToSet(Chosen(n, l, g))}
  <2>1. Chosen(n, l, f) = <<>> \/ Chosen(n, l, f) \in Branches(n)
    BY DEF Chosen, Branches
  <2>2. \A t \in ToSet(Chosen(n, l, f)) : f[t] = g[t]
    BY <2>1, BranchShape DEF ToSet
  <2> QED BY <1>2, <2>2
<1>5. /\ Holding(n.not, l, f) = Holding(n.not, l, g)
      /\ Holding(n.allOf, l, f) = Holding(n.allOf, l, g)
      /\ Holding(n.anyOf, l, f) = Holding(n.anyOf, l, g)
      /\ Holding(n.oneOf, l, f) = Holding(n.oneOf, l, g)
      /\ Settled(n.allOf, l, f) = Settled(n.allOf, l, g)
      /\ Settled(n.anyOf, l, f) = Settled(n.anyOf, l, g)
      /\ Settled(n.oneOf, l, f) = Settled(n.oneOf, l, g)
  BY <1>1 DEF Branches
<1> DEFINE If(cond, fate) == IF cond THEN {fate} ELSE {}
           All(fields, never, all, allS, any, anyS, one, oneS, chosen) ==
             UNION {If(n.good /\ ~v[l].good, "kept"),
                    If(Missing(n, v, l) # {}, Fate(AllNamed(l, Missing(n, v, l), P))),
                    fields,
                    If(never # {}, "kept"),
                    If(all # DOMAIN n.allOf, Fate(Prunes("allOf", DOMAIN n.allOf, allS))),
                    If(n.anyOf # <<>> /\ any = {}, Fate(Prunes("anyOf", DOMAIN n.anyOf, anyS))),
                    If(n.oneOf # <<>> /\ one = {}, Fate(Prunes("oneOf", DOMAIN n.oneOf, oneS))),
                    If(Several(one), "kept"),
                    chosen}
           Errors(h) ==
             All(UNION {h[n.properties[p]][Append(l, p)] : p \in Described(n, v, l)},
                 Holding(n.not, l, h), Holding(n.allOf, l, h), Settled(n.allOf, l, h),
                 Holding(n.anyOf, l, h), Settled(n.anyOf, l, h),
                 Holding(n.oneOf, l, h), Settled(n.oneOf, l, h),
                 UNION {h[t][l] : t \in ToSet(Chosen(n, l, h))})
<1>6. ErrorsOf(n, v, l, P, f) = Errors(f) /\ ErrorsOf(n, v, l, P, g) = Errors(g)
  BY DEF ErrorsOf
<1> HIDE DEF All
<1>7. Errors(f) = Errors(g)
  BY <1>3, <1>4, <1>5
<1> QED BY <1>6, <1>7

\* The errors are by node and path, and those of a node are what ErrorsOf
\* makes of those of its subschemas.
LEMMA FailuresRecur ==
  ASSUME NEW s, IsSchema(s), NEW v, NEW P
  PROVE  /\ Failures(s, v, P) \in [DOMAIN s -> [DOMAIN v -> SUBSET Fates]]
         /\ \A k \in DOMAIN s : \A l \in DOMAIN v :
              Failures(s, v, P)[k][l] = ErrorsOf(s[k], v, l, P, Failures(s, v, P))
<1> DEFINE N == Len(s)
           T == [DOMAIN v -> SUBSET Fates]
           At(k, f) == [l \in DOMAIN v |-> ErrorsOf(s[k], v, l, P, f)]
           F == [k \in 1 .. N |-> [f \in [1 .. N -> T] |-> At(k, f)]]
           Defined(f) == f = [k \in DOMAIN s |-> At(k, f)]
<1>1. /\ N \in Nat /\ DOMAIN s = 1 .. N
      /\ \A k \in DOMAIN s : \A t \in Subschemas(s[k]) : t \in DOMAIN s /\ t \in 1 .. k - 1
  BY SchemaShape
<1>2. ASSUME NEW k \in 1 .. N, NEW f, \A t \in Subschemas(s[k]) : f[t] \in T
      PROVE  At(k, f) \in T
  BY <1>2, ErrorsTyped
<1>3. ASSUME NEW k \in 1 .. N, NEW f, NEW g, \A t \in Subschemas(s[k]) : f[t] = g[t]
      PROVE  At(k, f) = At(k, g)
  BY <1>3, ErrorsLocal
<1>4. T # {}
  <2>1. [l \in DOMAIN v |-> {}] \in T
    OBVIOUS
  <2> QED BY <2>1
<1> HIDE DEF T, At
<1>5. F \in [1 .. N -> [[1 .. N -> T] -> T]]
  BY <1>1, <1>2
<1>6. \A k \in 1 .. N : \A f \in [1 .. N -> T] : F[k][f] = At(k, f)
  OBVIOUS
<1> HIDE DEF F
<1>7. F \in Definitions(N, T) /\ FromBelow(N, T, F)
  <2>1. ASSUME NEW k \in 1 .. N, NEW f \in [1 .. N -> T], NEW g \in [1 .. N -> T],
               \A j \in 1 .. k - 1 : f[j] = g[j]
        PROVE  F[k][f] = F[k][g]
    <3>1. \A t \in Subschemas(s[k]) : f[t] = g[t]
      BY <1>1, <2>1
    <3>2. At(k, f) = At(k, g)
      BY <1>3, <3>1
    <3> QED BY <1>6, <3>2
  <2> QED BY <1>5, <2>1 DEF Definitions, FromBelow
<1>8. \E f : Defined(f)
  <2>1. Solutions(N, T, F) # {}
    <3> HIDE DEF N
    <3>1. N \in Nat
      BY <1>1
    <3> QED BY <1>4, <1>7, <3>1, Recursion
  <2>2. PICK f \in [1 .. N -> T] : \A k \in 1 .. N : f[k] = F[k][f]
    BY <2>1 DEF Solutions
  <2>3. f = [k \in DOMAIN s |-> At(k, f)]
    BY <1>1, <1>6, <2>2
  <2> QED BY <2>3
<1> DEFINE e == CHOOSE f : Defined(f)
<1>9. e = Failures(s, v, P)
  BY DEF Failures, At
<1>10. e = [k \in DOMAIN s |-> At(k, e)]
  BY <1>8
<1> HIDE DEF e, Defined, N
<1>11. \A k \in 1 .. N : e[k] \in T
  <2> DEFINE S == {k \in 1 .. N : e[k] \in T}
  <2>1. ASSUME NEW k \in 1 .. N, \A j \in 1 .. k - 1 : j \in S
        PROVE  k \in S
    BY <1>1, <1>2, <1>10, <2>1
  <2>2. \A k \in 1 .. N : k \in S
    <3> HIDE DEF S
    <3> QED BY <1>1, <2>1, StrongInduction
  <2> QED BY <2>2
<1>12. e \in [DOMAIN s -> T]
  BY <1>1, <1>10, <1>11
<1>13. \A k \in DOMAIN s : \A l \in DOMAIN v : e[k][l] = ErrorsOf(s[k], v, l, P, e)
  BY <1>10 DEF At
<1> QED BY <1>9, <1>12, <1>13 DEF T

\* What is ambiguous depends on the subschemas alone.
LEMMA AmbiguityLocal ==
  ASSUME NEW n, NEW v, NEW l, NEW f, NEW a, NEW b, \A t \in Subschemas(n) : a[t] = b[t]
  PROVE  AmbiguityOf(n, v, l, f, a) = AmbiguityOf(n, v, l, f, b)
<1>1. \A ts \in {n.allOf, n.anyOf, n.oneOf, n.then, n.else} : ts \in Branches(n)
  BY DEF Branches
<1>2. /\ \A ts \in {n.allOf, n.anyOf} : \A i \in Settled(ts, l, f) : a[ts[i]] = b[ts[i]]
      /\ \A i \in Settled(n.oneOf, l, f) : a[n.oneOf[i]] = b[n.oneOf[i]]
  BY <1>1, BranchShape DEF Settled
<1>3. \A t \in ToSet(n.then) \cup ToSet(n.else) : a[t] = b[t]
  BY <1>1, BranchShape
<1>4. \A t \in ToSet(<<>>) : a[t] = b[t]
  BY DEF ToSet
<1>5. \A p \in Described(n, v, l) : a[n.properties[p]] = b[n.properties[p]]
  BY DEF Described, Subschemas
<1> QED BY <1>2, <1>3, <1>4, <1>5 DEF AmbiguityOf

\* Likewise for what is ambiguous.
LEMMA AmbiguousRecur ==
  ASSUME NEW s, IsSchema(s), NEW v, NEW P
  PROVE  /\ Ambiguous(s, v, P) \in [DOMAIN s -> [DOMAIN v -> BOOLEAN]]
         /\ \A k \in DOMAIN s : \A l \in DOMAIN v :
              Ambiguous(s, v, P)[k][l] = AmbiguityOf(s[k], v, l, Failures(s, v, P), Ambiguous(s, v, P))
<1> DEFINE N == Len(s)
           T == [DOMAIN v -> BOOLEAN]
           At(k, f) == [l \in DOMAIN v |-> AmbiguityOf(s[k], v, l, Failures(s, v, P), f)]
           F == [k \in 1 .. N |-> [f \in [1 .. N -> T] |-> At(k, f)]]
           Defined(f) == f = [k \in DOMAIN s |-> At(k, f)]
<1>1. /\ N \in Nat /\ DOMAIN s = 1 .. N
      /\ \A k \in DOMAIN s : \A t \in Subschemas(s[k]) : t \in DOMAIN s /\ t \in 1 .. k - 1
  BY SchemaShape
<1>2. ASSUME NEW k \in 1 .. N, NEW f, \A t \in Subschemas(s[k]) : f[t] \in T
      PROVE  At(k, f) \in T
  BY DEF AmbiguityOf
<1>3. ASSUME NEW k \in 1 .. N, NEW f, NEW g, \A t \in Subschemas(s[k]) : f[t] = g[t]
      PROVE  At(k, f) = At(k, g)
  BY <1>3, AmbiguityLocal
<1>4. T # {}
  <2>1. [l \in DOMAIN v |-> FALSE] \in T
    OBVIOUS
  <2> QED BY <2>1
<1> HIDE DEF T, At
<1>5. F \in [1 .. N -> [[1 .. N -> T] -> T]]
  BY <1>1, <1>2
<1>6. \A k \in 1 .. N : \A f \in [1 .. N -> T] : F[k][f] = At(k, f)
  OBVIOUS
<1> HIDE DEF F
<1>7. F \in Definitions(N, T) /\ FromBelow(N, T, F)
  <2>1. ASSUME NEW k \in 1 .. N, NEW f \in [1 .. N -> T], NEW g \in [1 .. N -> T],
               \A j \in 1 .. k - 1 : f[j] = g[j]
        PROVE  F[k][f] = F[k][g]
    <3>1. \A t \in Subschemas(s[k]) : f[t] = g[t]
      BY <1>1, <2>1
    <3>2. At(k, f) = At(k, g)
      BY <1>3, <3>1
    <3> QED BY <1>6, <3>2
  <2> QED BY <1>5, <2>1 DEF Definitions, FromBelow
<1>8. \E f : Defined(f)
  <2>1. Solutions(N, T, F) # {}
    <3> HIDE DEF N
    <3>1. N \in Nat
      BY <1>1
    <3> QED BY <1>4, <1>7, <3>1, Recursion
  <2>2. PICK f \in [1 .. N -> T] : \A k \in 1 .. N : f[k] = F[k][f]
    BY <2>1 DEF Solutions
  <2>3. f = [k \in DOMAIN s |-> At(k, f)]
    BY <1>1, <1>6, <2>2
  <2> QED BY <2>3
<1> DEFINE e == CHOOSE f : Defined(f)
<1>9. e = Ambiguous(s, v, P)
  BY DEF Ambiguous, At
<1>10. e = [k \in DOMAIN s |-> At(k, e)]
  BY <1>8
<1> HIDE DEF e, Defined, N
<1>11. \A k \in 1 .. N : e[k] \in T
  <2> DEFINE S == {k \in 1 .. N : e[k] \in T}
  <2>1. ASSUME NEW k \in 1 .. N, \A j \in 1 .. k - 1 : j \in S
        PROVE  k \in S
    BY <1>1, <1>2, <1>10, <2>1
  <2>2. \A k \in 1 .. N : k \in S
    <3> HIDE DEF S
    <3> QED BY <1>1, <2>1, StrongInduction
  <2> QED BY <2>2
<1>12. e \in [DOMAIN s -> T]
  BY <1>1, <1>10, <1>11
<1>13. \A k \in DOMAIN s : \A l \in DOMAIN v : e[k][l] = AmbiguityOf(s[k], v, l, Failures(s, v, P), e)
  BY <1>10 DEF At
<1> QED BY <1>9, <1>12, <1>13 DEF T

\* And so does what is satisfied.
LEMMA SatisfiedLocal ==
  ASSUME NEW n, NEW v, NEW l, NEW P, NEW a, NEW b, \A t \in Subschemas(n) : a[t] = b[t]
  PROVE  SatisfiedAt(n, v, l, P, a) = SatisfiedAt(n, v, l, P, b)
<1>1. \A ts \in {n.not, n.allOf, n.anyOf, n.oneOf, n.if, n.then, n.else} :
        {i \in DOMAIN ts : a[ts[i]][l]} = {i \in DOMAIN ts : b[ts[i]][l]}
  <2>1. ASSUME NEW ts \in Branches(n)
        PROVE  {i \in DOMAIN ts : a[ts[i]][l]} = {i \in DOMAIN ts : b[ts[i]][l]}
    BY BranchShape
  <2> QED BY <2>1 DEF Branches
<1>2. \A p \in Described(n, v, l) : a[n.properties[p]] = b[n.properties[p]]
  BY DEF Described, Subschemas
<1> QED BY <1>1, <1>2 DEF SatisfiedAt

\* Likewise for what is satisfied.
LEMMA SatisfiedRecur ==
  ASSUME NEW s, IsSchema(s), NEW v, NEW P
  PROVE  /\ Satisfied(s, v, P) \in [DOMAIN s -> [DOMAIN v -> BOOLEAN]]
         /\ \A k \in DOMAIN s : \A l \in DOMAIN v :
              Satisfied(s, v, P)[k][l] = SatisfiedAt(s[k], v, l, P, Satisfied(s, v, P))
<1> DEFINE N == Len(s)
           T == [DOMAIN v -> BOOLEAN]
           At(k, f) == [l \in DOMAIN v |-> SatisfiedAt(s[k], v, l, P, f)]
           F == [k \in 1 .. N |-> [f \in [1 .. N -> T] |-> At(k, f)]]
           Defined(f) == f = [k \in DOMAIN s |-> At(k, f)]
<1>1. /\ N \in Nat /\ DOMAIN s = 1 .. N
      /\ \A k \in DOMAIN s : \A t \in Subschemas(s[k]) : t \in DOMAIN s /\ t \in 1 .. k - 1
  BY SchemaShape
<1>2. ASSUME NEW k \in 1 .. N, NEW f, \A t \in Subschemas(s[k]) : f[t] \in T
      PROVE  At(k, f) \in T
  BY DEF SatisfiedAt
<1>3. ASSUME NEW k \in 1 .. N, NEW f, NEW g, \A t \in Subschemas(s[k]) : f[t] = g[t]
      PROVE  At(k, f) = At(k, g)
  BY <1>3, SatisfiedLocal
<1>4. T # {}
  <2>1. [l \in DOMAIN v |-> FALSE] \in T
    OBVIOUS
  <2> QED BY <2>1
<1> HIDE DEF T, At
<1>5. F \in [1 .. N -> [[1 .. N -> T] -> T]]
  BY <1>1, <1>2
<1>6. \A k \in 1 .. N : \A f \in [1 .. N -> T] : F[k][f] = At(k, f)
  OBVIOUS
<1> HIDE DEF F
<1>7. F \in Definitions(N, T) /\ FromBelow(N, T, F)
  <2>1. ASSUME NEW k \in 1 .. N, NEW f \in [1 .. N -> T], NEW g \in [1 .. N -> T],
               \A j \in 1 .. k - 1 : f[j] = g[j]
        PROVE  F[k][f] = F[k][g]
    <3>1. \A t \in Subschemas(s[k]) : f[t] = g[t]
      BY <1>1, <2>1
    <3>2. At(k, f) = At(k, g)
      BY <1>3, <3>1
    <3> QED BY <1>6, <3>2
  <2> QED BY <1>5, <2>1 DEF Definitions, FromBelow
<1>8. \E f : Defined(f)
  <2>1. Solutions(N, T, F) # {}
    <3> HIDE DEF N
    <3>1. N \in Nat
      BY <1>1
    <3> QED BY <1>4, <1>7, <3>1, Recursion
  <2>2. PICK f \in [1 .. N -> T] : \A k \in 1 .. N : f[k] = F[k][f]
    BY <2>1 DEF Solutions
  <2>3. f = [k \in DOMAIN s |-> At(k, f)]
    BY <1>1, <1>6, <2>2
  <2> QED BY <2>3
<1> DEFINE e == CHOOSE f : Defined(f)
<1>9. e = Satisfied(s, v, P)
  BY DEF Satisfied, At
<1>10. e = [k \in DOMAIN s |-> At(k, e)]
  BY <1>8
<1> HIDE DEF e, Defined, N
<1>11. \A k \in 1 .. N : e[k] \in T
  <2> DEFINE S == {k \in 1 .. N : e[k] \in T}
  <2>1. ASSUME NEW k \in 1 .. N, \A j \in 1 .. k - 1 : j \in S
        PROVE  k \in S
    BY <1>1, <1>2, <1>10, <2>1
  <2>2. \A k \in 1 .. N : k \in S
    <3> HIDE DEF S
    <3> QED BY <1>1, <2>1, StrongInduction
  <2> QED BY <2>2
<1>12. e \in [DOMAIN s -> T]
  BY <1>1, <1>10, <1>11
<1>13. \A k \in DOMAIN s : \A l \in DOMAIN v : e[k][l] = SatisfiedAt(s[k], v, l, P, e)
  BY <1>10 DEF At
<1> QED BY <1>9, <1>12, <1>13 DEF T

\* Likewise for the nodes below.
LEMMA BelowRecur ==
  ASSUME NEW s, IsSchema(s)
  PROVE  /\ Below(s) \in [DOMAIN s -> SUBSET DOMAIN s]
         /\ \A k \in DOMAIN s : Below(s)[k] = {k} \cup UNION {Below(s)[t] : t \in Subschemas(s[k])}
<1> DEFINE N == Len(s)
           T == SUBSET DOMAIN s
           At(k, f) == {k} \cup UNION {f[t] : t \in Subschemas(s[k])}
           F == [k \in 1 .. N |-> [f \in [1 .. N -> T] |-> At(k, f)]]
           Defined(f) == f = [k \in DOMAIN s |-> At(k, f)]
<1>1. /\ N \in Nat /\ DOMAIN s = 1 .. N
      /\ \A k \in DOMAIN s : \A t \in Subschemas(s[k]) : t \in DOMAIN s /\ t \in 1 .. k - 1
  BY SchemaShape
<1>2. ASSUME NEW k \in 1 .. N, NEW f, \A t \in Subschemas(s[k]) : f[t] \in T
      PROVE  At(k, f) \in T
  BY <1>1, <1>2
<1>3. ASSUME NEW k \in 1 .. N, NEW f, NEW g, \A t \in Subschemas(s[k]) : f[t] = g[t]
      PROVE  At(k, f) = At(k, g)
  BY <1>3
<1>4. T # {}
  <2>1. {} \in T
    OBVIOUS
  <2> QED BY <2>1
<1> HIDE DEF T, At
<1>5. F \in [1 .. N -> [[1 .. N -> T] -> T]]
  BY <1>1, <1>2
<1>6. \A k \in 1 .. N : \A f \in [1 .. N -> T] : F[k][f] = At(k, f)
  OBVIOUS
<1> HIDE DEF F
<1>7. F \in Definitions(N, T) /\ FromBelow(N, T, F)
  <2>1. ASSUME NEW k \in 1 .. N, NEW f \in [1 .. N -> T], NEW g \in [1 .. N -> T],
               \A j \in 1 .. k - 1 : f[j] = g[j]
        PROVE  F[k][f] = F[k][g]
    <3>1. \A t \in Subschemas(s[k]) : f[t] = g[t]
      BY <1>1, <2>1
    <3>2. At(k, f) = At(k, g)
      BY <1>3, <3>1
    <3> QED BY <1>6, <3>2
  <2> QED BY <1>5, <2>1 DEF Definitions, FromBelow
<1>8. \E f : Defined(f)
  <2>1. Solutions(N, T, F) # {}
    <3> HIDE DEF N
    <3>1. N \in Nat
      BY <1>1
    <3> QED BY <1>4, <1>7, <3>1, Recursion
  <2>2. PICK f \in [1 .. N -> T] : \A k \in 1 .. N : f[k] = F[k][f]
    BY <2>1 DEF Solutions
  <2>3. f = [k \in DOMAIN s |-> At(k, f)]
    BY <1>1, <1>6, <2>2
  <2> QED BY <2>3
<1> DEFINE e == CHOOSE f : Defined(f)
<1>9. e = Below(s)
  BY DEF Below, At
<1>10. e = [k \in DOMAIN s |-> At(k, e)]
  BY <1>8
<1> HIDE DEF e, Defined, N
<1>11. \A k \in 1 .. N : e[k] \in T
  <2> DEFINE S == {k \in 1 .. N : e[k] \in T}
  <2>1. ASSUME NEW k \in 1 .. N, \A j \in 1 .. k - 1 : j \in S
        PROVE  k \in S
    BY <1>1, <1>2, <1>10, <2>1
  <2>2. \A k \in 1 .. N : k \in S
    <3> HIDE DEF S
    <3> QED BY <1>1, <2>1, StrongInduction
  <2> QED BY <2>2
<1>12. e \in [DOMAIN s -> T]
  BY <1>1, <1>10, <1>11
<1>13. \A k \in DOMAIN s : e[k] = {k} \cup UNION {e[t] : t \in Subschemas(s[k])}
  BY <1>10 DEF At
<1> QED BY <1>9, <1>12, <1>13 DEF T

-----------------------------------------------------------------------------
(* Schemas without `not` and `if`.                                          *)

\* A node matches where no error of its is kept.
Matches(s, v, P, k, l) == "kept" \notin Failures(s, v, P)[k][l]

\* An alternative of a oneOf is found: one without errors, or the only one
\* without errors that are kept.
OneFound(ts, l, f) ==
  \/ ExactlyOne(Holding(ts, l, f))
  \/ Holding(ts, l, f) = {} /\ ExactlyOne(Settled(ts, l, f))

MatchesAt(n, v, l, P, f) ==
  /\ n.good => v[l].good
  /\ \A p \in Missing(n, v, l) : Append(l, p) \in P
  /\ \A p \in Described(n, v, l) : "kept" \notin f[n.properties[p]][Append(l, p)]
  /\ Settled(n.allOf, l, f) = DOMAIN n.allOf
  /\ n.anyOf # <<>> => Settled(n.anyOf, l, f) # {}
  /\ n.oneOf # <<>> => OneFound(n.oneOf, l, f)

\* What keeps no error of a node without `not` and `if`.
LEMMA NothingKept ==
  ASSUME NEW n, n.not = <<>>, n.if = <<>>, NEW v, NEW l, NEW P, NEW f
  PROVE  "kept" \notin ErrorsOf(n, v, l, P, f) <=> MatchesAt(n, v, l, P, f)
<1> DEFINE FateOf(kind, ts) == Fate(Prunes(kind, DOMAIN ts, Settled(ts, l, f)))
<1>1. Holding(n.not, l, f) = {} /\ Chosen(n, l, f) = <<>> /\ ToSet(<<>>) = {}
  BY DEF Holding, Chosen, ToSet
<1>2. ASSUME NEW ts
      PROVE  Holding(ts, l, f) \subseteq Settled(ts, l, f) /\ Settled(ts, l, f) \subseteq DOMAIN ts
  BY DEF Holding, Settled
<1>3. /\ FateOf("allOf", n.allOf) = "kept" <=> Settled(n.allOf, l, f) # DOMAIN n.allOf
      /\ FateOf("anyOf", n.anyOf) = "kept" <=> Settled(n.anyOf, l, f) = {}
      /\ FateOf("oneOf", n.oneOf) = "kept" <=> ~ExactlyOne(Settled(n.oneOf, l, f))
  BY DEF Fate, Prunes
<1>4. Missing(n, v, l) # {} /\ Fate(AllNamed(l, Missing(n, v, l), P)) = "kept"
        <=> \E p \in Missing(n, v, l) : Append(l, p) \notin P
  BY DEF Fate, AllNamed
<1>5. \/ ExactlyOne(Holding(n.oneOf, l, f)) /\ ~Several(Holding(n.oneOf, l, f)) /\ Holding(n.oneOf, l, f) # {}
      \/ ~ExactlyOne(Holding(n.oneOf, l, f)) /\ Holding(n.oneOf, l, f) = {} /\ ~Several(Holding(n.oneOf, l, f))
      \/ ~ExactlyOne(Holding(n.oneOf, l, f)) /\ Several(Holding(n.oneOf, l, f)) /\ Holding(n.oneOf, l, f) # {}
  BY DEF ExactlyOne, Several
<1>6. n.oneOf = <<>> => Holding(n.oneOf, l, f) = {}
  BY DEF Holding
<1> DEFINE errors ==
      \/ n.good /\ ~v[l].good
      \/ Missing(n, v, l) # {} /\ Fate(AllNamed(l, Missing(n, v, l), P)) = "kept"
      \/ \E p \in Described(n, v, l) : "kept" \in f[n.properties[p]][Append(l, p)]
      \/ Holding(n.allOf, l, f) # DOMAIN n.allOf /\ FateOf("allOf", n.allOf) = "kept"
      \/ n.anyOf # <<>> /\ Holding(n.anyOf, l, f) = {} /\ FateOf("anyOf", n.anyOf) = "kept"
      \/ n.oneOf # <<>> /\ Holding(n.oneOf, l, f) = {} /\ FateOf("oneOf", n.oneOf) = "kept"
      \/ Several(Holding(n.oneOf, l, f))
<1>7. "kept" \in ErrorsOf(n, v, l, P, f) <=> errors
  BY <1>1 DEF ErrorsOf
<1> HIDE DEF FateOf
<1>8. errors <=> ~MatchesAt(n, v, l, P, f)
  BY <1>2, <1>3, <1>4, <1>5, <1>6 DEF MatchesAt, OneFound
<1> QED BY <1>7, <1>8


\* Those of the schemas ts that are satisfied.
Pleased(ts, l, g) == {i \in DOMAIN ts : g[ts[i]][l]}

PleasedAt(n, v, l, P, g) ==
  /\ n.good => v[l].good
  /\ \A p \in Missing(n, v, l) : Append(l, p) \in P
  /\ \A p \in Described(n, v, l) : g[n.properties[p]][Append(l, p)]
  /\ Pleased(n.allOf, l, g) = DOMAIN n.allOf
  /\ n.anyOf # <<>> => Pleased(n.anyOf, l, g) # {}
  /\ n.oneOf # <<>> => ExactlyOne(Pleased(n.oneOf, l, g))

AmbiguousAt(n, v, l, f, a) ==
  \/ \E ts \in {n.allOf, n.anyOf} : \E i \in Settled(ts, l, f) : a[ts[i]][l]
  \/ Several(Settled(n.oneOf, l, f))
  \/ \E i \in Settled(n.oneOf, l, f) : Settled(n.oneOf, l, f) = {i} /\ a[n.oneOf[i]][l]
  \/ \E p \in Described(n, v, l) : a[n.properties[p]][Append(l, p)]

\* What a schema without `not` and `if` comes to at a node.
LEMMA Unconditionally ==
  ASSUME NEW s, IsSchema(s), Unconditional(s), NEW v, NEW P, NEW k \in DOMAIN s, NEW l \in DOMAIN v
  PROVE  /\ Matches(s, v, P, k, l) <=> MatchesAt(s[k], v, l, P, Failures(s, v, P))
         /\ Satisfied(s, v, P)[k][l] <=> PleasedAt(s[k], v, l, P, Satisfied(s, v, P))
         /\ Ambiguous(s, v, P)[k][l] <=> AmbiguousAt(s[k], v, l, Failures(s, v, P), Ambiguous(s, v, P))
<1>1. s[k].not = <<>> /\ s[k].if = <<>>
  BY DEF Unconditional
<1>2. Matches(s, v, P, k, l) <=> MatchesAt(s[k], v, l, P, Failures(s, v, P))
  <2>1. Failures(s, v, P)[k][l] = ErrorsOf(s[k], v, l, P, Failures(s, v, P))
    BY FailuresRecur
  <2> QED BY <1>1, <2>1, NothingKept DEF Matches
<1>3. Satisfied(s, v, P)[k][l] <=> PleasedAt(s[k], v, l, P, Satisfied(s, v, P))
  <2> DEFINE g == Satisfied(s, v, P)
  <2>1. g[k][l] = SatisfiedAt(s[k], v, l, P, g)
    BY SatisfiedRecur
  <2> HIDE DEF g
  <2>2. {i \in DOMAIN s[k].not : g[s[k].not[i]][l]} = {}
    BY <1>1
  <2>3. SatisfiedAt(s[k], v, l, P, g) <=> PleasedAt(s[k], v, l, P, g)
    BY <1>1, <2>2 DEF SatisfiedAt, PleasedAt, Pleased
  <2> QED BY <2>1, <2>3 DEF g
<1>4. Ambiguous(s, v, P)[k][l] <=> AmbiguousAt(s[k], v, l, Failures(s, v, P), Ambiguous(s, v, P))
  <2> DEFINE a == Ambiguous(s, v, P)
             f == Failures(s, v, P)
  <2>1. a[k][l] = AmbiguityOf(s[k], v, l, f, a)
    BY AmbiguousRecur
  <2> HIDE DEF a, f
  <2>2. ToSet(<<>>) = {}
    BY DEF ToSet
  <2>3. AmbiguityOf(s[k], v, l, f, a) <=> AmbiguousAt(s[k], v, l, f, a)
    BY <1>1, <2>2 DEF AmbiguityOf, AmbiguousAt
  <2> QED BY <2>1, <2>3 DEF a, f
<1> QED BY <1>2, <1>3, <1>4

\* The alternatives of a node, and the schemas of its fields, are nodes
\* before it.
LEMMA Alternatives ==
  ASSUME NEW s, IsSchema(s), NEW k \in DOMAIN s
  PROVE  /\ \A ts \in {s[k].allOf, s[k].anyOf, s[k].oneOf} : \A i \in DOMAIN ts :
              ts[i] \in Subschemas(s[k]) /\ ts[i] \in DOMAIN s /\ ts[i] \in 1 .. k - 1 /\ ts[i] \in ToSet(ts)
         /\ \A v, l : \A p \in Described(s[k], v, l) :
              /\ s[k].properties[p] \in Subschemas(s[k])
              /\ s[k].properties[p] \in DOMAIN s /\ s[k].properties[p] \in 1 .. k - 1
              /\ Append(l, p) \in DOMAIN v
<1>1. \A t \in Subschemas(s[k]) : t \in DOMAIN s /\ t \in 1 .. k - 1
  BY SchemaShape
<1>2. \A ts \in {s[k].allOf, s[k].anyOf, s[k].oneOf} : \A i \in DOMAIN ts :
        ts[i] \in Subschemas(s[k]) /\ ts[i] \in ToSet(ts)
  <2>1. \A ts \in {s[k].allOf, s[k].anyOf, s[k].oneOf} : ts \in Branches(s[k])
    BY DEF Branches
  <2>2. \A ts : \A i \in DOMAIN ts : ts[i] \in ToSet(ts)
    BY DEF ToSet
  <2> QED BY <2>1, <2>2, BranchShape
<1>3. \A v, l : \A p \in Described(s[k], v, l) :
        s[k].properties[p] \in Subschemas(s[k]) /\ Append(l, p) \in DOMAIN v
  BY DEF Described, Subschemas
<1> QED BY <1>1, <1>2, <1>3

\* A node without a oneOf at or below it has subschemas without.
LEMMA WithoutBelow ==
  ASSUME NEW s, IsSchema(s), NEW k \in DOMAIN s
  PROVE  /\ k \in Below(s)[k]
         /\ \A t \in Subschemas(s[k]) : Below(s)[t] \subseteq Below(s)[k]
BY BelowRecur

\* Induction over the nodes of a schema.
LEMMA NodeInduction ==
  ASSUME NEW s, IsSchema(s), NEW S,
         \A k \in DOMAIN s : (\A j \in 1 .. k - 1 : j \in S) => k \in S
  PROVE  \A k \in DOMAIN s : k \in S
<1>1. Len(s) \in Nat /\ DOMAIN s = 1 .. Len(s)
  BY SchemaShape
<1>2. \A k \in 1 .. Len(s) : k \in S
  BY <1>1, StrongInduction
<1> QED BY <1>1, <1>2


\* Where no oneOf is at or below a node, it matches where it is satisfied.
LEMMA WithoutOneOfExact ==
  ASSUME NEW s, IsSchema(s), Unconditional(s), NEW v, NEW P
  PROVE  \A k \in DOMAIN s : WithoutOneOf(s, k) =>
           \A l \in DOMAIN v : Matches(s, v, P, k, l) <=> Satisfied(s, v, P)[k][l]
<1> DEFINE f == Failures(s, v, P)
           g == Satisfied(s, v, P)
           S == {k \in DOMAIN s : WithoutOneOf(s, k) =>
                   \A l \in DOMAIN v : Matches(s, v, P, k, l) <=> g[k][l]}
<1>1. ASSUME NEW k \in DOMAIN s, \A j \in 1 .. k - 1 : j \in S
      PROVE  k \in S
  <2> SUFFICES ASSUME WithoutOneOf(s, k), NEW l \in DOMAIN v
               PROVE  Matches(s, v, P, k, l) <=> g[k][l]
    OBVIOUS
  <2>1. s[k].oneOf = <<>> /\ \A t \in Subschemas(s[k]) : WithoutOneOf(s, t)
    BY WithoutBelow DEF WithoutOneOf
  <2>2. \A ts \in {s[k].allOf, s[k].anyOf} : Settled(ts, l, f) = Pleased(ts, l, g)
    <3> SUFFICES ASSUME NEW ts \in {s[k].allOf, s[k].anyOf}, NEW i \in DOMAIN ts
                 PROVE  "kept" \notin f[ts[i]][l] <=> g[ts[i]][l]
      BY DEF Settled, Pleased
    <3>1. ts[i] \in S /\ WithoutOneOf(s, ts[i])
      BY <1>1, <2>1, Alternatives
    <3> QED BY <3>1 DEF Matches
  <2>3. \A p \in Described(s[k], v, l) :
          "kept" \notin f[s[k].properties[p]][Append(l, p)] <=> g[s[k].properties[p]][Append(l, p)]
    <3> SUFFICES ASSUME NEW p \in Described(s[k], v, l)
                 PROVE  "kept" \notin f[s[k].properties[p]][Append(l, p)] <=> g[s[k].properties[p]][Append(l, p)]
      OBVIOUS
    <3>1. s[k].properties[p] \in S /\ WithoutOneOf(s, s[k].properties[p]) /\ Append(l, p) \in DOMAIN v
      BY <1>1, <2>1, Alternatives
    <3> QED BY <3>1 DEF Matches
  <2>4. MatchesAt(s[k], v, l, P, f) <=> PleasedAt(s[k], v, l, P, g)
    <3> HIDE DEF f, g
    <3> QED BY <2>1, <2>2, <2>3 DEF MatchesAt, PleasedAt
  <2> QED BY <2>4, Unconditionally
<1>2. \A k \in DOMAIN s : k \in S
  <2> HIDE DEF S
  <2> QED BY <1>1, NodeInduction
<1> QED BY <1>2

\* Where no oneOf at or below a node has another inside, it matches where it
\* is satisfied.
NoOneOfInside(s, k) == \A j \in Below(s)[k] : \A u \in ToSet(s[j].oneOf) : WithoutOneOf(s, u)

LEMMA SatisfiedMatches ==
  ASSUME NEW s, IsSchema(s), Unconditional(s), NEW v, NEW P
  PROVE  \A k \in DOMAIN s : NoOneOfInside(s, k) =>
           \A l \in DOMAIN v : Satisfied(s, v, P)[k][l] => Matches(s, v, P, k, l)
<1> DEFINE f == Failures(s, v, P)
           g == Satisfied(s, v, P)
           S == {k \in DOMAIN s : NoOneOfInside(s, k) =>
                   \A l \in DOMAIN v : g[k][l] => Matches(s, v, P, k, l)}
<1>1. ASSUME NEW k \in DOMAIN s, \A j \in 1 .. k - 1 : j \in S
      PROVE  k \in S
  <2> SUFFICES ASSUME NoOneOfInside(s, k), NEW l \in DOMAIN v, g[k][l]
               PROVE  Matches(s, v, P, k, l)
    OBVIOUS
  <2>1. /\ \A u \in ToSet(s[k].oneOf) : WithoutOneOf(s, u)
        /\ \A t \in Subschemas(s[k]) : NoOneOfInside(s, t)
    BY WithoutBelow DEF NoOneOfInside
  <2>2. PleasedAt(s[k], v, l, P, g)
    BY Unconditionally
  <2>3. \A ts \in {s[k].allOf, s[k].anyOf} : Pleased(ts, l, g) \subseteq Settled(ts, l, f)
    <3> SUFFICES ASSUME NEW ts \in {s[k].allOf, s[k].anyOf}, NEW i \in DOMAIN ts, g[ts[i]][l]
                 PROVE  "kept" \notin f[ts[i]][l]
      BY DEF Settled, Pleased
    <3>1. ts[i] \in S /\ NoOneOfInside(s, ts[i])
      BY <1>1, <2>1, Alternatives
    <3> QED BY <3>1 DEF Matches
  <2>4. Settled(s[k].oneOf, l, f) = Pleased(s[k].oneOf, l, g)
    <3> SUFFICES ASSUME NEW i \in DOMAIN s[k].oneOf
                 PROVE  "kept" \notin f[s[k].oneOf[i]][l] <=> g[s[k].oneOf[i]][l]
      BY DEF Settled, Pleased
    <3>1. s[k].oneOf[i] \in DOMAIN s /\ WithoutOneOf(s, s[k].oneOf[i])
      BY <2>1, Alternatives
    <3> QED BY <3>1, WithoutOneOfExact DEF Matches
  <2>5. \A p \in Described(s[k], v, l) : "kept" \notin f[s[k].properties[p]][Append(l, p)]
    <3> SUFFICES ASSUME NEW p \in Described(s[k], v, l)
                 PROVE  "kept" \notin f[s[k].properties[p]][Append(l, p)]
      OBVIOUS
    <3>1. /\ s[k].properties[p] \in S /\ NoOneOfInside(s, s[k].properties[p]) /\ Append(l, p) \in DOMAIN v
          /\ g[s[k].properties[p]][Append(l, p)]
      BY <1>1, <2>1, <2>2, Alternatives DEF PleasedAt
    <3> QED BY <3>1 DEF Matches
  <2>6. \A ts : Holding(ts, l, f) \subseteq Settled(ts, l, f) /\ Settled(ts, l, f) \subseteq DOMAIN ts
    BY DEF Holding, Settled
  <2>7. s[k].oneOf # <<>> => OneFound(s[k].oneOf, l, f)
    <3> SUFFICES ASSUME ExactlyOne(Settled(s[k].oneOf, l, f))
                 PROVE  OneFound(s[k].oneOf, l, f)
      BY <2>2, <2>4 DEF PleasedAt
    <3> HIDE DEF f
    <3> QED BY <2>6 DEF OneFound, ExactlyOne
  <2>8. MatchesAt(s[k], v, l, P, f)
    <3> HIDE DEF f, g
    <3> QED BY <2>2, <2>3, <2>5, <2>6, <2>7 DEF MatchesAt, PleasedAt
  <2> QED BY <2>8, Unconditionally
<1>2. \A k \in DOMAIN s : k \in S
  <2> HIDE DEF S
  <2> QED BY <1>1, NodeInduction
<1> QED BY <1>2


\* What matches and is not ambiguous is satisfied.
LEMMA UnambiguousIsSatisfied ==
  ASSUME NEW s, IsSchema(s), Unconditional(s), OneOfsNestedTwice(s), NEW v, NEW P
  PROVE  \A k \in DOMAIN s : \A l \in DOMAIN v :
           Matches(s, v, P, k, l) /\ ~Ambiguous(s, v, P)[k][l] => Satisfied(s, v, P)[k][l]
<1> DEFINE f == Failures(s, v, P)
           g == Satisfied(s, v, P)
           a == Ambiguous(s, v, P)
           S == {k \in DOMAIN s : \A l \in DOMAIN v : Matches(s, v, P, k, l) /\ ~a[k][l] => g[k][l]}
<1>1. ASSUME NEW k \in DOMAIN s, \A j \in 1 .. k - 1 : j \in S
      PROVE  k \in S
  <2> SUFFICES ASSUME NEW l \in DOMAIN v, Matches(s, v, P, k, l), ~a[k][l]
               PROVE  g[k][l]
    OBVIOUS
  <2>1. MatchesAt(s[k], v, l, P, f) /\ ~AmbiguousAt(s[k], v, l, f, a)
    BY Unconditionally
  <2>2. \A ts \in {s[k].allOf, s[k].anyOf} : Settled(ts, l, f) \subseteq Pleased(ts, l, g)
    <3> SUFFICES ASSUME NEW ts \in {s[k].allOf, s[k].anyOf}, NEW i \in Settled(ts, l, f)
                 PROVE  i \in DOMAIN ts /\ g[ts[i]][l]
      BY DEF Pleased
    <3>1. i \in DOMAIN ts /\ Matches(s, v, P, ts[i], l)
      BY DEF Settled, Matches
    <3>2. ts[i] \in S /\ ~a[ts[i]][l]
      <4>1. ts[i] \in S
        BY <1>1, <3>1, Alternatives
      <4>2. ~a[ts[i]][l]
        <5> HIDE DEF f, a
        <5> QED BY <2>1 DEF AmbiguousAt
      <4> QED BY <4>1, <4>2
    <3> QED BY <3>1, <3>2
  <2>3. \A p \in Described(s[k], v, l) : g[s[k].properties[p]][Append(l, p)]
    <3> SUFFICES ASSUME NEW p \in Described(s[k], v, l)
                 PROVE  g[s[k].properties[p]][Append(l, p)]
      OBVIOUS
    <3>1. s[k].properties[p] \in S /\ Append(l, p) \in DOMAIN v
      BY <1>1, Alternatives
    <3>2. Matches(s, v, P, s[k].properties[p], Append(l, p)) /\ ~a[s[k].properties[p]][Append(l, p)]
      BY <2>1 DEF MatchesAt, AmbiguousAt, Matches
    <3> QED BY <3>1, <3>2
  <2>4. ASSUME s[k].oneOf # <<>>
        PROVE  ExactlyOne(Pleased(s[k].oneOf, l, g))
    <3> DEFINE found == Settled(s[k].oneOf, l, f)
    <3>1. \E x \in found : found = {x}
      <4>1. OneFound(s[k].oneOf, l, f) /\ ~Several(found)
        BY <2>1, <2>4 DEF MatchesAt, AmbiguousAt
      <4>2. Holding(s[k].oneOf, l, f) \subseteq found
        BY DEF Holding, Settled
      <4> QED BY <4>1, <4>2 DEF OneFound, ExactlyOne, Several
    <3>2. PICK x \in found : found = {x}
      BY <3>1
    <3>3. x \in DOMAIN s[k].oneOf /\ g[s[k].oneOf[x]][l]
      <4>1. x \in DOMAIN s[k].oneOf /\ Matches(s, v, P, s[k].oneOf[x], l)
        BY DEF Settled, Matches
      <4>2. ~a[s[k].oneOf[x]][l]
        BY <2>1, <3>2 DEF AmbiguousAt
      <4>3. s[k].oneOf[x] \in S
        BY <1>1, <4>1, Alternatives
      <4> QED BY <4>1, <4>2, <4>3
    <3>4. ASSUME NEW y \in DOMAIN s[k].oneOf, g[s[k].oneOf[y]][l]
          PROVE  y = x
      <4>1. s[k].oneOf[y] \in DOMAIN s /\ NoOneOfInside(s, s[k].oneOf[y])
        BY Alternatives DEF OneOfsNestedTwice, NoOneOfInside
      <4>2. Matches(s, v, P, s[k].oneOf[y], l)
        BY <3>4, <4>1, SatisfiedMatches
      <4>3. y \in found
        BY <4>2 DEF Settled, Matches
      <4> QED BY <3>2, <4>3
    <3> HIDE DEF found, g
    <3> QED BY <3>3, <3>4 DEF ExactlyOne, Pleased
  <2>5. \A ts : Pleased(ts, l, g) \subseteq DOMAIN ts
    BY DEF Pleased
  <2>6. PleasedAt(s[k], v, l, P, g)
    <3> HIDE DEF f, g
    <3> QED BY <2>1, <2>2, <2>3, <2>4, <2>5 DEF MatchesAt, PleasedAt
  <2> QED BY <2>6, Unconditionally
<1>2. \A k \in DOMAIN s : k \in S
  <2> HIDE DEF S
  <2> QED BY <1>1, NodeInduction
<1> QED BY <1>2

\* Nothing is ambiguous without a oneOf.
LEMMA WithoutOneOfUnambiguous ==
  ASSUME NEW s, IsSchema(s), Unconditional(s), NEW v, NEW P
  PROVE  \A k \in DOMAIN s : WithoutOneOf(s, k) => \A l \in DOMAIN v : ~Ambiguous(s, v, P)[k][l]
<1> DEFINE f == Failures(s, v, P)
           a == Ambiguous(s, v, P)
           S == {k \in DOMAIN s : WithoutOneOf(s, k) => \A l \in DOMAIN v : ~a[k][l]}
<1>1. ASSUME NEW k \in DOMAIN s, \A j \in 1 .. k - 1 : j \in S
      PROVE  k \in S
  <2> SUFFICES ASSUME WithoutOneOf(s, k), NEW l \in DOMAIN v
               PROVE  ~a[k][l]
    OBVIOUS
  <2>1. s[k].oneOf = <<>> /\ \A t \in Subschemas(s[k]) : WithoutOneOf(s, t)
    BY WithoutBelow DEF WithoutOneOf
  <2>2. Settled(s[k].oneOf, l, f) = {} /\ \A ts : Settled(ts, l, f) \subseteq DOMAIN ts
    BY <2>1 DEF Settled
  <2>3. \A ts \in {s[k].allOf, s[k].anyOf} : \A i \in DOMAIN ts : ~a[ts[i]][l]
    BY <1>1, <2>1, Alternatives
  <2>4. \A p \in Described(s[k], v, l) : ~a[s[k].properties[p]][Append(l, p)]
    BY <1>1, <2>1, Alternatives
  <2>5. ~AmbiguousAt(s[k], v, l, f, a)
    <3> HIDE DEF f, a
    <3> QED BY <2>2, <2>3, <2>4 DEF AmbiguousAt, Several
  <2> QED BY <2>5, Unconditionally
<1>2. \A k \in DOMAIN s : k \in S
  <2> HIDE DEF S
  <2> QED BY <1>1, NodeInduction
<1> QED BY <1>2

\* What is satisfied matches and is not ambiguous, where the alternatives have
\* no oneOf.
LEMMA SatisfiedIsUnambiguous ==
  ASSUME NEW s, IsSchema(s), Unconditional(s), PlainAlternatives(s), NEW v, NEW P
  PROVE  \A k \in DOMAIN s : \A l \in DOMAIN v :
           Satisfied(s, v, P)[k][l] => Matches(s, v, P, k, l) /\ ~Ambiguous(s, v, P)[k][l]
<1> DEFINE f == Failures(s, v, P)
           g == Satisfied(s, v, P)
           a == Ambiguous(s, v, P)
           S == {k \in DOMAIN s : \A l \in DOMAIN v : g[k][l] => Matches(s, v, P, k, l) /\ ~a[k][l]}
<1>1. ASSUME NEW k \in DOMAIN s, \A j \in 1 .. k - 1 : j \in S
      PROVE  k \in S
  <2> SUFFICES ASSUME NEW l \in DOMAIN v, g[k][l]
               PROVE  Matches(s, v, P, k, l) /\ ~a[k][l]
    OBVIOUS
  <2>1. PleasedAt(s[k], v, l, P, g)
    BY Unconditionally
  <2>2. \A i \in DOMAIN s[k].allOf : i \in Settled(s[k].allOf, l, f) /\ ~a[s[k].allOf[i]][l]
    <3> SUFFICES ASSUME NEW i \in DOMAIN s[k].allOf
                 PROVE  i \in Settled(s[k].allOf, l, f) /\ ~a[s[k].allOf[i]][l]
      OBVIOUS
    <3>1. s[k].allOf[i] \in S
      BY <1>1, Alternatives
    <3>2. g[s[k].allOf[i]][l]
      <4> HIDE DEF g
      <4> QED BY <2>1 DEF PleasedAt, Pleased
    <3> QED BY <3>1, <3>2 DEF Settled, Matches
  <2>3. \A ts \in {s[k].anyOf, s[k].oneOf} :
          Settled(ts, l, f) = Pleased(ts, l, g) /\ \A i \in DOMAIN ts : ~a[ts[i]][l]
    <3> SUFFICES ASSUME NEW ts \in {s[k].anyOf, s[k].oneOf}, NEW i \in DOMAIN ts
                 PROVE  ("kept" \notin f[ts[i]][l] <=> g[ts[i]][l]) /\ ~a[ts[i]][l]
      BY DEF Settled, Pleased
    <3>1. ts[i] \in DOMAIN s /\ WithoutOneOf(s, ts[i])
      BY Alternatives DEF PlainAlternatives
    <3> QED BY <3>1, WithoutOneOfExact, WithoutOneOfUnambiguous DEF Matches
  <2>4. \A p \in Described(s[k], v, l) :
          "kept" \notin f[s[k].properties[p]][Append(l, p)] /\ ~a[s[k].properties[p]][Append(l, p)]
    <3> SUFFICES ASSUME NEW p \in Described(s[k], v, l)
                 PROVE  "kept" \notin f[s[k].properties[p]][Append(l, p)] /\ ~a[s[k].properties[p]][Append(l, p)]
      OBVIOUS
    <3>1. s[k].properties[p] \in S /\ Append(l, p) \in DOMAIN v
      BY <1>1, Alternatives
    <3>2. g[s[k].properties[p]][Append(l, p)]
      BY <2>1 DEF PleasedAt
    <3> QED BY <3>1, <3>2 DEF Matches
  <2>5. \A ts : Holding(ts, l, f) \subseteq Settled(ts, l, f) /\ Settled(ts, l, f) \subseteq DOMAIN ts
    BY DEF Holding, Settled
  <2>6. MatchesAt(s[k], v, l, P, f)
    <3>1. s[k].oneOf # <<>> => OneFound(s[k].oneOf, l, f)
      <4> SUFFICES ASSUME ExactlyOne(Settled(s[k].oneOf, l, f))
                   PROVE  OneFound(s[k].oneOf, l, f)
        BY <2>1, <2>3 DEF PleasedAt
      <4> HIDE DEF f
      <4> QED BY <2>5 DEF OneFound, ExactlyOne
    <3> HIDE DEF f, g, a
    <3> QED BY <2>1, <2>2, <2>3, <2>4, <2>5, <3>1 DEF MatchesAt, PleasedAt
  <2>7. ~Several(Settled(s[k].oneOf, l, f))
    <3>1. CASE s[k].oneOf = <<>>
      BY <3>1 DEF Settled, Several
    <3>2. CASE s[k].oneOf # <<>>
      <4> HIDE DEF f, g
      <4> QED BY <2>1, <2>3, <3>2 DEF PleasedAt, ExactlyOne, Several
    <3> QED BY <3>1, <3>2
  <2>8. ~AmbiguousAt(s[k], v, l, f, a)
    <3> HIDE DEF f, g, a
    <3> QED BY <2>2, <2>3, <2>4, <2>5, <2>7 DEF AmbiguousAt
  <2> QED BY <2>6, <2>8, Unconditionally
<1>2. \A k \in DOMAIN s : k \in S
  <2> HIDE DEF S
  <2> QED BY <1>1, NodeInduction
<1> QED BY <1>2


-----------------------------------------------------------------------------
(* Where every path that a pattern names is there.                          *)

\* Patterns about fields that are there change no error.
LEMMA PresentFailures ==
  ASSUME NEW s, IsSchema(s), NEW v, NEW P, ~HasSkippedAbsentPath(v, P)
  PROVE  Failures(s, v, P) = Failures(s, v, {})
<1> DEFINE f == Failures(s, v, P)
           g == Failures(s, v, {})
           S == {k \in DOMAIN s : f[k] = g[k]}
<1>1. ASSUME NEW k \in DOMAIN s, \A j \in 1 .. k - 1 : j \in S
      PROVE  k \in S
  <2>1. ASSUME NEW l \in DOMAIN v
        PROVE  f[k][l] = g[k][l]
    <3>1. \A t \in Subschemas(s[k]) : f[t] = g[t]
      BY <1>1, SchemaShape
    <3>2. f[k][l] = ErrorsOf(s[k], v, l, P, f) /\ g[k][l] = ErrorsOf(s[k], v, l, {}, g)
      BY FailuresRecur
    <3> HIDE DEF f, g
    <3>3. ErrorsOf(s[k], v, l, P, f) = ErrorsOf(s[k], v, l, P, g)
      BY <3>1, ErrorsLocal
    <3>4. Missing(s[k], v, l) # {} =>
            AllNamed(l, Missing(s[k], v, l), P) = AllNamed(l, Missing(s[k], v, l), {})
      BY DEF AllNamed, Missing, HasSkippedAbsentPath, PathExists
    <3>5. ErrorsOf(s[k], v, l, P, g) = ErrorsOf(s[k], v, l, {}, g)
      BY <3>4 DEF ErrorsOf
    <3> QED BY <3>2, <3>3, <3>5
  <2>2. f[k] \in [DOMAIN v -> SUBSET Fates] /\ g[k] \in [DOMAIN v -> SUBSET Fates]
    BY FailuresRecur
  <2> HIDE DEF f, g
  <2> QED BY <2>1, <2>2
<1>2. \A k \in DOMAIN s : k \in S
  <2> HIDE DEF S
  <2> QED BY <1>1, NodeInduction
<1>3. f \in [DOMAIN s -> [DOMAIN v -> SUBSET Fates]] /\ g \in [DOMAIN s -> [DOMAIN v -> SUBSET Fates]]
  BY FailuresRecur
<1> HIDE DEF f, g
<1>4. f = g
  BY <1>2, <1>3
<1> QED BY <1>4 DEF f, g

\* They forgive nothing.
LEMMA PresentKept ==
  ASSUME NEW s, IsSchema(s), Unconditional(s), NEW v, NEW P, ~HasSkippedAbsentPath(v, P)
  PROVE  \A k \in DOMAIN s : \A l \in DOMAIN v : Failures(s, v, P)[k][l] \subseteq {"kept"}
<1> DEFINE f == Failures(s, v, P)
           S == {k \in DOMAIN s : \A l \in DOMAIN v : f[k][l] \subseteq {"kept"}}
<1>1. ASSUME NEW k \in DOMAIN s, \A j \in 1 .. k - 1 : j \in S
      PROVE  k \in S
  <2> SUFFICES ASSUME NEW l \in DOMAIN v
               PROVE  f[k][l] \subseteq {"kept"}
    OBVIOUS
  <2> DEFINE n == s[k]
             FateOf(kind, ts) == Fate(Prunes(kind, DOMAIN ts, Settled(ts, l, f)))
  <2>1. f[k][l] = ErrorsOf(n, v, l, P, f)
    BY FailuresRecur
  <2>2. \A ts \in {n.allOf, n.anyOf, n.oneOf} : Settled(ts, l, f) = Holding(ts, l, f)
    <3> SUFFICES ASSUME NEW ts \in {n.allOf, n.anyOf, n.oneOf}, NEW i \in DOMAIN ts
                 PROVE  "kept" \notin f[ts[i]][l] <=> f[ts[i]][l] = {}
      BY DEF Settled, Holding
    <3>1. ts[i] \in S
      BY <1>1, Alternatives
    <3> QED BY <3>1
  <2>3. \A p \in Described(n, v, l) : f[n.properties[p]][Append(l, p)] \subseteq {"kept"}
    BY <1>1, Alternatives
  <2>4. Chosen(n, l, f) = <<>> /\ ToSet(<<>>) = {}
    BY DEF Chosen, Unconditional, ToSet
  <2>5. Missing(n, v, l) # {} => Fate(AllNamed(l, Missing(n, v, l), P)) = "kept"
    BY DEF Fate, AllNamed, Missing, HasSkippedAbsentPath, PathExists
  <2> HIDE DEF f, n
  <2>6. /\ Holding(n.allOf, l, f) # DOMAIN n.allOf => FateOf("allOf", n.allOf) = "kept"
        /\ Holding(n.anyOf, l, f) = {} => FateOf("anyOf", n.anyOf) = "kept"
        /\ Holding(n.oneOf, l, f) = {} => FateOf("oneOf", n.oneOf) = "kept"
    BY <2>2 DEF Fate, Prunes, ExactlyOne
  <2>7. ErrorsOf(n, v, l, P, f) \subseteq {"kept"}
    <3> HIDE DEF FateOf
    <3> SUFFICES ASSUME NEW e \in ErrorsOf(n, v, l, P, f), e # "kept" PROVE FALSE
      OBVIOUS
    <3>1. ToSet(Chosen(n, l, f)) = {}
      BY <2>4
    <3> QED BY <2>3, <2>5, <2>6, <3>1 DEF ErrorsOf, FateOf
  <2> QED BY <2>1, <2>7
<1>2. \A k \in DOMAIN s : k \in S
  <2> HIDE DEF S
  <2> QED BY <1>1, NodeInduction
<1> QED BY <1>2

\* And make nothing ambiguous.
LEMMA PresentUnambiguous ==
  ASSUME NEW s, IsSchema(s), Unconditional(s), NEW v, NEW P, ~HasSkippedAbsentPath(v, P)
  PROVE  \A k \in DOMAIN s : \A l \in DOMAIN v : Matches(s, v, P, k, l) => ~Ambiguous(s, v, P)[k][l]
<1> DEFINE f == Failures(s, v, P)
           a == Ambiguous(s, v, P)
           S == {k \in DOMAIN s : \A l \in DOMAIN v : Matches(s, v, P, k, l) => ~a[k][l]}
<1>1. ASSUME NEW k \in DOMAIN s, \A j \in 1 .. k - 1 : j \in S
      PROVE  k \in S
  <2> SUFFICES ASSUME NEW l \in DOMAIN v, Matches(s, v, P, k, l)
               PROVE  ~a[k][l]
    OBVIOUS
  <2>1. MatchesAt(s[k], v, l, P, f)
    BY Unconditionally
  <2>2. \A ts \in {s[k].allOf, s[k].anyOf, s[k].oneOf} :
          Settled(ts, l, f) = Holding(ts, l, f) /\ \A i \in Settled(ts, l, f) : ~a[ts[i]][l]
    <3> SUFFICES ASSUME NEW ts \in {s[k].allOf, s[k].anyOf, s[k].oneOf}, NEW i \in DOMAIN ts
                 PROVE  /\ "kept" \notin f[ts[i]][l] <=> f[ts[i]][l] = {}
                        /\ "kept" \notin f[ts[i]][l] => ~a[ts[i]][l]
      BY DEF Settled, Holding
    <3>1. ts[i] \in S /\ ts[i] \in DOMAIN s
      BY <1>1, Alternatives
    <3>2. f[ts[i]][l] \subseteq {"kept"}
      BY <3>1, PresentKept
    <3> QED BY <3>1, <3>2 DEF Matches
  <2>3. ~Several(Settled(s[k].oneOf, l, f))
    <3>1. CASE s[k].oneOf = <<>>
      BY <3>1 DEF Settled, Several
    <3>2. CASE s[k].oneOf # <<>>
      <4> HIDE DEF f, a
      <4> QED BY <2>1, <2>2, <3>2 DEF MatchesAt, OneFound, ExactlyOne, Several
    <3> QED BY <3>1, <3>2
  <2>4. \A p \in Described(s[k], v, l) : ~a[s[k].properties[p]][Append(l, p)]
    <3> SUFFICES ASSUME NEW p \in Described(s[k], v, l)
                 PROVE  ~a[s[k].properties[p]][Append(l, p)]
      OBVIOUS
    <3>1. s[k].properties[p] \in S /\ Append(l, p) \in DOMAIN v
      BY <1>1, Alternatives
    <3> QED BY <2>1, <3>1 DEF MatchesAt, Matches
  <2>5. ~AmbiguousAt(s[k], v, l, f, a)
    <3> HIDE DEF f, a
    <3> QED BY <2>2, <2>3, <2>4 DEF AmbiguousAt
  <2> QED BY <2>5, Unconditionally
<1>2. \A k \in DOMAIN s : k \in S
  <2> HIDE DEF S
  <2> QED BY <1>1, NodeInduction
<1> QED BY <1>2

-----------------------------------------------------------------------------
(* What validateDoc accepts.                                                *)

LEMMA AcceptedIsSatisfied ==
  ASSUME NEW s, IsSchema(s), Unconditional(s), OneOfsNestedTwice(s), NEW v, IsValue(v), NEW P,
         Accepts(s, v, P)
  PROVE  Satisfies(s, v, P)
<1>1. Len(s) \in DOMAIN s /\ <<>> \in DOMAIN v
  BY SchemaShape DEF IsValue
<1>2. Matches(s, v, P, Len(s), <<>>)
  BY DEF Accepts, Matches
<1>3. ~Ambiguous(s, v, P)[Len(s)][<<>>]
  BY <1>1, <1>2, PresentUnambiguous DEF Accepts
<1> QED BY <1>1, <1>2, <1>3, UnambiguousIsSatisfied DEF Satisfies

LEMMA SatisfiedIsAccepted ==
  ASSUME NEW s, IsSchema(s), Unconditional(s), PlainAlternatives(s), NEW v, IsValue(v), NEW P,
         Satisfies(s, v, P)
  PROVE  Accepts(s, v, P)
<1>1. Len(s) \in DOMAIN s /\ <<>> \in DOMAIN v
  BY SchemaShape DEF IsValue
<1> QED BY <1>1, SatisfiedIsUnambiguous DEF Satisfies, Accepts, Matches

LEMMA PresentAccepts ==
  ASSUME NEW s, IsSchema(s), NEW v, NEW P, ~HasSkippedAbsentPath(v, P)
  PROVE  Accepts(s, v, P) <=> Accepts(s, v, {})
BY PresentFailures DEF Accepts, HasSkippedAbsentPath

\* The root of a value stays: a path that is stripped has a segment.
LEMMA StrippedIsValue ==
  ASSUME NEW v, IsValue(v), NEW paths, \A path \in paths : Len(path) \in Nat \ {0}
  PROVE  IsValue(Strip(v, paths))
<1> DEFINE D == {q \in DOMAIN v : \A path \in paths : IsPrefix(path, q) => ~ThroughObjects(v, path)}
<1>1. Strip(v, paths) = [q \in D |-> v[q]]
  BY DEF Strip, Restrict
<1>2. <<>> \in D
  <2>1. \A path \in paths : ~IsPrefix(path, <<>>)
    BY DEF IsPrefix
  <2> QED BY <2>1 DEF IsValue
<1> QED BY <1>1, <1>2 DEF IsValue

-----------------------------------------------------------------------------
(* The verdict, where the schemas are trees.                                *)

\* The schemas are the trees of SkipAbsent.
JudgedByTree ==
  \A b, stripped, absent, skipCEL :
    JudgeBySchema(b, stripped, absent, skipCEL) = BodyVerdict(b, stripped, absent, skipCEL)

\* What a document may have for a schema and a value, and what may be stripped.
HasTrees ==
  /\ \A b \in {doc.body, doc.after.body} : IsSchema(b.schema) /\ IsValue(b.value)
  /\ \A m \in options.skipPaths : Len(m.path) \in Nat \ {0}

LEMMA TreesInvariant == Spec => []HasTrees
<1>1. Init => HasTrees
  BY TreesAssumption DEF Init, TreesAssumption, HasTrees
<1>2. HasTrees /\ [Next]_vars => HasTrees'
  BY DEF HasTrees, Next, Validate, Build, Revalidate, Terminated, vars
<1> QED BY <1>1, <1>2, PTL DEF Spec

LEMMA RemainingIsValue == HasTrees => IsSchema(Applied.schema) /\ IsValue(Remaining)
<1> SUFFICES ASSUME HasTrees PROVE IsSchema(Applied.schema) /\ IsValue(Remaining)
  OBVIOUS
<1>1. IsSchema(Applied.schema) /\ IsValue(Applied.value)
  BY DEF HasTrees, Applied
<1>2. \A path \in PathsFor(Applied, options.skipPaths) : Len(path) \in Nat \ {0}
  BY DEF HasTrees, PathsFor
<1> QED BY <1>1, <1>2, StrippedIsValue DEF Remaining

\* The verdict on what is applied, where it comes to its schema.
LEMMA VerdictOfSchema ==
  ASSUME JudgedByTree, DocumentsInv, HasTrees, OfSchema
  PROVE  /\ IsSchema(Applied.schema) /\ IsValue(Remaining)
         /\ Passes <=> Accepts(Applied.schema, Remaining, Absent)
<1>1. verdict = Judge(Applied, options)
  BY DEF DocumentsInv, OfSchema, IsApplied, SkippedAsWritten, Applied, VerdictOn
<1>2. verdict = BodyVerdict(Applied, PathsFor(Applied, options.skipPaths), Absent, options.skipCEL)
  BY <1>1 DEF OfSchema, Judge, Absent, JudgedByTree
<1> QED BY <1>2, RemainingIsValue DEF OfSchema, BodyVerdict, Passes, Remaining, Valid, Invalid

(***************************************************************************)
(* A document that passes satisfies its schema but for the required fields *)
(* that the patterns name, whatever the schema (without `not` and `if`, no *)
(* three oneOfs one in the other), the value and the patterns: pruning     *)
(* errors and looking for ambiguous oneOfs come to the same as not         *)
(* requiring the fields. Where every named field is there nothing is       *)
(* looked for, and nothing could be found.                                 *)
(***************************************************************************)
THEOREM NothingElseIsForgiven == JudgedByTree => (Spec => []NothingElseForgiven)
<1> SUFFICES ASSUME JudgedByTree PROVE Spec => []NothingElseForgiven
  OBVIOUS
<1>1. DocumentsInv /\ HasTrees => NothingElseForgiven
  BY VerdictOfSchema, AcceptedIsSatisfied DEF NothingElseForgiven
<1> QED BY <1>1, DocumentsInvariant, TreesInvariant, PTL

(***************************************************************************)
(* A document that satisfies its schema but for such fields passes, where  *)
(* no alternative has a oneOf of its own: no error is left after the       *)
(* pruning (pruneSkippedAbsentRequired), and no oneOf is found ambiguous   *)
(* (collectSkippedAbsentOneOfErrors).                                      *)
(***************************************************************************)
THEOREM EveryAbsenceIsForgiven == JudgedByTree => (Spec => []ForgivesEveryAbsence)
<1> SUFFICES ASSUME JudgedByTree PROVE Spec => []ForgivesEveryAbsence
  OBVIOUS
<1>1. DocumentsInv /\ HasTrees => ForgivesEveryAbsence
  BY VerdictOfSchema, SatisfiedIsAccepted DEF ForgivesEveryAbsence
<1> QED BY <1>1, DocumentsInvariant, TreesInvariant, PTL

(***************************************************************************)
(* Patterns that name only fields that are there change no verdict, for    *)
(* any schema, `not` and `if` included, and for the CEL rules: no error is *)
(* pruned and hasSkippedAbsentPath finds nothing.                          *)
(***************************************************************************)
THEOREM PresentFieldsAreChecked == JudgedByTree => (Spec => []PresentStillChecked)
<1> SUFFICES ASSUME JudgedByTree PROVE Spec => []PresentStillChecked
  OBVIOUS
<1>1. DocumentsInv /\ HasTrees => PresentStillChecked
  <2> SUFFICES ASSUME DocumentsInv, HasTrees, next # "validate", IsApplied,
                      \A path \in Absent : PathExists(Remaining, path)
               PROVE  verdict = VerdictOn(doc, [options EXCEPT !.absentPaths = {}])
    BY DEF PresentStillChecked
  <2> DEFINE o == [options EXCEPT !.absentPaths = {}]
             b == Applied
             stripped == PathsFor(b, options.skipPaths)
  <2>1. /\ o.skipKinds = options.skipKinds /\ o.skipMissing = options.skipMissing
        /\ o.skipCEL = options.skipCEL /\ o.envsubst = options.envsubst
        /\ o.skipPaths = options.skipPaths /\ o.absentPaths = {}
    BY DEF DocumentsInv, IsInput
  <2>2. IsSchema(b.schema) /\ Strip(b.value, stripped) = Remaining
    BY RemainingIsValue DEF Remaining
  <2>3. PathsFor(b, {}) = {}
    BY DEF PathsFor
  <2>4. BodyVerdict(b, stripped, Absent, options.skipCEL) = BodyVerdict(b, stripped, {}, options.skipCEL)
    <3>1. ~HasSkippedAbsentPath(Remaining, Absent) /\ ~HasSkippedAbsentPath(Remaining, {})
      BY DEF HasSkippedAbsentPath
    <3>2. Accepts(b.schema, Remaining, Absent) <=> Accepts(b.schema, Remaining, {})
      BY <2>2, <3>1, PresentAccepts
    <3> QED BY <2>2, <3>1, <3>2 DEF BodyVerdict
  <2>5. /\ JudgeBySchema(b, stripped, PathsFor(b, options.absentPaths), options.skipCEL)
             = BodyVerdict(b, stripped, Absent, options.skipCEL)
        /\ JudgeBySchema(b, PathsFor(b, o.skipPaths), PathsFor(b, o.absentPaths), o.skipCEL)
             = BodyVerdict(b, stripped, {}, options.skipCEL)
    BY <2>1, <2>3 DEF JudgedByTree, Absent
  <2> HIDE DEF o
  <2>6. Judge(b, options) = Judge(b, o)
    BY <2>1, <2>4, <2>5 DEF Judge, KindSkipped, SchemaNotFound
  <2>7. Applies(doc, o) = Applies(doc, options) /\ KindSkipped(doc.body, o) = KindSkipped(doc.body, options)
    BY <2>1 DEF Applies, KindSkipped
  <2>8. VerdictOn(doc, options) = VerdictOn(doc, o)
    BY <2>6, <2>7 DEF VerdictOn, IsApplied, Applied
  <2> QED BY <2>8 DEF DocumentsInv, o
<1> QED BY <1>1, DocumentsInvariant, TreesInvariant, PTL
=============================================================================
