------------------------- MODULE WrittenCatalog_proofs -------------------------
(***************************************************************************)
(* The extract commands, proved for every plan of commands, every document *)
(* and every set of paths on which writing fails: only files of the four   *)
(* kinds are written, the names that explain follows lead somewhere, and a *)
(* command that exits 0 has written everything.                            *)
(*                                                                         *)
(* Part I says what the files of a tree are and what explain finds in such *)
(* a tree; part II is the inductive invariant; part III the theorems.      *)
(***************************************************************************)
EXTENDS WrittenCatalog, TLAPS, WellFoundedInduction

-----------------------------------------------------------------------------
(* The least of a set of naturals.                                          *)

ByIndex == {p \in Nat \X Nat : p[1] < p[2]}

LEMMA ByIndexWellFounded == IsWellFoundedOn(ByIndex, Nat)
BY NatLessThanWellFounded DEF OpToRel, ByIndex

LEMMA MinIsLeast ==
  ASSUME NEW S, S \subseteq Nat, S # {}
  PROVE  Min(S) \in S
<1>1. PICK x \in S : \A y \in S : <<y, x>> \notin ByIndex
  BY WFMin, ByIndexWellFounded
<1>2. ASSUME NEW y \in S
      PROVE  x <= y
  <2>1. x \in Nat /\ y \in Nat /\ ~(y < x)
    BY <1>1 DEF ByIndex
  <2> QED BY <2>1
<1> QED BY <1>2 DEF Min

-----------------------------------------------------------------------------
(* I. The files of a tree.                                                  *)

IsSchemaFile(p, x) ==
  \E c \in Commands : \E s \in Extractable(c) : p = SchemaPath(GVKOf(s)) /\ x = ForOutput(s.json, c)

\* The schema that the alias file leads to has been written before it.
IsAliasFile(p, x, tree) ==
  \E s \in Schemas : \E k \in ExplainAliases(s) :
    p = AliasPath(s, k) /\ x = AliasFile(s) /\ SchemaPath(GVKOf(s)) \in DOMAIN tree

IsIndexFile(p, x) == \E s \in Schemas : p = IndexPath(SchemaPath(GVKOf(s))) /\ x = FlattenMap(s)

IsReferenceFile(p, x, tree) ==
  p[1] = "refs" /\ \A g \in x : \E s \in Schemas : g = GVKOf(s) /\ SchemaPath(g) \in DOMAIN tree

IsShard(p) == p[1] = "completion"

SoundFile(p, x, tree) ==
  \/ IsSchemaFile(p, x) \/ IsAliasFile(p, x, tree) \/ IsIndexFile(p, x)
  \/ IsReferenceFile(p, x, tree) \/ IsShard(p)

Sound(tree) == \A p \in DOMAIN tree : SoundFile(p, tree[p], tree)

LEMMA WithDomain ==
  ASSUME NEW tree, NEW p, NEW x
  PROVE  /\ DOMAIN With(tree, p, x) = DOMAIN tree \cup {p}
         /\ With(tree, p, x)[p] = x
         /\ \A q \in DOMAIN tree : q # p => With(tree, p, x)[q] = tree[q]
BY DEF With

\* A file is as sound in a larger tree.
LEMMA SoundWith ==
  ASSUME NEW tree, NEW p, NEW x, Sound(tree), SoundFile(p, x, With(tree, p, x))
  PROVE  Sound(With(tree, p, x))
<1> SUFFICES ASSUME NEW q \in DOMAIN With(tree, p, x)
             PROVE  SoundFile(q, With(tree, p, x)[q], With(tree, p, x))
  BY DEF Sound
<1> DEFINE after == With(tree, p, x)
<1>d. DOMAIN after = DOMAIN tree \cup {p} /\ after[p] = x /\ \A r \in DOMAIN tree : r # p => after[r] = tree[r]
  BY DEF With
<1>1. CASE q = p
  BY <1>1, <1>d
<1>2. CASE q # p
  <2>1. q \in DOMAIN tree /\ after[q] = tree[q] /\ DOMAIN tree \subseteq DOMAIN after
    BY <1>2, <1>d
  <2>2. SoundFile(q, tree[q], tree)
    BY <2>1 DEF Sound
  <2>3. SoundFile(q, tree[q], With(tree, p, x))
    BY <2>1, <2>2 DEF SoundFile, IsAliasFile, IsReferenceFile
  <2> QED BY <2>1, <2>3
<1> QED BY <1>1, <1>2

LEMMA SoundEmpty == Sound(<<>>)
BY DEF Sound

-----------------------------------------------------------------------------
(* Paths.                                                                   *)

LEMMA SchemaFacts ==
  ASSUME NEW s \in Schemas
  PROVE  /\ s.group # "core"
         /\ GVKOf(s).group = s.group /\ GVKOf(s).version = s.version /\ GVKOf(s).kind = s.kind
BY ExtractionAssumption DEF ExtractionAssumption, Schemas, GVKOf, GVK

LEMMA PathParts ==
  ASSUME NEW g
  PROVE  /\ SchemaPath(g)[1] = "schema"
         /\ SchemaPath(g)[2] = IF g.group = "" THEN "core" ELSE g.group
         /\ SchemaPath(g)[3] = g.version
         /\ SchemaPath(g)[4] = g.kind
BY DEF SchemaPath

LEMMA IndexParts ==
  ASSUME NEW p
  PROVE  /\ IndexPath(p)[1] = "index" /\ IndexPath(p)[2] = p[2]
         /\ IndexPath(p)[3] = p[3] /\ IndexPath(p)[4] = p[4]
BY DEF IndexPath

\* The path of a schema tells its kind.
LEMMA PathTells ==
  ASSUME NEW s \in Schemas, NEW t \in Schemas,
         SchemaPath(GVKOf(s))[2] = SchemaPath(GVKOf(t))[2],
         SchemaPath(GVKOf(s))[3] = SchemaPath(GVKOf(t))[3],
         SchemaPath(GVKOf(s))[4] = SchemaPath(GVKOf(t))[4]
  PROVE  GVKOf(s) = GVKOf(t)
<1>1. s.group = t.group /\ s.version = t.version /\ s.kind = t.kind
  BY SchemaFacts, PathParts
<1> QED BY <1>1 DEF GVKOf

\* Under NamesApart what is at the path of a schema is a schema of its kind.
LEMMA SchemaAtItsPath ==
  ASSUME NamesApart, NEW tree, Sound(tree), NEW s \in Schemas, SchemaPath(GVKOf(s)) \in DOMAIN tree
  PROVE  LET x == tree[SchemaPath(GVKOf(s))]
         IN  ~HasAlias(x) /\ (HasObject(x, GVKKey) => At(x, GVKKey) = SaysKind(GVKOf(s)))
<1> DEFINE p == SchemaPath(GVKOf(s))
<1>1. SoundFile(p, tree[p], tree) /\ p[1] = "schema"
  BY PathParts DEF Sound
<1>2. ~IsAliasFile(p, tree[p], tree)
  BY DEF IsAliasFile, NamesApart
<1>3. ~IsIndexFile(p, tree[p])
  BY <1>1, IndexParts DEF IsIndexFile
<1>4. PICK c \in Commands : \E t \in Extractable(c) : p = SchemaPath(GVKOf(t)) /\ tree[p] = ForOutput(t.json, c)
  BY <1>1, <1>2, <1>3 DEF SoundFile, IsReferenceFile, IsShard, IsSchemaFile
<1>5. PICK t \in Extractable(c) : p = SchemaPath(GVKOf(t)) /\ tree[p] = ForOutput(t.json, c)
  BY <1>4
<1>6. t \in Schemas
  BY DEF Schemas
<1>7. GVKOf(s) = GVKOf(t)
  BY <1>5, <1>6, PathTells
<1>8. Outputs(t, c)
  BY ExtractionAssumption DEF ExtractionAssumption
<1> QED BY <1>5, <1>7, <1>8 DEF Outputs

LEMMA IndexAtItsPath ==
  ASSUME NEW tree, Sound(tree), NEW s \in Schemas, IndexPath(SchemaPath(GVKOf(s))) \in DOMAIN tree
  PROVE  LET x == tree[IndexPath(SchemaPath(GVKOf(s)))] IN GVK(x.group, x.version, x.kind) = GVKOf(s)
<1> DEFINE p == IndexPath(SchemaPath(GVKOf(s)))
<1>1. SoundFile(p, tree[p], tree) /\ p[1] = "index"
  BY IndexParts DEF Sound
<1>2. ~IsAliasFile(p, tree[p], tree) /\ ~IsSchemaFile(p, tree[p])
  BY <1>1, PathParts DEF IsAliasFile, IsSchemaFile, AliasPath
<1>3. PICK t \in Schemas : p = IndexPath(SchemaPath(GVKOf(t))) /\ tree[p] = FlattenMap(t)
  BY <1>1, <1>2 DEF SoundFile, IsReferenceFile, IsShard, IsIndexFile
<1>4. GVKOf(s) = GVKOf(t)
  BY <1>3, IndexParts, PathTells
<1> QED BY <1>3, <1>4 DEF FlattenMap, GVKOf

-----------------------------------------------------------------------------
(* What explain finds.                                                      *)

\* In a sound tree explain finds each kind that has a schema.
LEMMA SchemaLeads ==
  ASSUME NamesApart, NEW tree, Sound(tree), NEW s \in Schemas, SchemaPath(GVKOf(s)) \in DOMAIN tree,
         NEW loc, loc.files = tree, loc.failing = {}
  PROVE  LET r == LoadGVK(<<loc>>, GVKOf(s)) IN r.st = "found" /\ r.x.gvk = GVKOf(s)
<1> DEFINE g == GVKOf(s)
           p == SchemaPath(g)
           x == tree[p]
           f == LoadFrom(loc, g)
<1>1. Load(loc, p) = Found(x)
  BY DEF Load
<1>2. ~HasAlias(x) /\ (HasObject(x, GVKKey) => At(x, GVKKey) = SaysKind(g))
  BY SchemaAtItsPath
<1>3. Found(x).st = "found" /\ Found(x).x = x
  BY DEF Found
<1>4. f = Found([gvk |-> Identify(loc, g, x), root |-> x])
  BY <1>1, <1>2, <1>3 DEF LoadFrom
<1>5. Identify(loc, g, x) = g
  <2>1. CASE IndexPath(p) \in DOMAIN tree
    <3>1. Load(loc, IndexPath(p)) = Found(tree[IndexPath(p)])
      BY <2>1 DEF Load
    <3>2. Load(loc, IndexPath(p)).st = "found" /\ Load(loc, IndexPath(p)).x = tree[IndexPath(p)]
      BY <3>1 DEF Found
    <3>3. Identify(loc, g, x) = GVK(tree[IndexPath(p)].group, tree[IndexPath(p)].version, tree[IndexPath(p)].kind)
      BY <3>2 DEF Identify
    <3> QED BY <2>1, <3>3, IndexAtItsPath
  <2>2. CASE IndexPath(p) \notin DOMAIN tree
    <3>1. Load(loc, IndexPath(p)) = Absent
      BY <2>2 DEF Load
    <3>2. Load(loc, IndexPath(p)).st # "found"
      BY <3>1 DEF Absent
    <3>3. CASE ~HasObject(x, GVKKey)
      BY <3>2, <3>3 DEF Identify
    <3>4. CASE HasObject(x, GVKKey)
      <4>1. /\ At(SaysKind(g), "group").leaf = g.group
            /\ At(SaysKind(g), "version").leaf = g.version
            /\ At(SaysKind(g), "kind").leaf = g.kind
        BY DEF SaysKind, Object, Str, Scalar, At
      <4>2. g = GVK(g.group, g.version, g.kind)
        BY SchemaFacts DEF GVKOf
      <4> QED BY <1>2, <3>2, <3>4, <4>1, <4>2 DEF Identify
    <3> QED BY <3>3, <3>4
  <2> QED BY <2>1, <2>2
<1>6. f.st = "found" /\ f.x.gvk = g
  BY <1>4, <1>5 DEF Found
<1>7. LoadOnce(<<loc>>, g) = f
  <2> DEFINE rs == [k \in DOMAIN <<loc>> |-> LoadFrom(<<loc>>[k], g)]
  <2>1. DOMAIN rs = {1} /\ rs[1] = f
    OBVIOUS
  <2>2. {k \in DOMAIN rs : rs[k].st # "absent"} = {1}
    BY <1>6, <2>1
  <2>3. Min({1}) = 1
    BY DEF Min
  <2>4. FirstOf(rs) = f
    BY <2>1, <2>2, <2>3 DEF FirstOf
  <2> QED BY <2>4 DEF LoadOnce
<1>8. Follow(<<loc>>, f) = f
  BY <1>6 DEF Follow
<1>9. Follow4(<<loc>>, f) = f
  BY <1>8 DEF Follow4
<1>10. LoadGVK(<<loc>>, g) = f
  BY <1>6, <1>7, <1>9 DEF LoadGVK
<1> QED BY <1>6, <1>10

\* An alias file says the kind of its schema.
LEMMA AliasTells ==
  ASSUME NEW s \in Schemas, NEW k
  PROVE  AliasOf(AliasFile(s), KindAt(AliasPath(s, k))) = GVKOf(s)
<1> DEFINE p == AliasPath(s, k)
           g == KindAt(p)
           a == At(AliasFile(s), AliasKey)
<1>1. a = SaysKind(GVKOf(s))
  BY DEF AliasFile, Object, At
<1>2. /\ a.fields = [group |-> Str(s.group), version |-> Str(s.version), kind |-> Str(s.kind)]
      /\ Str(s.group).leaf = s.group /\ Str(s.version).leaf = s.version /\ Str(s.kind).leaf = s.kind
  <2> DEFINE f == [group |-> Str(s.group), version |-> Str(s.version), kind |-> Str(s.kind)]
  <2>1. a = Object(f)
    BY <1>1, SchemaFacts DEF SaysKind
  <2>2. Str(s.group).leaf = s.group /\ Str(s.version).leaf = s.version /\ Str(s.kind).leaf = s.kind
    BY DEF Str, Scalar
  <2>3. Object(f).fields = f
    <3> HIDE DEF f
    <3> QED BY DEF Object
  <2> QED BY <2>1, <2>2, <2>3
<1>3. /\ Has(a, "group") /\ Has(a, "version")
      /\ At(a, "group").leaf = s.group /\ At(a, "version").leaf = s.version /\ At(a, "kind").leaf = s.kind
  BY <1>2 DEF Has, At
<1>4. p[2] = (IF s.group = "" THEN "core" ELSE s.group) /\ p[3] = s.version
  BY SchemaFacts DEF AliasPath, SchemaPath, GVKOf, GVK
<1>5. g.group = s.group /\ g.version = s.version
  BY <1>4, SchemaFacts DEF KindAt, GVK
<1> QED BY <1>3, <1>5 DEF AliasOf, GVKOf

LEMMA SoundNeverDangles ==
  ASSUME NamesApart, Sound(trees["dir"])
  PROVE  NoDanglingName
<1> DEFINE dir == trees["dir"]
           Leads(g) == LET r == LoadGVK(<<Dir>>, g) IN r.st = "found" /\ r.x.gvk = g
<1>1. Dir.files = dir /\ Dir.failing = {}
  BY DEF Dir
<1>2. ASSUME NEW p \in DOMAIN dir, p[1] = "schema", HasAlias(dir[p])
      PROVE  Leads(AliasOf(dir[p], KindAt(p)))
  <2>1. SoundFile(p, dir[p], dir)
    BY DEF Sound
  <2>2. ~IsSchemaFile(p, dir[p])
    BY <1>2, ExtractionAssumption DEF ExtractionAssumption, IsSchemaFile, Outputs
  <2>3. ~IsIndexFile(p, dir[p])
    BY <1>2, IndexParts DEF IsIndexFile
  <2>4. PICK s \in Schemas : \E k \in ExplainAliases(s) :
          p = AliasPath(s, k) /\ dir[p] = AliasFile(s) /\ SchemaPath(GVKOf(s)) \in DOMAIN dir
    BY <1>2, <2>1, <2>2, <2>3 DEF SoundFile, IsReferenceFile, IsShard, IsAliasFile
  <2>5. AliasOf(dir[p], KindAt(p)) = GVKOf(s)
    BY <2>4, AliasTells
  <2>6. Leads(GVKOf(s))
    BY <1>1, <2>4, SchemaLeads
  <2> QED BY <2>5, <2>6
<1>3. ASSUME NEW p \in DOMAIN dir, p[1] = "refs", NEW g \in dir[p]
      PROVE  Leads(g)
  <2>1. SoundFile(p, dir[p], dir)
    BY DEF Sound
  <2>2. ~IsSchemaFile(p, dir[p]) /\ ~IsAliasFile(p, dir[p], dir)
    BY <1>3, PathParts DEF IsSchemaFile, IsAliasFile, AliasPath
  <2>3. ~IsIndexFile(p, dir[p])
    BY <1>3, IndexParts DEF IsIndexFile
  <2>4. PICK s \in Schemas : g = GVKOf(s) /\ SchemaPath(g) \in DOMAIN dir
    BY <1>3, <2>1, <2>2, <2>3 DEF SoundFile, IsReferenceFile, IsShard
  <2> QED BY <1>1, <2>4, SchemaLeads
<1> QED BY <1>2, <1>3 DEF NoDanglingName

-----------------------------------------------------------------------------
(* II. The inductive invariant.                                             *)

TypeInv ==
  /\ plan \in Seq(Commands)
  /\ pc \in {"idle", "input", "schema", "names", "metadata"}
  /\ pc # "idle" =>
       /\ cmd \in Commands /\ inputs \in Seq(ToSet(cmd.inputs)) /\ todo \in Seq(Extractable(cmd))
       /\ kept \subseteq Extractable(cmd)
  /\ pc \in {"idle", "metadata"} => inputs = <<>>
  /\ pc \notin {"schema", "names"} => todo = <<>>
  /\ pc = "names" => todo # <<>> /\ aliases \subseteq ExplainAliases(Head(todo))
  /\ pc # "names" => aliases = {} /\ index = <<>>
  /\ index # <<>> => index = <<FlattenMap(Head(todo))>>
  /\ failures \in Nat /\ exits \in Seq(Nat)
  /\ DOMAIN trees = {"dir", "staging", "archive"}

\* What is said of a file that is in some tree.
Kept(p) == p[1] \in {"schema", "index", "refs", "completion"} /\ p \notin broken
HasSchema(s, tree) == SchemaPath(GVKOf(s)) \in DOMAIN tree

\* The metadata still to write refers to schemas that have been written.
FilesInv ==
  /\ \A t \in {"dir", "staging"} : Sound(trees[t])
  /\ \A t \in DOMAIN trees : \A p \in DOMAIN trees[t] : Kept(p)
  /\ pc # "idle" => \A s \in kept : HasSchema(s, trees[Dest])
  /\ pc = "names" => HasSchema(Head(todo), trees[Dest])
  /\ pc # "metadata" => DOMAIN documents = {}
  /\ \A p \in DOMAIN documents :
       /\ p[1] \in {"refs", "completion"}
       /\ p[1] = "refs" => \A g \in documents[p] : \E s \in kept : g = GVKOf(s)

-----------------------------------------------------------------------------
LEMMA WriteEffect ==
  ASSUME TypeInv, NEW p, NEW x, Write(p, x)
  PROVE  /\ DOMAIN trees' = DOMAIN trees
         /\ trees'[Dest] = With(trees[Dest], p, x)
         /\ \A t \in DOMAIN trees : t # Dest => trees'[t] = trees[t]
BY DEF Write, TypeInv, Dest

\* Writing a file that is sound and not broken keeps the trees as they are.
LEMMA WriteKeeps ==
  ASSUME TypeInv, FilesInv, NEW p, NEW x, Write(p, x), Kept(p), broken' = broken,
         SoundFile(p, x, With(trees[Dest], p, x))
  PROVE  /\ \A t \in {"dir", "staging"} : Sound(trees'[t])
         /\ \A t \in DOMAIN trees' : \A q \in DOMAIN trees'[t] : Kept(q)'
         /\ DOMAIN trees' = {"dir", "staging", "archive"}
         /\ DOMAIN trees[Dest] \subseteq DOMAIN trees'[Dest]
         /\ p \in DOMAIN trees'[Dest]
<1> DEFINE after == With(trees[Dest], p, x)
<1>1. /\ DOMAIN trees' = DOMAIN trees /\ trees'[Dest] = after
      /\ \A t \in DOMAIN trees : t # Dest => trees'[t] = trees[t]
  BY WriteEffect
<1>2. DOMAIN after = DOMAIN trees[Dest] \cup {p}
  BY DEF With
<1>3. Dest \in {"dir", "staging"}
  BY DEF Dest
<1>4. Sound(after)
  BY <1>3, SoundWith DEF FilesInv
<1>5. \A t \in {"dir", "staging"} : Sound(trees'[t])
  BY <1>1, <1>3, <1>4 DEF FilesInv, TypeInv
<1>6. ASSUME NEW t \in DOMAIN trees', NEW q \in DOMAIN trees'[t] PROVE Kept(q)'
  <2>1. q = p \/ (t \in DOMAIN trees /\ q \in DOMAIN trees[t])
    BY <1>1, <1>2
  <2>2. Kept(q)
    BY <2>1 DEF FilesInv
  <2> QED BY <2>2 DEF Kept
<1> QED BY <1>1, <1>2, <1>5, <1>6 DEF TypeInv

LEMMA ToSetOfSeq ==
  ASSUME NEW S, NEW q \in Seq(S)
  PROVE  /\ ToSet(q) \subseteq S
         /\ q # <<>> => Head(q) \in S /\ Head(q) \in ToSet(q) /\ Tail(q) \in Seq(S) /\ ToSet(q) = {Head(q)} \cup ToSet(Tail(q))
<1>1. ToSet(q) \subseteq S
  BY DEF ToSet
<1>2. ASSUME q # <<>>
      PROVE  Head(q) \in S /\ Head(q) \in ToSet(q) /\ Tail(q) \in Seq(S) /\ ToSet(q) = {Head(q)} \cup ToSet(Tail(q))
  <2>1. Head(q) = q[1] /\ 1 \in DOMAIN q /\ Tail(q) \in Seq(S) /\ Len(Tail(q)) = Len(q) - 1
    BY <1>2
  <2>2. \A k \in DOMAIN Tail(q) : Tail(q)[k] = q[k + 1] /\ k + 1 \in DOMAIN q
    BY <1>2
  <2>3. \A k \in DOMAIN q : k = 1 \/ (k - 1 \in DOMAIN Tail(q) /\ Tail(q)[k - 1] = q[k])
    BY <1>2, <2>1
  <2>4. ASSUME NEW x \in ToSet(q) PROVE x \in {Head(q)} \cup ToSet(Tail(q))
    <3>1. PICK k \in DOMAIN q : x = q[k]
      BY DEF ToSet
    <3> QED BY <2>1, <2>3, <3>1 DEF ToSet
  <2>5. ASSUME NEW x \in ToSet(Tail(q)) PROVE x \in ToSet(q)
    <3>1. PICK k \in DOMAIN Tail(q) : x = Tail(q)[k]
      BY DEF ToSet
    <3> QED BY <2>2, <3>1 DEF ToSet
  <2>6. Head(q) \in ToSet(q)
    BY <2>1 DEF ToSet
  <2>7. Head(q) \in S
    BY <1>2
  <2> QED BY <2>1, <2>4, <2>5, <2>6, <2>7
<1> QED BY <1>1, <1>2

LEMMA TypeFilesInit == Init => TypeInv /\ FilesInv
<1> SUFFICES ASSUME Init PROVE TypeInv /\ FilesInv
  OBVIOUS
<1>1. PICK k \in DOMAIN Plans : plan = Plans[k]
  BY DEF Init
<1>2. plan \in Seq(Commands)
  BY <1>1, PlansAssumption DEF PlansAssumption
<1>3. TypeInv
  BY <1>2 DEF Init, TypeInv
<1>4. \A t \in {"dir", "staging"} : Sound(trees[t])
  BY SoundEmpty DEF Init
<1>5. FilesInv
  BY <1>4 DEF Init, FilesInv
<1> QED BY <1>3, <1>5

-----------------------------------------------------------------------------
\* What the first of the schemas still to write is.
LEMMA InHand ==
  ASSUME TypeInv, pc # "idle", todo # <<>>
  PROVE  /\ Head(todo) \in Extractable(cmd) /\ Head(todo) \in Schemas
         /\ Tail(todo) \in Seq(Extractable(cmd))
         /\ ToSet(todo) = {Head(todo)} \cup ToSet(Tail(todo))
<1>1. todo \in Seq(Extractable(cmd)) /\ cmd \in Commands
  BY DEF TypeInv
<1>2. Extractable(cmd) \subseteq Schemas
  BY <1>1 DEF Schemas
<1> QED BY <1>1, <1>2, ToSetOfSeq

LEMMA NextInput ==
  ASSUME TypeInv, pc # "idle", inputs # <<>>
  PROVE  Head(inputs) \in ToSet(cmd.inputs) /\ Tail(inputs) \in Seq(ToSet(cmd.inputs))
BY ToSetOfSeq DEF TypeInv

LEMMA Results ==
  ASSUME TypeInv, pc # "idle", inputs # <<>>, Head(inputs).readable,
         NEW r \in ExtractFrom(cmd.tool, Head(inputs).doc)
  PROVE  r.errors \in Nat /\ r.schemas \in Seq(Extractable(cmd))
<1>1. cmd \in Commands /\ Head(inputs) \in ToSet(cmd.inputs)
  BY NextInput DEF TypeInv
<1>2. r.errors \in Nat /\ r.schemas \in Seq(ToSet(r.schemas))
  BY <1>1, ExtractionAssumption DEF ExtractionAssumption
<1>3. ToSet(r.schemas) \subseteq Extractable(cmd)
  BY <1>1 DEF Extractable
<1> QED BY <1>2, <1>3

LEMMA SmallestAlias ==
  ASSUME TypeInv, pc = "names", todo # <<>>, aliases # {}
  PROVE  Min(aliases) \in aliases /\ Min(aliases) \in ExplainAliases(Head(todo))
<1> DEFINE s == Head(todo)
<1>1. s \in Extractable(cmd) /\ cmd \in Commands
  BY InHand DEF TypeInv
<1>2. s.resource.short \in Seq(ToSet(s.resource.short))
  BY <1>1, ExtractionAssumption DEF ExtractionAssumption
<1>3. Len(AliasNames(s)) \in Nat
  <2> HIDE DEF s
  <2> QED BY <1>2 DEF AliasNames
<1>4. \A n \in Nat : 1 .. n \subseteq Nat
  OBVIOUS
<1>5. ExplainAliases(s) \subseteq 1 .. Len(AliasNames(s))
  BY DEF ExplainAliases
<1>6. aliases \subseteq ExplainAliases(s)
  BY DEF TypeInv
<1>7. aliases \subseteq Nat
  BY <1>3, <1>4, <1>5, <1>6
<1> QED BY <1>6, <1>7, MinIsLeast

LEMMA TypeStep == TypeInv /\ [Next]_vars => TypeInv'
<1> SUFFICES ASSUME TypeInv, [Next]_vars PROVE TypeInv'
  OBVIOUS
<1>1. CASE Start
  <2>1. Head(plan) \in Commands /\ Tail(plan) \in Seq(Commands)
    BY <1>1 DEF Start, TypeInv
  <2>2. Head(plan).inputs \in Seq(ToSet(Head(plan).inputs))
    BY <2>1, PlansAssumption DEF PlansAssumption
  <2> QED BY <1>1, <2>1, <2>2 DEF Start, TypeInv
<1>2. CASE ReadInput
  <2>1. PICK r \in ExtractFrom(cmd.tool, Head(inputs).doc) : todo' = r.schemas /\ failures' = failures + r.errors
    BY <1>2 DEF ReadInput
  <2>2. r.errors \in Nat /\ r.schemas \in Seq(Extractable(cmd)) /\ Tail(inputs) \in Seq(ToSet(cmd.inputs))
    BY <1>2, Results, NextInput DEF ReadInput
  <2>3. index' = <<>> /\ aliases' = {}
    BY <1>2 DEF ReadInput, TypeInv
  <2> QED BY <1>2, <2>1, <2>2, <2>3 DEF ReadInput, TypeInv
<1>3. CASE InputUnreadable
  <2>1. Tail(inputs) \in Seq(ToSet(cmd.inputs)) /\ index' = <<>> /\ aliases' = {} /\ todo' = <<>>
    BY <1>3, NextInput DEF InputUnreadable, TypeInv
  <2>2. CASE cmd.tool = "crd"
    <3>1. /\ inputs' = Tail(inputs) /\ failures' = failures + 1 /\ pc' = "schema" /\ cmd' = cmd
          /\ exits' = exits /\ plan' = plan /\ kept' = kept /\ trees' = trees
      BY <1>3, <2>2 DEF InputUnreadable
    <3>2. pc = "input" /\ todo = <<>>
      BY <1>3 DEF InputUnreadable, TypeInv
    <3> QED BY <2>1, <3>1, <3>2 DEF TypeInv
  <2>3. CASE cmd.tool # "crd"
    <3>1. pc' = "idle" /\ inputs' = <<>> /\ exits' = Append(exits, 1) /\ failures' = failures
      BY <1>3, <2>3 DEF InputUnreadable
    <3>2. exits' \in Seq(Nat)
      BY <3>1 DEF TypeInv
    <3> QED BY <1>3, <2>1, <3>1, <3>2 DEF InputUnreadable, TypeInv
  <2> QED BY <2>2, <2>3
<1>4. CASE WriteSchema
  <2>1. Head(todo) \in Extractable(cmd)
    BY <1>4, InHand DEF WriteSchema
  <2>2. kept' \subseteq Extractable(cmd) /\ failures' \in Nat
    BY <1>4, <2>1 DEF WriteSchema, TypeInv, Unflattened
  <2>3. aliases' \subseteq ExplainAliases(Head(todo)) /\ (index' # <<>> => index' = <<FlattenMap(Head(todo))>>)
    BY <1>4 DEF WriteSchema
  <2>4. DOMAIN trees' = DOMAIN trees
    BY <1>4 DEF WriteSchema, Write
  <2> QED BY <1>4, <2>2, <2>3, <2>4 DEF WriteSchema, TypeInv
<1>5. CASE SchemaUnwritten
  <2>1. Tail(todo) \in Seq(Extractable(cmd)) /\ failures' \in Nat
    BY <1>5, InHand DEF SchemaUnwritten, TypeInv, Unflattened
  <2>2. index = <<>>
    BY <1>5 DEF SchemaUnwritten, TypeInv
  <2> QED BY <1>5, <2>1, <2>2 DEF SchemaUnwritten, TypeInv
<1>6. CASE WriteAlias
  <2>1. Tail(todo) \in Seq(Extractable(cmd))
    BY <1>6, InHand DEF WriteAlias, TypeInv
  <2>2. DOMAIN trees' = DOMAIN trees
    BY <1>6 DEF WriteAlias, Write
  <2>3. CASE AliasPath(Head(todo), Min(aliases)) \in broken
    <3>1. /\ todo' = Tail(todo) /\ aliases' = {} /\ index' = <<>> /\ pc' = "schema" /\ failures' = failures + 1
          /\ plan' = plan /\ cmd' = cmd /\ inputs' = inputs /\ kept' = kept /\ exits' = exits
      BY <1>6, <2>3 DEF WriteAlias, NextSchema
    <3> QED BY <1>6, <2>1, <2>2, <3>1 DEF WriteAlias, TypeInv
  <2>4. CASE AliasPath(Head(todo), Min(aliases)) \notin broken
    BY <1>6, <2>2, <2>4 DEF WriteAlias, TypeInv
  <2> QED BY <2>3, <2>4
<1>7. CASE WriteFieldIndex
  <2>1. Tail(todo) \in Seq(Extractable(cmd))
    BY <1>7, InHand DEF WriteFieldIndex, TypeInv
  <2>2. DOMAIN trees' = DOMAIN trees /\ failures' \in Nat
    BY <1>7 DEF WriteFieldIndex, Write, TypeInv
  <2> QED BY <1>7, <2>1, <2>2 DEF WriteFieldIndex, NextSchema, TypeInv
<1>8. CASE EndInput
  BY <1>8 DEF EndInput, TypeInv
<1>9. CASE WriteMetadata
  <2>1. DOMAIN trees' = DOMAIN trees /\ failures' \in Nat
    BY <1>9 DEF WriteMetadata, Write, TypeInv
  <2> QED BY <1>9, <2>1 DEF WriteMetadata, TypeInv
<1>10. CASE Finish
  <2>1. DOMAIN trees' = DOMAIN trees
    BY <1>10 DEF Finish, Archived
  <2> QED BY <1>10, <2>1 DEF Finish, TypeInv
<1>11. CASE UNCHANGED vars
  BY <1>11 DEF TypeInv, vars
<1> QED BY <1>1, <1>2, <1>3, <1>4, <1>5, <1>6, <1>7, <1>8, <1>9, <1>10, <1>11 DEF Next

\* The metadata of a command refers to the kinds of the schemas it has kept.
LEMMA MetadataRefers ==
  ASSUME NEW ss
  PROVE  \A p \in DOMAIN ExplainMetadata(ss) :
           /\ p[1] \in {"refs", "completion"}
           /\ p[1] = "refs" => \A g \in ExplainMetadata(ss)[p] : \E s \in ss : g = GVKOf(s)
<1> DEFINE refs == ExplainReferences(ss)
           shards == ExplainCompletionShards(ss)
           files == ExplainMetadata(ss)
<1>1. /\ DOMAIN files = {ReferencePath(k) : k \in DOMAIN refs} \cup {ShardPath(k) : k \in DOMAIN shards}
      /\ \A p \in DOMAIN files : files[p] = IF p[1] = "refs" THEN refs[p[2]] ELSE shards[p[2]]
  BY DEF ExplainMetadata
<1>2. \A k : ReferencePath(k)[1] = "refs" /\ ReferencePath(k)[2] = k /\ ShardPath(k)[1] = "completion"
  BY DEF ReferencePath, ShardPath
<1>3. \A k \in DOMAIN refs : \A g \in refs[k] : \E s \in ss : g = GVKOf(s)
  BY DEF ExplainReferences
<1> SUFFICES ASSUME NEW p \in DOMAIN files
             PROVE  /\ p[1] \in {"refs", "completion"}
                    /\ p[1] = "refs" => \A g \in files[p] : \E s \in ss : g = GVKOf(s)
  OBVIOUS
<1>4. CASE \E k \in DOMAIN refs : p = ReferencePath(k)
  <2>1. PICK k \in DOMAIN refs : p = ReferencePath(k)
    BY <1>4
  <2>2. files[p] = refs[k] /\ p[1] = "refs"
    BY <1>1, <1>2, <2>1
  <2> QED BY <1>3, <2>2
<1>5. CASE \E k \in DOMAIN shards : p = ShardPath(k)
  BY <1>2, <1>5
<1> QED BY <1>1, <1>4, <1>5

LEMMA DocumentNext ==
  ASSUME DOMAIN documents # {}
  PROVE  NextDocument \in DOMAIN documents
BY DEF NextDocument

LEMMA FilesStep == TypeInv /\ FilesInv /\ [Next]_vars => FilesInv'
<1> SUFFICES ASSUME TypeInv, FilesInv, [Next]_vars PROVE FilesInv'
  OBVIOUS
<1>0. Dest \in {"dir", "staging"} /\ Dest \in DOMAIN trees /\ (cmd' = cmd => Dest' = Dest)
  BY DEF Dest, TypeInv
<1>1. CASE Start
  <2>1. \A t \in {"dir", "staging"} : Sound(trees'[t])
    BY <1>1, SoundEmpty DEF Start, FilesInv, TypeInv
  <2>2. \A t \in DOMAIN trees' : \A p \in DOMAIN trees'[t] : Kept(p)'
    BY <1>1 DEF Start, FilesInv, TypeInv, Kept
  <2> QED BY <1>1, <2>1, <2>2 DEF Start, FilesInv
<1>2. CASE ReadInput
  BY <1>0, <1>2 DEF ReadInput, FilesInv, Kept, HasSchema
<1>3. CASE InputUnreadable
  <2>1. /\ trees' = trees /\ broken' = broken /\ kept' = kept /\ documents' = documents
        /\ pc = "input" /\ (pc' = "idle" \/ (pc' = "schema" /\ cmd' = cmd))
    BY <1>3 DEF InputUnreadable
  <2> QED BY <1>0, <2>1 DEF FilesInv, Kept, HasSchema
<1>4. CASE WriteSchema
  <2> DEFINE s == Head(todo)
             x == ForOutput(s.json, cmd)
  <2>1. s \in Extractable(cmd) /\ cmd \in Commands
    BY <1>4, InHand DEF WriteSchema, TypeInv
  <2>2. Write(Target, x) /\ broken' = broken /\ cmd' = cmd /\ todo' = todo /\ documents' = documents
    BY <1>4 DEF WriteSchema
  <2>3. SoundFile(Target, x, With(trees[Dest], Target, x)) /\ Target = SchemaPath(GVKOf(s))
    BY <2>1 DEF SoundFile, IsSchemaFile, Target
  <2>4. Kept(Target)
    BY <1>4, <2>3, PathParts DEF WriteSchema, Kept
  <2>5. /\ \A t \in {"dir", "staging"} : Sound(trees'[t])
        /\ \A t \in DOMAIN trees' : \A q \in DOMAIN trees'[t] : Kept(q)'
        /\ DOMAIN trees[Dest] \subseteq DOMAIN trees'[Dest] /\ Target \in DOMAIN trees'[Dest]
    BY <2>2, <2>3, <2>4, WriteKeeps
  <2>6. kept' \subseteq kept \cup {s}
    BY <1>4 DEF WriteSchema
  <2>7. pc = "schema" /\ pc' = "names" /\ Dest' = Dest
    BY <1>0, <1>4, <2>2 DEF WriteSchema
  <2>8. \A t \in kept' : HasSchema(t, trees'[Dest])
    BY <2>3, <2>5, <2>6, <2>7 DEF FilesInv, HasSchema
  <2>9. HasSchema(s, trees'[Dest])
    BY <2>3, <2>5 DEF HasSchema
  <2>10. DOMAIN documents = {}
    BY <2>7 DEF FilesInv
  <2> QED BY <2>2, <2>5, <2>7, <2>8, <2>9, <2>10 DEF FilesInv, HasSchema
<1>5. CASE SchemaUnwritten
  BY <1>0, <1>5 DEF SchemaUnwritten, FilesInv, Kept, HasSchema
<1>6. CASE WriteAlias
  <2> DEFINE s == Head(todo)
             k == Min(aliases)
             p == AliasPath(s, k)
  <2>1. /\ pc = "names" /\ broken' = broken /\ cmd' = cmd /\ kept' = kept /\ documents' = documents
        /\ DOMAIN documents = {} /\ aliases # {} /\ todo # <<>>
    BY <1>6 DEF WriteAlias, FilesInv, TypeInv
  <2>2. CASE p \in broken
    <3>1. trees' = trees /\ pc' = "schema"
      BY <1>6, <2>2 DEF WriteAlias, NextSchema
    <3> QED BY <1>0, <2>1, <3>1 DEF FilesInv, Kept, HasSchema
  <2>3. CASE p \notin broken
    <3>1. Write(p, AliasFile(s)) /\ todo' = todo /\ pc' = pc
      BY <1>6, <2>3 DEF WriteAlias
    <3>2. s \in Schemas /\ k \in ExplainAliases(s)
      BY <2>1, InHand, SmallestAlias
    <3>3. SchemaPath(GVKOf(s)) \in DOMAIN With(trees[Dest], p, AliasFile(s))
      BY <2>1 DEF FilesInv, HasSchema, With
    <3>4. SoundFile(p, AliasFile(s), With(trees[Dest], p, AliasFile(s)))
      BY <3>2, <3>3 DEF SoundFile, IsAliasFile
    <3>5. Kept(p)
      BY <2>3, PathParts DEF Kept, AliasPath
    <3>6. /\ \A t \in {"dir", "staging"} : Sound(trees'[t])
          /\ \A t \in DOMAIN trees' : \A q \in DOMAIN trees'[t] : Kept(q)'
          /\ DOMAIN trees[Dest] \subseteq DOMAIN trees'[Dest]
      BY <2>1, <3>1, <3>4, <3>5, WriteKeeps
    <3> QED BY <1>0, <2>1, <3>1, <3>6 DEF FilesInv, HasSchema
  <2> QED BY <2>2, <2>3
<1>7. CASE WriteFieldIndex
  <2> DEFINE s == Head(todo)
             p == IndexPath(SchemaPath(GVKOf(s)))
  <2>1. /\ pc = "names" /\ broken' = broken /\ cmd' = cmd /\ kept' = kept /\ documents' = documents
        /\ DOMAIN documents = {} /\ todo # <<>> /\ pc' = "schema"
    BY <1>7 DEF WriteFieldIndex, NextSchema, FilesInv, TypeInv
  <2>2. CASE trees' = trees
    BY <1>0, <2>1, <2>2 DEF FilesInv, Kept, HasSchema
  <2>3. CASE index # <<>> /\ p \notin broken /\ Write(p, index[1])
    <3>1. s \in Schemas /\ index[1] = FlattenMap(s)
      BY <2>1, <2>3, InHand DEF TypeInv
    <3>2. SoundFile(p, index[1], With(trees[Dest], p, index[1]))
      BY <3>1 DEF SoundFile, IsIndexFile
    <3>3. Kept(p)
      BY <2>3, IndexParts DEF Kept
    <3>4. /\ \A t \in {"dir", "staging"} : Sound(trees'[t])
          /\ \A t \in DOMAIN trees' : \A q \in DOMAIN trees'[t] : Kept(q)'
          /\ DOMAIN trees[Dest] \subseteq DOMAIN trees'[Dest]
      BY <2>1, <2>3, <3>2, <3>3, WriteKeeps
    <3> QED BY <1>0, <2>1, <3>4 DEF FilesInv, HasSchema
  <2> QED BY <1>7, <2>2, <2>3 DEF WriteFieldIndex
<1>8. CASE EndInput
  <2>1. \A p \in DOMAIN documents' :
          /\ p[1] \in {"refs", "completion"}
          /\ p[1] = "refs" => \A g \in documents'[p] : \E s \in kept : g = GVKOf(s)
    <3>1. documents' = ExplainMetadata(kept) \/ documents' = <<>>
      BY <1>8 DEF EndInput
    <3> QED BY <3>1, MetadataRefers
  <2>2. pc' # "metadata" => DOMAIN documents' = {}
    BY <1>8 DEF EndInput
  <2>3. /\ trees' = trees /\ broken' = broken /\ kept' = kept /\ cmd' = cmd /\ pc = "schema"
        /\ pc' \in {"input", "metadata"}
    BY <1>8 DEF EndInput
  <2> QED BY <1>0, <2>1, <2>2, <2>3 DEF FilesInv, Kept, HasSchema
<1>9. CASE WriteMetadata
  <2> DEFINE p == NextDocument
  <2>1. /\ pc = "metadata" /\ pc' = pc /\ broken' = broken /\ cmd' = cmd /\ kept' = kept
        /\ p \in DOMAIN documents
    BY <1>9, DocumentNext DEF WriteMetadata
  <2>2. CASE p \in broken
    <3>1. trees' = trees /\ documents' = <<>>
      BY <1>9, <2>2 DEF WriteMetadata
    <3> QED BY <1>0, <2>1, <3>1 DEF FilesInv, Kept, HasSchema
  <2>3. CASE p \notin broken
    <3>1. Write(p, documents[p]) /\ documents' = [q \in DOMAIN documents \ {p} |-> documents[q]]
      BY <1>9, <2>3 DEF WriteMetadata
    <3>2. p[1] \in {"refs", "completion"} /\ Kept(p)
      BY <2>1, <2>3 DEF FilesInv, Kept
    <3>3. SoundFile(p, documents[p], With(trees[Dest], p, documents[p]))
      <4>1. CASE p[1] = "completion"
        BY <4>1 DEF SoundFile, IsShard
      <4>2. CASE p[1] = "refs"
        <5>1. ASSUME NEW g \in documents[p]
              PROVE  \E s \in Schemas : g = GVKOf(s) /\ SchemaPath(g) \in DOMAIN With(trees[Dest], p, documents[p])
          <6>1. PICK s \in kept : g = GVKOf(s)
            BY <2>1, <4>2 DEF FilesInv
          <6>2. s \in Schemas
            BY <2>1 DEF TypeInv, Schemas
          <6>3. SchemaPath(g) \in DOMAIN trees[Dest]
            BY <2>1, <6>1 DEF FilesInv, HasSchema
          <6> QED BY <6>1, <6>2, <6>3 DEF With
        <5> QED BY <4>2, <5>1 DEF SoundFile, IsReferenceFile
      <4> QED BY <3>2, <4>1, <4>2
    <3>4. /\ \A t \in {"dir", "staging"} : Sound(trees'[t])
          /\ \A t \in DOMAIN trees' : \A q \in DOMAIN trees'[t] : Kept(q)'
          /\ DOMAIN trees[Dest] \subseteq DOMAIN trees'[Dest]
      BY <2>1, <3>1, <3>2, <3>3, WriteKeeps
    <3>5. \A q \in DOMAIN documents' : q \in DOMAIN documents /\ documents'[q] = documents[q]
      BY <3>1
    <3> QED BY <1>0, <2>1, <3>4, <3>5 DEF FilesInv, HasSchema
  <2> QED BY <2>2, <2>3
<1>10. CASE Finish
  <2>1. \A t \in {"dir", "staging"} : Sound(trees'[t])
    BY <1>10, SoundEmpty DEF Finish, Archived, FilesInv, TypeInv
  <2>2. \A t \in DOMAIN trees' : \A p \in DOMAIN trees'[t] : Kept(p)'
    BY <1>10 DEF Finish, Archived, FilesInv, TypeInv, Kept
  <2> QED BY <1>10, <2>1, <2>2 DEF Finish, FilesInv
<1>11. CASE UNCHANGED vars
  BY <1>0, <1>11 DEF vars, FilesInv, Kept, HasSchema
<1> QED BY <1>1, <1>2, <1>3, <1>4, <1>5, <1>6, <1>7, <1>8, <1>9, <1>10, <1>11 DEF Next

LEMMA TypeFilesInvariant == Spec => [](TypeInv /\ FilesInv)
<1>1. TypeInv /\ FilesInv /\ [Next]_vars => (TypeInv /\ FilesInv)'
  BY TypeStep, FilesStep
<1> QED BY <1>1, TypeFilesInit, PTL DEF Spec

-----------------------------------------------------------------------------
(* What a command has written of the inputs it has read.                    *)

\* How many of them there are.
Read == Len(cmd.inputs) - Len(inputs)

InputsInv ==
  pc # "idle" =>
    /\ Len(inputs) <= Len(cmd.inputs)
    /\ \A j \in 1 .. Len(inputs) : inputs[j] = cmd.inputs[Read + j]

Full == cmd.explain = "full"

\* All of a schema is written, but for its references.
Done(s) ==
  /\ HasSchema(s, trees[Dest])
  /\ Indexed(s) => IndexPath(SchemaPath(GVKOf(s))) \in DOMAIN trees[Dest]
  /\ Full => s \in kept /\ \A k \in ExplainAliases(s) : AliasPath(s, k) \in DOMAIN trees[Dest]

\* So are the schemas of an input, or they are still to be written.
Written(k) ==
  /\ cmd.inputs[k].readable
  /\ \E r \in ExtractFrom(cmd.tool, cmd.inputs[k].doc) :
       r.errors = 0 /\ \A s \in ToSet(r.schemas) : Done(s) \/ s \in ToSet(todo)

\* The reference is written, or is still to be written.
Referred(s, n) ==
  IF ReferencePath(n) \in DOMAIN documents THEN GVKOf(s) \in documents[ReferencePath(n)]
  ELSE ReferencePath(n) \in DOMAIN trees[Dest] /\ GVKOf(s) \in trees[Dest][ReferencePath(n)]

\* While no failure has been counted.
CleanInv ==
  failures = 0 =>
    /\ pc # "idle" => \A k \in 1 .. Read : Written(k)
    /\ pc = "names" =>
         /\ Indexed(Head(todo)) => index # <<>>
         /\ Full =>
              /\ Head(todo) \in kept
              /\ \A k \in ExplainAliases(Head(todo)) :
                   k \in aliases \/ AliasPath(Head(todo), k) \in DOMAIN trees[Dest]
    /\ pc = "metadata" /\ Full =>
         \A s \in kept : HasDiscoveryResource(s) => \A n \in MetadataNames(s) : Referred(s, n)

\* While a command runs, nothing it has written goes, and failures are not
\* taken back.
LEMMA NothingGoes ==
  ASSUME TypeInv, [Next]_vars, pc # "idle", pc' # "idle"
  PROVE  /\ cmd' = cmd /\ broken' = broken /\ Dest' = Dest /\ kept \subseteq kept' /\ failures <= failures'
         /\ DOMAIN trees[Dest] \subseteq DOMAIN trees'[Dest]
<1>0. failures \in Nat /\ Dest \in DOMAIN trees
  BY DEF TypeInv, Dest
<1>w. ASSUME NEW p, NEW x, Write(p, x)
      PROVE  DOMAIN trees[Dest] \subseteq DOMAIN trees'[Dest]
  BY <1>0, <1>w DEF Write, With
<1>1. /\ cmd' = cmd /\ broken' = broken /\ kept \subseteq kept'
      /\ trees' = trees \/ \E p, x : Write(p, x)
      /\ failures <= failures'
  <2>1. CASE ReadInput
    <3>1. PICK r \in ExtractFrom(cmd.tool, Head(inputs).doc) : failures' = failures + r.errors
      BY <2>1 DEF ReadInput
    <3>2. r.errors \in Nat
      BY <2>1, <3>1, Results DEF ReadInput
    <3>3. failures <= failures'
      BY <1>0, <3>1, <3>2
    <3> QED BY <2>1, <3>3 DEF ReadInput
  <2>2. CASE InputUnreadable
    BY <1>0, <2>2 DEF InputUnreadable
  <2>3. CASE WriteSchema
    BY <1>0, <2>3 DEF WriteSchema, Unflattened
  <2>4. CASE SchemaUnwritten
    BY <1>0, <2>4 DEF SchemaUnwritten, Unflattened
  <2>5. CASE WriteAlias
    BY <1>0, <2>5 DEF WriteAlias
  <2>6. CASE WriteFieldIndex
    BY <1>0, <2>6 DEF WriteFieldIndex
  <2>7. CASE EndInput
    BY <1>0, <2>7 DEF EndInput
  <2>8. CASE WriteMetadata
    BY <1>0, <2>8 DEF WriteMetadata
  <2>9. CASE UNCHANGED vars
    BY <1>0, <2>9 DEF vars
  <2> QED BY <2>1, <2>2, <2>3, <2>4, <2>5, <2>6, <2>7, <2>8, <2>9 DEF Next, Start, Finish
<1> QED BY <1>1, <1>w DEF Dest

LEMMA DoneStays ==
  ASSUME TypeInv, [Next]_vars, pc # "idle", pc' # "idle", NEW s, Done(s)
  PROVE  Done(s)'
BY NothingGoes DEF Done, HasSchema, Indexed, Full

\* An input less to read: what Read counts.
LEMMA InputLess ==
  ASSUME TypeInv, InputsInv, pc # "idle", inputs # <<>>, inputs' = Tail(inputs), cmd' = cmd
  PROVE  /\ Read \in Nat /\ Read' = Read + 1 /\ Head(inputs) = cmd.inputs[Read + 1]
         /\ Len(inputs') <= Len(cmd.inputs)
         /\ \A j \in 1 .. Len(inputs') : inputs'[j] = cmd.inputs[Read + 1 + j]
<1>1. inputs \in Seq(ToSet(cmd.inputs)) /\ cmd.inputs \in Seq(ToSet(cmd.inputs))
  BY PlansAssumption DEF PlansAssumption, TypeInv
<1>2. /\ Len(inputs') = Len(inputs) - 1 /\ Len(inputs) \in Nat /\ Len(inputs) >= 1
      /\ \A j \in 1 .. Len(inputs') : inputs'[j] = inputs[j + 1] /\ j + 1 \in 1 .. Len(inputs)
      /\ Head(inputs) = inputs[1]
  BY <1>1
<1>3. Len(cmd.inputs) \in Nat /\ Len(inputs) <= Len(cmd.inputs)
  BY <1>1 DEF InputsInv
<1>4. Read \in Nat /\ Read' = Read + 1
  BY <1>2, <1>3 DEF Read
<1>5. Head(inputs) = cmd.inputs[Read + 1]
  BY <1>2 DEF InputsInv
<1>6. ASSUME NEW j \in 1 .. Len(inputs') PROVE inputs'[j] = cmd.inputs[Read + 1 + j]
  <2>1. inputs'[j] = cmd.inputs[Read + (j + 1)]
    BY <1>2 DEF InputsInv
  <2> QED BY <1>4, <2>1
<1> QED BY <1>2, <1>3, <1>4, <1>5, <1>6

LEMMA InputsStep == TypeInv /\ InputsInv /\ [Next]_vars => InputsInv'
<1> SUFFICES ASSUME TypeInv, InputsInv, [Next]_vars, pc' # "idle" PROVE InputsInv'
  BY DEF InputsInv
<1>1. CASE Start
  <2>1. cmd' \in Commands /\ inputs' = cmd'.inputs
    BY <1>1 DEF Start, TypeInv
  <2>2. cmd'.inputs \in Seq(ToSet(cmd'.inputs))
    BY <2>1, PlansAssumption DEF PlansAssumption
  <2>3. Read' = 0 /\ Len(cmd'.inputs) \in Nat
    BY <2>1, <2>2 DEF Read
  <2> QED BY <2>1, <2>3 DEF InputsInv
<1>2. CASE ReadInput \/ InputUnreadable
  <2>1. pc # "idle" /\ inputs # <<>> /\ inputs' = Tail(inputs) /\ cmd' = cmd
    BY <1>2 DEF ReadInput, InputUnreadable
  <2> QED BY <2>1, InputLess DEF InputsInv
<1>3. CASE pc # "idle" /\ inputs' = inputs /\ cmd' = cmd
  BY <1>3 DEF InputsInv, Read
<1>4. CASE ~Start /\ ~ReadInput /\ ~InputUnreadable
  <2>1. (pc # "idle" \/ UNCHANGED vars) /\ inputs' = inputs /\ cmd' = cmd
    BY <1>4 DEF Next, WriteSchema, SchemaUnwritten, WriteAlias, WriteFieldIndex, EndInput, WriteMetadata, Finish, vars
  <2> QED BY <1>3, <2>1 DEF vars
<1> QED BY <1>1, <1>2, <1>4

\* The inputs read before a step are as written after it, if the schemas that
\* it takes out of todo are done.
LEMMA WrittenStays ==
  ASSUME TypeInv, [Next]_vars, pc # "idle", pc' # "idle",
         \A s \in ToSet(todo) : Done(s)' \/ s \in ToSet(todo'),
         NEW k, Written(k)
  PROVE  Written(k)'
<1>1. cmd' = cmd
  BY NothingGoes
<1>2. PICK r \in ExtractFrom(cmd.tool, cmd.inputs[k].doc) :
        r.errors = 0 /\ \A s \in ToSet(r.schemas) : Done(s) \/ s \in ToSet(todo)
  BY DEF Written
<1>3. \A s \in ToSet(r.schemas) : Done(s)' \/ s \in ToSet(todo')
  BY <1>2, DoneStays
<1> QED BY <1>1, <1>2, <1>3 DEF Written

LEMMA CleanStep == TypeInv /\ FilesInv /\ InputsInv /\ CleanInv /\ [Next]_vars => CleanInv'
<1> SUFFICES ASSUME TypeInv, FilesInv, InputsInv, CleanInv, [Next]_vars, failures' = 0
             PROVE  CleanInv'
  BY DEF CleanInv
<1>0. ASSUME pc # "idle", pc' # "idle"
      PROVE  /\ cmd' = cmd /\ broken' = broken /\ Dest' = Dest /\ kept \subseteq kept' /\ failures = 0
             /\ DOMAIN trees[Dest] \subseteq DOMAIN trees'[Dest]
             /\ \A k \in 1 .. Read : Written(k)
             /\ failures \in Nat
  <2>1. failures \in Nat /\ failures <= failures'
    BY <1>0, NothingGoes DEF TypeInv
  <2>2. failures = 0
    BY <2>1
  <2> QED BY <1>0, <2>1, <2>2, NothingGoes DEF CleanInv
<1>1. CASE Start
  <2>1. cmd' \in Commands /\ inputs' = cmd'.inputs /\ pc' = "input"
    BY <1>1 DEF Start, TypeInv
  <2>2. cmd'.inputs \in Seq(ToSet(cmd'.inputs))
    BY <2>1, PlansAssumption DEF PlansAssumption
  <2>3. Read' = 0
    BY <2>1, <2>2 DEF Read
  <2> QED BY <2>1, <2>3 DEF CleanInv
<1>2. CASE ReadInput
  <2>1. /\ pc = "input" /\ pc' = "schema" /\ inputs # <<>> /\ inputs' = Tail(inputs) /\ todo = <<>>
        /\ Head(inputs).readable
    BY <1>2 DEF ReadInput, TypeInv
  <2>2. PICK r \in ExtractFrom(cmd.tool, Head(inputs).doc) : todo' = r.schemas /\ failures' = failures + r.errors
    BY <1>2 DEF ReadInput
  <2>3. r.errors = 0
    BY <1>0, <2>1, <2>2, Results
  <2>4. Read \in Nat /\ Read' = Read + 1 /\ Head(inputs) = cmd.inputs[Read + 1] /\ cmd' = cmd
    BY <1>0, <2>1, InputLess
  <2>5. ASSUME NEW k, k = Read + 1 PROVE Written(k)'
    BY <2>1, <2>2, <2>3, <2>4, <2>5 DEF Written
  <2>6. \A k \in 1 .. Read : Written(k)'
    <3>1. ToSet(todo) = {}
      BY <2>1 DEF ToSet
    <3> QED BY <1>0, <2>1, <3>1, WrittenStays
  <2>7. \A k \in 1 .. Read' : Written(k)'
    BY <2>4, <2>5, <2>6
  <2> QED BY <2>1, <2>7 DEF CleanInv
<1>3. CASE InputUnreadable
  <2>1. pc = "input" /\ (pc' = "idle" \/ (pc' = "schema" /\ failures' = failures + 1))
    BY <1>3 DEF InputUnreadable
  <2>2. pc' = "idle"
    BY <1>0, <2>1
  <2> QED BY <2>2 DEF CleanInv
<1>4. CASE WriteSchema
  <2> DEFINE s == Head(todo)
  <2>1. /\ pc = "schema" /\ pc' = "names" /\ todo' = todo /\ inputs' = inputs /\ todo # <<>>
        /\ failures' = failures + Unflattened(s)
        /\ Full => kept' = kept \cup {s} /\ aliases' = ExplainAliases(s)
        /\ index' = IF Indexed(s) /\ Flattens(s) THEN <<FlattenMap(s)>> ELSE <<>>
    BY <1>4 DEF WriteSchema, Full
  <2>2. \A k \in 1 .. Read : Written(k)'
    BY <1>0, <2>1, WrittenStays
  <2>3. cmd' = cmd /\ Read' = Read
    BY <1>0, <2>1 DEF Read
  <2>4. Indexed(s) => Flattens(s)
    BY <1>0, <2>1 DEF Unflattened
  <2>5. Indexed(s) => index' # <<>>
    BY <2>1, <2>4
  <2> QED BY <2>1, <2>2, <2>3, <2>5 DEF CleanInv, Indexed, Full
<1>5. CASE SchemaUnwritten
  <2>1. pc = "schema" /\ pc' = pc /\ failures' = failures + Unflattened(Head(todo)) + 1
    BY <1>5 DEF SchemaUnwritten
  <2>2. Unflattened(Head(todo)) \in Nat
    BY DEF Unflattened
  <2> QED BY <1>0, <2>1, <2>2
<1>6. CASE WriteAlias
  <2> DEFINE s == Head(todo)
             m == Min(aliases)
             p == AliasPath(s, m)
  <2>1. pc = "names" /\ inputs' = inputs /\ aliases # {} /\ todo # <<>>
    BY <1>6 DEF WriteAlias, TypeInv
  <2>2. p \notin broken
    <3>1. ASSUME p \in broken PROVE FALSE
      <4>1. failures' = failures + 1 /\ pc' = "schema"
        BY <1>6, <3>1 DEF WriteAlias, NextSchema
      <4> QED BY <1>0, <2>1, <4>1
    <3> QED BY <3>1
  <2>3. /\ Write(p, AliasFile(s)) /\ aliases' = aliases \ {m}
        /\ todo' = todo /\ index' = index /\ pc' = pc /\ failures' = failures /\ kept' = kept
    BY <1>6, <2>2 DEF WriteAlias
  <2>4. \A k \in 1 .. Read : Written(k)'
    BY <1>0, <2>1, <2>3, WrittenStays
  <2>5. cmd' = cmd /\ Read' = Read /\ failures = 0
    BY <1>0, <2>1, <2>3 DEF Read
  <2>6. p \in DOMAIN trees'[Dest] /\ Dest' = Dest
    <3>1. trees'[Dest] = With(trees[Dest], p, AliasFile(s))
      BY <2>3, WriteEffect
    <3> QED BY <1>0, <2>1, <2>3, <3>1 DEF With
  <2>7. ASSUME Full, NEW k \in ExplainAliases(s)
        PROVE  k \in aliases' \/ AliasPath(s, k) \in DOMAIN trees'[Dest]
    <3>1. k \in aliases \/ AliasPath(s, k) \in DOMAIN trees[Dest]
      BY <2>1, <2>5, <2>7 DEF CleanInv
    <3> QED BY <1>0, <2>1, <2>3, <2>6, <3>1
  <2>8. Indexed(s) => index # <<>>
    BY <2>1, <2>5 DEF CleanInv
  <2>9. Full => s \in kept
    BY <2>1, <2>5 DEF CleanInv
  <2> QED BY <2>1, <2>3, <2>4, <2>5, <2>6, <2>7, <2>8, <2>9 DEF CleanInv, Indexed, Full
<1>7. CASE WriteFieldIndex
  <2> PICK s : s = Head(todo)
    OBVIOUS
  <2> DEFINE p == IndexPath(SchemaPath(GVKOf(s)))
  <2>1. /\ pc = "names" /\ pc' = "schema" /\ inputs' = inputs /\ todo' = Tail(todo) /\ todo # <<>> /\ aliases = {}
        /\ kept' = kept
    BY <1>7 DEF WriteFieldIndex, NextSchema, TypeInv
  <2>2. cmd' = cmd /\ Read' = Read /\ failures = 0 /\ Dest' = Dest
    BY <1>0, <2>1 DEF Read
  <2>3. index # <<>> => p \in DOMAIN trees'[Dest]
    <3>1. ASSUME index # <<>> PROVE p \notin broken /\ Write(p, index[1])
      BY <1>7, <2>2, <3>1 DEF WriteFieldIndex
    <3>2. ASSUME index # <<>> PROVE trees'[Dest] = With(trees[Dest], p, index[1])
      BY <3>1, <3>2, WriteEffect
    <3> QED BY <3>2 DEF With
  <2>4. Done(s)'
    <3>1. HasSchema(s, trees'[Dest])
      BY <1>0, <2>1 DEF FilesInv, HasSchema
    <3>2. Indexed(s) => p \in DOMAIN trees'[Dest]
      BY <2>1, <2>2, <2>3 DEF CleanInv
    <3>3. Full => s \in kept /\ \A k \in ExplainAliases(s) : AliasPath(s, k) \in DOMAIN trees'[Dest]
      BY <1>0, <2>1, <2>2 DEF CleanInv
    <3> QED BY <2>1, <2>2, <3>1, <3>2, <3>3 DEF Done, Indexed, Full, HasSchema
  <2>5. ToSet(todo) = {s} \cup ToSet(todo')
    BY <2>1, InHand
  <2>6. \A k \in 1 .. Read : Written(k)'
    BY <1>0, <2>1, <2>4, <2>5, WrittenStays
  <2> QED BY <2>1, <2>2, <2>6 DEF CleanInv
<1>8. CASE EndInput
  <2>1. /\ pc = "schema" /\ pc' \in {"input", "metadata"} /\ inputs' = inputs /\ todo' = todo /\ kept' = kept
        /\ pc' = "metadata" /\ Full => documents' = ExplainMetadata(kept)
    BY <1>8 DEF EndInput, Full
  <2>2. cmd' = cmd /\ Read' = Read /\ \A k \in 1 .. Read : Written(k)'
    BY <1>0, <2>1, WrittenStays DEF Read
  <2>3. ASSUME pc' = "metadata", Full, NEW s \in kept, HasDiscoveryResource(s), NEW n \in MetadataNames(s)
        PROVE  ReferencePath(n) \in DOMAIN documents' /\ GVKOf(s) \in documents'[ReferencePath(n)]
    <3>1. n \in DOMAIN ExplainReferences(kept) /\ GVKOf(s) \in ExplainReferences(kept)[n]
      BY <2>3 DEF ExplainReferences
    <3>2. ReferencePath(n)[1] = "refs" /\ ReferencePath(n)[2] = n
      BY DEF ReferencePath
    <3> QED BY <2>1, <2>3, <3>1, <3>2 DEF ExplainMetadata
  <2> QED BY <2>1, <2>2, <2>3 DEF CleanInv, Full, Referred
<1>9. CASE WriteMetadata
  <2> DEFINE q == NextDocument
  <2>1. /\ pc = "metadata" /\ pc' = pc /\ inputs' = inputs /\ todo' = todo /\ kept' = kept
        /\ q \in DOMAIN documents
    BY <1>9, DocumentNext DEF WriteMetadata
  <2>2. /\ cmd' = cmd /\ Read' = Read /\ failures = 0 /\ failures \in Nat /\ Dest' = Dest
        /\ \A k \in 1 .. Read : Written(k)'
    BY <1>0, <2>1, WrittenStays DEF Read
  <2>3. q \notin broken
    BY <1>9, <2>2 DEF WriteMetadata
  <2>4. Write(q, documents[q]) /\ documents' = [p \in DOMAIN documents \ {q} |-> documents[p]]
    BY <1>9, <2>3 DEF WriteMetadata
  <2>5. trees'[Dest] = With(trees[Dest], q, documents[q])
    BY <2>4, WriteEffect
  <2>6. ASSUME Full, NEW s \in kept, HasDiscoveryResource(s), NEW n \in MetadataNames(s)
        PROVE  Referred(s, n)'
    <3> DEFINE p == ReferencePath(n)
    <3>1. Referred(s, n)
      BY <2>1, <2>2, <2>6 DEF CleanInv
    <3>2. CASE p = q
      <4>1. p \in DOMAIN trees'[Dest] /\ trees'[Dest][p] = documents[q]
        BY <2>5, <3>2 DEF With
      <4>2. GVKOf(s) \in documents[q] /\ p \notin DOMAIN documents'
        BY <2>1, <2>4, <3>1, <3>2 DEF Referred
      <4> QED BY <2>2, <3>2, <4>1, <4>2 DEF Referred
    <3>3. CASE p # q
      BY <2>2, <2>4, <2>5, <3>1, <3>3 DEF Referred, With
    <3> QED BY <3>2, <3>3
  <2> QED BY <2>1, <2>2, <2>6 DEF CleanInv, Full
<1>10. CASE Finish
  BY <1>10 DEF Finish, CleanInv
<1>11. CASE UNCHANGED vars
  <2>1. Read' = Read /\ \A s : Done(s)' = Done(s)
    BY <1>11 DEF vars, Read, Done, HasSchema, Indexed, Full, Dest
  <2>2. /\ pc' = pc /\ cmd' = cmd /\ todo' = todo /\ index' = index /\ kept' = kept /\ aliases' = aliases
        /\ trees' = trees /\ documents' = documents /\ failures' = failures
    BY <1>11 DEF vars
  <2> QED BY <2>1, <2>2 DEF CleanInv, Written, Referred, Indexed, Full, Dest
<1> QED BY <1>1, <1>2, <1>3, <1>4, <1>5, <1>6, <1>7, <1>8, <1>9, <1>10, <1>11 DEF Next

-----------------------------------------------------------------------------
(* Failures or not, what a command has extracted of the inputs it has read. *)

Tried(s) == SchemaPath(GVKOf(s)) \in broken \cup DOMAIN trees[Dest]

Reached(k) ==
  cmd.inputs[k].readable =>
    \E r \in ExtractFrom(cmd.tool, cmd.inputs[k].doc) :
      \A s \in ToSet(r.schemas) : Tried(s) \/ s \in ToSet(todo)

ReachedInv == pc # "idle" => \A k \in 1 .. Read : Reached(k)

LEMMA ReachedStays ==
  ASSUME TypeInv, [Next]_vars, pc # "idle", pc' # "idle",
         \A s \in ToSet(todo) : Tried(s)' \/ s \in ToSet(todo'),
         NEW k, Reached(k)
  PROVE  Reached(k)'
<1>1. cmd' = cmd /\ broken' = broken /\ Dest' = Dest /\ DOMAIN trees[Dest] \subseteq DOMAIN trees'[Dest]
  BY NothingGoes
<1>2. \A s : Tried(s) => Tried(s)'
  BY <1>1 DEF Tried
<1> QED BY <1>1, <1>2 DEF Reached

LEMMA ReachedStep == TypeInv /\ FilesInv /\ InputsInv /\ ReachedInv /\ [Next]_vars => ReachedInv'
<1> SUFFICES ASSUME TypeInv, FilesInv, InputsInv, ReachedInv, [Next]_vars, pc' # "idle"
             PROVE  ReachedInv'
  BY DEF ReachedInv
<1>1. CASE Start
  <2>1. cmd' \in Commands /\ inputs' = cmd'.inputs
    BY <1>1 DEF Start, TypeInv
  <2>2. cmd'.inputs \in Seq(ToSet(cmd'.inputs))
    BY <2>1, PlansAssumption DEF PlansAssumption
  <2>3. Read' = 0
    BY <2>1, <2>2 DEF Read
  <2> QED BY <2>3 DEF ReachedInv
<1>2. CASE ReadInput \/ InputUnreadable
  <2>1. pc # "idle" /\ inputs # <<>> /\ inputs' = Tail(inputs) /\ ToSet(todo) = {}
    BY <1>2 DEF ReadInput, InputUnreadable, TypeInv, ToSet
  <2>2. cmd' = cmd
    BY <2>1, NothingGoes
  <2>3. Read \in Nat /\ Read' = Read + 1 /\ Head(inputs) = cmd.inputs[Read + 1]
    BY <2>1, <2>2, InputLess
  <2>4. ASSUME NEW k, k = Read + 1 PROVE Reached(k)'
    <3>1. CASE ~Head(inputs).readable
      BY <2>2, <2>3, <2>4, <3>1 DEF Reached
    <3>2. CASE Head(inputs).readable
      <4>1. PICK r \in ExtractFrom(cmd.tool, Head(inputs).doc) : todo' = r.schemas
        BY <1>2, <3>2 DEF ReadInput, InputUnreadable
      <4> QED BY <2>2, <2>3, <2>4, <4>1 DEF Reached
    <3> QED BY <3>1, <3>2
  <2>5. \A k \in 1 .. Read : Reached(k)'
    BY <2>1, ReachedStays DEF ReachedInv
  <2>6. \A k \in 1 .. Read' : Reached(k)'
    BY <2>3, <2>4, <2>5
  <2> QED BY <2>6 DEF ReachedInv
<1>3. CASE pc # "idle" /\ inputs' = inputs /\ \A s \in ToSet(todo) : Tried(s)' \/ s \in ToSet(todo')
  <2>1. Read' = Read
    BY <1>3, NothingGoes DEF Read
  <2>2. \A k \in 1 .. Read : Reached(k)'
    BY <1>3, ReachedStays DEF ReachedInv
  <2> QED BY <2>1, <2>2 DEF ReachedInv
<1>4. CASE todo' = todo /\ inputs' = inputs /\ pc # "idle"
  BY <1>3, <1>4
<1>5. CASE SchemaUnwritten \/ WriteAlias \/ WriteFieldIndex
  <2>1. pc # "idle" /\ inputs' = inputs /\ todo # <<>> /\ todo' \in {todo, Tail(todo)}
    BY <1>5 DEF SchemaUnwritten, WriteAlias, WriteFieldIndex, NextSchema, TypeInv
  <2>2. ToSet(todo) = {Head(todo)} \cup ToSet(Tail(todo))
    BY <2>1, InHand
  <2>3. Tried(Head(todo))
    BY <1>5 DEF SchemaUnwritten, WriteAlias, WriteFieldIndex, FilesInv, HasSchema, Tried, Target
  <2>4. broken' = broken /\ Dest' = Dest /\ DOMAIN trees[Dest] \subseteq DOMAIN trees'[Dest]
    BY <2>1, NothingGoes
  <2>5. \A s : s = Head(todo) => Tried(s)'
    BY <2>3, <2>4 DEF Tried
  <2> QED BY <1>3, <2>1, <2>2, <2>5
<1>6. CASE UNCHANGED vars
  <2>1. Read' = Read /\ \A k : Reached(k)' = Reached(k)
    BY <1>6 DEF vars, Read, Reached, Tried, Dest
  <2> QED BY <1>6, <2>1 DEF vars, ReachedInv
<1>7. CASE WriteSchema \/ EndInput \/ WriteMetadata
  BY <1>4, <1>7 DEF WriteSchema, EndInput, WriteMetadata
<1>8. CASE Finish
  BY <1>8 DEF Finish
<1> QED BY <1>1, <1>2, <1>5, <1>6, <1>7, <1>8 DEF Next

-----------------------------------------------------------------------------
CatalogInv == TypeInv /\ FilesInv /\ InputsInv /\ CleanInv /\ ReachedInv

LEMMA CatalogInit == Init => CatalogInv
<1>1. Init => InputsInv /\ CleanInv /\ ReachedInv
  BY DEF Init, InputsInv, CleanInv, ReachedInv
<1> QED BY <1>1, TypeFilesInit DEF CatalogInv

LEMMA CatalogStep == CatalogInv /\ [Next]_vars => CatalogInv'
BY TypeStep, FilesStep, InputsStep, CleanStep, ReachedStep DEF CatalogInv

LEMMA CatalogInvariant == Spec => []CatalogInv
BY CatalogInit, CatalogStep, PTL DEF Spec

\* The steps with which a command ends after its last input.
LEMMA EndsWithFinish ==
  ASSUME [Next]_vars, Ends
  PROVE  Finish
BY DEF Next, vars, Ends, Start, ReadInput, InputUnreadable, WriteSchema, SchemaUnwritten, WriteAlias,
       WriteFieldIndex, EndInput, WriteMetadata

\* All inputs have been read then.
LEMMA AllRead ==
  ASSUME TypeInv, pc = "metadata"
  PROVE  ToSet(todo) = {} /\ \A k \in DOMAIN cmd.inputs : k \in 1 .. Read
<1>1. inputs = <<>> /\ todo = <<>> /\ cmd \in Commands
  BY DEF TypeInv
<1>2. cmd.inputs \in Seq(ToSet(cmd.inputs))
  BY <1>1, PlansAssumption DEF PlansAssumption
<1>3. ToSet(todo) = {}
  BY <1>1 DEF ToSet
<1>4. Read = Len(cmd.inputs)
  BY <1>1, <1>2 DEF Read
<1> QED BY <1>2, <1>3, <1>4

-----------------------------------------------------------------------------
(* III. What the invariant says.                                            *)

\* For every plan: only files of the four kinds are written, none where
\* writing fails, and nothing of an input or a schema is left over after it.
THEOREM CatalogTypeCorrect == Spec => []CatalogTypeOK
<1>1. CatalogInv => CatalogTypeOK
  BY DEF CatalogInv, TypeInv, FilesInv, Kept, CatalogTypeOK
<1> QED BY <1>1, CatalogInvariant, PTL

\* Whenever the commands are interrupted, and whatever failed before: what an
\* alias file or a reference names, explain finds, and as the kind it names; if
\* no alias of a kind is another kind of its group and version.
THEOREM NamesNeverDangle ==
  ASSUME NamesApart
  PROVE  Spec => []NoDanglingName
<1>1. CatalogInv => NoDanglingName
  BY SoundNeverDangles DEF CatalogInv, FilesInv
<1> QED BY <1>1, CatalogInvariant, PTL

LEMMA CleanEnd ==
  ASSUME NamesApart, CatalogInv, [Next]_vars, Ends, Last(exits') = 0
  PROVE  LET tree == trees'[IF cmd.archive THEN "archive" ELSE "dir"]
         IN  \A k \in DOMAIN cmd.inputs :
               /\ cmd.inputs[k].readable
               /\ \E r \in ExtractFrom(cmd.tool, cmd.inputs[k].doc) :
                    r.errors = 0 /\ \A s \in ToSet(r.schemas) : Complete(s, tree)
<1> DEFINE tree == trees'[IF cmd.archive THEN "archive" ELSE "dir"]
           late == IF cmd.archive /\ ArchivePath \in broken THEN 1 ELSE 0
<1>1. TypeInv /\ FilesInv /\ CleanInv /\ pc = "metadata" /\ cmd \in Commands
  BY DEF CatalogInv, TypeInv, Ends
<1>2. exits' = Append(exits, failures + late) /\ trees' = Archived /\ DOMAIN documents = {}
  BY EndsWithFinish DEF Finish
<1>3. failures = 0 /\ late = 0
  <2>1. exits \in Seq(Nat) /\ failures \in Nat /\ late \in Nat
    BY <1>1 DEF TypeInv
  <2>2. Last(exits') = failures + late
    BY <1>2, <2>1 DEF Last
  <2> QED BY <2>1, <2>2
<1>4. tree = trees[Dest]
  BY <1>1, <1>2, <1>3 DEF Archived, Dest, TypeInv
<1>5. Sound(tree)
  BY <1>1, <1>4 DEF FilesInv, Dest
<1>6. ASSUME NEW s \in Extractable(cmd), Done(s)
      PROVE  Complete(s, tree)
  <2> DEFINE p == SchemaPath(GVKOf(s))
  <2>1. p \in DOMAIN tree /\ ~HasAlias(tree[p])
    <3>1. s \in Schemas /\ p \in DOMAIN tree
      BY <1>1, <1>4, <1>6 DEF Schemas, Done, HasSchema
    <3> QED BY <1>5, <3>1, SchemaAtItsPath
  <2>2. Indexed(s) => IndexPath(p) \in DOMAIN tree
    BY <1>4, <1>6 DEF Done
  <2>3. ASSUME cmd.explain = "full"
        PROVE  s \in kept /\ \A k \in ExplainAliases(s) : AliasPath(s, k) \in DOMAIN tree
    BY <1>4, <1>6, <2>3 DEF Done, Full
  <2>4. ASSUME cmd.explain = "full", HasDiscoveryResource(s), NEW n \in MetadataNames(s)
        PROVE  ReferencePath(n) \in DOMAIN tree /\ GVKOf(s) \in tree[ReferencePath(n)]
    <3>1. Referred(s, n)
      BY <1>1, <1>3, <2>3, <2>4 DEF CleanInv, Full
    <3> QED BY <1>2, <1>4, <3>1 DEF Referred
  <2> QED BY <2>1, <2>2, <2>3, <2>4 DEF Complete
<1>7. ASSUME NEW k \in DOMAIN cmd.inputs
      PROVE  /\ cmd.inputs[k].readable
             /\ \E r \in ExtractFrom(cmd.tool, cmd.inputs[k].doc) :
                  r.errors = 0 /\ \A s \in ToSet(r.schemas) : Complete(s, tree)
  <2>1. Written(k) /\ ToSet(todo) = {}
    BY <1>1, <1>3, AllRead DEF CleanInv
  <2>2. PICK r \in ExtractFrom(cmd.tool, cmd.inputs[k].doc) : r.errors = 0 /\ \A s \in ToSet(r.schemas) : Done(s)
    BY <2>1 DEF Written
  <2>3. ToSet(r.schemas) \subseteq Extractable(cmd)
    <3>1. cmd.inputs[k] \in ToSet(cmd.inputs)
      BY DEF ToSet
    <3> QED BY <2>1, <3>1 DEF Extractable, Written
  <2> QED BY <1>6, <2>1, <2>2, <2>3 DEF Written
<1> QED BY <1>7

\* For every plan: a command that exits 0 has read all of its inputs and has
\* written every file of every schema in them.
THEOREM CleanExitHasWrittenAll ==
  ASSUME NamesApart
  PROVE  Spec => CleanExitIsComplete
<1>1. CatalogInv /\ [Next]_vars =>
        [Ends /\ Last(exits') = 0 =>
           LET tree == trees'[IF cmd.archive THEN "archive" ELSE "dir"]
           IN  \A k \in DOMAIN cmd.inputs :
                 /\ cmd.inputs[k].readable
                 /\ \E r \in ExtractFrom(cmd.tool, cmd.inputs[k].doc) :
                      r.errors = 0 /\ \A s \in ToSet(r.schemas) : Complete(s, tree)]_vars
  BY CleanEnd
<1> QED BY <1>1, CatalogInvariant, PTL DEF Spec, CleanExitIsComplete

\* One file that cannot be written does not stop the others: when a command
\* ends, every schema that it has extracted is written, or its path is broken.
EverySchemaIsWritten ==
  [][Ends =>
       \A k \in DOMAIN cmd.inputs :
         cmd.inputs[k].readable =>
           \E r \in ExtractFrom(cmd.tool, cmd.inputs[k].doc) : \A s \in ToSet(r.schemas) : Tried(s)]_vars

\* For every plan and every set of broken paths: no failure costs another
\* schema than its own.
THEOREM FailuresStayTheirOwn == Spec => EverySchemaIsWritten
<1>1. ASSUME CatalogInv, Ends
      PROVE  \A k \in DOMAIN cmd.inputs :
               cmd.inputs[k].readable =>
                 \E r \in ExtractFrom(cmd.tool, cmd.inputs[k].doc) : \A s \in ToSet(r.schemas) : Tried(s)
  <2>1. TypeInv /\ ReachedInv /\ pc = "metadata"
    BY <1>1 DEF CatalogInv, Ends
  <2> QED BY <2>1, AllRead DEF ReachedInv, Reached
<1> QED BY <1>1, CatalogInvariant, PTL DEF Spec, EverySchemaIsWritten
=============================================================================
