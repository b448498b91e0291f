--------------------------- MODULE Inventory_proofs ---------------------------
(***************************************************************************)
(* What the scanner finds is a function of the tree, proved for every      *)
(* tree: the walk keeps what the files read so far say, and the marking    *)
(* visits the directories reached from those that are built on their own,  *)
(* in whatever order it serves its queue.                                  *)
(***************************************************************************)
EXTENDS Inventory, TLAPS, SequenceTheorems

-----------------------------------------------------------------------------
(* The invariant.                                                           *)

\* The files the walk has read.
Read == {f \in ToSet(tree.files) : ~Skipped(f) /\ \E k \in 1 .. next - 1 : f = tree.files[k]}

\* What a file says, and what the files F say of directory d.
PatchesOf(f) == UNION {x.patches : x \in {y \in Configs(f) : y.decodes}}
RefsOf(f) == UNION {x.refs : x \in {y \in Configs(f) : y.decodes}}
ConfigsIn(F, d) == UNION {Configs(f) : f \in {g \in F : g.dir = d}}
ComponentIn(F, d) == \E x \in ConfigsIn(F, d) : x.decodes /\ x.component
PatchesIn(F) == UNION {PatchesOf(f) : f \in F}
RefsIn(F, d) == (UNION {RefsOf(f) : f \in {g \in F : g.dir = d /\ g.kustomization}}) \ {d}
TypeIn(F, d) ==
  IF tree.children[d] # "plain" THEN tree.children[d]
  ELSE IF ComponentIn(F, d) THEN "kustomize-component"
  ELSE IF ConfigsIn(F, d) # {} THEN "kustomize-overlay" ELSE "plain"

Marking == phase \in {"mark", "done"}

\* The maps hold what the files read so far say.
ReadInv ==
  /\ patchRefs = PatchesIn(Read)
  /\ kustomRefs = [d \in Dir |-> RefsIn(Read, d)]
  /\ DOMAIN resources = {f.name : f \in Read}
  /\ \A f \in Read : resources[f.name] = ResourcesIn(f)

\* An overlay that was visited has become a base, and nothing else changes.
TypeInv ==
  dirTypes = [d \in Dir |->
    IF Marking /\ d \in visited /\ TypeIn(Read, d) = "kustomize-overlay" THEN "kustomize-base"
    ELSE TypeIn(Read, d)]

\* visited is reached, and closed but for what is queued.
MarkInv ==
  /\ ~Marking => visited = {}
  /\ Marking =>
       /\ next = Len(tree.files) + 1
       /\ queue \subseteq BuiltOnTheirOwn \cup visited
       /\ visited \subseteq Reached(BuiltOnTheirOwn)
       /\ \A d \in BuiltOnTheirOwn \cup visited : d \in queue \/ RefersTo(d) \subseteq visited
       /\ phase = "done" => queue = {}

InventoryInv == InventoryTypeOK /\ ReadInv /\ TypeInv /\ MarkInv

-----------------------------------------------------------------------------
(* Lemmas.                                                                  *)

\* The files of a tree are what they should be, and a name is one file.
LEMMA FilesType ==
  ASSUME tree \in Trees
  PROVE  /\ tree.files \in Seq(FileRec) /\ tree.children \in [Dir -> Pruned \cup {"plain"}]
         /\ DOMAIN tree.files = 1 .. Len(tree.files) /\ Len(tree.files) \in Nat
         /\ \A k \in DOMAIN tree.files : tree.files[k] \in FileRec
         /\ \A f, g \in ToSet(tree.files) : f.name = g.name => f = g
<1>1. /\ tree.files \in Seq(FileRec) /\ tree.children \in [Dir -> Pruned \cup {"plain"}]
  BY TreesAssumption
<1>2. /\ DOMAIN tree.files = 1 .. Len(tree.files) /\ Len(tree.files) \in Nat
      /\ \A k \in DOMAIN tree.files : tree.files[k] \in FileRec
  BY <1>1
<1>3. \A k, m \in DOMAIN tree.files : tree.files[k].name = tree.files[m].name => k = m
  BY TreesAssumption
<1>4. \A f, g \in ToSet(tree.files) : f.name = g.name => f = g
  BY <1>3 DEF ToSet
<1> QED BY <1>1, <1>2, <1>4

\* What a document of a file may refer to.
LEMMA ConfigsType ==
  ASSUME NEW f \in FileRec
  PROVE  Configs(f) \subseteq DocRec
<1>1. \A k \in DOMAIN f.docs : f.docs[k] \in DocRec
  BY DEF FileRec
<1> QED BY <1>1 DEF Configs, Decoded

\* At the end of the walk every file outside a chart or a module is read.
LEMMA AllRead ==
  ASSUME tree \in Trees, next = Len(tree.files) + 1
  PROVE  Read = Walked
<1>1. DOMAIN tree.files = 1 .. Len(tree.files) /\ Len(tree.files) \in Nat
  BY FilesType
<1>2. next - 1 = Len(tree.files)
  BY <1>1
<1> QED BY <1>1, <1>2 DEF Read, Walked, ToSet

\* The specification's definitions over the tree are those over all files.
LEMMA WalkedSays ==
  /\ \A d : RefsIn(Walked, d) = RefersTo(d)
  /\ \A d : ConfigsIn(Walked, d) = ConfigsOf(d)
  /\ \A d : ComponentIn(Walked, d) <=> IsComponent(d)
BY DEF RefsIn, RefsOf, RefersTo, ConfigsIn, ConfigsOf, ComponentIn, IsComponent

\* The walk reads the file at its cursor, or passes it over.
LEMMA ReadStep ==
  ASSUME tree \in Trees, next \in DOMAIN tree.files, tree' = tree, next' = next + 1,
         NEW f, f = tree.files[next]
  PROVE  /\ f \in FileRec /\ f \in ToSet(tree.files)
         /\ Read' = IF Skipped(f) THEN Read ELSE Read \cup {f}
<1>1. /\ DOMAIN tree.files = 1 .. Len(tree.files) /\ Len(tree.files) \in Nat
      /\ f \in FileRec
  BY FilesType
<1>2. f \in ToSet(tree.files)
  BY DEF ToSet
<1>3. 1 .. next' - 1 = (1 .. next - 1) \cup {next}
  BY <1>1
<1>4. \A g : (\E k \in 1 .. next' - 1 : g = tree.files[k])
               <=> (\E k \in 1 .. next - 1 : g = tree.files[k]) \/ g = f
  BY <1>3
<1> QED BY <1>1, <1>2, <1>4 DEF Read, Skipped

\* One file more adds what it says, to its own directory.
LEMMA OneMore ==
  ASSUME NEW F, NEW f
  PROVE  /\ PatchesIn(F \cup {f}) = PatchesIn(F) \cup PatchesOf(f)
         /\ ConfigsIn(F \cup {f}, f.dir) = ConfigsIn(F, f.dir) \cup Configs(f)
         /\ RefsIn(F \cup {f}, f.dir) =
              IF f.kustomization THEN RefsIn(F, f.dir) \cup (RefsOf(f) \ {f.dir})
              ELSE RefsIn(F, f.dir)
<1>1. PatchesIn(F \cup {f}) = PatchesIn(F) \cup PatchesOf(f)
  BY DEF PatchesIn
<1>2. ConfigsIn(F \cup {f}, f.dir) = ConfigsIn(F, f.dir) \cup Configs(f)
  BY DEF ConfigsIn
<1>3. RefsIn(F \cup {f}, f.dir) =
        IF f.kustomization THEN RefsIn(F, f.dir) \cup (RefsOf(f) \ {f.dir}) ELSE RefsIn(F, f.dir)
  BY DEF RefsIn
<1> QED BY <1>1, <1>2, <1>3

\* It says nothing of another.
LEMMA OthersUntouched ==
  ASSUME NEW F, NEW f, NEW d, d # f.dir
  PROVE  /\ ConfigsIn(F \cup {f}, d) = ConfigsIn(F, d)
         /\ RefsIn(F \cup {f}, d) = RefsIn(F, d)
         /\ TypeIn(F \cup {f}, d) = TypeIn(F, d)
<1>1. {g \in F \cup {f} : g.dir = d} = {g \in F : g.dir = d}
  OBVIOUS
<1>2. {g \in F \cup {f} : g.dir = d /\ g.kustomization} = {g \in F : g.dir = d /\ g.kustomization}
  OBVIOUS
<1>3. ConfigsIn(F \cup {f}, d) = ConfigsIn(F, d)
  BY <1>1 DEF ConfigsIn
<1>4. RefsIn(F \cup {f}, d) = RefsIn(F, d)
  BY <1>2 DEF RefsIn
<1>5. TypeIn(F \cup {f}, d) = TypeIn(F, d)
  BY <1>3 DEF TypeIn, ComponentIn
<1> QED BY <1>3, <1>4, <1>5

-----------------------------------------------------------------------------
(* Every action keeps the invariant.                                        *)

LEMMA InventoryInvInit == Init => InventoryInv
<1> SUFFICES ASSUME Init PROVE InventoryInv
  OBVIOUS
<1>1. /\ Len(tree.files) \in Nat /\ tree.children \in [Dir -> Pruned \cup {"plain"}]
  BY FilesType DEF Init
<1>2. Read = {}
  BY DEF Init, Read
<1>3. InventoryTypeOK
  BY <1>1 DEF Init, InventoryTypeOK, Types
<1>4. ReadInv
  BY <1>2 DEF Init, ReadInv, PatchesIn, RefsIn
<1>5. TypeInv
  BY <1>1, <1>2 DEF Init, TypeInv, TypeIn, ComponentIn, ConfigsIn, Marking
<1>6. MarkInv
  BY DEF Init, MarkInv, Marking
<1> QED BY <1>3, <1>4, <1>5, <1>6 DEF InventoryInv

LEMMA ScanFileStep ==
  ASSUME InventoryInv, ScanFile
  PROVE  InventoryInv'
<1> USE DEF InventoryInv
<1>0. PICK f : f = tree.files[next]
  OBVIOUS
<1>1. /\ tree \in Trees /\ next \in DOMAIN tree.files /\ tree' = tree /\ next' = next + 1
      /\ phase = "walk" /\ phase' = phase /\ queue' = queue /\ visited' = visited
      /\ ~Skipped(f)
  BY <1>0 DEF ScanFile, InventoryTypeOK
<1>2. f \in FileRec /\ f \in ToSet(tree.files) /\ Read' = Read \cup {f}
  BY <1>0, <1>1, ReadStep
<1>3. /\ dirTypes' = [dirTypes EXCEPT ![f.dir] = ConfigType(Configs(f), @)]
      /\ patchRefs' = patchRefs \cup PatchesOf(f)
      /\ kustomRefs' = [kustomRefs EXCEPT ![f.dir] =
           IF f.kustomization THEN @ \cup (RefsOf(f) \ {f.dir}) ELSE @]
      /\ resources' = [g \in DOMAIN resources \cup {f.name} |->
                         IF g = f.name THEN ResourcesIn(f) ELSE resources[g]]
  BY <1>0 DEF ScanFile, PatchesOf, RefsOf
<1>4. PatchesOf(f) \subseteq File /\ RefsOf(f) \subseteq Dir /\ f.dir \in Dir /\ f.name \in File
  BY <1>2, ConfigsType DEF FileRec, DocRec, PatchesOf, RefsOf
<1>5. InventoryTypeOK'
  <2>1. next' \in 1 .. Len(tree.files) + 1
    BY <1>1, FilesType
  <2>2. ConfigType(Configs(f), dirTypes[f.dir]) \in Types
    BY <1>4 DEF ConfigType, InventoryTypeOK, Types
  <2>3. dirTypes' \in [Dir -> Types]
    BY <1>3, <1>4, <2>2 DEF InventoryTypeOK
  <2>4. patchRefs' \subseteq File
    BY <1>3, <1>4 DEF InventoryTypeOK
  <2>5. kustomRefs' \in [Dir -> SUBSET Dir]
    BY <1>3, <1>4 DEF InventoryTypeOK
  <2>6. DOMAIN resources' \subseteq File
    BY <1>3, <1>4 DEF InventoryTypeOK
  <2> QED BY <1>1, <2>1, <2>3, <2>4, <2>5, <2>6 DEF InventoryTypeOK
<1>6. ReadInv'
  <2>1. patchRefs' = PatchesIn(Read)'
    <3>1. patchRefs' = PatchesIn(Read \cup {f})
      BY <1>3, OneMore DEF ReadInv
    <3> QED BY <1>2, <3>1 DEF PatchesIn, PatchesOf, Configs, Decoded
  <2>2. \A d \in Dir : kustomRefs'[d] = RefsIn(Read \cup {f}, d)
    <3>1. kustomRefs'[f.dir] = RefsIn(Read \cup {f}, f.dir)
      BY <1>3, <1>4, OneMore DEF ReadInv
    <3>2. ASSUME NEW d \in Dir, d # f.dir
          PROVE  kustomRefs'[d] = RefsIn(Read \cup {f}, d)
      <4>1. kustomRefs'[d] = kustomRefs[d]
        BY <1>3, <3>2 DEF InventoryTypeOK
      <4>2. kustomRefs[d] = RefsIn(Read, d)
        BY DEF ReadInv
      <4>3. RefsIn(Read \cup {f}, d) = RefsIn(Read, d)
        BY <3>2, OthersUntouched
      <4> QED BY <4>1, <4>2, <4>3
    <3> QED BY <3>1, <3>2
  <2>3. kustomRefs' = [d \in Dir |-> RefsIn(Read \cup {f}, d)]
    BY <1>5, <2>2 DEF InventoryTypeOK
  <2>4. kustomRefs' = [d \in Dir |-> RefsIn(Read, d)]'
    BY <1>2, <2>3 DEF RefsIn, RefsOf, Configs, Decoded
  <2>5. DOMAIN resources' = {g.name : g \in Read'}
    BY <1>2, <1>3 DEF ReadInv
  <2>6. \A g \in Read' : g.name = f.name => g = f
    BY <1>1, <1>2, FilesType DEF Read
  <2>7. \A g \in Read' : resources'[g.name] = ResourcesIn(g)
    BY <1>2, <1>3, <2>6 DEF ReadInv
  <2> QED BY <2>1, <2>4, <2>5, <2>7 DEF ReadInv, ResourcesIn
<1>7. TypeInv'
  <2>1. tree.children[f.dir] = "plain"
    BY <1>1, <1>4, FilesType DEF Skipped
  <2>2. \A d \in Dir : dirTypes[d] = TypeIn(Read, d)
    BY <1>1 DEF TypeInv, Marking
  <2>3. ASSUME NEW d \in Dir, d # f.dir
        PROVE  TypeIn(Read \cup {f}, d) = TypeIn(Read, d)
    BY <2>3, OthersUntouched
  <2>4. ConfigsIn(Read \cup {f}, f.dir) = ConfigsIn(Read, f.dir) \cup Configs(f)
    BY OneMore
  <2>5. TypeIn(Read \cup {f}, f.dir) = ConfigType(Configs(f), TypeIn(Read, f.dir))
    BY <2>1, <2>4 DEF TypeIn, ComponentIn, ConfigType
  <2>6. dirTypes' = [d \in Dir |-> TypeIn(Read \cup {f}, d)]
    BY <1>3, <1>4, <2>2, <2>3, <2>5 DEF InventoryTypeOK
  <2>7. \A d \in Dir : TypeIn(Read, d)' = TypeIn(Read \cup {f}, d)
    BY <1>1, <1>2 DEF TypeIn, ComponentIn, ConfigsIn, Configs, Decoded
  <2>8. ~Marking'
    BY <1>1 DEF Marking
  <2> QED BY <2>6, <2>7, <2>8 DEF TypeInv
<1>8. MarkInv'
  BY <1>1 DEF MarkInv, Marking
<1> QED BY <1>5, <1>6, <1>7, <1>8

\* A step that reads nothing leaves what was read.
LEMMA NothingRead ==
  ASSUME tree' = tree, Read' = Read
  PROVE  /\ PatchesIn(Read)' = PatchesIn(Read)
         /\ \A d : ConfigsIn(Read, d)' = ConfigsIn(Read, d)
         /\ \A d : RefsIn(Read, d)' = RefsIn(Read, d)
         /\ \A d : TypeIn(Read, d)' = TypeIn(Read, d)
BY DEF PatchesIn, PatchesOf, ConfigsIn, RefsIn, RefsOf, TypeIn, ComponentIn, Configs, Decoded

\* What the tree says does not change with the state of the scan.
LEMMA TreeStays ==
  ASSUME tree' = tree
  PROVE  /\ \A d : RefersTo(d)' = RefersTo(d)
         /\ BuiltOnTheirOwn' = BuiltOnTheirOwn
         /\ Reached(BuiltOnTheirOwn)' = Reached(BuiltOnTheirOwn)
BY DEF RefersTo, BuiltOnTheirOwn, IsComponent, ConfigsOf, Walked, Skipped, Configs, Decoded, Reached

LEMMA SkipFileStep ==
  ASSUME InventoryInv, SkipFile
  PROVE  InventoryInv'
<1> USE DEF InventoryInv
<1>0. PICK f : f = tree.files[next]
  OBVIOUS
<1>1. /\ tree \in Trees /\ next \in DOMAIN tree.files /\ tree' = tree /\ next' = next + 1
      /\ phase = "walk" /\ Skipped(f)
      /\ UNCHANGED <<dirTypes, patchRefs, kustomRefs, resources, phase, queue, visited>>
  BY <1>0 DEF SkipFile, InventoryTypeOK
<1>2. Read' = Read
  BY <1>0, <1>1, ReadStep
<1>3. InventoryTypeOK'
  BY <1>1, FilesType DEF InventoryTypeOK
<1>4. ReadInv'
  BY <1>1, <1>2, NothingRead DEF ReadInv, ResourcesIn
<1>5. TypeInv'
  BY <1>1, <1>2, NothingRead DEF TypeInv, Marking
<1>6. MarkInv'
  BY <1>1 DEF MarkInv, Marking
<1> QED BY <1>3, <1>4, <1>5, <1>6

\* The starting points are the directories built on their own that refer to
\* others: a component is told by its type once everything is read.
LEMMA RootsAreBuilt ==
  ASSUME InventoryInv, phase = "walk", Read = Walked
  PROVE  /\ Roots \subseteq BuiltOnTheirOwn
         /\ \A d \in BuiltOnTheirOwn \ Roots : RefersTo(d) = {}
<1> USE DEF InventoryInv
<1>1. \A d \in Dir : kustomRefs[d] = RefersTo(d)
  BY WalkedSays DEF ReadInv
<1>2. \A d \in Dir : dirTypes[d] = TypeIn(Walked, d)
  BY DEF TypeInv, Marking
<1>3. ASSUME NEW d \in Dir, tree.children[d] # "plain"
      PROVE  ConfigsIn(Walked, d) = {}
  <2>1. tree.children[d] \in Pruned
    BY <1>3, FilesType DEF InventoryTypeOK
  <2>2. \A f \in Walked : f.dir # d
    BY <2>1 DEF Walked, Skipped
  <2> QED BY <2>2 DEF ConfigsIn
<1>4. \A d \in Dir : dirTypes[d] = "kustomize-component" <=> IsComponent(d)
  <2>1. \A d \in Dir : tree.children[d] \in Pruned \cup {"plain"}
    BY FilesType DEF InventoryTypeOK
  <2> QED BY <1>2, <1>3, <2>1, WalkedSays DEF TypeIn, ComponentIn, Pruned
<1> QED BY <1>1, <1>4 DEF Roots, Referring, BuiltOnTheirOwn

LEMMA StartMarkingStep ==
  ASSUME InventoryInv, StartMarking
  PROVE  InventoryInv'
<1> USE DEF InventoryInv
<1>1. /\ tree \in Trees /\ tree' = tree /\ next' = next /\ phase = "walk" /\ phase' = "mark"
      /\ queue' = Roots /\ next \notin DOMAIN tree.files
      /\ UNCHANGED <<dirTypes, patchRefs, kustomRefs, resources, visited>>
  BY DEF StartMarking, InventoryTypeOK
<1>2. next = Len(tree.files) + 1
  BY <1>1, FilesType DEF InventoryTypeOK
<1>3. Read = Walked /\ Read' = Read
  BY <1>1, <1>2, AllRead DEF Read, Skipped
<1>4. visited = {}
  BY <1>1 DEF MarkInv, Marking
<1>5. InventoryTypeOK'
  BY <1>1 DEF InventoryTypeOK, Roots, Referring
<1>6. ReadInv'
  BY <1>1, <1>3, NothingRead DEF ReadInv, ResourcesIn
<1>7. TypeInv'
  BY <1>1, <1>3, <1>4, NothingRead DEF TypeInv
<1>8. Roots \subseteq BuiltOnTheirOwn /\ \A d \in BuiltOnTheirOwn \ Roots : RefersTo(d) = {}
  BY <1>1, <1>3, RootsAreBuilt
<1>9. MarkInv'
  BY <1>1, <1>2, <1>4, <1>8, TreeStays DEF MarkInv, Marking
<1> QED BY <1>5, <1>6, <1>7, <1>9

\* What is reached from S is in every set that holds what S and its own
\* members refer to.
LEMMA ReachedIsLeast ==
  ASSUME NEW S, NEW T \in SUBSET Dir, \A e \in S \cup T : RefersTo(e) \subseteq T
  PROVE  Reached(S) \subseteq T
BY DEF Reached

\* What a reached directory refers to is reached.
LEMMA ReachedIsClosed ==
  ASSUME NEW S, NEW d \in S \cup Reached(S), RefersTo(d) \subseteq Dir
  PROVE  RefersTo(d) \subseteq Reached(S)
BY DEF Reached

LEMMA MarkRefsStep ==
  ASSUME InventoryInv, MarkRefs
  PROVE  InventoryInv'
<1> USE DEF InventoryInv
<1>1. PICK d \in queue :
        /\ dirTypes' = [e \in Dir |->
             IF e \in kustomRefs[d] \ visited /\ dirTypes[e] = "kustomize-overlay"
             THEN "kustomize-base" ELSE dirTypes[e]]
        /\ visited' = visited \cup (kustomRefs[d] \ visited)
        /\ queue' = (queue \ {d}) \cup (kustomRefs[d] \ visited)
  BY DEF MarkRefs
<1>2. /\ tree' = tree /\ next' = next /\ phase = "mark" /\ phase' = "mark"
      /\ UNCHANGED <<patchRefs, kustomRefs, resources>> /\ tree \in Trees
  BY DEF MarkRefs, InventoryTypeOK
<1>3. d \in Dir /\ kustomRefs[d] \subseteq Dir
  BY <1>1 DEF InventoryTypeOK
<1>4. Read' = Read
  BY <1>2 DEF Read, Skipped
<1>5. kustomRefs[d] = RefersTo(d)
  <2>1. Read = Walked
    BY <1>2, AllRead DEF MarkInv, Marking
  <2> QED BY <1>3, <2>1, WalkedSays DEF ReadInv
<1>6. InventoryTypeOK'
  <2>1. dirTypes' \in [Dir -> Types]
    BY <1>1 DEF InventoryTypeOK, Types
  <2>2. visited' \subseteq Dir /\ queue' \subseteq Dir
    BY <1>1, <1>3 DEF InventoryTypeOK
  <2> QED BY <1>2, <2>1, <2>2 DEF InventoryTypeOK
<1>7. ReadInv'
  BY <1>2, <1>4, NothingRead DEF ReadInv, ResourcesIn
<1>8. TypeInv'
  <2>1. \A e \in Dir : dirTypes[e] =
          IF e \in visited /\ TypeIn(Read, e) = "kustomize-overlay" THEN "kustomize-base"
          ELSE TypeIn(Read, e)
    BY <1>2 DEF TypeInv, Marking
  <2>2. dirTypes' = [e \in Dir |->
          IF e \in visited' /\ TypeIn(Read, e) = "kustomize-overlay" THEN "kustomize-base"
          ELSE TypeIn(Read, e)]
    BY <1>1, <2>1
  <2>3. \A e : TypeIn(Read, e)' = TypeIn(Read, e)
    BY <1>2, <1>4, NothingRead
  <2> QED BY <1>2, <2>2, <2>3 DEF TypeInv, Marking
<1>9. MarkInv'
  <2> DEFINE S == BuiltOnTheirOwn
  <2>1. /\ queue \subseteq S \cup visited /\ visited \subseteq Reached(S)
        /\ \A e \in S \cup visited : e \in queue \/ RefersTo(e) \subseteq visited
        /\ next = Len(tree.files) + 1
    BY <1>2 DEF MarkInv, Marking
  <2> HIDE DEF S
  <2>2. RefersTo(d) \subseteq Reached(S)
    BY <1>1, <1>3, <1>5, <2>1, ReachedIsClosed
  <2>3. visited' \subseteq Reached(S) /\ queue' \subseteq S \cup visited'
    BY <1>1, <1>5, <2>1, <2>2
  <2>4. \A e \in S \cup visited' : e \in queue' \/ RefersTo(e) \subseteq visited'
    BY <1>1, <1>5, <2>1
  <2> QED BY <1>2, <2>1, <2>3, <2>4, TreeStays DEF MarkInv, Marking, S
<1> QED BY <1>6, <1>7, <1>8, <1>9

LEMMA FinishStep ==
  ASSUME InventoryInv, Finish
  PROVE  InventoryInv'
<1> USE DEF InventoryInv
<1>1. /\ tree' = tree /\ phase = "mark" /\ phase' = "done" /\ queue = {}
      /\ UNCHANGED <<next, dirTypes, patchRefs, kustomRefs, resources, queue, visited>>
  BY DEF Finish
<1>2. Read' = Read
  BY <1>1 DEF Read, Skipped
<1>3. InventoryTypeOK'
  BY <1>1 DEF InventoryTypeOK
<1>4. ReadInv'
  BY <1>1, <1>2, NothingRead DEF ReadInv, ResourcesIn
<1>5. TypeInv'
  BY <1>1, <1>2, NothingRead DEF TypeInv, Marking
<1>6. MarkInv'
  BY <1>1, TreeStays DEF MarkInv, Marking
<1> QED BY <1>3, <1>4, <1>5, <1>6

LEMMA ScanFailsStep ==
  ASSUME InventoryInv, ScanFails
  PROVE  InventoryInv'
<1> USE DEF InventoryInv
<1>1. /\ tree' = tree /\ phase = "walk" /\ phase' = "failed"
      /\ UNCHANGED <<next, dirTypes, patchRefs, kustomRefs, resources, queue, visited>>
  BY DEF ScanFails
<1>2. Read' = Read
  BY <1>1 DEF Read, Skipped
<1>3. InventoryTypeOK'
  BY <1>1 DEF InventoryTypeOK
<1>4. ReadInv'
  BY <1>1, <1>2, NothingRead DEF ReadInv, ResourcesIn
<1>5. TypeInv'
  BY <1>1, <1>2, NothingRead DEF TypeInv, Marking
<1>6. MarkInv'
  BY <1>1 DEF MarkInv, Marking
<1> QED BY <1>3, <1>4, <1>5, <1>6

LEMMA StutterStep ==
  ASSUME InventoryInv, UNCHANGED vars
  PROVE  InventoryInv'
<1> USE DEF InventoryInv
<1>1. UNCHANGED <<tree, next, dirTypes, patchRefs, kustomRefs, resources, phase, queue, visited>>
  BY DEF vars
<1>2. Read' = Read
  BY <1>1 DEF Read, Skipped
<1>3. InventoryTypeOK' /\ ReadInv'
  BY <1>1, <1>2, NothingRead DEF InventoryTypeOK, ReadInv, ResourcesIn
<1>4. TypeInv'
  BY <1>1, <1>2, NothingRead DEF TypeInv, Marking
<1>5. MarkInv'
  BY <1>1, TreeStays DEF MarkInv, Marking
<1> QED BY <1>3, <1>4, <1>5

LEMMA InventoryInvStep == InventoryInv /\ [Next]_vars => InventoryInv'
  BY ScanFileStep, SkipFileStep, ScanFailsStep, StartMarkingStep, MarkRefsStep, FinishStep,
     StutterStep DEF Next, Terminated

LEMMA InventoryInvariant == Spec => []InventoryInv
  BY InventoryInvInit, InventoryInvStep, PTL DEF Spec

-----------------------------------------------------------------------------
(* The theorems.                                                            *)

\* Type correctness: every directory has one of the six types, and the
\* queue and the visited set hold directories of the tree.
THEOREM InventoryTypeCorrect == Spec => []InventoryTypeOK
<1>1. InventoryInv => InventoryTypeOK
  BY DEF InventoryInv
<1> QED BY <1>1, InventoryInvariant, PTL

\* At the end the visited directories are just the reached ones.
LEMMA VisitedIsReached ==
  ASSUME InventoryInv, phase = "done"
  PROVE  Read = Walked /\ visited = Reached(BuiltOnTheirOwn)
<1> USE DEF InventoryInv
<1>1. /\ next = Len(tree.files) + 1 /\ queue = {} /\ visited \subseteq Dir
      /\ visited \subseteq Reached(BuiltOnTheirOwn)
      /\ \A d \in BuiltOnTheirOwn \cup visited : RefersTo(d) \subseteq visited
  BY DEF MarkInv, Marking, InventoryTypeOK
<1>2. Reached(BuiltOnTheirOwn) \subseteq visited
  BY <1>1, ReachedIsLeast
<1>3. Read = Walked
  BY <1>1, AllRead DEF InventoryTypeOK
<1> QED BY <1>1, <1>2, <1>3

\* The classification of every tree is a function of the tree: neither the
\* order of its files nor that of a Go map decides which overlay is a base.
THEOREM ClassificationIsAFunction == Spec => []ClassifiedByReachability
<1>1. ASSUME InventoryInv, phase = "done", NEW d \in Dir
      PROVE  dirTypes[d] = TypeOf(d)
  <2>1. Read = Walked /\ visited = Reached(BuiltOnTheirOwn)
    BY <1>1, VisitedIsReached
  <2>2. dirTypes[d] = IF d \in Reached(BuiltOnTheirOwn) /\ TypeIn(Walked, d) = "kustomize-overlay"
                      THEN "kustomize-base" ELSE TypeIn(Walked, d)
    BY <1>1, <2>1 DEF InventoryInv, TypeInv, Marking
  <2>3. tree.children[d] \in Pruned \cup {"plain"}
    BY <1>1, FilesType DEF InventoryInv, InventoryTypeOK
  <2>4. IsComponent(d) => ConfigsOf(d) # {}
    BY DEF IsComponent
  <2>5. TypeIn(Walked, d) =
          IF tree.children[d] # "plain" THEN tree.children[d]
          ELSE IF IsComponent(d) THEN "kustomize-component"
          ELSE IF ConfigsOf(d) # {} THEN "kustomize-overlay" ELSE "plain"
    BY WalkedSays DEF TypeIn
  <2> QED BY <2>2, <2>3, <2>4, <2>5 DEF TypeOf, Pruned
<1>2. InventoryInv => ClassifiedByReachability
  BY <1>1 DEF ClassifiedByReachability
<1> QED BY <1>2, InventoryInvariant, PTL

\* The census of every tree: each file that is read counts once, the patches
\* do not, wherever the walk met them.
THEOREM CensusIsAFunction == Spec => []CensusIsComplete
<1>1. ASSUME InventoryInv, phase = "done"
      PROVE  CensusIsComplete
  <2>1. Read = Walked
    BY <1>1, VisitedIsReached
  <2>2. /\ patchRefs = PatchesIn(Walked) /\ DOMAIN resources = {f.name : f \in Walked}
        /\ \A f \in Walked : resources[f.name] = ResourcesIn(f)
    BY <1>1, <2>1 DEF InventoryInv, ReadInv
  <2>3. \A f \in Walked : f.dir \in Dir
    BY <1>1, FilesType DEF InventoryInv, InventoryTypeOK, Walked, ToSet, FileRec
  <2>4. PatchesIn(Walked) =
          UNION {UNION {x.patches : x \in {y \in ConfigsOf(d) : y.decodes}} : d \in Dir}
    BY <2>3 DEF PatchesIn, PatchesOf, ConfigsOf
  <2> QED BY <2>2, <2>4 DEF CensusIsComplete, Kept
<1>2. InventoryInv => CensusIsComplete
  BY <1>1 DEF CensusIsComplete
<1> QED BY <1>2, InventoryInvariant, PTL
=============================================================================
