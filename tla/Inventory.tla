------------------------------ MODULE Inventory ------------------------------
(***************************************************************************)
(* The scanner behind `flux-schema discover` (internal/inventory/          *)
(* scanner.go): a walk that reads every YAML file of a tree once, and two  *)
(* decisions taken after it, because a kustomization may refer to files    *)
(* and directories the walk has not visited yet: which files are kustomize *)
(* patches, not resources, and which overlays are bases of others.         *)
(*                                                                         *)
(* A tree is data: the classification by direct children of its            *)
(* directories, and its files in walk order. References are resolved and   *)
(* inside the root (resolveRef drops the others); a document says whether  *)
(* its header decodes, what it is, and, when it is a kustomize             *)
(* configuration, what it refers to.                                       *)
(***************************************************************************)
EXTENDS Naturals, Sequences, FiniteSets, SequencesExt

CONSTANTS
  Dir,            \* directories, root-relative
  File,           \* files, root-relative
  Trees           \* the trees a scan may be given

Pruned == {"helm-chart", "terraform-module"}

\* `what` is "broken" when the header does not decode, "config" for the
\* kustomize group, "other" without apiVersion or kind. `decodes` is whether
\* the kustomize fields do, `component` whether the kind is Component.
DocRec == [what : {"broken", "config", "resource", "other"}, decodes : BOOLEAN,
           component : BOOLEAN, patches : SUBSET File, refs : SUBSET Dir]

\* `kustomization`: the base name is one kustomize recognizes.
FileRec == [name : File, dir : Dir, kustomization : BOOLEAN, readable : BOOLEAN,
            docs : Seq(DocRec)]

ASSUME TreesAssumption ==
  /\ Trees \subseteq [children : [Dir -> Pruned \cup {"plain"}], files : Seq(FileRec)]
  /\ \A t \in Trees : \A k, m \in DOMAIN t.files :
       t.files[k].name = t.files[m].name => k = m

VARIABLES
  tree,
  next,           \* the walk's cursor in the files of the tree
  dirTypes,       \* directories that are not plain, by type
  patchRefs,      \* files referenced as patches
  kustomRefs,     \* directories a buildable kustomization refers to
  resources,      \* by file: how many resources it holds; files read so far
  phase,          \* "walk", "mark", "done" or "failed"
  queue, visited  \* markKustomizeBases

vars == <<tree, next, dirTypes, patchRefs, kustomRefs, resources, phase, queue, visited>>

\* "plain" and {} stand for no entry in the maps. probeDirType runs on a
\* directory before its files are read.
Init ==
  /\ tree \in Trees
  /\ next = 1
  /\ dirTypes = tree.children
  /\ patchRefs = {}
  /\ kustomRefs = [d \in Dir |-> {}]
  /\ resources = [f \in {} |-> 0]
  /\ phase = "walk"
  /\ queue = {} /\ visited = {}

-----------------------------------------------------------------------------
(* The walk.                                                                *)

\* The documents of a file that reach addKustomizeConfig: the first of a
\* kustomization file whose header decodes, or those of the kustomize group.
Decoded(f) == {k \in DOMAIN f.docs : f.docs[k].what # "broken"}
Configs(f) ==
  {f.docs[k] : k \in IF f.kustomization
                     THEN {n \in Decoded(f) : \A m \in Decoded(f) : n <= m}
                     ELSE {n \in Decoded(f) : f.docs[n].what = "config"}}

ResourcesIn(f) ==
  IF f.kustomization THEN 0
  ELSE Cardinality({k \in DOMAIN f.docs : f.docs[k].what = "resource"})

\* addKustomizeConfig: a component wins over an overlay in either order.
ConfigType(cs, type) ==
  IF \E x \in cs : x.decodes /\ x.component THEN "kustomize-component"
  ELSE IF cs # {} /\ type = "plain" THEN "kustomize-overlay" ELSE type

\* A directory that is a chart or a module is not descended into.
Skipped(f) == tree.children[f.dir] \in Pruned

\* Fault: a file named as a patch earlier in the walk is not read.
ScanFileEager ==
  /\ phase = "walk" /\ next \in DOMAIN tree.files
  /\ LET f == tree.files[next]
         decoded == {x \in Configs(f) : x.decodes}
     IN  /\ ~Skipped(f) /\ f.readable
         /\ dirTypes' = [dirTypes EXCEPT ![f.dir] = ConfigType(Configs(f), @)]
         /\ patchRefs' = patchRefs \cup UNION {x.patches : x \in decoded}
         /\ kustomRefs' = [kustomRefs EXCEPT ![f.dir] =
              IF f.kustomization THEN @ \cup ((UNION {x.refs : x \in decoded}) \ {f.dir}) ELSE @]
         /\ resources' = IF f.name \in patchRefs THEN resources
                         ELSE [g \in DOMAIN resources \cup {f.name} |->
                                 IF g = f.name THEN ResourcesIn(f) ELSE resources[g]]
  /\ next' = next + 1
  /\ UNCHANGED <<tree, phase, queue, visited>>

\* scanFile
ScanFile ==
  /\ phase = "walk" /\ next \in DOMAIN tree.files
  /\ LET f == tree.files[next]
         decoded == {x \in Configs(f) : x.decodes}
     IN  /\ ~Skipped(f) /\ f.readable
         /\ dirTypes' = [dirTypes EXCEPT ![f.dir] = ConfigType(Configs(f), @)]
         /\ patchRefs' = patchRefs \cup UNION {x.patches : x \in decoded}
         /\ kustomRefs' = [kustomRefs EXCEPT ![f.dir] =
              IF f.kustomization THEN @ \cup ((UNION {x.refs : x \in decoded}) \ {f.dir}) ELSE @]
         /\ resources' = [g \in DOMAIN resources \cup {f.name} |->
                            IF g = f.name THEN ResourcesIn(f) ELSE resources[g]]
  /\ next' = next + 1
  /\ UNCHANGED <<tree, phase, queue, visited>>

\* Fault: the file after a skipped one is lost.
SkipFileAndNext ==
  /\ phase = "walk" /\ next \in DOMAIN tree.files /\ Skipped(tree.files[next])
  /\ next' = next + 2
  /\ UNCHANGED <<tree, dirTypes, patchRefs, kustomRefs, resources, phase, queue, visited>>

SkipFile ==
  /\ phase = "walk" /\ next \in DOMAIN tree.files /\ Skipped(tree.files[next])
  /\ next' = next + 1
  /\ UNCHANGED <<tree, dirTypes, patchRefs, kustomRefs, resources, phase, queue, visited>>

\* A read error ends the scan.
ScanFails ==
  /\ phase = "walk" /\ next \in DOMAIN tree.files
  /\ ~Skipped(tree.files[next]) /\ ~tree.files[next].readable
  /\ phase' = "failed"
  /\ UNCHANGED <<tree, next, dirTypes, patchRefs, kustomRefs, resources, queue, visited>>

-----------------------------------------------------------------------------
(* markKustomizeBases. The queue is filled in the order of a Go map, which  *)
(* is any order; as a set, here, it is served in any order too.             *)

Referring == {d \in Dir : kustomRefs[d] # {}}
Roots == {d \in Referring : /\ \A e \in Dir : d \notin kustomRefs[e]
                            /\ dirTypes[d] # "kustomize-component"}

\* Fault: unused components are starting points too.
StartAnywhere ==
  /\ phase = "walk" /\ next \notin DOMAIN tree.files
  /\ phase' = "mark"
  /\ queue' = {d \in Referring : \A e \in Dir : d \notin kustomRefs[e]}
  /\ UNCHANGED <<tree, next, dirTypes, patchRefs, kustomRefs, resources, visited>>

StartMarking ==
  /\ phase = "walk" /\ next \notin DOMAIN tree.files
  /\ phase' = "mark"
  /\ queue' = Roots
  /\ UNCHANGED <<tree, next, dirTypes, patchRefs, kustomRefs, resources, visited>>

\* Fault: a reference is queued whether visited or not.
MarkRefsAgain ==
  /\ phase = "mark"
  /\ \E d \in queue :
       /\ dirTypes' = [e \in Dir |->
            IF e \in kustomRefs[d] /\ dirTypes[e] = "kustomize-overlay"
            THEN "kustomize-base" ELSE dirTypes[e]]
       /\ visited' = visited \cup kustomRefs[d]
       /\ queue' = (queue \ {d}) \cup kustomRefs[d]
  /\ UNCHANGED <<tree, next, patchRefs, kustomRefs, resources, phase>>

\* One iteration of the outer loop.
MarkRefs ==
  /\ phase = "mark"
  /\ \E d \in queue :
       LET new == kustomRefs[d] \ visited
       IN  /\ dirTypes' = [e \in Dir |->
                IF e \in new /\ dirTypes[e] = "kustomize-overlay"
                THEN "kustomize-base" ELSE dirTypes[e]]
           /\ visited' = visited \cup new
           /\ queue' = (queue \ {d}) \cup new
  /\ UNCHANGED <<tree, next, patchRefs, kustomRefs, resources, phase>>

\* The loop ends and result() returns what it found.
Finish ==
  /\ phase = "mark" /\ queue = {}
  /\ phase' = "done"
  /\ UNCHANGED <<tree, next, dirTypes, patchRefs, kustomRefs, resources, queue, visited>>

\* result(): the files that are not patches.
Kept == DOMAIN resources \ patchRefs

Terminated == phase \in {"done", "failed"} /\ UNCHANGED vars

Next ==
  \/ ScanFile \/ SkipFile \/ ScanFails \/ StartMarking \/ MarkRefs \/ Finish
  \/ Terminated

Spec == Init /\ [][Next]_vars

(* One goroutine, with nothing to wait for.                                 *)
FairSpec == Spec /\ WF_vars(Next)

-----------------------------------------------------------------------------
Types == Pruned \cup {"plain", "kustomize-overlay", "kustomize-base", "kustomize-component"}

InventoryTypeOK ==
  /\ tree \in Trees
  /\ next \in 1 .. Len(tree.files) + 1
  /\ dirTypes \in [Dir -> Types]
  /\ patchRefs \subseteq File
  /\ kustomRefs \in [Dir -> SUBSET Dir]
  /\ DOMAIN resources \subseteq File
  /\ phase \in {"walk", "mark", "done", "failed"}
  /\ queue \subseteq Dir /\ visited \subseteq Dir

(* What the tree alone says, with no order of files or of references.       *)

Walked == {f \in ToSet(tree.files) : ~Skipped(f)}
ConfigsOf(d) == UNION {Configs(f) : f \in {g \in Walked : g.dir = d}}
IsComponent(d) == \E x \in ConfigsOf(d) : x.decodes /\ x.component
RefersTo(d) ==
  (UNION {UNION {x.refs : x \in {y \in Configs(f) : y.decodes}} :
            f \in {g \in Walked : g.dir = d /\ g.kustomization}}) \ {d}

\* The directories reached from S, S itself not included unless it is.
Reached(S) ==
  {d \in Dir : \A T \in SUBSET Dir :
     (\A e \in S \cup T : RefersTo(e) \subseteq T) => d \in T}

BuiltOnTheirOwn ==
  {d \in Dir : ~IsComponent(d) /\ \A e \in Dir : d \notin RefersTo(e)}

TypeOf(d) ==
  IF tree.children[d] # "plain" THEN tree.children[d]
  ELSE IF ConfigsOf(d) = {} THEN "plain"
  ELSE IF IsComponent(d) THEN "kustomize-component"
  ELSE IF d \in Reached(BuiltOnTheirOwn) THEN "kustomize-base"
  ELSE "kustomize-overlay"

\* Whatever an overlay reaches is a base for docs/repo-discovery.md:103-108,
\* unless only from within a cycle. For scanner.go:448-452 the overlay must be
\* one that is built on its own, or be reached from such a one: it is not, if
\* only an unused component or a cycle refers to it.
Disputed(d) ==
  /\ d \notin Reached(BuiltOnTheirOwn)
  /\ \E e \in Dir : ~IsComponent(e) /\ e \notin Reached({e}) /\ d \in Reached({e})

(***************************************************************************)
(* The classification is a function of the tree: neither the order of the  *)
(* walk, nor the order of a Go map, nor the documents of a directory in    *)
(* one order or the other change it; a component is never a base, and a    *)
(* cycle nobody refers to from outside stays what it was. What is Disputed *)
(* is left out.                                                            *)
(***************************************************************************)
ClassifiedByReachability ==
  phase = "done" => \A d \in Dir : ~Disputed(d) => dirTypes[d] = TypeOf(d)

(***************************************************************************)
(* A file named as a patch is not counted, wherever the walk met it and    *)
(* the kustomization that names it (scanner.go:427); every other file is   *)
(* counted once, with its resources.                                       *)
(***************************************************************************)
CensusIsComplete ==
  phase = "done" =>
    LET patches == UNION {UNION {x.patches : x \in {y \in ConfigsOf(d) : y.decodes}} : d \in Dir}
    IN  /\ DOMAIN resources = {f.name : f \in Walked}
        /\ Kept = {f.name : f \in Walked} \ patches
        /\ \A f \in Walked : resources[f.name] = ResourcesIn(f)

(***************************************************************************)
(* The scan ends, on reference cycles too.                                 *)
(***************************************************************************)
ScanEnds == <>(phase \in {"done", "failed"})
=============================================================================
