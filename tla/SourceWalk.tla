------------------------------ MODULE SourceWalk ------------------------------
(***************************************************************************)
(* Reader.Walk (internal/source/source.go): the synchronous walk over the  *)
(* paths of the command line that emits the documents of plain files,      *)
(* standard input and kustomize builds, source by source. It is the        *)
(* producer of ValidateSources and of the `build` command.                 *)
(*                                                                         *)
(* A path is data: what os.Stat says of it and, for a directory, the       *)
(* entries in the order of filepath.WalkDir, the root first. An entry says *)
(* which directories of the walk hold it, whether a --skip-file pattern    *)
(* matches its name, and what comes of reading it. Files are read in       *)
(* chunks of any size, as a pipe delivers them.                            *)
(***************************************************************************)
EXTENDS YamlDocs, FiniteSets, KustomizeBuild

CONSTANTS
  Label,          \* names of files, directories and paths
  Walks           \* the command lines, with what their paths hold

\* `fails` is "open" or "read" for a file, "read" for a directory that
\* cannot be listed; for a kustomization, "gone" when it is no longer there to
\* build, "build" and "panic" for what krusty answers, "origin" when an origin
\* cannot be read. `kustomization`: a file that kustomize recognizes is in the
\* directory and not skipped.
Entry == [label : Label, dir : BOOLEAN, within : SUBSET Label, skip : BOOLEAN,
          yaml : BOOLEAN, kustomization : BOOLEAN, built : Nat, asks : BOOLEAN, openapi : BOOLEAN,
          fails : {"no", "open", "read", "gone", "build", "panic", "origin"}, content : Seq(Byte)]

\* A "reader" is a plain file or standard input, a "kustomization" a path to
\* a kustomization file, "missing" what os.Stat fails on (or standard input
\* without Options.Stdin).
Path == [label : Label, what : {"missing", "reader", "kustomization", "directory"},
         entries : Seq(Entry)]

IsFile(e) == ~e.dir /\ ~e.kustomization /\ e.fails \in {"no", "open", "read"}
IsPlainDir(e) == e.dir /\ ~e.kustomization /\ e.fails \in {"no", "read"}
IsKustomization(e) == e.dir /\ e.kustomization /\ e.fails \in {"no", "gone", "build", "panic", "origin"}

\* WalkDir visits a directory before what it holds, the root before all.
IsTree(es) ==
  /\ es # <<>> /\ es[1].dir
  /\ \A k \in DOMAIN es : IsFile(es[k]) \/ IsPlainDir(es[k]) \/ IsKustomization(es[k])
  /\ \A d, k \in DOMAIN es : es[d].dir /\ es[d].label \in es[k].within =>
       d < k /\ es[d].within \subseteq es[k].within

WellFormed(p) ==
  /\ p.what = "reader" => p.entries # <<>> /\ IsFile(p.entries[1])
  /\ p.what = "kustomization" => p.entries # <<>> /\ IsKustomization(p.entries[1])
  /\ p.what = "directory" => IsTree(p.entries)

ASSUME WalksAssumption ==
  /\ Walks \subseteq Seq(Path)
  /\ \A w \in Walks : \A k \in DOMAIN w : WellFormed(w[k])

VARIABLES
  paths, ctxDone,
  pc,             \* "path", "visit", "fail", "scan", "build", "run", "render", "strip",
                  \* "docs", "error", "finish", "returned"
  path, at,       \* cursors: path, and entry of the directory (0 outside one)
  pruned,         \* directories that WalkDir was told to skip
  nextIndex,      \* of the stream
  source,         \* the input being produced: label and index
  docs,           \* the documents it has sent
  buf, rest, eof, \* the scanner: buffered, not yet read, end of the stream
  events          \* what emit was called with

cursorVars == <<path, at, pruned>>
scanVars == <<buf, rest, eof>>
vars == <<paths, ctxDone, pc, path, at, pruned, nextIndex, source, docs, buf, rest, eof, events,
          buildVars>>

NoSource == [label |-> "", index |-> 0]

Init ==
  /\ paths \in Walks
  /\ ctxDone = FALSE
  /\ pc = "path" /\ path = 1 /\ at = 0 /\ pruned = {}
  /\ nextIndex = 0 /\ source = NoSource /\ docs = 0
  /\ buf = <<>> /\ rest = <<>> /\ eof = FALSE
  /\ events = <<>>
  /\ BuildInit

Here == paths[path]
\* The entry that is being read.
Current == Here.entries[IF at = 0 THEN 1 ELSE at]

Event(kind, n, raw) ==
  [label |-> source.label, src |-> source.index, kind |-> kind, doc |-> n, raw |-> raw]

\* input.send: nothing is emitted once the context is done.
Send(e) == ~ctxDone /\ events' = Append(events, e)

\* stream.newSource, and the reader of its content.
NewSource(l, content) ==
  /\ source' = [label |-> l, index |-> nextIndex]
  /\ nextIndex' = nextIndex + 1
  /\ docs' = 0
  /\ buf' = <<>> /\ rest' = content /\ eof' = FALSE

SameSource == UNCHANGED <<nextIndex, source, docs, scanVars>>
NoBuild == UNCHANGED buildVars

\* streamFile: a file that does not open is an error of its source.
Reads(e) == NewSource(e.label, e.content) /\ pc' = IF e.fails = "open" THEN "error" ELSE "scan"

\* streamBuild
Builds(e) == NewSource(e.label, <<>>) /\ pc' = "build"

-----------------------------------------------------------------------------
(* Walk and produceFromPath.                                                *)

BeginPath ==
  /\ pc = "path" /\ ~ctxDone /\ path \in DOMAIN paths
  /\ \/ Here.what = "missing" /\ pc' = "fail" /\ SameSource /\ UNCHANGED at
     \/ Here.what = "reader" /\ Reads(Here.entries[1]) /\ UNCHANGED at
     \/ Here.what = "kustomization" /\ Builds(Here.entries[1]) /\ UNCHANGED at
     \/ Here.what = "directory" /\ pc' = "visit" /\ at' = 1 /\ SameSource
  /\ pruned' = {}
  /\ UNCHANGED <<paths, ctxDone, path, events>>

\* A path that fails gets a source of its own, after those it has produced.
FailPath ==
  /\ pc = "fail" /\ ~ctxDone
  /\ NewSource(Here.label, <<>>)
  /\ at' = 0
  /\ pc' = "error"
  /\ UNCHANGED <<paths, ctxDone, path, pruned, events>>

WalkReturns ==
  /\ pc = "path" /\ path \notin DOMAIN paths
  /\ pc' = "returned"
  /\ UNCHANGED <<paths, ctxDone, cursorVars, events>>
  /\ SameSource

\* A build that has begun goes on, whatever becomes of the context.
Building == pc \in {"run", "render"}

\* The context ends the walk wherever it is next looked at: by send, by the
\* callback of WalkDir, by streamBuild, by Walk. In between the code does
\* nothing that anybody sees.
Abort ==
  /\ ctxDone /\ pc # "returned" /\ ~Building
  /\ pc' = "returned"
  /\ UNCHANGED <<paths, ctxDone, cursorVars, events>>
  /\ SameSource

-----------------------------------------------------------------------------
(* The callback of filepath.WalkDir.                                        *)

Pruned(e) == e.within \cap pruned # {}
IsRoot == at = 1

\* SkipDir for a directory that a pattern matches.
PruneDir ==
  /\ pc = "visit" /\ ~ctxDone /\ at \in DOMAIN Here.entries
  /\ ~Pruned(Current) /\ Current.dir /\ Current.skip /\ ~IsRoot
  /\ pruned' = pruned \cup {Current.label}
  /\ at' = at + 1
  /\ UNCHANGED <<paths, ctxDone, pc, path, events>>
  /\ SameSource

Skips(e) == e.skip /\ ~(e.dir /\ IsRoot)

\* A kustomization is built, and what is in it is not read (SkipDir).
VisitKustomization ==
  /\ pc = "visit" /\ ~ctxDone /\ at \in DOMAIN Here.entries
  /\ ~Pruned(Current) /\ Current.dir /\ ~Skips(Current) /\ Current.kustomization
  /\ Builds(Current)
  /\ pruned' = pruned \cup {Current.label}
  /\ UNCHANGED <<paths, ctxDone, path, at, events>>

VisitFile ==
  /\ pc = "visit" /\ ~ctxDone /\ at \in DOMAIN Here.entries
  /\ ~Pruned(Current) /\ ~Current.dir /\ ~Skips(Current) /\ Current.yaml
  /\ Reads(Current)
  /\ UNCHANGED <<paths, ctxDone, cursorVars, events>>

\* WalkDir calls back a second time for a directory it cannot list.
VisitUnlistable ==
  /\ pc = "visit" /\ ~ctxDone /\ at \in DOMAIN Here.entries
  /\ ~Pruned(Current) /\ Current.dir /\ ~Skips(Current) /\ ~Current.kustomization
  /\ Current.fails = "read"
  /\ pc' = "fail"
  /\ UNCHANGED <<paths, ctxDone, cursorVars, events>>
  /\ SameSource

\* Everything else is passed over.
VisitOther ==
  /\ pc = "visit" /\ ~ctxDone /\ at \in DOMAIN Here.entries
  /\ \/ Pruned(Current)
     \/ ~Current.dir /\ (Current.skip \/ ~Current.yaml)
     \/ Current.dir /\ ~Skips(Current) /\ ~Current.kustomization /\ Current.fails # "read"
  /\ at' = at + 1
  /\ UNCHANGED <<paths, ctxDone, pc, path, pruned, events>>
  /\ SameSource

LeaveDir ==
  /\ pc = "visit" /\ at \notin DOMAIN Here.entries
  /\ pc' = "path" /\ path' = path + 1 /\ at' = 0
  /\ UNCHANGED <<paths, ctxDone, pruned, events>>
  /\ SameSource

-----------------------------------------------------------------------------
(* One source.                                                              *)

\* streamReader: the loop over the scanner.
ScanToken ==
  LET s == SplitDocument(buf, eof)
      raw == Trim(s.token)
  IN  /\ pc = "scan" /\ s.found
      /\ buf' = SubSeq(buf, s.advance + 1, Len(buf))
      /\ IF IsContentFree(raw) THEN UNCHANGED <<docs, events>>
         ELSE docs' = docs + 1 /\ Send(Event("doc", docs + 1, raw))
      /\ UNCHANGED <<paths, ctxDone, pc, cursorVars, nextIndex, source, rest, eof>>

\* bufio.Scanner asks for more when the split function has no token.
ScanRead ==
  /\ pc = "scan" /\ ~eof /\ ~SplitDocument(buf, eof).found
  /\ IF rest = <<>>
     THEN eof' = TRUE /\ UNCHANGED <<buf, rest>>
     ELSE /\ \E n \in DOMAIN rest :
               buf' = buf \o SubSeq(rest, 1, n) /\ rest' = SubSeq(rest, n + 1, Len(rest))
          /\ UNCHANGED eof
  /\ UNCHANGED <<paths, ctxDone, pc, cursorVars, nextIndex, source, docs, events>>

\* The stream has ended, well or with a read error, and no token is left.
ScanEnd ==
  /\ pc = "scan" /\ eof /\ ~SplitDocument(buf, eof).found
  /\ pc' = IF Current.fails = "read" THEN "error" ELSE "finish"
  /\ UNCHANGED <<paths, ctxDone, cursorVars, events>>
  /\ SameSource

\* Build: a kustomization that is gone by now is refused.
BuildRefused ==
  /\ pc = "build" /\ Current.fails = "gone" /\ pc' = "error"
  /\ UNCHANGED <<paths, ctxDone, cursorVars, events>>
  /\ SameSource

BuildBegins ==
  /\ pc = "build" /\ Current.fails # "gone" /\ pc' = "run"
  /\ Begin
  /\ UNCHANGED <<paths, ctxDone, cursorVars, events>>
  /\ SameSource

BuildReads ==
  /\ pc = "run" /\ ReadRoot(Current) /\ pc' = "render"
  /\ UNCHANGED <<paths, ctxDone, cursorVars, events>>
  /\ SameSource

BuildLoads ==
  /\ pc = "render" /\ LoadSchema(Current)
  /\ UNCHANGED <<paths, ctxDone, pc, cursorVars, events>>
  /\ SameSource

BuildRuns ==
  /\ pc = "render" /\ Current.fails \in {"no", "origin"}
  /\ RunReturns(Current) /\ pc' = "strip"
  /\ UNCHANGED <<paths, ctxDone, cursorVars, events>>
  /\ SameSource

\* Run fails or panics before or after it has read anything.
BuildBreaks ==
  /\ Building
  /\ \/ Current.fails = "build" /\ RunFails
     \/ Current.fails = "panic" /\ RunPanics
  /\ pc' = "error"
  /\ UNCHANGED <<paths, ctxDone, cursorVars, events>>
  /\ SameSource

\* One origin that cannot be read costs every document.
BuildStrips ==
  /\ pc = "strip"
  /\ IF Current.fails = "origin" THEN pc' = "error" /\ NoBuild ELSE pc' = "docs" /\ StripOrigins
  /\ UNCHANGED <<paths, ctxDone, cursorVars, events>>
  /\ SameSource

\* streamBuild: the rendered documents in order, then the end.
BuildDoc ==
  /\ pc = "docs"
  /\ IF docs < Len(rendered)
     THEN docs' = docs + 1 /\ Send(Event("doc", docs + 1, rendered[docs + 1])) /\ UNCHANGED pc
     ELSE pc' = "finish" /\ UNCHANGED <<docs, events>>
  /\ UNCHANGED <<paths, ctxDone, cursorVars, nextIndex, source, scanVars>>

SendError ==
  /\ pc = "error"
  /\ Send(Event("error", 0, <<>>))
  /\ pc' = "finish"
  /\ UNCHANGED <<paths, ctxDone, cursorVars>>
  /\ SameSource

\* input.finish, deferred; then back to the directory or to the next path.
Finish ==
  /\ pc = "finish"
  /\ Send(Event("final", 0, <<>>))
  /\ pc' = IF at = 0 THEN "path" ELSE "visit"
  /\ path' = IF at = 0 THEN path + 1 ELSE path
  /\ at' = IF at = 0 THEN 0 ELSE at + 1
  /\ UNCHANGED <<paths, ctxDone, pruned>>
  /\ SameSource

-----------------------------------------------------------------------------
\* The owner of the context may cancel it at any moment.
Cancel ==
  /\ ~ctxDone /\ pc # "returned"
  /\ ctxDone' = TRUE
  /\ UNCHANGED <<paths, pc, cursorVars, events>>
  /\ SameSource

Terminated == pc = "returned" /\ UNCHANGED vars

Reading ==
  \/ BeginPath \/ FailPath \/ WalkReturns \/ Abort
  \/ PruneDir \/ VisitKustomization \/ VisitFile \/ VisitUnlistable \/ VisitOther \/ LeaveDir
  \/ ScanToken \/ ScanRead \/ ScanEnd \/ BuildRefused \/ BuildDoc \/ SendError \/ Finish

Walk ==
  \/ Reading /\ NoBuild
  \/ BuildBegins \/ BuildReads \/ BuildLoads \/ BuildRuns \/ BuildBreaks \/ BuildStrips

Next == Walk \/ (Cancel /\ NoBuild) \/ Terminated

Spec == Init /\ [][Next]_vars

(* The walk is one goroutine, and its reads return.                         *)
FairSpec == Spec /\ WF_vars(Walk)

-----------------------------------------------------------------------------
(* What a command line holds, with no cursor and no buffer.                 *)

\* A source: what it sends, in order, before its Final.
SourceOf(l, ds, error) == [label |-> l, docs |-> ds, error |-> error]

FromFile(e) ==
  SourceOf(e.label, IF e.fails = "open" THEN <<>> ELSE Documents(e.content), e.fails # "no")
FromBuild(e) ==
  SourceOf(e.label, IF e.fails = "no" THEN RenderedAlone(e) ELSE <<>>, e.fails # "no")

\* A directory below the root that is skipped hides what it holds; so does a
\* kustomization, the root included.
Hides(es, d) == es[d].dir /\ ((es[d].skip /\ d # 1) \/ es[d].kustomization)
Hidden(es, k) == \E d \in DOMAIN es : es[d].label \in es[k].within /\ Hides(es, d)

Seen(es) == {k \in DOMAIN es : ~Hidden(es, k) /\ ~(es[k].skip /\ k # 1)}

\* The first of these ends the walk of its path.
Unlistable(es) == {k \in Seen(es) : es[k].dir /\ ~es[k].kustomization /\ es[k].fails = "read"}
Reached(es, k) == \A u \in Unlistable(es) : k < u

Takes(es, k) ==
  k \in Seen(es) /\ Reached(es, k) /\ IF es[k].dir THEN es[k].kustomization ELSE es[k].yaml

FromEntry(es, k) ==
  IF Takes(es, k) THEN <<IF es[k].dir THEN FromBuild(es[k]) ELSE FromFile(es[k])>> ELSE <<>>

FromDirectory(p) ==
  FlattenSeq([k \in DOMAIN p.entries |-> FromEntry(p.entries, k)])
    \o (IF Unlistable(p.entries) = {} THEN <<>> ELSE <<SourceOf(p.label, <<>>, TRUE)>>)

FromPath(p) ==
  CASE p.what = "missing" -> <<SourceOf(p.label, <<>>, TRUE)>>
    [] p.what = "reader" -> <<FromFile(p.entries[1])>>
    [] p.what = "kustomization" -> <<FromBuild(p.entries[1])>>
    [] p.what = "directory" -> FromDirectory(p)

SourcesOf(w) == FlattenSeq([k \in DOMAIN w |-> FromPath(w[k])])

\* The events of source s, the n-th from 0.
EventsOf(s, n) ==
  LET Ev(kind, d, raw) == [label |-> s.label, src |-> n, kind |-> kind, doc |-> d, raw |-> raw]
  IN  [d \in DOMAIN s.docs |-> Ev("doc", d, s.docs[d])]
      \o (IF s.error THEN <<Ev("error", 0, <<>>)>> ELSE <<>>)
      \o <<Ev("final", 0, <<>>)>>

Discovered(w) ==
  LET ss == SourcesOf(w) IN FlattenSeq([k \in DOMAIN ss |-> EventsOf(ss[k], k - 1)])

DiscoveredBy == [w \in Walks |-> Discovered(w)]

(***************************************************************************)
(* The walk emits exactly what the command line holds: sources numbered    *)
(* without a gap in discovery order, each with its documents numbered from *)
(* one, its error after them and one Final, whatever the chunks a file is  *)
(* read in, and a kustomization as kustomize alone renders it, whatever    *)
(* was built before; a path that fails in the middle loses nothing found before and *)
(* stops no later path. A cancelled walk emits a prefix of that.           *)
(***************************************************************************)
DiscoversExactly ==
  /\ IsPrefix(events, DiscoveredBy[paths])
  /\ pc = "returned" /\ ~ctxDone => events = DiscoveredBy[paths]

(***************************************************************************)
(* A build leaves nothing behind that the next one, or anybody else who    *)
(* asks kustomize for a schema, could see: not its OpenAPI schema, not the *)
(* mutex, whether it has returned, failed or panicked                      *)
(* (TestBuildOpenAPIIsolation, TestBuildRecoversPanic).                    *)
(***************************************************************************)
LeavesNothingBehind == ~Building => ~buildMutex /\ openapi = {}

(***************************************************************************)
(* The walk returns: no stream makes the scanner turn on the spot.         *)
(***************************************************************************)
WalkEnds == <>(pc = "returned")

(***************************************************************************)
(* "Split reads every document from data" (yamldoc.go:37). Refuted by a    *)
(* stream that ends in a separator line with something after the dashes    *)
(* and without a newline: the document above that line is dropped.         *)
(***************************************************************************)
ReadsEveryDocument ==
  pc = "returned" /\ ~ctxDone =>
    \A k \in DOMAIN paths :
      paths[k].what = "reader" /\ paths[k].entries[1].fails = "no" =>
        \A d \in ToSet(AllDocuments(paths[k].entries[1].content)) :
          \E n \in DOMAIN events : events[n].raw = d
=============================================================================
