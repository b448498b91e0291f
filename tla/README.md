# TLA+ models of flux-schema

TLA+ specifications of the parts of flux-schema whose correctness rests on an
order of events: the walk over the sources with its kustomize builds, the
concurrent validation engine, the report collector, the schema loader, the
inventory scanner, the order of the checks on one document, and the catalog that
`extract` writes and `explain` reads. TLC model-checks them on small
instances, TLAPS proves the central safety properties for every value of the
constants. Definitions keep the names of the Go code, and `PROJECT.json` maps
each one to the lines it stands for.

Contents: the system, the modules, the runs, fairness, the proofs, what is not
modelled, the plan, findings.

## The system

| Component | State | Operations | Correct when |
|---|---|---|---|
| Engine, `internal/validator/validator.go` | channels `jobs` and `results`, a WaitGroup per source, one of the workers and one of the waiters | `ValidateSources`: producer, worker, waiter goroutines | every result once, sentinels last, no send on a closed channel, the stream is closed, also after a cancellation |
| Source reader, `internal/source` | cursor over paths, `SourceIndex`, `DocIndex` | `Walk`, `produceFromPath`, `send`, `finish` | events of a source are contiguous, indices dense, a failing source does not stop the walk |
| Document pipeline, `validateDoc` | none | skip, substitute, decode, resolve, validate, CEL | one verdict per document; the order of the checks decides the reason |
| Schema loader, `internal/validator/loader.go` | `sync.Map` of entries with a `sync.Once` each, compiler behind a mutex | `Resolve`, `cacheEntry`, `loadAndCompile`, `compileJSONSchema` | each location is fetched once, all callers agree, all return |
| Result collector, `cmd/flux-schema/validate.go` | buffers and completion marks by label, `sourceOrder`, `currentIdx`, counters | `add`, `tryAdvance`, `flushContiguous`, `flushRemaining`, `flushRemainingSources` | results in discovery order, streamed as early as possible, none lost |
| Validate command, same file | its context, the exit code | read the channel, `cancel()`, final flush, summary | the exit code tells the truth, `--fail-fast` stops soon |
| Inventory scanner, `internal/inventory/scanner.go` | directory types, patch and kustomization references, resources by file | `walk`, `scanFile`, `addKustomizeConfig`, `markKustomizeBases`, `result` | the result is a function of the tree |
| Kustomize build, `internal/kustomize` | a process-wide mutex, kustomize's global OpenAPI schemas, `originFS.injected` | `Build`, `originFS.ReadFile`, `stripOriginAnnotations` | a build renders what kustomize alone would, sees no other build, and leaves the mutex free, after a panic too |
| Extractors and transformers, `internal/extractor` | none: trees of JSON | `ExtractKubernetes`, `ExtractOpenShift`, `ExtractCRDs`; the passes of `buildSchema` and `versionsFromCRD` | the schema accepts what the source of the kind says is served; one bad definition does not stop the others |
| `extract k8s`, `extract openshift`, `extract crd` | the files written so far, the schemas kept for the metadata, the failures | write schema, aliases, field index; references and completion shards; archive | names lead to schemas, a clean exit means a complete catalog |
| `explain` and its completion, `internal/explain`, `internal/fields` | none: locations | parse a reference, references, index, aliases, guessing, field paths | a name that the catalog has finds its kind; completion offers what explain accepts |
| Configuration file, `discover`, report writers | flags | one pass each | |
| Kubernetes evaluators (CEL, admission, metadata) | compiled programs | `Validate` | adapters to the Kubernetes libraries |

How they interact: `validate` builds a `Validator` (which owns one loader) and
calls `ValidateSources`. The producer goroutine runs `source.Walk`
synchronously: each event of the walk is a callback that sends a job. Workers
call `validateDoc`, which calls `Loader.Resolve`. The command's goroutine reads
`results`, feeds the collector, and with `--fail-fast` cancels the context that
the walk, the workers, the waiters and the downloads share. A source may be a kustomization: then the producer
runs a build between two events of the walk. `discover` is a
sequential program that shares nothing with these. `extract` and `explain` meet
on disk only: what several runs of the one have left, complete or not, is what
the other makes sense of, and what a `validate` compiles.

What is hard here is listed line by line under `hazards` in `PROJECT.json`:

* four kinds of goroutine on two bounded channels and a WaitGroup per source,
  cancelled at any moment, with a `select` that may take either branch;
* the sentinel of a source is sent by a different goroutine than its results;
* results come in completion order, with gaps (content-free documents), with
  `DocIndex` 0 (source-level errors), and after a cancellation with holes;
* concurrent misses in the loader's cache, an entry that is visible before it is
  filled in, and a lock that is taken while other workers wait for a `Once`;
* in the scanner, references to files and directories not visited yet, a queue
  filled from a Go map, and reference cycles;
* a library with global state and panics, called between two events of a walk
  that may be cancelled;
* seven passes over one tree, each seeing what the others left, and references
  that may be cyclic;
* an `extract` where any input, definition, version or file may fail while the
  others go on, so that the metadata must follow what was written;
* names that were taken from an unordered map, written into four kinds of files,
  and looked up by a dotted reference that does not say where the group ends;
* three walks of one schema (explain, completion, field index) that must agree.

## The modules

| Module | What it is |
|---|---|
| `ValidateSources` | the engine, open: its goroutines, and `Deliver` and `CancelCtx`, the two ways a reader acts on it |
| `ValidateStream` | the engine read by any caller, who may cancel at any moment |
| `ResultCollector` | the reorder buffer as operators on a record |
| `ValidateCmd` | engine and collector composed: `flux-schema validate` |
| `OrderedReport` | abstract: a report that grows as a prefix of the one owed and ends complete |
| `SchemaLoader` | concurrent `Resolve` calls |
| `SchemaStore` | abstract: what a location holds is learned once; an answer is the first conclusive location |
| `SourceWalk` | `Reader.Walk`: files, standard input, directories and kustomizations |
| `KustomizeBuild` | one build: mutex, global schemas, annotations added and removed; composed into `SourceWalk` |
| `YamlDocs` | how a stream of bytes is split into documents |
| `ValidateDoc` | the verdict on one document, and what `build` prints of it |
| `SkipAbsent` | `--skip-json-path-if-absent` over schema trees |
| `SkipFields` | `SkipAbsent` as the last step of `ValidateDoc`, with the properties of the option |
| `Documents` | the two ways of a document: `validate`, and `build` piped into `validate` |
| `Inventory` | the scanner |
| `SchemaTree` | JSON trees, and the schemas made of them |
| `Transformers` | the passes over a schema, and the two pipelines made of them |
| `Extractor` | from a swagger document or CRDs to schemas with names |
| `Fields` | the field index of a schema |
| `Kinds` | a group, version and kind, and how a schema says its own |
| `CatalogFiles` | paths, aliases, references, completion shards |
| `ExtractCmd` | `extract` commands one after the other, file by file |
| `Lookup` | how `explain` reads a schema at a location, through aliases |
| `WrittenCatalog` | `ExtractCmd` and `Lookup`: the properties of the files on disk |
| `Explain` | references, index, guessing, fields, completion |
| `Catalog` | the extractors, `WrittenCatalog` and `Explain` composed, with what a JSON Schema accepts |
| `MC...` | small instances for TLC |
| `ValidateSources_proofs`, `ValidateStream_proofs`, `ValidateCmd_proofs`, `SchemaLoader_proofs`, `SourceWalk_proofs`, `Inventory_proofs`, `Documents_proofs`, `WrittenCatalog_proofs` | TLAPS proofs, each beside its module; those of the command begin with the collector's |

An operator whose comment begins with *Fault* is not part of any specification.
It is a wrong variant of the action that follows it, of the kind a plausible
edit of the code would introduce, and it shows that the properties notice: with
the variant in place of the action TLC finds the property violated
(`mutants` in `PROJECT.json`).

### ValidateSources, ValidateStream

One action per atomic step of the code between two points where goroutines can
interleave. `EmitDoc` is `input.send` up to the `Add(1)` of `enqueueJob`;
`SendJob` and `AbandonJob` are the two branches of its `select`. `EmitFinal` is
the callback for a Final event, which spawns the waiter; `WalkReturns` ends the
walk and gives a waiter to the source whose Final event was suppressed.
`CloseJobs`, `JoinWorkers`, `DrainJob`, `DrainEnd`, `CloseResults` are the
shutdown sequence, line by line. `TakeJob`, `WorkerReturns`, `PushResult`,
`DropResult`, `FinishJob` are a worker, with the deferred `Done` as a step of its
own. `WaitReturns`, `PushFinal`, `DropFinal` are a waiter. A buffered channel is
a sequence of at most `ChanCap` elements and a `closed` flag.

`sources` stands for what the walk discovers: a list of sources, each a label
and a sequence of items. An item is a `DocIndex`, the status `validateDoc`
gives it (`"none"` when it asks for no result), and whether its validation
downloads a schema; such an item may come out as invalid once the context is
cancelled. A document with `DocIndex` 0 is a source-level load error.

### ResultCollector, ValidateCmd, OrderedReport

The collector belongs to one goroutine, so each of its methods is an operator
from the record before the call to the record after it. It keeps the code's
keys: buffers and completion marks by the *label* of a source, the order by its
index. `out` is the sequence of `WriteResult` calls; `panic` records an
assignment to the map that `flushRemaining` sets to nil. `NoLabel` is the empty
string in both of its parts: what a slot of the order holds before a result fills
it, and the label of the source that `validate ""` has, with one source-level
error. `tryAdvance` stops at either (`StopAt`).

`ValidateCmd` reads one result per step (`Collect`), then cancels if it must
(`FailFastCancel`, a step of its own: everybody else runs on in between),
flushes when the channel is closed and exits. `ImplementsOrderedReport` is a
refinement: `report <- collector.out`, `ended <- (cmd = "exit")`.

### SchemaLoader, SchemaStore

A `Resolve` goes through a *plan*, the locations its templates render to.
`Lookup` is `cache.Load`, `LoadOrStore` the insertion of a new entry, named by
the worker that allocated it, so that an entry that lost the race is a different
object. `OnceFirst` and `OnceDone` are the two ways through `once.Do`; a caller
that is neither first nor late is blocked. `Load` is the fetch: it may yield
"not found", a load error or a document, and a second fetch might yield
something else, which is why fetching twice would matter. `Lock`, `AddResource`,
`Compile` are `compileJSONSchema` under the mutex, `Publish` the assignment that
ends the `Once`. `UriOf` is `baseURIFor`: two spellings of a path, one URI.

The refinement maps `fact[l]` to the result of the cache's entry once it is
done, and `said` to the set of answers given.

### Inventory

`ScanFile` is `scanFile` with everything it calls; a tree lists its files in
walk order, with what their documents say. `StartMarking`, `MarkRefs` and
`Finish` are `markKustomizeBases`; the queue, whose order in the code comes from
a Go map, is a set served in any order. The properties compare the outcome with
a definition over the tree alone (`TypeOf`, `Reached`), which knows neither
order.

### SourceWalk, YamlDocs

The walk is sequential, and what makes it hard is what it reads. A command line
is data: what `os.Stat` says of each path and, for a directory, its entries in
the order of `filepath.WalkDir`, with what comes of opening, reading or building
each. One action per branch of the callback (`PruneDir`, `VisitKustomization`,
`VisitFile`, `VisitUnlistable`, `VisitOther`), one source at a time
(`BeginPath` or a visit, then `ScanToken`, `ScanRead`, `BuildDoc`, `SendError`,
`Finish`). `ScanRead` reads any number of bytes, so a separator may be cut
anywhere. Bytes are of four kinds. The events are compared with `Discovered`, a
definition over the command line that has no cursor and splits a stream by its
lines: a document begins with the stream and below each separator line. Its
`Documents` leaves out what the finding below loses. `WellFormed` says what a
command line can be: a directory comes before what it holds, and what fails,
fails in a way of its kind.

### KustomizeBuild

Streaming a kustomization is a build and then one event for each document. The
actions of `KustomizeBuild` are the steps of `Build` that other code can see:
`Begin` takes the mutex and resets the global schemas; `ReadRoot` is
`originFS.ReadFile`, as often as krusty likes; `LoadSchema` is what krusty does
to the global state; `RunReturns`, `RunFails` and `RunPanics` end it, at any
point, with the deferred calls; `StripOrigins` follows. What krusty renders is
data: a document shows whether it carries the origin annotation and which
schemas it was rendered with, which is what tells two renderings apart.
`Discovered` says of each document what kustomize alone would render
(`RenderedAlone`). A build takes no context, so `Abort` waits for it. The code's
one producer never runs two builds at once; the mutex is for other users of the
package.

### ValidateDoc, SkipAbsent, SkipFields, Documents

`VerdictOn` is `validateDoc`: whether the document decodes, is substituted and is
skipped, then `Judge`, which is everything after the second look at the skip
patterns, then `JudgeBySchema`. A body says what each check would find; what the
JSON Schema says of it is a parameter, so that what is said of the two ways of a
document (`Documents`) holds for every schema. `SkipFields` gives the parameter
its value, `BodyVerdict`, which works the schema out. `Rendered` is
`Substituter.Bytes`, as `build` calls it.

In `SkipAbsent` a schema is the sequence of its nodes, those below a node before
it and the root last; a node has `required`, one assertion on the value,
`properties` and the combining keywords. A value says of each of its paths
whether what is there is good, and whether it is an object, an array or a scalar. What matters of an error is what becomes of it:
`Failures` is the external validator together with the pruning of its errors, by
node and path, an error being *pruned* or *kept* (`ErrorsOf`, with `AllNamed` for
a missing field and `Prunes` for an error with causes). What `--skip-json-path`
removes (`Strip`) it removes through objects only, while a path may exist
(`PathExists`) through arrays. `Ambiguous` is the
second pass, the search for alternatives that pruning has made ambiguous, and
`Satisfies` is what the option is meant to say: a field that a pattern names is
not required. All three are recursive functions over the nodes.

### SchemaTree, Transformers, Extractor, Fields

A schema is a tree of JSON with the keywords and extensions that the passes look
at, and each pass of `transformers.go` is an operator from tree to tree, with its
order in `BuildSchema` and `CRDSchema` as in `buildSchema` and `versionsFromCRD`.
References are names of definitions and may be cyclic or unknown. `Validates` is
the external JSON Schema validator on the keywords that occur (in `Catalog`). An extractor's
result is the schemas in the order of the code and the number of errors; where
the code ranges over a Go map of paths, the operator takes the order as an
argument, and the action takes any.

`Catalog` compares the result with `Served`, which walks the *source* of the kind
and a document side by side and knows no passes: it follows references as it
meets them, rejects unknown fields where nothing says that they are preserved,
lets optional fields of built-in kinds be null, and reads int-or-string as one
of the two.

### CatalogFiles, ExtractCmd, Lookup, WrittenCatalog, Explain, Catalog

`ExtractCmd` runs a plan of commands, one file per step: `ReadInput`,
`InputUnreadable`, `WriteSchema`, `SchemaUnwritten`, `WriteAlias`,
`WriteFieldIndex`, `WriteMetadata`, `Finish`. Every state is one in which the
process may die, and a set `broken` of paths cannot be written. A path is a kind
of file with the names in it, and a file is a tree, a set of kinds, a shard or
an index. The archive is a second directory, filled from a staging directory at
the end. What is extracted from an input (`ExtractFrom`), what stripping leaves of
a schema (`ForOutput`) and which field paths it has (`FieldPaths`) are parameters:
the command's own logic is which files it writes, in which order, and what it
still promises after a failure. `Catalog` gives the parameters their values.

`Lookup` reads a schema at a location. A file is absent, failed, found, or
redirects to another kind; `LoadGVK` follows at most eight redirects, the code's
`maxAliasDepth`, written out so that it is not recursive. `WrittenCatalog` puts
`ExtractCmd` and `Lookup` together and holds the properties about files.

`Explain` is a set of operators over locations, since `explain` keeps no state.
A reference is its dotted segments, and a failed lookup ends a search where the
code returns an error. `Catalog` puts everything together: the directory of the commands is one location, a hosted catalog with
an index is another.

## The runs

| Run | Instance | Distinct states |
|---|---|---|
| `stream` | 2 workers, five inputs of up to 3 sources and 5 documents, cancellation at any moment | 434,189 |
| `cmd_ordered` | 2 workers, six inputs, two with the empty path, no `--fail-fast` | 63,543 |
| `cmd_fail_fast` | 2 workers, five inputs with invalid documents and downloads, one with the empty path | 388,685 |
| `cmd_fail_fast_bound` | 1 worker, one source of 12 invalid documents | 14,586 |
| `cmd_shared_label` | the same file twice: finds the violation | |
| `loader` | 2 workers with 2 calls each, 3 locations, 2 URIs, 2 documents | 457,453 |
| `inventory` | all reference graphs over 3 directories, and mixed trees | 7,782 |
| `source_walk` | all streams of up to 5 bytes in all chunkings; 648 command lines over small trees with builds that fail, panic, bring a schema or ask for origins | 146,605 |
| `source_walk_last_document` | the same: finds the violation | |
| `documents` | 351 schemas, all but one of two levels, 8 values, each alone, in a field and in an element of an array, and every outcome of the other checks | 335,028 |
| `catalog` | seven plans of `extract` commands, eight sets of paths that cannot be written, every order of the paths | 1,774 |
| `catalog_plural` | one `extract k8s` over nodes, their watch and their status: finds the violation | |

* `stream` checks `StreamTypeOK`, `WaitGroupBalance`, `NoSendOnClosed`,
  `SentinelLast`, `ExactlyOnce` and `Termination`. The inputs hold a content-free
  document between two others, an empty source, one that fails to load, and five
  documents, one more than the `jobs` channel (capacity 4) holds. Two workers are
  the least at which a slow worker can be overtaken. `Inputs` is a constant, so
  that the walk is data and only the scheduling is explored.
* `cmd_ordered` checks the collector's type, `Conservation`, `Prompt`, and
  the refinement of `OrderedReport`, its `<>ended` included. Two sources
  suffice for a sentinel to come early and three for the pointer to pass two at
  once. `Prompt` leaves out one state, the pointer at the source of the empty
  path, where it stays (see "Seen while modelling").
* `cmd_fail_fast` checks `ExitTellsTheTruth`, `CutReportInOrder` and
  `CmdTerminates`. `CutReportInOrder` says that nothing is repeated, and of any
  two entries but the error of the empty path that they are in order:
  that error may be written too early.
* `cmd_fail_fast_bound` checks `FailFastStopsSoon`: the number of invalid
  results is at most `2 * ChanCap + Workers + 2`. With one worker the bound
  is 7; the source has 12 documents, so that the bound is not met for lack of
  them.
* `loader` checks `LoaderTypeOK`, `FetchedOnce`, `AliasesAgree`,
  `ImplementsStore`, `EveryCallReturns`. `x` and `y` are spellings of one file;
  plans share locations, and one holds a template that does not render.
* `inventory` checks `InventoryTypeOK`, `ClassifiedByReachability`,
  `CensusIsComplete`, `ScanEnds`. Three directories give chains, diamonds,
  self-references, two- and three-cycles and cycles entered from outside.
  `ClassifiedByReachability` leaves out the directories (`Disputed`) that the
  comment of `markKustomizeBases` and the document classify differently: what an
  overlay reaches to which only unused components or a cycle refer.

* `source_walk` checks `DiscoversExactly`, `LeavesNothingBehind` and `WalkEnds`.
  Two builds in one walk are the least at which one could see the other. Five bytes hold a
  document, a separator line with its newline, and one more byte on either side;
  the trees have a directory that is plain, skipped, built, or cannot be listed
  between two files, and a path after it that must still be read.
* `documents` checks `BuildThenValidateAgrees`, `SkippedKindIsSkipped`, and for
  `--skip-json-path-if-absent` `NothingElseForgiven`, `ForgivesEveryAbsence` and
  `PresentStillChecked`. The first two are said of what `--skip-json-path`
  leaves of the value (`Remaining`), so that the order of the two options matters:
  a field that was removed is as absent as one that was never written. Two names are enough to miss a field that is named and
  one that is not; two levels put every combining keyword below every other.
  `ForgivesEveryAbsence` is stated for schemas in which no alternative of an
  `anyOf` or `oneOf` has a `oneOf` of its own: there the code reports an
  ambiguous `oneOf` although another alternative of the `anyOf` holds.
  `NothingElseForgiven` leaves out schemas with three `oneOf`s one in the other;
  `Thrice` is one, and shows why. Both comparisons leave out `not` and `if`,
  whose conditions the library decides before anything is forgiven.

* `catalog` checks
  `NoDanglingName` in every state, hence for every moment of an interruption: an
  alias file or reference leads to the schema it names;
  `CleanExitIsComplete`, that a command exits 0 only if everything it promises is
  on disk, and `EveryKindIsExtracted`, that what fails costs only itself;
  `SchemasServe`, that a written schema accepts just the documents that its
  source says are served, by the rule that `docs/custom-schema-catalog.md:203-223`
  gives for all commands; the samples of custom resources leave out what
  `extract crd` does otherwise (see "Seen while modelling");
  `NamesFind`, `CompletionFindsNames`, `CompletedFieldsExplain` and
  `IndexedFieldsExplain`, that `explain`, its completion and the field index agree
  with the catalog and with each other; and `CatalogTypeOK`.
  `MCPlans` has a core catalog followed by CRDs, a command that fails after one
  that did not, CRDs with a document that does not parse, a version without a
  schema and an input that cannot be read, stripped and archived output, and
  OpenShift. The definitions hold a cyclic and an unknown reference, a field
  named `$ref`, one named `description`, one named `default`, a map of
  references, int-or-string both ways, preserved fields and a `oneOf` beside
  properties; a kind is in two groups, and one name is the kind of a CRD and of a
  built-in. `MCUnwritable` breaks one kind of file at a time. `MCSamples` are the
  documents tried on each schema: fields that are right, null, of the
  wrong type, missing, and declared by nobody.
  The states are few because the steps are large: a command is some forty of
  them, and each state is checked against every name and every document.
  `NamesFind` is stated after clean runs, `CompletionFindsNames` after one, since
  a second run replaces the shards of the first. Both assume that within a group
  and version no name of a kind is the name of another, which the API server
  enforces (`NamesAccepted`): alias files are written without looking. For the plans
of the instance `MCCatalog` evaluates the same of aliases (`NamesApart`).
  `EveryKindIsExtracted` and `CleanExitIsComplete` are action properties about
  the last step of a command. `Catalog.cfg` and `CatalogPlural.cfg` do not check
  deadlock: a plan of commands ends.

Every bound is a constant of an instance: `MaxBytes`, `Inputs`, `Worker`, `MaxCalls`
(`Resolve` calls per worker), `Plans`, `Unwritable`, `Samples`, `Trees`. Deadlock
is checked everywhere else; a finished system stutters explicitly (`Terminated`,
`Finished`). The eight redirects of `LoadGVK` are the code's own bound.

## Fairness

* Engine: weak fairness of the producer, of each worker, of each waiter and of
  the reader. Go schedules every runnable goroutine, and a sender blocked on a
  full channel is served in FIFO order; weak fairness is less than that and
  enough, since what can fill a channel is finite. Nothing obliges the caller to
  cancel.
* Command: the same, with the command's goroutine as the reader. Its weak
  fairness is written with an explicit `CmdRunnable` in place of `ENABLED`, so
  that TLC does not run the collector to find out whether it can take a step;
  the two are equivalent.
* Loader: weak fairness of each worker inside a `Resolve`. A fetch ends, since
  the HTTP client has a timeout and a bounded number of retries. Weak fairness
  suffices for the mutex because a location takes it once. No worker is obliged
  to begin another call.
* Scanner and walk: weak fairness of their one goroutine; reads return, and so
  does krusty: a build takes no context, and a walk that is cancelled waits for
  it.
* `extract`: weak fairness of the one goroutine. No property needs it.

## The proofs

| Theorem | States |
|---|---|
| `StreamTypeCorrect` | `Spec => []StreamTypeOK` |
| `WaitGroupsBalance` | `Spec => []WaitGroupBalance` |
| `NeverSendsOnClosed` | `Spec => []NoSendOnClosed` |
| `SentinelsComeLast` | `Spec => []SentinelLast` |
| `LoaderTypeCorrect` | `Spec => []LoaderTypeOK` |
| `NeverFetchedTwice` | `Spec => []FetchedOnce` |
| `SpellingsAgree` | `Spec => []AliasesAgree` |
| `LoaderImplementsStore` | `Spec => ImplementsStore` |
| `DeliversExactlyOnce` | `Spec => []ExactlyOnce` |
| `FailFastIsPrompt` | `FailFast` implies `Spec => []FailFastStopsSoon` |
| `ExitZeroIsHonest` | `Spec => []NoInvalidPasses`, the first half of `ExitTellsTheTruth` |
| `BuildsLeaveNothing` | `Spec => []LeavesNothingBehind` |
| `InventoryTypeCorrect` | `Spec => []InventoryTypeOK` |
| `ClassificationIsAFunction` | `Spec => []ClassifiedByReachability` |
| `CensusIsAFunction` | `Spec => []CensusIsComplete` |
| `CommandTypeCorrect` | `Spec => []CmdTypeOK` |
| `NothingCountedIsLost` | `DistinctLabels` implies `Spec => []Conservation` |
| `StreamsPromptly` | `DistinctLabels` implies `Spec => []Prompt` |
| `CutReportsKeepOrder` | `DistinctLabels` implies `Spec => []CutReportInOrder` |
| `ExitCodeTellsTheTruth` | `DistinctLabels` implies `Spec => []ExitTellsTheTruth` |
| `CommandImplementsReport` | `DistinctLabels`, no `FailFast`: `Spec` and `CmdTerminates` imply `ImplementsOrderedReport` |
| `WalkDiscoversExactly` | `Spec => []DiscoversExactly` |
| `BuildAgreesWithValidate` | `Spec => []BuildThenValidateAgrees` |
| `SkippedKindsAreSkipped` | `Spec => []SkippedKindIsSkipped` |
| `NothingElseIsForgiven` | `JudgedByTree` implies `Spec => []NothingElseForgiven` |
| `EveryAbsenceIsForgiven` | `JudgedByTree` implies `Spec => []ForgivesEveryAbsence` |
| `PresentFieldsAreChecked` | `JudgedByTree` implies `Spec => []PresentStillChecked` |
| `CatalogTypeCorrect` | `Spec => []CatalogTypeOK` |
| `NamesNeverDangle` | `NamesApart` implies `Spec => []NoDanglingName` |
| `CleanExitHasWrittenAll` | `NamesApart` implies `Spec => CleanExitIsComplete` |
| `FailuresStayTheirOwn` | `Spec => EverySchemaIsWritten`: at the end of a command every schema of an input it read is in the catalog, unless its own file could not be written |

The assumptions are the named `ASSUME`s of the modules: the pool is finite and
not empty, the inputs are lists of sources whose documents have distinct indices
(`DocsAssumption`: the reader counts them), the source of the empty path has no
documents (`EmptyPathAssumption`: `os.Stat` refuses it), a command line is well formed
(`WalksAssumption`), the files of a tree have distinct names, the documents that
compile are documents, plans of the loader are sequences of locations, the
documents and options of `Documents` have the fields of theirs
(`CasesAssumption`), the schemas and values of `SkipFields` are sequences of
nodes and functions from paths, and the paths of patterns not empty
(`TreesAssumption`), and the placeholders are none
of the things they stand apart from. Of extraction: a command's inputs and what is
extracted from one are sequences (`PlansAssumption`, `ExtractionAssumption`), no
group is called `core` (which is what the empty group is called in a path), and a
written schema has no alias key and says the kind that was injected into it.
Nothing bounds the number of workers,
sources, documents, locations, calls (`MaxCalls` is any natural number), files,
directories, references or bytes. `DistinctLabels`, that no two sources have one
label, is a hypothesis of the theorems about the report and not an assumption:
the finding `cmd_shared_label` shows that they fail without it. `NamesApart`, that
no alias of a kind is the name of another kind of its group and version, is one
because the code does not look: an alias file written over a schema would lose
it. The API server enforces it for what it serves. `JudgedByTree` says that
`JudgeBySchema`, a parameter of `Documents`, is `BodyVerdict`, as `Documents.cfg`
has it. `CmdTerminates`
is one of `CommandImplementsReport` because the abstract report promises to end,
which is liveness; the runs check it under fairness.

**Engine.** `EngineInv` (`ValidateSources_proofs`) is inductive for the engine's
steps and for everything a reader can do to it, so the modules that compose the
engine with a reader can use it. `WaitGroupBalance` is not inductive alone: to
know that a `Done` decrements by exactly one the same job must not be in two
places, which is `PlacedInv` (the channel has no repetition, no two workers hold
the same job, none is both queued and held), and the job the producer sends must
be new, which is `Walked` (everything queued or held lies behind the cursor) with
`CursorInv`. `NoSendOnClosed` needs `ShutdownInv`, which orders the shutdown:
the workers have left before the drain, the waiters before the close.

**Sentinels.** `StreamInv` adds what the order rests on. A result is pushed while
its job is in flight; `WaiterInv` says that the waiter of that source has then
not passed `Wait`, so its sentinel is not in the stream; and `FinalsAccounted`
says that a sentinel in the stream is the last act of its waiter. The step from
`wg[s] = 0` to "nothing of `s` is in flight" is `WaitGroupBalance` again.

**Exactly once.** What is in the stream was owed and is there once, because a job
is queued, or held, or pushed, never two of these. That nothing is missing at the
end takes an accounting: in an uncut run every document behind the cursor that
asks for a result is *waiting* (queued or held) or its result is in the stream,
and every source behind the cursor has a waiter that has sent its sentinel or
will (`UncutInv`). The walk passes everything, since only a cancellation ends it
early; and when the stream is closed no job is left to wait (`NothingWaits`),
which is `ShutdownInv` again.

**Command.** `ExitInv` carries `EngineInv` into the composition: the command's
steps are a delivery, a cancellation, or none of the engine's business. An
invalid document is not walked yet, or waits, or has its result in the channel,
or was counted; and the context is done only once something was counted. So when
the channel is closed with nothing counted, nothing is invalid.
`FailFastIsPrompt` rests on a quantity, `Potential`: the invalid results counted,
the results in the channel, the running workers, the queued jobs, and the one the
producer has in hand. Before the cancellation at most one is counted, so it is
within the bound; after it no step makes it larger, for the walk sends no new
job.

**Collector and report.** The collector is a record and its methods are
operators, so the first facts are about operators: what `WriteAll`,
`FlushContiguous`, `FlushRemaining` and `TryAdvance` leave in `out` and in the
buffers (part I of `ValidateCmd_proofs`). The loop of `tryAdvance` is a recursive
function over the sources that are left, and what it does to any number of them
follows by induction over a set of naturals (below). `Gathered` is the invariant
that `Add` preserves when a result is new: every result is written or waits in
the buffer of its source, and none does both (`NothingLost`); nothing waits
before `currentIdx` and nothing behind it was begun (`Positions`); the current
source is written up to `nextIdx` without a gap (`Progress`); and what is written
is in order, a source-level error in the place of the first gap
(`WrittenInOrder`). The last three except the labels of a set `X`, which is empty
as long as results come. That is so with the empty path too, since the pointer
never passes it. At the final flush it is `{""}` if a cancellation has left slots
unfilled, for each of them flushes the buffer of that label, and empty if not: in
an uncut run every slot is filled, because every sentinel has come
(`EndFillsSlots`). That the result is of a source whose sentinel has not come
is `SentinelsComeLast`, and that it comes once is the engine's bookkeeping.
`ReportInv` (part III) says this of the results the command has
taken from the channel. From it `Conservation` is accounting; `Prompt` is what
`TryAdvance` stops at; `CutReportInOrder` holds because what the final flush
writes comes behind what was written; and in an uncut run the report is a prefix
of `ReportOf`, and all of it when the channel is closed (`DeliversExactlyOnce`). So
the refinement needs no exception for the empty path, nor does the exit code.
The exit code is read off the counters: what makes it 1 was counted, hence is in
the report.

**Loader.** `LoaderInv` has: only the entry in the cache is ever run
(`EntryInv`); who uses an entry uses the cache's, who loads is alone, who reads
has waited (`UseInv`); a call is past locations known to hold nothing
(`PassedInv`); a fetched location has an entry that is not fresh (`FetchInv`);
every compiled outcome is what compiling the URI's one resource yields
(`CompileInv`). The refinement takes one case per action: `Publish` is the
abstract `Learn`, an action that returns is `Say`, the others stutter
(`FactsKept`).

**Scanner.** The invariant of the walk is that the state is the one the files
walked so far determine: which directories have which configurations, which
files are patches, which are counted. From there on `ClassifiedByReachability`
is an argument about closures: what is marked lies in *every* set of directories
that holds the roots and is closed under references, hence in the least; and when
the queue is empty what was visited is itself closed. The order of the queue
appears nowhere.

**Walk.** From below. `FlattenSeq` is the loop that appends one part after the
other (`BeforeStep`), so a cursor over paths, entries or events stands for a
number of sources or events (`PathsTo`, `EntriesTo`, `EventsTo`). The scanner's
lemma (`ScanStep`) is about any buffer that shows the stream from the beginning
of a document to anywhere, or to the end once that is reached: the next token, if
there is one, is the next document or the comments between two, its end is again
the beginning of a document, and no token at the end of the stream means that
nothing is left but what the finding below loses. The state of a chunked read is
therefore only *where the buffer begins* (`Scanning`), and how it came to be does
not matter. For a directory, `pruned` is exactly the set of directories whose
contents `Hides` hides (`Hiding`, `HiddenIs`), because a directory comes before
what it holds. `WalkInv` then says at every `pc` which events have been emitted: all
of the first `nextIndex` sources between two of them, and those up to the
`docs`-th document within one; `Emits` carries it over an emission. A build adds
`RenderInv`: no schema but the kustomization's own is there to render with.

**Builds.** Inside a build the mutex is held, outside it is free and the global
schemas are empty; each way out of a build, a panic included, passes `Unwind`.

**Documents.** `DocumentsInv` says what each way has computed when it has: the
verdict of `validate`, and the verdict on the document that `build` printed. The
argument is then about operators. `RenderedDocument` says that what `build` prints
decodes as the document did and has the body that `validate` would have
substituted, and `JudgeIgnoresSubstitution` that no later check looks at
`--envsubst`, which is off behind the pipe. `JudgeBySchema` is only known to be a
function of the body: the two ways agree whatever the schema says.

**Skipped paths.** A recursive function in TLA+ is a choice, so the first thing to
prove is that there is one: what a node comes to is determined by the nodes below
it (`Recursion`, once for all), hence the equations `FailuresRecur`,
`AmbiguousRecur`, `SatisfiedRecur` and `BelowRecur`. Everything else is by
induction over the nodes, for all paths at once. Without `not` and `if` a node
that *matches* (nothing kept) and a node that is *satisfied* differ in `oneOf`
alone: pruning looks for one alternative without errors first, then for one
without kept errors (`NothingKept`). Where no `oneOf` lies below they are the
same (`WithoutOneOfExact`); where none lies inside another, what is satisfied
matches (`SatisfiedMatches`). So the alternatives that a `oneOf` wrongly leaves
out of its count are the ambiguous ones, and the second pass finds those:
what matches and is not ambiguous is satisfied (`UnambiguousIsSatisfied`). The
hypothesis about three `oneOf`s is where that induction needs `SatisfiedMatches`
for the alternatives; it was found missing by the proof, and TLC then found the
schema. The second pass only runs if some named path is absent
(`hasSkippedAbsentPath`); otherwise nothing is pruned (`PresentKept`) and nothing
could have been ambiguous (`PresentUnambiguous`).

**Extraction.** `CatalogInv` has five parts. `FilesInv` says of every single file,
at every moment, that it is sound: a schema stands at the path of the kind it
says; an alias points to a schema of its group and version that is on disk; a
reference lists kinds that were written. This is what the order of the writes
buys: the alias comes after its schema, and the metadata is computed from what
was `kept`, the schemas whose write succeeded, and not from what was extracted.
Later writes do not hurt it, since a schema is only ever replaced by a schema of
the same kind, and an alias never lies on a schema (`NamesApart`).
`SoundNeverDangles` goes from files to lookups: two reads, the name and what it
leads to, whatever is found elsewhere. `InputsInv` says which inputs were read.
`CleanInv` holds while nothing has failed: every schema of an input that was read
is on disk and, once the metadata is computed, each of its names is a reference
that is written or still to be written. At the last step nothing is left to
write, hence `CleanExitIsComplete`. `ReachedInv` drops the condition that
nothing failed and claims less, the schemas whose own path can be written, hence
`EverySchemaIsWritten`.

Induction. The induction theorems of the library take an operator as a parameter,
which the provers cannot instantiate. Induction over naturals is done with a
*set* instead: of those for which the claim fails, the least
(`NatInductive`, from the well-foundedness of `<`) contradicts the step. What is
recursive in a module that is proved about is a recursive function over naturals
(`FlushEach`, `Separates`, `FlattenSeq`, and those of `SkipAbsent` over the nodes
of a schema, which is why its schemas are sequences).

Only model-checked:

* liveness (`Termination`, `CmdTerminates`, `EveryCallReturns`, `ScanEnds`,
  `WalkEnds`), which with `ENABLED` is out of the prover's reach;
* of `catalog`, `SchemasServe`, `EveryKindIsExtracted`, `NamesFind`,
  `CompletionFindsNames`, `CompletedFieldsExplain` and `IndexedFieldsExplain`. Of
  `EveryKindIsExtracted` the half that is the command's is
  `FailuresStayTheirOwn`; the other is that the extractors skip nothing.

The last are about what recursive operators over trees compute for every
tree. `Transformers`, `Fields`, `Extractor`, `Explain` and
`Catalog` declare `RECURSIVE` operators, and in such a module, and in those that
extend it, `tlapm` has no SMT solver; and the induction would be over data.

## Not modelled

* The Kubernetes libraries behind the evaluators, what krusty renders, the HTTP
  client (its retries included) and the JSON Schema compiler beyond its table of
  resources. In particular a `$ref` from one schema file to another is resolved
  inside the compiler, in one step of `Compile`.
* Of kustomize: `originPath`, and a generator that takes the root kustomization
  file itself as content, which would see the `buildMetadata` that was injected.
* Writers, wording, flags and help, the report envelope, and the configuration
  file: sequential assignments, each guarded by whether a flag was given.
* Of `extract`: the download of a swagger document or OpenAPI (an input is
  readable or not), templates other than the default one, source headers,
  deprecation warnings. The parsing of an OpenShift definition's key is data.
* Of `explain`: how a schema or a line of the index is worded and wrapped,
  `openapiv2` output.
* Of `build`: the provenance header and the arguments from standard input.
* Expressions of the substitution and the dotenv parser.
* `ValidateBytes`, a loop over `validateDoc` with no state of its own.
* Symbolic links, line counts and the patterns of `--skip-file` in the scanner:
  a tree holds the files the walk visits.
* The shell action around the binary, and `tools/schema-gen`, which prints schemas
  of Go types at build time.

## The plan

The modules were written from the core outwards: engine, command, loader, then
scanner, walk and document pipeline, then builds, then extraction and
explanation. What would come next:

1. `SourceWalk` as the producer of `ValidateSources`: the events of the walk
   implement the engine's `EmitDoc` and `EmitFinal`, so that `Inputs` is derived
   from a command line.
2. The provenance header of `build` and the arguments of standard input.
3. `NamesFind` for references that name their group, version and kind, which
   `Lookup` alone answers, as a theorem from `CatalogInv`.

## Findings

* `cmd_shared_label`: `docs/report.md:37` promises one entry per validated
  document. The collector keys its buffers by the label of a source, so when a
  file is named twice (or by its path and by its directory) two sources share a
  buffer: a result replaces a pending one, or lies behind `nextIdx`, and is
  counted and never shown. All other `cmd_*` runs take distinct labels.
* `source_walk_last_document`: `yamldoc.go:37` says that `Split` reads every
  document. A stream that ends in a separator line with something after the
  dashes (`--- `, `--- # end`) and no newline is never split there, and at its
  end the rest, with the document above that line, is dropped without an error.
* `catalog_plural`: `docs/explain.md:161` says that completion returns
  `plural.group`, or `plural` for core resources, and `kubernetes.go:22-24` that
  output is stable across runs. The plural of a kind is taken from whichever path
  comes first in a Go map (`kubernetes.go:116`), and from a path like
  `/api/v1/watch/nodes` it is `watch`: completion, references and alias files of
  one input differ from run to run.

Seen while modelling, without a run of their own; no property covers these cases:

* The path `""` becomes a source labelled `""`, because `os.Stat` fails
  (`source.go:93-96`). `tryAdvance` takes that for a slot not filled in yet
  (`validate.go:269`) and never passes it: what is behind it is written only when
  the channel is closed, while `validate.go:146-148` says that all sources stream.
  And under `--fail-fast` a slot that stayed empty, because a cancellation dropped
  everything of its source, makes `flushRemainingSources` flush the buffer of
  `""` there (`validate.go:288`), which may be before results of earlier sources;
  `docs/report.md:37` promises source order. The runs have such inputs; `Prompt`
  leaves out the pointer at that source, and `CutReportInOrder` the place of its
  error.
* `docs/repo-discovery.md:103-105` says that an overlay reached from a
  kustomization file of an overlay is a base, and excepts what unused components
  refer to themselves, and cycles. An overlay that only an unused component, or a
  cycle, refers to is no starting point of `markKustomizeBases`
  (`scanner.go:463`), and the overlays that it refers to stay overlays.
  `ClassifiedByReachability` leaves these out (`Disputed`).
* `docs/custom-schema-catalog.md:203-223` describes one set of passes for all
  `extract` commands. That of `extract crd` (`crd.go:131-132`) neither closes the
  root of a schema, nor lets optional fields be null, nor requires `apiVersion`
  and `kind`. `SchemasServe` is checked with samples of custom resources to which
  both give the same answer.
* Under `--api-version` completion takes every segment after the resource for a
  part of it (`explain.go:449`), so that a path of two fields completes against
  the root again; `docs/explain.md:89-90` reads them as fields.
  `CompletedFieldsExplain` leaves `--api-version` out.
* With three `oneOf`s one in the other, `--skip-json-path-if-absent` can let a
  document pass that satisfies two alternatives of the outermost. The innermost
  is ambiguous once a field is forgiven, but that is searched for later: it still
  counts as a match of the second, which then has two and fails
  (`validator.go:944`) although one of them should not count. The outermost is
  left with one match, and the search follows only that.
* A second `extract` into one directory replaces the references and shards of
  the names it shares with the first, and the kinds of the first are then found
  by guessing or not at all.
* A name whose second character is not a letter or digit cannot be completed
  from a prefix of two.
