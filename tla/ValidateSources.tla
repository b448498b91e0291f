--------------------------- MODULE ValidateSources ---------------------------
(***************************************************************************)
(* The concurrent engine behind `flux-schema validate`:                    *)
(* Validator.ValidateSources (internal/validator/validator.go) driven by   *)
(* the synchronous walk of the source reader (internal/source/source.go).  *)
(*                                                                         *)
(* One producer goroutine walks the sources, registers every document with *)
(* the WaitGroup of its source and sends it to the bounded channel `jobs`. *)
(* Workers validate and push to the bounded channel `results`. One waiter  *)
(* goroutine per finished source waits for the WaitGroup of the source and *)
(* then pushes a Final sentinel. Who reads `results` is left to the        *)
(* modules that extend this one (ValidateStream, ValidateCmd).             *)
(*                                                                         *)
(* What a document is and what the validation pipeline says of it is data  *)
(* here: a source is a label and a sequence of items, an item is a         *)
(* DocIndex, the status that runJob gives it ("none" when validateDoc asks *)
(* for no result, emit=false) and whether its validation downloads a       *)
(* schema, which it does under the context of the walk. Go indexes sources *)
(* and slices from 0, this module from 1.                                  *)
(***************************************************************************)
EXTENDS Naturals, Sequences, FiniteSets

CONSTANTS
  Worker,       \* the pool, one element per goroutine (opts.Workers of them)
  Label,        \* what Source names: a file path, a directory or "stdin"
  Inputs        \* the lists of sources a walk may discover

Status == {"valid", "invalid", "skipped"}
Item == [doc : Nat, status : Status \cup {"none"}, loads : BOOLEAN]
SourceRec == [label : Label, items : Seq(Item)]

ASSUME WorkerAssumption == IsFiniteSet(Worker) /\ Worker # {}
ASSUME InputsAssumption == Inputs \subseteq Seq(SourceRec)

\* The reader numbers the documents of a source from one, and gives its error,
\* if there is one, the number 0.
ASSUME DocsAssumption ==
  \A i \in Inputs : \A s \in DOMAIN i : \A k, m \in DOMAIN i[s].items :
    i[s].items[k].doc = i[s].items[m].doc => k = m

\* make(chan Result, Workers*2), make(chan job, Workers*2)
ChanCap == 2 * Cardinality(Worker)

VARIABLES
  sources,        \* what this walk discovers, chosen once
  ctxDone,        \* the context has been cancelled
  jobs,           \* channel of jobs <<source, item>>
  jobsClosed,
  results,        \* channel of results and sentinels
  resultsClosed,
  prod,           \* program counter of the producer goroutine
  cur, pos,       \* the walk's cursor: source, and item in it
  open,           \* the producer's `state` is not nil
  worker,         \* program counter of each worker
  held,           \* the job each worker is running
  wg,             \* WaitGroup counter of each source
  waiter          \* program counter of the waiter of each source

walkVars  == <<prod, cur, pos, open>>
poolVars  == <<worker, held>>
chanVars  == <<jobs, jobsClosed, results, resultsClosed>>
engineVars == <<sources, ctxDone, jobs, jobsClosed, results, resultsClosed, prod,
                cur, pos, open, worker, held, wg, waiter>>

\* A job is named by its place in the input, so no two jobs are equal.
NoJob == <<0, 0>>
ItemOf(j) == sources[j[1]].items[j[2]]

\* validateDoc: a download that the context cancels is a schema load error,
\* and the document is called invalid whatever it holds.
Verdicts(j) ==
  {ItemOf(j).status} \cup (IF ctxDone /\ ItemOf(j).loads THEN {"invalid"} ELSE {})

\* runJob: Source, SourceIndex and DocIndex come from the job.
ResultOf(j, st) == [src |-> j[1], label |-> sources[j[1]].label,
                    doc |-> ItemOf(j).doc, status |-> st, final |-> FALSE]

\* The sentinel carries no status; "none" stands for Go's zero Status.
FinalOf(s) == [src |-> s, label |-> sources[s].label,
               doc |-> 0, status |-> "none", final |-> TRUE]

ResultRec == [src : Nat, label : Label, doc : Nat,
              status : Status \cup {"none"}, final : BOOLEAN]

EngineInit ==
  /\ sources \in Inputs
  /\ ctxDone = FALSE
  /\ jobs = <<>> /\ jobsClosed = FALSE
  /\ results = <<>> /\ resultsClosed = FALSE
  /\ prod = "walk" /\ cur = 1 /\ pos = 1 /\ open = FALSE
  /\ worker = [w \in Worker |-> "idle"]
  /\ held = [w \in Worker |-> NoJob]
  /\ wg = [s \in DOMAIN sources |-> 0]
  /\ waiter = [s \in DOMAIN sources |-> "none"]

-----------------------------------------------------------------------------
(* The producer goroutine: Walk's callback, then the shutdown sequence.     *)

\* Fault: send does not look at the context.
EmitDocAfterCancel ==
  /\ prod = "walk"
  /\ cur \in DOMAIN sources /\ pos \in DOMAIN sources[cur].items
  /\ open' = TRUE
  /\ wg' = [wg EXCEPT ![cur] = @ + 1]
  /\ prod' = "enqueue"
  /\ UNCHANGED <<sources, ctxDone, cur, pos, waiter>>
  /\ UNCHANGED <<poolVars, chanVars>>

\* input.send checks the context, then emits; enqueueJob registers the job
\* (Add(1)) before it tries to send it.
EmitDoc ==
  /\ prod = "walk" /\ ~ctxDone
  /\ cur \in DOMAIN sources /\ pos \in DOMAIN sources[cur].items
  /\ open' = TRUE
  /\ wg' = [wg EXCEPT ![cur] = @ + 1]
  /\ prod' = "enqueue"
  /\ UNCHANGED <<sources, ctxDone, cur, pos, waiter>>
  /\ UNCHANGED <<poolVars, chanVars>>

\* enqueueJob: the send wins the select.
SendJob ==
  /\ prod = "enqueue" /\ Len(jobs) < ChanCap
  /\ jobs' = Append(jobs, <<cur, pos>>)
  /\ pos' = pos + 1
  /\ prod' = "walk"
  /\ UNCHANGED <<sources, ctxDone, jobsClosed, results, resultsClosed, cur, open,
                 wg, waiter, poolVars>>

\* Fault: the registration of the abandoned job stays.
AbandonRegistered ==
  /\ prod = "enqueue" /\ ctxDone
  /\ pos' = pos + 1
  /\ prod' = "walk"
  /\ UNCHANGED <<sources, ctxDone, cur, open, wg, waiter>>
  /\ UNCHANGED <<poolVars, chanVars>>

\* Fault: a Done in the select on top of a deferred one.
AbandonTwice ==
  /\ prod = "enqueue" /\ ctxDone
  /\ wg' = [wg EXCEPT ![cur] = @ - 2]
  /\ pos' = pos + 1
  /\ prod' = "walk"
  /\ UNCHANGED <<sources, ctxDone, cur, open, waiter>>
  /\ UNCHANGED <<poolVars, chanVars>>

\* enqueueJob: ctx.Done wins, the registration is undone.
AbandonJob ==
  /\ prod = "enqueue" /\ ctxDone
  /\ wg' = [wg EXCEPT ![cur] = @ - 1]
  /\ pos' = pos + 1
  /\ prod' = "walk"
  /\ UNCHANGED <<sources, ctxDone, cur, open, waiter>>
  /\ UNCHANGED <<poolVars, chanVars>>

\* input.finish: the Final event makes the callback spawn the waiter.
EmitFinal ==
  /\ prod = "walk" /\ ~ctxDone
  /\ cur \in DOMAIN sources /\ pos \notin DOMAIN sources[cur].items
  /\ waiter' = [waiter EXCEPT ![cur] = "wait"]
  /\ open' = FALSE
  /\ cur' = cur + 1
  /\ pos' = 1
  /\ UNCHANGED <<sources, ctxDone, prod, wg>>
  /\ UNCHANGED <<poolVars, chanVars>>

\* Walk returns, at the end of the paths or because the context is done; a
\* source whose Final event was suppressed gets its waiter here.
WalkReturns ==
  /\ prod = "walk"
  /\ cur \notin DOMAIN sources \/ ctxDone
  /\ waiter' = IF open THEN [waiter EXCEPT ![cur] = "wait"] ELSE waiter
  /\ open' = FALSE
  /\ prod' = "close"
  /\ UNCHANGED <<sources, ctxDone, cur, pos, wg>>
  /\ UNCHANGED <<poolVars, chanVars>>

CloseJobs ==
  /\ prod = "close"
  /\ jobsClosed' = TRUE
  /\ prod' = "join"
  /\ UNCHANGED <<sources, ctxDone, jobs, results, resultsClosed, cur, pos, open,
                 wg, waiter, poolVars>>

\* Fault: no drain after the workers have left.
JoinWithoutDrain ==
  /\ prod = "join"
  /\ \A w \in Worker : worker[w] = "exit"
  /\ prod' = "joinWaiters"
  /\ UNCHANGED <<sources, ctxDone, cur, pos, open, wg, waiter>>
  /\ UNCHANGED <<poolVars, chanVars>>

\* workerWG.Wait()
JoinWorkers ==
  /\ prod = "join"
  /\ \A w \in Worker : worker[w] = "exit"
  /\ prod' = "drain"
  /\ UNCHANGED <<sources, ctxDone, cur, pos, open, wg, waiter>>
  /\ UNCHANGED <<poolVars, chanVars>>

\* One iteration of `for j := range jobs { j.sourceWG.Done() }`.
DrainJob ==
  /\ prod = "drain" /\ jobs # <<>>
  /\ wg' = [wg EXCEPT ![Head(jobs)[1]] = @ - 1]
  /\ jobs' = Tail(jobs)
  /\ UNCHANGED <<sources, ctxDone, jobsClosed, results, resultsClosed, waiter,
                 walkVars, poolVars>>

\* The channel is closed and empty: the drain loop ends.
DrainEnd ==
  /\ prod = "drain" /\ jobs = <<>>
  /\ prod' = "joinWaiters"
  /\ UNCHANGED <<sources, ctxDone, cur, pos, open, wg, waiter>>
  /\ UNCHANGED <<poolVars, chanVars>>

\* Fault: results are closed without waiterWG.Wait().
CloseResultsEarly ==
  /\ prod = "joinWaiters"
  /\ resultsClosed' = TRUE
  /\ prod' = "done"
  /\ UNCHANGED <<sources, ctxDone, jobs, jobsClosed, results, cur, pos, open, wg,
                 waiter, poolVars>>

\* waiterWG.Wait(); close(results)
CloseResults ==
  /\ prod = "joinWaiters"
  /\ \A s \in DOMAIN sources : waiter[s] \in {"none", "done"}
  /\ resultsClosed' = TRUE
  /\ prod' = "done"
  /\ UNCHANGED <<sources, ctxDone, jobs, jobsClosed, results, cur, pos, open, wg,
                 waiter, poolVars>>

-----------------------------------------------------------------------------
(* A worker goroutine.                                                      *)

TakeJob(w) ==
  /\ worker[w] = "idle" /\ jobs # <<>>
  /\ held' = [held EXCEPT ![w] = Head(jobs)]
  /\ jobs' = Tail(jobs)
  /\ worker' = [worker EXCEPT ![w] = "run"]
  /\ UNCHANGED <<sources, ctxDone, jobsClosed, results, resultsClosed, wg, waiter,
                 walkVars>>

\* Fault: a worker leaves as soon as jobs is closed, queued jobs or not.
WorkerReturnsEarly(w) ==
  /\ worker[w] = "idle"
  /\ ctxDone \/ jobsClosed
  /\ worker' = [worker EXCEPT ![w] = "exit"]
  /\ UNCHANGED <<sources, ctxDone, wg, waiter, held>>
  /\ UNCHANGED <<walkVars, chanVars>>

\* The select returns on ctx.Done, even when a job is ready, or on a closed
\* and empty channel.
WorkerReturns(w) ==
  /\ worker[w] = "idle"
  /\ ctxDone \/ (jobsClosed /\ jobs = <<>>)
  /\ worker' = [worker EXCEPT ![w] = "exit"]
  /\ UNCHANGED <<sources, ctxDone, wg, waiter, held>>
  /\ UNCHANGED <<walkVars, chanVars>>

\* runJob: the send of the result wins the select.
PushResult(w) ==
  /\ worker[w] = "run"
  /\ ItemOf(held[w]).status # "none"
  /\ Len(results) < ChanCap
  /\ \E st \in Verdicts(held[w]) :
       results' = Append(results, ResultOf(held[w], st))
  /\ worker' = [worker EXCEPT ![w] = "finish"]
  /\ UNCHANGED <<sources, ctxDone, jobs, jobsClosed, resultsClosed, wg, waiter,
                 held, walkVars>>

\* runJob: emit is false, or ctx.Done wins the select.
DropResult(w) ==
  /\ worker[w] = "run"
  /\ ItemOf(held[w]).status = "none" \/ ctxDone
  /\ worker' = [worker EXCEPT ![w] = "finish"]
  /\ UNCHANGED <<sources, ctxDone, wg, waiter, held>>
  /\ UNCHANGED <<walkVars, chanVars>>

\* runJob's deferred j.sourceWG.Done().
FinishJob(w) ==
  /\ worker[w] = "finish"
  /\ wg' = [wg EXCEPT ![held[w][1]] = @ - 1]
  /\ worker' = [worker EXCEPT ![w] = "idle"]
  /\ held' = [held EXCEPT ![w] = NoJob]
  /\ UNCHANGED <<sources, ctxDone, waiter>>
  /\ UNCHANGED <<walkVars, chanVars>>

-----------------------------------------------------------------------------
(* The waiter goroutine of a source.                                        *)

\* Fault: the waiter does not wait.
WaitReturnsEarly(s) ==
  /\ waiter[s] = "wait"
  /\ waiter' = [waiter EXCEPT ![s] = "send"]
  /\ UNCHANGED <<sources, ctxDone, wg>>
  /\ UNCHANGED <<walkVars, poolVars, chanVars>>

\* wg.Wait() returns at a zero counter.
WaitReturns(s) ==
  /\ waiter[s] = "wait" /\ wg[s] = 0
  /\ waiter' = [waiter EXCEPT ![s] = "send"]
  /\ UNCHANGED <<sources, ctxDone, wg>>
  /\ UNCHANGED <<walkVars, poolVars, chanVars>>

PushFinal(s) ==
  /\ waiter[s] = "send" /\ Len(results) < ChanCap
  /\ results' = Append(results, FinalOf(s))
  /\ waiter' = [waiter EXCEPT ![s] = "done"]
  /\ UNCHANGED <<sources, ctxDone, jobs, jobsClosed, resultsClosed, wg,
                 walkVars, poolVars>>

DropFinal(s) ==
  /\ waiter[s] = "send" /\ ctxDone
  /\ waiter' = [waiter EXCEPT ![s] = "done"]
  /\ UNCHANGED <<sources, ctxDone, wg>>
  /\ UNCHANGED <<walkVars, poolVars, chanVars>>

-----------------------------------------------------------------------------
(* The two ways the reader of the channel acts on the engine.              *)

\* The reader receives r.
Deliver(r) ==
  /\ results # <<>>
  /\ r = Head(results)
  /\ results' = Tail(results)
  /\ UNCHANGED <<sources, ctxDone, jobs, jobsClosed, resultsClosed, wg, waiter,
                 walkVars, poolVars>>

\* The receive that ends `for r := range results`.
StreamEnds == resultsClosed /\ results = <<>>

\* cancel(): cancelling twice is a no-op, so only the first matters.
CancelCtx ==
  /\ ~ctxDone
  /\ ctxDone' = TRUE
  /\ UNCHANGED <<sources, wg, waiter>>
  /\ UNCHANGED <<walkVars, poolVars, chanVars>>

-----------------------------------------------------------------------------
Producer ==
  \/ EmitDoc \/ SendJob \/ AbandonJob \/ EmitFinal \/ WalkReturns
  \/ CloseJobs \/ JoinWorkers \/ DrainJob \/ DrainEnd \/ CloseResults

WorkerStep(w) ==
  \/ TakeJob(w) \/ WorkerReturns(w) \/ PushResult(w) \/ DropResult(w) \/ FinishJob(w)

WaiterStep(s) == WaitReturns(s) \/ PushFinal(s) \/ DropFinal(s)

Engine ==
  \/ Producer
  \/ \E w \in Worker : WorkerStep(w)
  \/ \E s \in DOMAIN sources : WaiterStep(s)

-----------------------------------------------------------------------------
(* Properties of the engine, whoever reads it.                             *)

(***************************************************************************)
(* Type correctness: channels within their capacity, cursors within the    *)
(* walk, and no WaitGroup counter below zero (Go panics on one).           *)
(***************************************************************************)
TypeOK ==
  /\ sources \in Inputs
  /\ ctxDone \in BOOLEAN /\ jobsClosed \in BOOLEAN /\ resultsClosed \in BOOLEAN
  /\ open \in BOOLEAN
  /\ jobs \in Seq(Nat \X Nat) /\ Len(jobs) <= ChanCap
  /\ results \in Seq(ResultRec) /\ Len(results) <= ChanCap
  /\ prod \in {"walk", "enqueue", "close", "join", "drain", "joinWaiters", "done"}
  /\ cur \in Nat \ {0} /\ pos \in Nat \ {0}
  /\ worker \in [Worker -> {"idle", "run", "finish", "exit"}]
  /\ held \in [Worker -> Nat \X Nat]
  /\ wg \in [DOMAIN sources -> Nat]
  /\ waiter \in [DOMAIN sources -> {"none", "wait", "send", "done"}]

\* The jobs registered with a WaitGroup and not yet Done: in the producer's
\* hand, in the channel or with a worker.
Offered == IF prod = "enqueue" THEN {<<cur, pos>>} ELSE {}
Queued == {jobs[k] : k \in DOMAIN jobs}
Busy == {w \in Worker : worker[w] \in {"run", "finish"}}
Running == {held[w] : w \in Busy}
InFlight == Offered \cup Queued \cup Running
InFlightOf(s) == {j \in InFlight : j[1] = s}

(***************************************************************************)
(* Add and Done balance on every path, the abandoned send and the drained  *)
(* jobs included: the counter of a source is the number of its documents   *)
(* in flight. A counter too high blocks the waiter and the channel is      *)
(* never closed; one too low lets a sentinel overtake a result.            *)
(***************************************************************************)
WaitGroupBalance ==
  \A s \in DOMAIN sources : wg[s] = Cardinality(InFlightOf(s))

(***************************************************************************)
(* Nobody can reach a send on a closed channel, which panics: once jobs is *)
(* closed the producer sends no job, once results is closed no worker and  *)
(* no waiter holds something to send.                                      *)
(***************************************************************************)
NoSendOnClosed ==
  /\ jobsClosed => prod \notin {"walk", "enqueue"}
  /\ resultsClosed => /\ \A w \in Worker : worker[w] = "exit"
                      /\ \A s \in DOMAIN sources : waiter[s] \in {"none", "done"}

=============================================================================
