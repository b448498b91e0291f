------------------------ MODULE ValidateSources_proofs ------------------------
(***************************************************************************)
(* The inductive invariant of the validation engine. It is stated and      *)
(* proved over the engine's variables only, for every pool, every input    *)
(* and every reader of the results channel: the modules that compose the   *)
(* engine with a reader cite EngineInvInit and EngineInvStep.              *)
(***************************************************************************)
EXTENDS ValidateSources, TLAPS, FiniteSetTheorems, SequenceTheorems

-----------------------------------------------------------------------------
(* The invariant.                                                           *)

SetOf(q) == {q[k] : k \in DOMAIN q}
NoRepeat(q) == \A k, m \in DOMAIN q : q[k] = q[m] => k = m

\* The walk has passed item j[2] of source j[1].
Walked(j) ==
  /\ j[1] \in DOMAIN sources
  /\ j[2] \in DOMAIN sources[j[1]].items
  /\ j[1] < cur \/ (j[1] = cur /\ j[2] < pos)

Walking == prod \in {"walk", "enqueue"}

\* The job in the producer's hand is an item of the source it has open.
CursorInv ==
  /\ prod = "enqueue" => cur \in DOMAIN sources /\ pos \in DOMAIN sources[cur].items
  /\ open => cur \in DOMAIN sources

\* A walked job is in at most one place.
PlacedInv ==
  /\ \A j \in Queued \cup Running : Walked(j)
  /\ NoRepeat(jobs)
  /\ \A w, x \in Busy : held[w] = held[x] => w = x
  /\ Queued \cap Running = {}

CountInv == IsFiniteSet(InFlight) /\ WaitGroupBalance

\* A waiter is spawned when the walk is done with its source, and gets past
\* Wait only when no job of the source is in flight any more.
WaiterInv ==
  \A s \in DOMAIN sources :
    /\ waiter[s] # "none" => s < cur \/ (s = cur /\ ~Walking)
    /\ waiter[s] \in {"send", "done"} => InFlightOf(s) = {}

ShutdownInv ==
  /\ jobsClosed => ~Walking /\ prod # "close"
  /\ prod \in {"drain", "joinWaiters", "done"} => \A w \in Worker : worker[w] = "exit"
  /\ prod = "done" => \A s \in DOMAIN sources : waiter[s] \in {"none", "done"}
  /\ resultsClosed => prod = "done"

EngineInv ==
  TypeOK /\ CursorInv /\ PlacedInv /\ CountInv /\ WaiterInv /\ ShutdownInv

\* Everything a reader of the channel may do to the engine.
ReaderStep == (\E r \in ResultRec : Deliver(r)) \/ CancelCtx

-----------------------------------------------------------------------------
(* Lemmas about sequences and counting.                                     *)

\* Appending a new element adds it to what a sequence holds, and makes no
\* repetition.
LEMMA RangeAppend ==
  ASSUME NEW T, NEW q \in Seq(T), NEW e \in T, NEW p, p = Append(q, e)
  PROVE  /\ SetOf(p) = SetOf(q) \cup {e}
         /\ e \notin SetOf(q) /\ NoRepeat(q) => NoRepeat(p)
<1>1. DOMAIN q = 1 .. Len(q) /\ DOMAIN p = 1 .. Len(q) + 1 /\ Len(q) \in Nat
  BY AppendProperties, LenProperties
<1>2. \A k \in 1 .. Len(q) : p[k] = q[k]
  BY AppendProperties
<1>3. p[Len(q) + 1] = e
  BY AppendProperties
<1>4. 1 .. Len(q) + 1 = (1 .. Len(q)) \cup {Len(q) + 1}
  BY <1>1
<1>5. ASSUME NEW k \in DOMAIN p
      PROVE  p[k] \in SetOf(q) \cup {e}
  BY <1>1, <1>2, <1>3, <1>4 DEF SetOf
<1>6. ASSUME NEW m \in DOMAIN q
      PROVE  m \in DOMAIN p /\ p[m] = q[m]
  BY <1>1, <1>2, <1>4
<1>7. Len(q) + 1 \in DOMAIN p
  BY <1>1, <1>4
<1>8. SetOf(p) = SetOf(q) \cup {e}
  BY <1>3, <1>5, <1>6, <1>7 DEF SetOf
<1>9. ASSUME e \notin SetOf(q), NoRepeat(q),
             NEW k \in DOMAIN p, NEW m \in DOMAIN p, p[k] = p[m]
      PROVE  k = m
  <2>1. \A i \in DOMAIN p : i \in DOMAIN q \/ i = Len(q) + 1
    BY <1>1, <1>4
  <2>2. \A i \in DOMAIN q : p[i] # e
    BY <1>6, <1>9 DEF SetOf
  <2> QED BY <1>3, <1>6, <1>9, <2>1, <2>2 DEF NoRepeat
<1> QED BY <1>8, <1>9 DEF NoRepeat

\* Taking the head of a sequence without repetition removes that element
\* from what it holds, and leaves no repetition.
LEMMA RangeTail ==
  ASSUME NEW T, NEW q \in Seq(T), q # <<>>, NoRepeat(q), NEW p, p = Tail(q)
  PROVE  Head(q) \in SetOf(q) /\ SetOf(p) = SetOf(q) \ {Head(q)} /\ NoRepeat(p)
<1>1. /\ DOMAIN q = 1 .. Len(q) /\ Len(q) \in Nat \ {0}
      /\ DOMAIN p = 1 .. Len(q) - 1
      /\ \A k \in 1 .. Len(q) - 1 : p[k] = q[k + 1]
      /\ Head(q) = q[1]
  BY HeadTailProperties, LenProperties, EmptySeq
<1>2. \A k \in 2 .. Len(q) : \E m \in 1 .. Len(q) - 1 : k = m + 1
  <2> TAKE k \in 2 .. Len(q)
  <2> WITNESS k - 1 \in 1 .. Len(q) - 1
  <2> QED BY <1>1
<1>3. Head(q) \in SetOf(q)
  BY <1>1 DEF SetOf
<1>4. \A k \in DOMAIN q : q[k] = Head(q) <=> k = 1
  BY <1>1 DEF NoRepeat
<1>5. ASSUME NEW k \in DOMAIN p
      PROVE  p[k] \in SetOf(q) \ {Head(q)}
  <2>1. k + 1 \in DOMAIN q /\ k + 1 # 1 /\ p[k] = q[k + 1]
    BY <1>1
  <2> QED BY <1>4, <2>1 DEF SetOf
<1>6. ASSUME NEW m \in DOMAIN q, q[m] # Head(q)
      PROVE  q[m] \in SetOf(p)
  <2>1. m \in 2 .. Len(q)
    BY <1>1, <1>4, <1>6
  <2>2. PICK k \in 1 .. Len(q) - 1 : m = k + 1
    BY <1>2, <2>1
  <2>3. k \in DOMAIN p /\ p[k] = q[m]
    BY <1>1, <2>2
  <2> QED BY <2>3 DEF SetOf
<1>7. SetOf(p) = SetOf(q) \ {Head(q)}
  BY <1>5, <1>6 DEF SetOf
<1>8. NoRepeat(p)
  BY <1>1 DEF NoRepeat
<1> QED BY <1>3, <1>7, <1>8

\* The jobs of F that belong to source s.
OfSource(F, s) == {x \in F : x[1] = s}

\* One job more counts for its own source and for no other.
LEMMA CountAdd ==
  ASSUME NEW F, IsFiniteSet(F), NEW j, j \notin F, NEW s
  PROVE  Cardinality(OfSource(F \cup {j}, s)) =
           IF s = j[1] THEN Cardinality(OfSource(F, s)) + 1 ELSE Cardinality(OfSource(F, s))
<1>1. IsFiniteSet(OfSource(F, s)) /\ j \notin OfSource(F, s)
  BY FS_Subset DEF OfSource
<1>2. CASE s = j[1]
  <2>1. OfSource(F \cup {j}, s) = OfSource(F, s) \cup {j}
    BY <1>2 DEF OfSource
  <2>2. Cardinality(OfSource(F, s) \cup {j}) = Cardinality(OfSource(F, s)) + 1
    BY <1>1, FS_AddElement
  <2> QED BY <1>2, <2>1, <2>2
<1>3. CASE s # j[1]
  <2>1. OfSource(F \cup {j}, s) = OfSource(F, s)
    BY <1>3 DEF OfSource
  <2> QED BY <1>3, <2>1
<1> QED BY <1>2, <1>3

\* One job less likewise; its source counted at least one.
LEMMA CountRemove ==
  ASSUME NEW F, IsFiniteSet(F), NEW j \in F, NEW s
  PROVE  /\ Cardinality(OfSource(F, s)) \in Nat
         /\ Cardinality(OfSource(F \ {j}, s)) \in Nat
         /\ Cardinality(OfSource(F \ {j}, s)) =
              IF s = j[1] THEN Cardinality(OfSource(F, s)) - 1 ELSE Cardinality(OfSource(F, s))
<1>1. IsFiniteSet(OfSource(F, s)) /\ IsFiniteSet(OfSource(F \ {j}, s))
  BY FS_Subset DEF OfSource
<1>2. Cardinality(OfSource(F, s)) \in Nat /\ Cardinality(OfSource(F \ {j}, s)) \in Nat
  BY <1>1, FS_CardinalityType
<1>3. CASE s = j[1]
  <2>1. OfSource(F \ {j}, s) = OfSource(F, s) \ {j} /\ j \in OfSource(F, s)
    BY <1>3 DEF OfSource
  <2> QED BY <1>1, <1>2, <1>3, <2>1, FS_RemoveElement
<1>4. CASE s # j[1]
  <2>1. OfSource(F \ {j}, s) = OfSource(F, s)
    BY <1>4 DEF OfSource
  <2> QED BY <1>2, <1>4, <2>1
<1> QED BY <1>2, <1>3, <1>4

\* What runJob makes of a walked job is a result of the job's source.
LEMMA ResultType ==
  ASSUME sources \in Inputs, NEW j, Walked(j), j \in Nat \X Nat, NEW st \in Verdicts(j)
  PROVE  /\ ResultOf(j, st) \in ResultRec
         /\ ResultOf(j, st).src = j[1] /\ ~ResultOf(j, st).final
<1>1. sources \in Seq(SourceRec)
  BY InputsAssumption
<1>2. sources[j[1]] \in SourceRec
  BY <1>1, ElementOfSeq, LenProperties DEF Walked
<1>3. sources[j[1]].label \in Label /\ sources[j[1]].items \in Seq(Item)
  BY <1>2 DEF SourceRec
<1>4. ItemOf(j) \in Item
  BY <1>3, ElementOfSeq, LenProperties DEF Walked, ItemOf
<1>5. st \in Status \cup {"none"}
  BY <1>4 DEF Verdicts, Item, Status
<1> QED BY <1>3, <1>4, <1>5 DEF ResultOf, ResultRec, Item

\* A sentinel is a result of its source.
LEMMA FinalType ==
  ASSUME sources \in Inputs, NEW s \in DOMAIN sources
  PROVE  FinalOf(s) \in ResultRec /\ FinalOf(s).src = s /\ FinalOf(s).final
<1>1. sources \in Seq(SourceRec)
  BY InputsAssumption
<1>2. sources[s] \in SourceRec /\ s \in Nat
  BY <1>1, ElementOfSeq, LenProperties
<1> QED BY <1>2 DEF SourceRec, FinalOf, ResultRec

\* Jobs are pairs of numbers, wherever they are.
LEMMA InFlightType ==
  ASSUME TypeOK
  PROVE  InFlight \subseteq Nat \X Nat
<1>1. Offered \subseteq Nat \X Nat
  BY DEF TypeOK, Offered
<1>2. Queued \subseteq Nat \X Nat
  BY ElementOfSeq, LenProperties DEF TypeOK, Queued
<1>3. Running \subseteq Nat \X Nat
  BY DEF TypeOK, Running, Busy
<1> QED BY <1>1, <1>2, <1>3 DEF InFlight

\* The pool is not empty, so the channels hold something.
LEMMA ChanCapType == ChanCap \in Nat \ {0}
<1>1. Cardinality(Worker) \in Nat
  BY WorkerAssumption, FS_CardinalityType
<1>2. Cardinality(Worker) # 0
  BY WorkerAssumption, FS_EmptySet
<1> QED BY <1>1, <1>2 DEF ChanCap

-----------------------------------------------------------------------------
(* The initial state.                                                       *)

LEMMA EngineInvInit == EngineInit => EngineInv
<1> SUFFICES ASSUME EngineInit PROVE EngineInv
  OBVIOUS
<1> USE DEF EngineInit
<1>1. sources \in Seq(SourceRec)
  BY InputsAssumption
<1>2. Queued = {} /\ Running = {} /\ Offered = {} /\ Busy = {}
  BY DEF Queued, Running, Offered, Busy
<1>3. InFlight = {}
  BY <1>2 DEF InFlight
<1>4. TypeOK
  <2>1. jobs \in Seq(Nat \X Nat) /\ results \in Seq(ResultRec)
    BY EmptySeq
  <2>2. Len(jobs) <= ChanCap /\ Len(results) <= ChanCap
    BY ChanCapType
  <2>3. held \in [Worker -> Nat \X Nat]
    BY DEF NoJob
  <2>4. worker \in [Worker -> {"idle", "run", "finish", "exit"}]
    OBVIOUS
  <2>5. wg \in [DOMAIN sources -> Nat]
    OBVIOUS
  <2>6. waiter \in [DOMAIN sources -> {"none", "wait", "send", "done"}]
    OBVIOUS
  <2>7. cur \in Nat \ {0} /\ pos \in Nat \ {0}
    OBVIOUS
  <2> QED BY <2>1, <2>2, <2>3, <2>4, <2>5, <2>6, <2>7 DEF TypeOK
<1>5. CursorInv
  BY DEF CursorInv
<1>6. PlacedInv
  BY <1>2 DEF PlacedInv, NoRepeat
<1>7. CountInv
  <2>1. \A s \in DOMAIN sources : InFlightOf(s) = {}
    BY <1>3 DEF InFlightOf
  <2> QED BY <1>3, <2>1, FS_EmptySet DEF CountInv, WaitGroupBalance
<1>8. WaiterInv /\ ShutdownInv
  BY DEF WaiterInv, ShutdownInv, Walking
<1> QED BY <1>4, <1>5, <1>6, <1>7, <1>8 DEF EngineInv

-----------------------------------------------------------------------------
(* Steps that leave every job where it is.                                  *)

LEMMA JobsStay ==
  ASSUME EngineInv, sources' = sources, wg' = wg, jobs' = jobs, held' = held,
         Busy' = Busy, Offered' = Offered, cur' = cur, pos' = pos
  PROVE  /\ PlacedInv' /\ CountInv'
         /\ \A s : InFlightOf(s)' = InFlightOf(s)
<1>1. Queued' = Queued /\ Running' = Running
  BY DEF Queued, Running
<1>2. InFlight' = InFlight
  BY <1>1 DEF InFlight
<1>3. \A s : InFlightOf(s)' = InFlightOf(s)
  BY <1>2 DEF InFlightOf
<1>4. PlacedInv'
  BY <1>1 DEF EngineInv, PlacedInv, Walked
<1>5. CountInv'
  BY <1>2, <1>3 DEF EngineInv, CountInv, WaitGroupBalance
<1> QED BY <1>3, <1>4, <1>5

\* The producer after the walk, up to the end of its goroutine.
LEMMA ShutdownStep ==
  ASSUME EngineInv,
         WalkReturns \/ CloseJobs \/ JoinWorkers \/ DrainEnd \/ CloseResults
  PROVE  EngineInv'
<1> USE DEF EngineInv
<1>1. /\ sources' = sources /\ wg' = wg /\ jobs' = jobs /\ held' = held
      /\ worker' = worker /\ cur' = cur /\ pos' = pos /\ results' = results
      /\ ctxDone' = ctxDone
      /\ prod # "enqueue" /\ prod' # "enqueue" /\ ~Walking'
      /\ prod' \in {"close", "join", "drain", "joinWaiters", "done"}
  BY DEF WalkReturns, CloseJobs, JoinWorkers, DrainEnd, CloseResults, chanVars,
         poolVars, Walking
<1>2. Busy' = Busy /\ Offered' = Offered
  BY <1>1 DEF Busy, Offered
<1>3. PlacedInv' /\ CountInv' /\ \A s : InFlightOf(s)' = InFlightOf(s)
  BY <1>1, <1>2, JobsStay
<1>4. CASE WalkReturns
  <2>1. waiter' \in [DOMAIN sources -> {"none", "wait", "send", "done"}]
    BY <1>4 DEF WalkReturns, TypeOK
  <2>2. \A s \in DOMAIN sources : waiter'[s] # waiter[s] => s = cur /\ waiter'[s] = "wait"
    BY <1>4 DEF WalkReturns, TypeOK
  <2>3. TypeOK'
    BY <1>1, <1>4, <2>1 DEF WalkReturns, TypeOK, chanVars
  <2>4. CursorInv'
    BY <1>1, <1>4 DEF WalkReturns, CursorInv
  <2>5. WaiterInv'
    BY <1>1, <1>3, <2>2 DEF WaiterInv
  <2>6. ShutdownInv'
    BY <1>1, <1>4 DEF WalkReturns, ShutdownInv, Walking, chanVars
  <2> QED BY <1>3, <2>3, <2>4, <2>5, <2>6
<1>5. CASE CloseJobs \/ JoinWorkers \/ DrainEnd \/ CloseResults
  <2>1. waiter' = waiter /\ open' = open
    BY <1>5 DEF CloseJobs, JoinWorkers, DrainEnd, CloseResults
  <2>2. TypeOK'
    BY <1>1, <1>5, <2>1
    DEF CloseJobs, JoinWorkers, DrainEnd, CloseResults, TypeOK, chanVars
  <2>3. CursorInv'
    BY <1>1, <2>1 DEF CursorInv
  <2>4. WaiterInv'
    BY <1>1, <1>3, <2>1 DEF WaiterInv
  <2>5. ShutdownInv'
    BY <1>1, <1>5, <2>1
    DEF CloseJobs, JoinWorkers, DrainEnd, CloseResults, ShutdownInv, Walking, chanVars
  <2> QED BY <1>3, <2>2, <2>3, <2>4, <2>5
<1> QED BY <1>4, <1>5

\* A worker returns, or gets its result out or drops it: it keeps its job.
LEMMA WorkerKeepsJob ==
  ASSUME EngineInv, NEW w \in Worker, WorkerReturns(w) \/ PushResult(w) \/ DropResult(w)
  PROVE  EngineInv'
<1> USE DEF EngineInv
<1>1. /\ sources' = sources /\ wg' = wg /\ jobs' = jobs /\ held' = held
      /\ cur' = cur /\ pos' = pos /\ prod' = prod /\ open' = open
      /\ ctxDone' = ctxDone /\ jobsClosed' = jobsClosed
      /\ resultsClosed' = resultsClosed /\ waiter' = waiter
  BY DEF WorkerReturns, PushResult, DropResult, chanVars, walkVars
<1>2. \/ worker[w] = "idle" /\ worker' = [worker EXCEPT ![w] = "exit"]
      \/ worker[w] = "run" /\ worker' = [worker EXCEPT ![w] = "finish"]
  BY DEF WorkerReturns, PushResult, DropResult
<1>3. worker' \in [Worker -> {"idle", "run", "finish", "exit"}]
  BY <1>2 DEF TypeOK
<1>4. Busy' = Busy /\ Offered' = Offered
  BY <1>1, <1>2 DEF Busy, Offered, TypeOK
<1>5. PlacedInv' /\ CountInv' /\ \A s : InFlightOf(s)' = InFlightOf(s)
  BY <1>1, <1>4, JobsStay
<1>6. results' \in Seq(ResultRec) /\ Len(results') <= ChanCap
  <2>1. CASE results' = results
    BY <2>1 DEF TypeOK
  <2>2. CASE PushResult(w)
    <3>1. w \in Busy
      BY <2>2 DEF PushResult, Busy
    <3>2. Walked(held[w]) /\ held[w] \in Nat \X Nat
      BY <3>1 DEF PlacedInv, Running, TypeOK
    <3>3. PICK st \in Verdicts(held[w]) : results' = Append(results, ResultOf(held[w], st))
      BY <2>2 DEF PushResult
    <3>4. ResultOf(held[w], st) \in ResultRec
      BY <3>2, ResultType DEF TypeOK
    <3> QED BY <2>2, <3>3, <3>4, AppendProperties, LenProperties, ChanCapType
            DEF PushResult, TypeOK
  <2> QED BY <2>1, <2>2 DEF WorkerReturns, DropResult, chanVars
<1>7. TypeOK'
  BY <1>1, <1>3, <1>6 DEF TypeOK
<1>8. CursorInv'
  BY <1>1 DEF CursorInv
<1>9. WaiterInv'
  BY <1>1, <1>5 DEF WaiterInv, Walking
<1>10. ShutdownInv'
  BY <1>1, <1>2 DEF ShutdownInv, Walking, TypeOK
<1> QED BY <1>5, <1>7, <1>8, <1>9, <1>10

\* A waiter moves on. It gets past Wait only at a zero counter, which the
\* balance turns into "no job of the source is in flight".
LEMMA WaiterKeepsJobs ==
  ASSUME EngineInv, NEW s \in DOMAIN sources, WaiterStep(s)
  PROVE  EngineInv'
<1> USE DEF EngineInv
<1>1. /\ sources' = sources /\ wg' = wg /\ jobs' = jobs /\ held' = held
      /\ cur' = cur /\ pos' = pos /\ prod' = prod /\ open' = open
      /\ ctxDone' = ctxDone /\ jobsClosed' = jobsClosed
      /\ resultsClosed' = resultsClosed /\ worker' = worker
  BY DEF WaiterStep, WaitReturns, PushFinal, DropFinal, chanVars, walkVars, poolVars
<1>2. \/ waiter[s] = "wait" /\ wg[s] = 0 /\ waiter' = [waiter EXCEPT ![s] = "send"]
      \/ waiter[s] = "send" /\ waiter' = [waiter EXCEPT ![s] = "done"]
  BY DEF WaiterStep, WaitReturns, PushFinal, DropFinal
<1>3. Busy' = Busy /\ Offered' = Offered
  BY <1>1 DEF Busy, Offered
<1>4. PlacedInv' /\ CountInv' /\ \A x : InFlightOf(x)' = InFlightOf(x)
  BY <1>1, <1>3, JobsStay
<1>5. results' \in Seq(ResultRec) /\ Len(results') <= ChanCap
  <2>1. CASE results' = results
    BY <2>1 DEF TypeOK
  <2>2. CASE PushFinal(s)
    BY <2>2, FinalType, AppendProperties, LenProperties, ChanCapType
    DEF PushFinal, TypeOK
  <2> QED BY <2>1, <2>2 DEF WaiterStep, WaitReturns, DropFinal, chanVars
<1>6. TypeOK'
  BY <1>1, <1>2, <1>5 DEF TypeOK
<1>7. CursorInv'
  BY <1>1 DEF CursorInv
<1>8. waiter[s] \in {"wait", "send"} /\ InFlightOf(s) = {}
  <2>1. CASE waiter[s] = "wait" /\ wg[s] = 0
    <3>1. IsFiniteSet(InFlightOf(s))
      BY FS_Subset DEF CountInv, InFlightOf
    <3> QED BY <2>1, <3>1, FS_EmptySet DEF CountInv, WaitGroupBalance
  <2>2. CASE waiter[s] = "send"
    BY <2>2 DEF WaiterInv
  <2> QED BY <1>2, <2>1, <2>2
<1>9. WaiterInv'
  BY <1>1, <1>2, <1>4, <1>8 DEF WaiterInv, Walking, TypeOK
<1>10. ShutdownInv'
  BY <1>1, <1>2 DEF ShutdownInv, Walking, TypeOK
<1> QED BY <1>4, <1>6, <1>7, <1>9, <1>10

\* The reader receives a result or cancels the context.
LEMMA ReaderKeepsJobs ==
  ASSUME EngineInv, ReaderStep
  PROVE  EngineInv'
<1> USE DEF EngineInv
<1>1. /\ sources' = sources /\ wg' = wg /\ jobs' = jobs /\ held' = held
      /\ cur' = cur /\ pos' = pos /\ prod' = prod /\ open' = open
      /\ jobsClosed' = jobsClosed /\ resultsClosed' = resultsClosed
      /\ worker' = worker /\ waiter' = waiter
      /\ ctxDone' \in {ctxDone, TRUE}
      /\ results' = results \/ (results # <<>> /\ results' = Tail(results))
  BY DEF ReaderStep, Deliver, CancelCtx, chanVars, walkVars, poolVars
<1>2. Busy' = Busy /\ Offered' = Offered
  BY <1>1 DEF Busy, Offered
<1>3. PlacedInv' /\ CountInv' /\ \A x : InFlightOf(x)' = InFlightOf(x)
  BY <1>1, <1>2, JobsStay
<1>4. results' \in Seq(ResultRec) /\ Len(results') <= ChanCap
  <2>1. CASE results' = results
    BY <2>1 DEF TypeOK
  <2>2. CASE results # <<>> /\ results' = Tail(results)
    <3>1. Tail(results) \in Seq(ResultRec) /\ Len(Tail(results)) = Len(results) - 1
      BY <2>2, HeadTailProperties DEF TypeOK
    <3>2. Len(results) \in Nat /\ Len(results) <= ChanCap
      BY LenProperties DEF TypeOK
    <3> QED BY <2>2, <3>1, <3>2, ChanCapType
  <2> QED BY <1>1, <2>1, <2>2
<1>5. TypeOK'
  BY <1>1, <1>4 DEF TypeOK
<1>6. CursorInv' /\ WaiterInv' /\ ShutdownInv'
  BY <1>1, <1>3 DEF CursorInv, WaiterInv, ShutdownInv, Walking
<1> QED BY <1>3, <1>5, <1>6

-----------------------------------------------------------------------------
(* Steps that move, add or remove a job.                                    *)

LEMMA JobAdded ==
  ASSUME EngineInv, sources' = sources, NEW j, j[1] \in DOMAIN sources,
         j \notin InFlight, InFlight' = InFlight \cup {j},
         wg' = [wg EXCEPT ![j[1]] = @ + 1]
  PROVE  wg' \in [DOMAIN sources -> Nat] /\ CountInv'
<1>1. IsFiniteSet(InFlight) /\ wg \in [DOMAIN sources -> Nat]
  BY DEF EngineInv, CountInv, TypeOK
<1>2. \A s \in DOMAIN sources : wg[s] = Cardinality(OfSource(InFlight, s))
  BY DEF EngineInv, CountInv, WaitGroupBalance, InFlightOf, OfSource
<1>3. IsFiniteSet(InFlight')
  BY <1>1, FS_AddElement
<1>4. \A s \in DOMAIN sources : wg'[s] = IF s = j[1] THEN wg[s] + 1 ELSE wg[s]
  BY <1>1
<1>5. \A s \in DOMAIN sources : wg'[s] = Cardinality(OfSource(InFlight', s))
  BY <1>1, <1>2, <1>4, CountAdd
<1>6. \A s : InFlightOf(s)' = OfSource(InFlight', s)
  BY DEF InFlightOf, OfSource
<1>7. WaitGroupBalance'
  BY <1>5, <1>6 DEF WaitGroupBalance
<1> QED BY <1>1, <1>3, <1>7 DEF CountInv

LEMMA JobRemoved ==
  ASSUME EngineInv, sources' = sources, NEW j, j[1] \in DOMAIN sources,
         j \in InFlight, InFlight' = InFlight \ {j},
         wg' = [wg EXCEPT ![j[1]] = @ - 1]
  PROVE  wg' \in [DOMAIN sources -> Nat] /\ CountInv'
<1>1. IsFiniteSet(InFlight) /\ wg \in [DOMAIN sources -> Nat]
  BY DEF EngineInv, CountInv, TypeOK
<1>2. \A s \in DOMAIN sources : wg[s] = Cardinality(OfSource(InFlight, s))
  BY DEF EngineInv, CountInv, WaitGroupBalance, InFlightOf, OfSource
<1>3. IsFiniteSet(InFlight')
  BY <1>1, FS_RemoveElement
<1>4. \A s \in DOMAIN sources : wg'[s] = IF s = j[1] THEN wg[s] - 1 ELSE wg[s]
  BY <1>1
<1>5. \A s \in DOMAIN sources :
        wg'[s] = Cardinality(OfSource(InFlight', s)) /\ wg'[s] \in Nat
  <2> SUFFICES ASSUME NEW s \in DOMAIN sources
               PROVE  wg'[s] = Cardinality(OfSource(InFlight', s)) /\ wg'[s] \in Nat
    OBVIOUS
  <2>1. /\ Cardinality(OfSource(InFlight', s)) \in Nat
        /\ Cardinality(OfSource(InFlight', s)) =
             IF s = j[1] THEN Cardinality(OfSource(InFlight, s)) - 1
                         ELSE Cardinality(OfSource(InFlight, s))
    BY <1>1, CountRemove
  <2> QED BY <1>2, <1>4, <2>1
<1>6. \A s : InFlightOf(s)' = OfSource(InFlight', s)
  BY DEF InFlightOf, OfSource
<1>7. WaitGroupBalance'
  BY <1>5, <1>6 DEF WaitGroupBalance
<1>8. wg' \in [DOMAIN sources -> Nat]
  <2>1. wg' = [s \in DOMAIN sources |-> wg'[s]]
    BY <1>1
  <2> QED BY <1>5, <2>1
<1> QED BY <1>3, <1>7, <1>8 DEF CountInv

\* The walk's cursor only moves forward.
LEMMA WalkedStays ==
  ASSUME TypeOK, sources' = sources, pos' \in Nat,
         (cur' = cur /\ pos' >= pos) \/ cur' = cur + 1,
         NEW j \in Nat \X Nat, Walked(j)
  PROVE  Walked(j)'
<1>1. j[1] \in Nat /\ j[2] \in Nat /\ cur \in Nat /\ pos \in Nat
  BY DEF TypeOK
<1>2. j[1] < cur' \/ (j[1] = cur' /\ j[2] < pos')
  BY <1>1 DEF Walked
<1> QED BY <1>2 DEF Walked

\* The document at the cursor is in no channel and with no worker yet.
LEMMA CursorNotWalked ==
  ASSUME EngineInv
  PROVE  <<cur, pos>> \notin Queued \cup Running
<1>1. cur \in Nat /\ pos \in Nat
  BY DEF EngineInv, TypeOK
<1>2. ~Walked(<<cur, pos>>)
  BY <1>1 DEF Walked
<1> QED BY <1>2 DEF EngineInv, PlacedInv

\* The walk registers the next document: one job more in flight.
LEMMA EmitDocStep ==
  ASSUME EngineInv, EmitDoc
  PROVE  EngineInv'
<1> USE DEF EngineInv
<1>0. PICK j : j = <<cur, pos>>
  OBVIOUS
<1>1. /\ sources' = sources /\ jobs' = jobs /\ held' = held /\ worker' = worker
      /\ cur' = cur /\ pos' = pos /\ waiter' = waiter
      /\ prod = "walk" /\ prod' = "enqueue" /\ open' = TRUE
      /\ ctxDone' = ctxDone /\ jobsClosed' = jobsClosed /\ results' = results
      /\ resultsClosed' = resultsClosed
      /\ cur \in DOMAIN sources /\ pos \in DOMAIN sources[cur].items
      /\ wg' = [wg EXCEPT ![cur] = @ + 1]
  BY DEF EmitDoc, chanVars, poolVars
<1>2. Queued' = Queued /\ Running' = Running /\ Busy' = Busy
  BY <1>1 DEF Queued, Running, Busy
<1>3. Offered = {} /\ Offered' = {j}
  BY <1>0, <1>1 DEF Offered
<1>4. InFlight' = InFlight \cup {j}
  BY <1>2, <1>3 DEF InFlight
<1>5. j \notin InFlight
  BY <1>0, <1>3, CursorNotWalked DEF InFlight
<1>6. wg' \in [DOMAIN sources -> Nat] /\ CountInv'
  <2>1. j[1] = cur
    BY <1>0
  <2> QED BY <1>1, <1>4, <1>5, <2>1, JobAdded
<1>7. TypeOK'
  BY <1>1, <1>6 DEF TypeOK
<1>8. CursorInv' /\ ShutdownInv'
  BY <1>1 DEF CursorInv, ShutdownInv, Walking
<1>9. PlacedInv'
  BY <1>1, <1>2 DEF PlacedInv, Walked
<1>10. WaiterInv'
  <2>1. waiter[cur] = "none"
    BY <1>1 DEF WaiterInv, Walking, TypeOK
  <2>2. \A s : s # cur => InFlightOf(s)' = InFlightOf(s)
    BY <1>0, <1>4 DEF InFlightOf
  <2> QED BY <1>1, <2>1, <2>2 DEF WaiterInv, Walking
<1> QED BY <1>7, <1>8, <1>6, <1>9, <1>10

\* The offered job enters the channel: it moves and stays in flight.
LEMMA SendJobStep ==
  ASSUME EngineInv, SendJob
  PROVE  EngineInv'
<1> USE DEF EngineInv
<1>0. PICK j : j = <<cur, pos>>
  OBVIOUS
<1>1. /\ sources' = sources /\ held' = held /\ worker' = worker /\ wg' = wg
      /\ cur' = cur /\ pos' = pos + 1 /\ waiter' = waiter
      /\ prod = "enqueue" /\ prod' = "walk" /\ open' = open
      /\ ctxDone' = ctxDone /\ jobsClosed' = jobsClosed /\ results' = results
      /\ resultsClosed' = resultsClosed
      /\ cur \in DOMAIN sources /\ pos \in DOMAIN sources[cur].items
      /\ jobs' = Append(jobs, j) /\ Len(jobs) < ChanCap
  BY <1>0 DEF SendJob, poolVars, CursorInv
<1>2. j \in Nat \X Nat /\ jobs \in Seq(Nat \X Nat)
  BY <1>0 DEF TypeOK
<1>3. Queued' = Queued \cup {j}
  <2>1. jobs' = Append(jobs, j)
    BY <1>1
  <2>2. \A T : jobs \in Seq(T) /\ j \in T => SetOf(jobs') = SetOf(jobs) \cup {j}
    BY <2>1, RangeAppend
  <2>3. SetOf(jobs') = SetOf(jobs) \cup {j}
    BY <1>2, <2>2, Zenon
  <2> QED BY <2>3 DEF Queued, SetOf
<1>4. Running' = Running /\ Busy' = Busy
  BY <1>1 DEF Running, Busy
<1>5. Offered = {j} /\ Offered' = {}
  BY <1>0, <1>1 DEF Offered
<1>6. InFlight' = InFlight
  BY <1>3, <1>4, <1>5 DEF InFlight
<1>7. j \notin Queued \cup Running
  BY <1>0, CursorNotWalked
<1>8. TypeOK'
  <2>1. jobs' \in Seq(Nat \X Nat) /\ Len(jobs') <= ChanCap
    BY <1>1, <1>2, AppendProperties, LenProperties, ChanCapType
  <2> QED BY <1>1, <2>1 DEF TypeOK
<1>9. CursorInv' /\ ShutdownInv'
  BY <1>1 DEF CursorInv, ShutdownInv, Walking
<1>10. PlacedInv'
  <2>1. \A x \in Queued' \cup Running' : Walked(x)'
    <3>1. Walked(j)'
      <4>1. cur \in Nat /\ pos \in Nat
        BY DEF TypeOK
      <4>2. j[1] = cur /\ j[2] = pos /\ pos < pos + 1
        BY <1>0, <4>1
      <4> QED BY <1>1, <4>2 DEF Walked
    <3>2. \A x \in Queued \cup Running : Walked(x)'
      BY <1>1, InFlightType, WalkedStays DEF PlacedInv, InFlight, TypeOK
    <3>3. ASSUME NEW x \in Queued' \cup Running'
          PROVE  Walked(x)'
      <4>1. x = j \/ x \in Queued \cup Running
        BY <1>3, <1>4
      <4> QED BY <3>1, <3>2, <4>1
    <3> QED BY <3>3
  <2>2. NoRepeat(jobs)'
    <3>1. j \notin SetOf(jobs) /\ NoRepeat(jobs)
      BY <1>7 DEF Queued, SetOf, PlacedInv
    <3>2. NoRepeat(jobs')
      BY <1>1, <1>2, <3>1, RangeAppend
    <3> QED BY <3>2 DEF NoRepeat
  <2>3. Queued' \cap Running' = {}
    BY <1>3, <1>4, <1>7 DEF PlacedInv
  <2> QED BY <1>1, <1>4, <2>1, <2>2, <2>3 DEF PlacedInv
<1>11. CountInv'
  BY <1>1, <1>6 DEF CountInv, WaitGroupBalance, InFlightOf
<1>12. WaiterInv'
  BY <1>1, <1>6 DEF WaiterInv, Walking, InFlightOf
<1> QED BY <1>8, <1>9, <1>10, <1>11, <1>12

\* The registration of an offered job is undone: one job less in flight.
LEMMA AbandonJobStep ==
  ASSUME EngineInv, AbandonJob
  PROVE  EngineInv'
<1> USE DEF EngineInv
<1>0. PICK j : j = <<cur, pos>>
  OBVIOUS
<1>1. /\ sources' = sources /\ held' = held /\ worker' = worker /\ jobs' = jobs
      /\ cur' = cur /\ pos' = pos + 1 /\ waiter' = waiter
      /\ prod = "enqueue" /\ prod' = "walk" /\ open' = open
      /\ ctxDone' = ctxDone /\ jobsClosed' = jobsClosed /\ results' = results
      /\ resultsClosed' = resultsClosed
      /\ cur \in DOMAIN sources /\ pos \in DOMAIN sources[cur].items
      /\ wg' = [wg EXCEPT ![cur] = @ - 1]
  BY DEF AbandonJob, chanVars, poolVars, CursorInv
<1>2. Queued' = Queued /\ Running' = Running /\ Busy' = Busy
  BY <1>1 DEF Queued, Running, Busy
<1>3. Offered = {j} /\ Offered' = {}
  BY <1>0, <1>1 DEF Offered
<1>4. InFlight' = InFlight \ {j} /\ j \in InFlight
  BY <1>0, <1>2, <1>3, CursorNotWalked DEF InFlight
<1>5. wg' \in [DOMAIN sources -> Nat] /\ CountInv'
  <2>1. j[1] = cur
    BY <1>0
  <2> QED BY <1>1, <1>4, <2>1, JobRemoved
<1>6. TypeOK'
  BY <1>1, <1>5 DEF TypeOK
<1>7. CursorInv' /\ ShutdownInv'
  BY <1>1 DEF CursorInv, ShutdownInv, Walking
<1>8. PlacedInv'
  <2>1. \A x \in Queued \cup Running : Walked(x)'
    BY <1>1, InFlightType, WalkedStays DEF PlacedInv, InFlight, TypeOK
  <2> QED BY <1>1, <1>2, <2>1 DEF PlacedInv
<1>9. WaiterInv'
  <2>1. \A s : InFlightOf(s)' \subseteq InFlightOf(s)
    BY <1>4 DEF InFlightOf
  <2> QED BY <1>1, <2>1 DEF WaiterInv, Walking
<1> QED BY <1>6, <1>7, <1>5, <1>8, <1>9

\* The walk leaves a source: its waiter is spawned, no job moves.
LEMMA EmitFinalStep ==
  ASSUME EngineInv, EmitFinal
  PROVE  EngineInv'
<1> USE DEF EngineInv
<1>1. /\ sources' = sources /\ held' = held /\ worker' = worker /\ jobs' = jobs
      /\ wg' = wg /\ cur' = cur + 1 /\ pos' = 1
      /\ waiter' = [waiter EXCEPT ![cur] = "wait"]
      /\ prod = "walk" /\ prod' = "walk" /\ open' = FALSE
      /\ ctxDone' = ctxDone /\ jobsClosed' = jobsClosed /\ results' = results
      /\ resultsClosed' = resultsClosed /\ cur \in Nat /\ cur \in DOMAIN sources
  BY DEF EmitFinal, chanVars, poolVars, TypeOK
<1>2. /\ Queued' = Queued /\ Running' = Running /\ Busy' = Busy
      /\ Offered = {} /\ Offered' = {}
  BY <1>1 DEF Queued, Running, Busy, Offered
<1>3. InFlight' = InFlight
  BY <1>2 DEF InFlight
<1>4. \A s : InFlightOf(s)' = InFlightOf(s)
  BY <1>3 DEF InFlightOf
<1>5. TypeOK'
  <2>1. waiter' \in [DOMAIN sources' -> {"none", "wait", "send", "done"}]
    BY <1>1 DEF TypeOK
  <2>2. cur' \in Nat \ {0} /\ pos' \in Nat \ {0}
    BY <1>1
  <2> QED BY <1>1, <2>1, <2>2 DEF TypeOK
<1>6. CursorInv' /\ ShutdownInv'
  BY <1>1 DEF CursorInv, ShutdownInv, Walking
<1>7. PlacedInv'
  <2>1. \A x \in Queued \cup Running : Walked(x)'
    BY <1>1, InFlightType, WalkedStays DEF PlacedInv, InFlight
  <2> QED BY <1>1, <1>2, <2>1 DEF PlacedInv
<1>8. CountInv'
  BY <1>1, <1>3, <1>4 DEF CountInv, WaitGroupBalance
<1>9. WaiterInv'
  <2>1. \A s \in DOMAIN sources : s \in Nat
    <3>1. sources \in Seq(SourceRec)
      BY InputsAssumption DEF TypeOK
    <3> QED BY <3>1, LenProperties
  <2>2. \A s \in DOMAIN sources : waiter'[s] = IF s = cur THEN "wait" ELSE waiter[s]
    BY <1>1 DEF TypeOK
  <2> QED BY <1>1, <1>4, <2>1, <2>2 DEF WaiterInv, Walking
<1> QED BY <1>5, <1>6, <1>7, <1>8, <1>9

\* What the head of a non-empty jobs channel is, and what is left without it.
LEMMA HeadOfJobs ==
  ASSUME EngineInv, jobs # <<>>, jobs' = Tail(jobs)
  PROVE  /\ Head(jobs) \in Queued /\ Head(jobs) \in Nat \X Nat /\ Walked(Head(jobs))
         /\ Head(jobs) \notin Offered
         /\ jobs' \in Seq(Nat \X Nat) /\ Len(jobs') <= ChanCap
         /\ Queued' = Queued \ {Head(jobs)} /\ NoRepeat(jobs)'
<1> USE DEF EngineInv
<1>1. jobs \in Seq(Nat \X Nat) /\ NoRepeat(jobs)
  BY DEF TypeOK, PlacedInv
<1>2. Head(jobs) \in SetOf(jobs) /\ SetOf(jobs') = SetOf(jobs) \ {Head(jobs)} /\ NoRepeat(jobs')
  BY <1>1, RangeTail
<1>3. Head(jobs) \in Queued /\ Queued' = Queued \ {Head(jobs)} /\ NoRepeat(jobs)'
  BY <1>2 DEF Queued, SetOf, NoRepeat
<1>4. Walked(Head(jobs)) /\ Head(jobs) \notin Offered
  BY <1>3, CursorNotWalked DEF PlacedInv, Offered
<1>5. jobs' \in Seq(Nat \X Nat) /\ Len(jobs') = Len(jobs) - 1 /\ Head(jobs) \in Nat \X Nat
  BY <1>1, HeadTailProperties
<1>6. Len(jobs) \in Nat /\ Len(jobs) <= ChanCap
  BY LenProperties DEF TypeOK
<1> QED BY <1>3, <1>4, <1>5, <1>6, ChanCapType

\* A worker takes the head of the channel: the job moves and stays in flight.
LEMMA TakeJobStep ==
  ASSUME EngineInv, NEW w \in Worker, TakeJob(w)
  PROVE  EngineInv'
<1> USE DEF EngineInv
<1>0. PICK j : j = Head(jobs)
  OBVIOUS
<1>1. /\ sources' = sources /\ wg' = wg /\ cur' = cur /\ pos' = pos /\ prod' = prod
      /\ open' = open /\ waiter' = waiter /\ ctxDone' = ctxDone
      /\ jobsClosed' = jobsClosed /\ results' = results /\ resultsClosed' = resultsClosed
      /\ jobs # <<>> /\ jobs' = Tail(jobs)
      /\ held' = [held EXCEPT ![w] = j]
      /\ worker[w] = "idle" /\ worker' = [worker EXCEPT ![w] = "run"]
  BY <1>0 DEF TakeJob, walkVars
<1>2. /\ j \in Queued /\ j \in Nat \X Nat /\ Walked(j)
      /\ jobs' \in Seq(Nat \X Nat) /\ Len(jobs') <= ChanCap
      /\ Queued' = Queued \ {j} /\ NoRepeat(jobs)'
  BY <1>0, <1>1, HeadOfJobs
<1>3. Busy' = Busy \cup {w} /\ w \notin Busy /\ Offered' = Offered
  BY <1>1 DEF Busy, Offered, TypeOK
<1>4. \A x \in Worker : held'[x] = IF x = w THEN j ELSE held[x]
  BY <1>1 DEF TypeOK
<1>5. Running' = Running \cup {j}
  <2>1. Running' = {held'[x] : x \in Busy'}
    BY DEF Running
  <2>2. Busy \subseteq Worker
    BY DEF Busy
  <2> QED BY <1>3, <1>4, <2>1, <2>2 DEF Running
<1>6. InFlight' = InFlight
  BY <1>2, <1>3, <1>5 DEF InFlight
<1>7. \A s : InFlightOf(s)' = InFlightOf(s)
  BY <1>6 DEF InFlightOf
<1>8. TypeOK'
  BY <1>1, <1>2 DEF TypeOK
<1>9. CursorInv'
  BY <1>1 DEF CursorInv
<1>10. ShutdownInv'
  BY <1>1 DEF ShutdownInv, Walking
<1>11. PlacedInv'
  <2>1. \A x \in Queued' \cup Running' : Walked(x)'
    BY <1>1, <1>2, <1>5 DEF PlacedInv, Walked
  <2>2. \A x, y \in Busy' : held'[x] = held'[y] => x = y
    <3>1. j \notin Running
      BY <1>2 DEF PlacedInv
    <3>2. \A x \in Busy : x \in Worker /\ held[x] # j
      BY <3>1 DEF Running, Busy
    <3> QED BY <1>3, <1>4, <3>2 DEF PlacedInv
  <2>3. Queued' \cap Running' = {}
    BY <1>2, <1>5 DEF PlacedInv
  <2> QED BY <1>2, <2>1, <2>2, <2>3 DEF PlacedInv
<1>12. CountInv'
  BY <1>1, <1>6, <1>7 DEF CountInv, WaitGroupBalance
<1>13. WaiterInv'
  BY <1>1, <1>7 DEF WaiterInv, Walking
<1> QED BY <1>8, <1>9, <1>10, <1>11, <1>12, <1>13

\* The drain discards the head of the channel and calls Done for it.
LEMMA DrainJobStep ==
  ASSUME EngineInv, DrainJob
  PROVE  EngineInv'
<1> USE DEF EngineInv
<1>0. PICK j : j = Head(jobs)
  OBVIOUS
<1>1. /\ sources' = sources /\ cur' = cur /\ pos' = pos /\ prod' = prod
      /\ open' = open /\ waiter' = waiter /\ ctxDone' = ctxDone
      /\ jobsClosed' = jobsClosed /\ results' = results /\ resultsClosed' = resultsClosed
      /\ jobs # <<>> /\ jobs' = Tail(jobs) /\ held' = held /\ worker' = worker
      /\ wg' = [wg EXCEPT ![j[1]] = @ - 1]
  BY <1>0 DEF DrainJob, walkVars, poolVars
<1>2. /\ j \in Queued /\ j \in Nat \X Nat /\ Walked(j) /\ j \notin Offered
      /\ jobs' \in Seq(Nat \X Nat) /\ Len(jobs') <= ChanCap
      /\ Queued' = Queued \ {j} /\ NoRepeat(jobs)'
  BY <1>0, <1>1, HeadOfJobs
<1>3. Running' = Running /\ Busy' = Busy /\ Offered' = Offered
  BY <1>1 DEF Running, Busy, Offered
<1>4. InFlight' = InFlight \ {j} /\ j \in InFlight
  BY <1>2, <1>3 DEF InFlight, PlacedInv
<1>5. wg' \in [DOMAIN sources -> Nat] /\ CountInv'
  BY <1>1, <1>2, <1>4, JobRemoved DEF Walked
<1>6. TypeOK'
  BY <1>1, <1>2, <1>5 DEF TypeOK
<1>7. CursorInv' /\ ShutdownInv'
  BY <1>1 DEF CursorInv, ShutdownInv, Walking
<1>8. PlacedInv'
  BY <1>1, <1>2, <1>3 DEF PlacedInv, Walked
<1>9. WaiterInv'
  <2>1. \A s : InFlightOf(s)' \subseteq InFlightOf(s)
    BY <1>4 DEF InFlightOf
  <2> QED BY <1>1, <2>1 DEF WaiterInv, Walking
<1> QED BY <1>5, <1>6, <1>7, <1>8, <1>9

\* A worker is done with its job: one job less in flight.
LEMMA FinishJobStep ==
  ASSUME EngineInv, NEW w \in Worker, FinishJob(w)
  PROVE  EngineInv'
<1> USE DEF EngineInv
<1>0. PICK j : j = held[w]
  OBVIOUS
<1>1. /\ sources' = sources /\ cur' = cur /\ pos' = pos /\ prod' = prod
      /\ open' = open /\ waiter' = waiter /\ ctxDone' = ctxDone /\ jobs' = jobs
      /\ jobsClosed' = jobsClosed /\ results' = results /\ resultsClosed' = resultsClosed
      /\ worker[w] = "finish" /\ worker' = [worker EXCEPT ![w] = "idle"]
      /\ held' = [held EXCEPT ![w] = NoJob]
      /\ wg' = [wg EXCEPT ![j[1]] = @ - 1]
  BY <1>0 DEF FinishJob, walkVars, chanVars
<1>2. Queued' = Queued /\ Offered' = Offered /\ Busy' = Busy \ {w} /\ w \in Busy
  BY <1>1 DEF Queued, Offered, Busy, TypeOK
<1>3. \A x \in Busy' : held'[x] = held[x]
  BY <1>1, <1>2 DEF TypeOK, Busy
<1>4. j \in Running /\ Walked(j) /\ j \notin Offered /\ j \notin Queued
  <2>1. j \in Running
    BY <1>0, <1>2 DEF Running
  <2> QED BY <2>1, CursorNotWalked DEF PlacedInv, Offered
<1>5. Running' = Running \ {j}
  <2>1. Running' = {held'[x] : x \in Busy'}
    BY DEF Running
  <2>2. \A x \in Busy : held[x] = j <=> x = w
    BY <1>0, <1>2 DEF PlacedInv
  <2> QED BY <1>2, <1>3, <2>1, <2>2 DEF Running
<1>6. InFlight' = InFlight \ {j} /\ j \in InFlight
  BY <1>2, <1>4, <1>5 DEF InFlight
<1>7. wg' \in [DOMAIN sources -> Nat] /\ CountInv'
  BY <1>1, <1>4, <1>6, JobRemoved DEF Walked
<1>8. TypeOK'
  <2>1. worker' \in [Worker -> {"idle", "run", "finish", "exit"}]
    BY <1>1 DEF TypeOK
  <2>2. held' \in [Worker -> Nat \X Nat]
    BY <1>1 DEF TypeOK, NoJob
  <2> QED BY <1>1, <1>7, <2>1, <2>2 DEF TypeOK
<1>9. CursorInv'
  BY <1>1 DEF CursorInv
<1>10. ShutdownInv'
  BY <1>1 DEF ShutdownInv, Walking
<1>11. PlacedInv'
  <2>1. \A x \in Queued' \cup Running' : Walked(x)'
    BY <1>1, <1>2, <1>5 DEF PlacedInv, Walked
  <2>2. \A x, y \in Busy' : held'[x] = held'[y] => x = y
    BY <1>2, <1>3 DEF PlacedInv
  <2> QED BY <1>1, <1>2, <1>5, <2>1, <2>2 DEF PlacedInv, NoRepeat
<1>12. WaiterInv'
  <2>1. \A s : InFlightOf(s)' \subseteq InFlightOf(s)
    BY <1>6 DEF InFlightOf
  <2> QED BY <1>1, <2>1 DEF WaiterInv, Walking
<1> QED BY <1>7, <1>8, <1>9, <1>10, <1>11, <1>12

-----------------------------------------------------------------------------
(* The invariant is inductive, and what follows from it.                   *)

\* No step of the engine or of its reader leaves the invariant.
LEMMA EngineInvStep ==
  ASSUME EngineInv, Engine \/ ReaderStep \/ UNCHANGED engineVars
  PROVE  EngineInv'
<1>1. CASE EmitDoc
  BY <1>1, EmitDocStep
<1>2. CASE SendJob
  BY <1>2, SendJobStep
<1>3. CASE AbandonJob
  BY <1>3, AbandonJobStep
<1>4. CASE EmitFinal
  BY <1>4, EmitFinalStep
<1>5. CASE WalkReturns \/ CloseJobs \/ JoinWorkers \/ DrainEnd \/ CloseResults
  BY <1>5, ShutdownStep
<1>6. CASE DrainJob
  BY <1>6, DrainJobStep
<1>7. CASE \E w \in Worker : WorkerStep(w)
  <2> PICK w \in Worker : WorkerStep(w)
    BY <1>7
  <2>1. CASE TakeJob(w)
    BY <2>1, TakeJobStep
  <2>2. CASE WorkerReturns(w) \/ PushResult(w) \/ DropResult(w)
    BY <2>2, WorkerKeepsJob
  <2>3. CASE FinishJob(w)
    BY <2>3, FinishJobStep
  <2> QED BY <2>1, <2>2, <2>3 DEF WorkerStep
<1>8. CASE \E s \in DOMAIN sources : WaiterStep(s)
  BY <1>8, WaiterKeepsJobs
<1>9. CASE ReaderStep
  BY <1>9, ReaderKeepsJobs
<1>10. CASE UNCHANGED engineVars
  <2>1. /\ sources' = sources /\ cur' = cur /\ pos' = pos /\ prod' = prod
        /\ open' = open /\ waiter' = waiter /\ ctxDone' = ctxDone /\ jobs' = jobs
        /\ jobsClosed' = jobsClosed /\ results' = results
        /\ resultsClosed' = resultsClosed /\ worker' = worker /\ held' = held /\ wg' = wg
    BY <1>10 DEF engineVars
  <2>2. Busy' = Busy /\ Offered' = Offered
    BY <2>1 DEF Busy, Offered
  <2>3. PlacedInv' /\ CountInv' /\ \A s : InFlightOf(s)' = InFlightOf(s)
    BY <2>1, <2>2, JobsStay
  <2>4. TypeOK' /\ CursorInv' /\ WaiterInv' /\ ShutdownInv'
    BY <2>1, <2>3 DEF EngineInv, TypeOK, CursorInv, WaiterInv, ShutdownInv, Walking
  <2> QED BY <2>3, <2>4 DEF EngineInv
<1> QED BY <1>1, <1>2, <1>3, <1>4, <1>5, <1>6, <1>7, <1>8, <1>9, <1>10
        DEF Engine, Producer

\* The invariant says more than the properties the runs check.
LEMMA EngineInvImplies == EngineInv => TypeOK /\ WaitGroupBalance /\ NoSendOnClosed
  BY DEF EngineInv, CountInv, NoSendOnClosed, ShutdownInv, Walking

-----------------------------------------------------------------------------
(* Nothing is lost: a job is worked off, unless the context is cancelled.   *)

\* The jobs that still owe their result.
Waiting == Offered \cup Queued \cup {held[w] : w \in {x \in Worker : worker[x] = "run"}}

\* A walk that nobody cuts short passes every source, and its pool every job.
UncutInv ==
  /\ ~ctxDone /\ ~Walking => cur \notin DOMAIN sources
  /\ ~ctxDone => \A w \in Worker : worker[w] = "exit" => jobsClosed /\ jobs = <<>>
  /\ prod \in {"joinWaiters", "done"} => jobs = <<>>
  /\ \A s \in DOMAIN sources : s < cur => waiter[s] # "none"

LEMMA UncutInit == EngineInit => UncutInv
<1> SUFFICES ASSUME EngineInit PROVE UncutInv
  OBVIOUS
<1>1. sources \in Seq(SourceRec)
  BY InputsAssumption DEF EngineInit
<1>2. \A s \in DOMAIN sources : ~(s < cur)
  BY <1>1 DEF EngineInit
<1> QED BY <1>2 DEF EngineInit, UncutInv, Walking

\* The producer's own steps.
LEMMA UncutProducer ==
  ASSUME EngineInv, UncutInv, Producer
  PROVE  UncutInv'
<1> USE DEF UncutInv
<1>1. CASE EmitDoc \/ AbandonJob
  <2>1. /\ UNCHANGED <<sources, ctxDone, cur, waiter, worker, jobs, jobsClosed>>
        /\ Walking /\ Walking' /\ prod' \in {"walk", "enqueue"}
    BY <1>1 DEF EmitDoc, AbandonJob, Walking, poolVars, chanVars
  <2> QED BY <2>1
<1>2. CASE SendJob
  <2>1. /\ UNCHANGED <<sources, ctxDone, cur, waiter, worker, jobsClosed>>
        /\ Walking /\ Walking' /\ prod' = "walk" /\ ~jobsClosed
    BY <1>2 DEF SendJob, Walking, poolVars, EngineInv, ShutdownInv
  <2> QED BY <2>1
<1>3. CASE EmitFinal
  <2>1. /\ UNCHANGED <<sources, ctxDone, worker, jobs, jobsClosed, prod>>
        /\ prod = "walk" /\ cur' = cur + 1 /\ cur \in DOMAIN sources
        /\ waiter' = [waiter EXCEPT ![cur] = "wait"]
    BY <1>3 DEF EmitFinal, poolVars, chanVars
  <2>2. sources \in Seq(SourceRec) /\ cur \in Nat
    BY InputsAssumption DEF EngineInv, TypeOK
  <2>3. \A s \in DOMAIN sources : s < cur + 1 => s < cur \/ s = cur
    BY <2>2
  <2>4. \A s \in DOMAIN sources : s < cur' => waiter'[s] # "none"
    BY <2>1, <2>3 DEF EngineInv, TypeOK
  <2> QED BY <2>1, <2>4 DEF Walking
<1>4. CASE WalkReturns
  <2>1. /\ UNCHANGED <<sources, ctxDone, cur, worker, jobs, jobsClosed>> /\ prod' = "close"
        /\ cur \notin DOMAIN sources \/ ctxDone
        /\ waiter' = waiter \/ waiter' = [waiter EXCEPT ![cur] = "wait"]
    BY <1>4 DEF WalkReturns, poolVars, chanVars
  <2>2. \A s \in DOMAIN sources : s < cur' => waiter'[s] # "none"
    BY <2>1 DEF EngineInv, TypeOK
  <2> QED BY <2>1, <2>2
<1>5. CASE CloseJobs \/ JoinWorkers \/ CloseResults
  <2>1. /\ UNCHANGED <<sources, ctxDone, cur, waiter, worker, jobs>>
        /\ ~Walking /\ (jobsClosed => jobsClosed')
        /\ prod' \in {"joinWaiters", "done"} => prod = "joinWaiters"
    BY <1>5 DEF CloseJobs, JoinWorkers, CloseResults, Walking, poolVars, chanVars
  <2> QED BY <2>1
<1>6. CASE DrainEnd
  <2>1. /\ UNCHANGED <<sources, ctxDone, cur, waiter, worker, jobs, jobsClosed>>
        /\ ~Walking /\ jobs = <<>>
    BY <1>6 DEF DrainEnd, Walking, poolVars, chanVars
  <2> QED BY <2>1
<1>7. CASE DrainJob
  <2>1. /\ UNCHANGED <<sources, ctxDone, cur, waiter, worker, jobsClosed, prod>>
        /\ prod = "drain" /\ jobs # <<>>
    BY <1>7 DEF DrainJob, walkVars, poolVars
  <2>2. ctxDone
    BY <2>1, WorkerAssumption DEF EngineInv, ShutdownInv
  <2> QED BY <2>1, <2>2
<1> QED BY <1>1, <1>2, <1>3, <1>4, <1>5, <1>6, <1>7 DEF Producer

LEMMA UncutStep ==
  ASSUME EngineInv, UncutInv, Engine \/ ReaderStep \/ UNCHANGED engineVars
  PROVE  UncutInv'
<1> USE DEF UncutInv
<1>1. CASE Producer
  BY <1>1, UncutProducer
<1>2. CASE \E w \in Worker : WorkerStep(w)
  <2> PICK w \in Worker : WorkerStep(w)
    BY <1>2
  <2>1. UNCHANGED <<sources, ctxDone, cur, waiter, jobsClosed, prod>>
    BY DEF WorkerStep, TakeJob, WorkerReturns, PushResult, DropResult, FinishJob, walkVars, chanVars
  <2>2. CASE TakeJob(w)
    <3>1. jobs # <<>> /\ worker' = [worker EXCEPT ![w] = "run"]
      BY <2>2 DEF TakeJob
    <3>2. worker[w] # "exit" /\ prod \notin {"joinWaiters", "done"}
      BY <2>2, <3>1 DEF TakeJob
    <3>3. ~ctxDone => \A x \in Worker : worker[x] # "exit"
      BY <3>1
    <3> QED BY <2>1, <3>1, <3>2, <3>3 DEF EngineInv, TypeOK, Walking
  <2>3. CASE WorkerReturns(w)
    <3>1. /\ jobs' = jobs /\ worker' = [worker EXCEPT ![w] = "exit"]
          /\ ctxDone \/ (jobsClosed /\ jobs = <<>>)
      BY <2>3 DEF WorkerReturns, chanVars
    <3> QED BY <2>1, <3>1 DEF EngineInv, TypeOK, Walking
  <2>4. CASE PushResult(w) \/ DropResult(w) \/ FinishJob(w)
    <3>1. /\ jobs' = jobs
          /\ worker' = [worker EXCEPT ![w] = "finish"] \/ worker' = [worker EXCEPT ![w] = "idle"]
      BY <2>4 DEF PushResult, DropResult, FinishJob, chanVars
    <3> QED BY <2>1, <3>1 DEF EngineInv, TypeOK, Walking
  <2> QED BY <2>2, <2>3, <2>4 DEF WorkerStep
<1>3. CASE \E s \in DOMAIN sources : WaiterStep(s)
  <2> PICK x \in DOMAIN sources : WaiterStep(x)
    BY <1>3
  <2>1. UNCHANGED <<sources, ctxDone, cur, worker, jobs, jobsClosed, prod>>
    BY DEF WaiterStep, WaitReturns, PushFinal, DropFinal, walkVars, poolVars, chanVars
  <2>2. \E st \in {"send", "done"} : waiter' = [waiter EXCEPT ![x] = st]
    BY DEF WaiterStep, WaitReturns, PushFinal, DropFinal
  <2> QED BY <2>1, <2>2 DEF EngineInv, TypeOK, Walking
<1>4. CASE ReaderStep \/ UNCHANGED engineVars
  <2>1. /\ UNCHANGED <<sources, cur, waiter, worker, jobs, jobsClosed, prod>>
        /\ ctxDone => ctxDone'
    BY <1>4 DEF ReaderStep, Deliver, CancelCtx, engineVars, walkVars, poolVars, chanVars
  <2> QED BY <2>1 DEF Walking
<1> QED BY <1>1, <1>2, <1>3, <1>4 DEF Engine

RunningJobs == {held[w] : w \in {x \in Worker : worker[x] = "run"}}

\* The job at the cursor has not been walked.
LEMMA AtCursor ==
  ASSUME TypeOK
  PROVE  ~Walked(<<cur, pos>>)
BY DEF TypeOK, Walked

LEMMA ItemsType ==
  ASSUME sources \in Seq(SourceRec), NEW s \in DOMAIN sources
  PROVE  sources[s].items \in Seq(Item)
<1>1. sources[s] \in SourceRec
  BY ElementOfSeq, LenProperties
<1> QED BY <1>1 DEF SourceRec

\* What the producer does to the jobs that wait, and to those it has walked.
LEMMA ProducerProgress ==
  ASSUME EngineInv, UncutInv, Producer, NEW j \in Nat \X Nat
  PROVE  /\ sources' = sources
         /\ Walked(j) => Walked(j)' /\ (j \in Waiting' => j \in Waiting)
         /\ Walked(j)' /\ j \notin Waiting' => (Walked(j) /\ j \notin Waiting) \/ ctxDone
<1>0. sources \in Seq(SourceRec) /\ cur \in Nat \ {0} /\ pos \in Nat \ {0}
  BY InputsAssumption DEF EngineInv, TypeOK
<1>1. CASE EmitDoc
  <2>1. UNCHANGED <<sources, cur, pos, jobs, held, worker>> /\ prod = "walk" /\ prod' = "enqueue"
    BY <1>1 DEF EmitDoc, poolVars, chanVars
  <2>2. Waiting' = Waiting \cup {<<cur, pos>>}
    BY <2>1 DEF Waiting, Offered, Queued
  <2>3. Walked(j)' <=> Walked(j)
    BY <2>1 DEF Walked
  <2>4. ~Walked(<<cur, pos>>)
    BY AtCursor DEF EngineInv
  <2> QED BY <2>1, <2>2, <2>3, <2>4
<1>2. CASE SendJob
  <2>1. /\ UNCHANGED <<sources, cur, held, worker>> /\ prod = "enqueue" /\ prod' = "walk"
        /\ jobs' = Append(jobs, <<cur, pos>>) /\ pos' = pos + 1
    BY <1>2 DEF SendJob, poolVars
  <2>2. SetOf(jobs') = SetOf(jobs) \cup {<<cur, pos>>}
    <3>1. jobs \in Seq(Nat \X Nat) /\ <<cur, pos>> \in Nat \X Nat
      BY <1>0 DEF EngineInv, TypeOK
    <3>2. PICK e : e = <<cur, pos>>
      OBVIOUS
    <3>3. jobs' = Append(jobs, e)
      BY <2>1, <3>2
    <3>4. \A T : jobs \in Seq(T) /\ e \in T => SetOf(jobs') = SetOf(jobs) \cup {e}
      BY <3>3, RangeAppend
    <3> QED BY <3>1, <3>2, <3>4
  <2>3. Waiting' = Waiting
    BY <2>1, <2>2 DEF Waiting, Offered, Queued, SetOf
  <2>4. Walked(j) => Walked(j)'
    BY <1>0, <2>1 DEF Walked
  <2>5. Walked(j)' => Walked(j) \/ j = <<cur, pos>>
    BY <1>0, <2>1 DEF Walked
  <2>6. <<cur, pos>> \in Waiting'
    BY <2>1, <2>2 DEF Waiting, Queued, SetOf
  <2> QED BY <2>1, <2>3, <2>4, <2>5, <2>6
<1>3. CASE AbandonJob
  <2>1. /\ UNCHANGED <<sources, cur, held, worker, jobs>> /\ prod' = "walk" /\ ctxDone
        /\ pos' = pos + 1
    BY <1>3 DEF AbandonJob, poolVars, chanVars
  <2>2. Waiting' \subseteq Waiting
    BY <2>1 DEF Waiting, Offered, Queued
  <2>3. Walked(j) => Walked(j)'
    BY <1>0, <2>1 DEF Walked
  <2> QED BY <2>1, <2>2, <2>3
<1>4. CASE EmitFinal
  <2>1. /\ UNCHANGED <<sources, prod, held, worker, jobs>> /\ prod = "walk"
        /\ cur' = cur + 1 /\ pos' = 1 /\ pos \notin DOMAIN sources[cur].items
        /\ cur \in DOMAIN sources
    BY <1>4 DEF EmitFinal, poolVars, chanVars
  <2>2. Waiting' = Waiting
    BY <2>1 DEF Waiting, Offered, Queued
  <2>3. sources[cur].items \in Seq(Item)
    BY <1>0, <2>1, ItemsType
  <2>4. \A k \in DOMAIN sources[cur].items : k < pos
    BY <1>0, <2>1, <2>3
  <2>5. Walked(j) => Walked(j)'
    BY <1>0, <2>1 DEF Walked
  <2>6. Walked(j)' => Walked(j)
    <3> SUFFICES ASSUME Walked(j)' PROVE Walked(j)
      OBVIOUS
    <3>1. /\ j[1] \in DOMAIN sources /\ j[2] \in DOMAIN sources[j[1]].items
          /\ j[1] < cur + 1 \/ (j[1] = cur + 1 /\ j[2] < 1)
      BY <2>1 DEF Walked
    <3>2. sources[j[1]].items \in Seq(Item)
      BY <1>0, <3>1, ItemsType
    <3>3. j[1] \in Nat /\ j[2] \in Nat /\ ~(j[2] < 1)
      BY <1>0, <3>1, <3>2
    <3>4. j[1] < cur \/ j[1] = cur
      BY <1>0, <3>1, <3>3
    <3> QED BY <2>4, <3>1, <3>4 DEF Walked
  <2> QED BY <2>1, <2>2, <2>5, <2>6
<1>5. CASE WalkReturns \/ CloseJobs \/ JoinWorkers \/ DrainEnd \/ CloseResults
  <2>1. /\ UNCHANGED <<sources, cur, pos, held, worker, jobs>>
        /\ prod # "enqueue" /\ prod' # "enqueue"
    BY <1>5 DEF WalkReturns, CloseJobs, JoinWorkers, DrainEnd, CloseResults, poolVars, chanVars
  <2>2. Waiting' = Waiting
    BY <2>1 DEF Waiting, Offered, Queued
  <2> QED BY <2>1, <2>2 DEF Walked
<1>6. CASE DrainJob
  <2>1. /\ UNCHANGED <<sources, ctxDone, cur, pos, held, worker, prod>> /\ prod = "drain"
        /\ jobs # <<>> /\ jobs' = Tail(jobs)
    BY <1>6 DEF DrainJob, walkVars, poolVars
  <2>2. SetOf(jobs') \subseteq SetOf(jobs)
    BY <2>1, RangeTail DEF EngineInv, TypeOK, PlacedInv
  <2>3. Waiting' \subseteq Waiting
    BY <2>1, <2>2 DEF Waiting, Offered, Queued, SetOf
  <2>4. ctxDone
    BY <2>1, WorkerAssumption DEF EngineInv, ShutdownInv, UncutInv
  <2> QED BY <2>1, <2>3, <2>4 DEF Walked
<1> QED BY <1>1, <1>2, <1>3, <1>4, <1>5, <1>6 DEF Producer

\* A worker's job waits until its result is pushed or dropped.
LEMMA WorkerProgress ==
  ASSUME EngineInv, NEW w \in Worker, WorkerStep(w), NEW j \in Nat \X Nat
  PROVE  /\ sources' = sources /\ ctxDone' = ctxDone
         /\ Walked(j)' <=> Walked(j)
         /\ j \in Waiting' => j \in Waiting
         /\ j \in Waiting /\ j \notin Waiting' =>
              \/ PushResult(w) /\ held[w] = j
              \/ DropResult(w) /\ held[w] = j
         /\ PushResult(w) \/ DropResult(w) => held[w] \notin Waiting'
<1>1. UNCHANGED <<sources, ctxDone, cur, pos, prod>>
  BY DEF WorkerStep, TakeJob, WorkerReturns, PushResult, DropResult, FinishJob, walkVars
<1>2. Walked(j)' <=> Walked(j)
  BY <1>1 DEF Walked
<1>3. Offered' = Offered
  BY <1>1 DEF Offered
<1>4. CASE TakeJob(w)
  <2>1. /\ jobs # <<>> /\ jobs' = Tail(jobs) /\ worker[w] = "idle"
        /\ held' = [held EXCEPT ![w] = Head(jobs)] /\ worker' = [worker EXCEPT ![w] = "run"]
    BY <1>4 DEF TakeJob
  <2>2. Head(jobs) \in SetOf(jobs) /\ SetOf(jobs') = SetOf(jobs) \ {Head(jobs)}
    BY <2>1, RangeTail DEF EngineInv, TypeOK, PlacedInv
  <2>3. Queued = Queued' \cup {Head(jobs)}
    BY <2>2 DEF Queued, SetOf
  <2>4. {x \in Worker : worker'[x] = "run"} = {x \in Worker : worker[x] = "run"} \cup {w}
    BY <2>1 DEF EngineInv, TypeOK
  <2>5. RunningJobs' = RunningJobs \cup {Head(jobs)}
    BY <2>1, <2>4 DEF RunningJobs, EngineInv, TypeOK
  <2>6. Waiting' = Waiting
    BY <1>3, <2>3, <2>5 DEF Waiting, RunningJobs
  <2>7. ~PushResult(w) /\ ~DropResult(w)
    BY <2>1 DEF PushResult, DropResult
  <2> QED BY <1>1, <1>2, <2>6, <2>7
<1>5. CASE WorkerReturns(w) \/ FinishJob(w)
  <2>1. /\ jobs' = jobs /\ worker[w] \in {"idle", "finish"}
        /\ \E st \in {"idle", "exit"} : worker' = [worker EXCEPT ![w] = st]
        /\ held' = held \/ held' = [held EXCEPT ![w] = NoJob]
    BY <1>5 DEF WorkerReturns, FinishJob, chanVars
  <2>2. /\ {x \in Worker : worker'[x] = "run"} = {x \in Worker : worker[x] = "run"}
        /\ \A x \in Worker : worker[x] = "run" => held'[x] = held[x]
    BY <2>1 DEF EngineInv, TypeOK
  <2>3. RunningJobs' = RunningJobs
    BY <2>2 DEF RunningJobs
  <2>4. Waiting' = Waiting
    BY <1>3, <2>1, <2>3 DEF Waiting, RunningJobs, Queued
  <2>5. ~PushResult(w) /\ ~DropResult(w)
    BY <2>1 DEF PushResult, DropResult
  <2> QED BY <1>1, <1>2, <2>4, <2>5
<1>6. CASE PushResult(w) \/ DropResult(w)
  <2>1. /\ jobs' = jobs /\ held' = held /\ worker[w] = "run"
        /\ worker' = [worker EXCEPT ![w] = "finish"]
    BY <1>6 DEF PushResult, DropResult, chanVars
  <2>2. {x \in Worker : worker'[x] = "run"} = {x \in Worker : worker[x] = "run"} \ {w}
    BY <2>1 DEF EngineInv, TypeOK
  <2>3. \A x \in Worker : worker[x] = "run" /\ held[x] = held[w] => x = w
    BY <2>1 DEF EngineInv, PlacedInv, Busy
  <2>4. RunningJobs' = RunningJobs \ {held[w]} /\ held[w] \in RunningJobs
    BY <2>1, <2>2, <2>3 DEF RunningJobs
  <2>5. held[w] \in Running
    BY <2>1 DEF Running, Busy
  <2>6. held[w] \notin Queued /\ held[w] \notin Offered
    BY <2>5, AtCursor DEF EngineInv, PlacedInv, Offered
  <2>7. Waiting' = Waiting \ {held[w]}
    BY <1>3, <2>1, <2>4, <2>6 DEF Waiting, RunningJobs, Queued
  <2> QED BY <1>1, <1>2, <1>6, <2>7
<1> QED BY <1>4, <1>5, <1>6 DEF WorkerStep

\* A job that has been walked no longer waits only if its result is out, if it
\* has none, or if the context is done.
LEMMA JobsProgress ==
  ASSUME EngineInv, UncutInv, Engine \/ ReaderStep \/ UNCHANGED engineVars, NEW j \in Nat \X Nat
  PROVE  /\ sources' = sources /\ (ctxDone => ctxDone')
         /\ Walked(j) => Walked(j)' /\ (j \in Waiting' => j \in Waiting)
         /\ Walked(j)' /\ j \notin Waiting' =>
              \/ Walked(j) /\ j \notin Waiting
              \/ \E w \in Worker : PushResult(w) /\ held[w] = j
              \/ ItemOf(j).status = "none"
              \/ ctxDone
<1>1. CASE Producer
  <2>1. ctxDone' = ctxDone
    BY <1>1 DEF Producer, EmitDoc, SendJob, AbandonJob, EmitFinal, WalkReturns, CloseJobs,
                JoinWorkers, DrainJob, DrainEnd, CloseResults
  <2> QED BY <1>1, <2>1, ProducerProgress
<1>2. CASE \E w \in Worker : WorkerStep(w)
  <2> PICK w \in Worker : WorkerStep(w)
    BY <1>2
  <2>1. DropResult(w) /\ held[w] = j => ItemOf(j).status = "none" \/ ctxDone
    BY DEF DropResult
  <2> QED BY <2>1, WorkerProgress
<1>3. CASE (\E s \in DOMAIN sources : WaiterStep(s)) \/ ReaderStep \/ UNCHANGED engineVars
  <2>1. UNCHANGED <<sources, cur, pos, prod, jobs, held, worker>> /\ (ctxDone => ctxDone')
    BY <1>3 DEF WaiterStep, WaitReturns, PushFinal, DropFinal, ReaderStep, Deliver, CancelCtx,
                engineVars, walkVars, poolVars, chanVars
  <2>2. Waiting' = Waiting
    BY <2>1 DEF Waiting, Offered, Queued
  <2> QED BY <2>1, <2>2 DEF Walked
<1> QED BY <1>1, <1>2, <1>3 DEF Engine

\* No step changes the input or takes a cancellation back.
LEMMA InputStays ==
  ASSUME EngineInv, UncutInv, Engine \/ ReaderStep \/ UNCHANGED engineVars
  PROVE  sources' = sources /\ (ctxDone => ctxDone')
<1>1. <<0, 0>> \in Nat \X Nat
  OBVIOUS
<1> QED BY <1>1, JobsProgress

\* Nothing is walked at the start.
LEMMA NothingWalked ==
  ASSUME sources \in Seq(SourceRec), cur = 1, pos = 1
  PROVE  \A j \in Nat \X Nat : ~Walked(j)
<1> SUFFICES ASSUME NEW j \in Nat \X Nat, Walked(j) PROVE FALSE
  OBVIOUS
<1>1. j[1] \in DOMAIN sources /\ j[2] \in DOMAIN sources[j[1]].items /\ (j[2] < 1 \/ j[1] < 1)
  BY DEF Walked
<1>2. j[1] \in 1 .. Len(sources) /\ sources[j[1]].items \in Seq(Item)
  BY <1>1, ItemsType
<1> QED BY <1>1, <1>2

\* A receive takes the first element and leaves the others.
LEMMA TailHas ==
  ASSUME NEW T, NEW q \in Seq(T), q # <<>>
  PROVE  /\ Head(q) \in T /\ Head(q) = q[1] /\ 1 \in DOMAIN q
         /\ \A k \in DOMAIN q : k = 1 \/ \E m \in DOMAIN Tail(q) : Tail(q)[m] = q[k]
         /\ \A m \in DOMAIN Tail(q) : \E k \in DOMAIN q : Tail(q)[m] = q[k]
<1>1. /\ DOMAIN q = 1 .. Len(q) /\ Len(q) \in Nat \ {0} /\ Head(q) = q[1] /\ Head(q) \in T
      /\ DOMAIN Tail(q) = 1 .. Len(q) - 1 /\ \A k \in 1 .. Len(q) - 1 : Tail(q)[k] = q[k + 1]
  BY HeadTailProperties, LenProperties, EmptySeq
<1>2. ASSUME NEW k \in DOMAIN q, k # 1
      PROVE  \E m \in DOMAIN Tail(q) : Tail(q)[m] = q[k]
  <2>1. k - 1 \in DOMAIN Tail(q) /\ Tail(q)[k - 1] = q[k]
    BY <1>1, <1>2
  <2> QED BY <2>1
<1>3. ASSUME NEW m \in DOMAIN Tail(q)
      PROVE  \E k \in DOMAIN q : Tail(q)[m] = q[k]
  <2>1. m + 1 \in DOMAIN q /\ Tail(q)[m] = q[m + 1]
    BY <1>1
  <2> QED BY <2>1
<1> QED BY <1>1, <1>2, <1>3

\* Once the results are closed nothing waits, and an uncut walk has passed
\* everything.
LEMMA NothingWaits ==
  ASSUME EngineInv, UncutInv, resultsClosed
  PROVE  /\ Waiting = {}
         /\ \A s \in DOMAIN sources : waiter[s] \in {"none", "done"}
         /\ ~ctxDone => /\ \A s \in DOMAIN sources : waiter[s] = "done"
                        /\ \A s \in DOMAIN sources : \A k \in DOMAIN sources[s].items :
                             Walked(<<s, k>>)
<1>1. /\ prod = "done" /\ jobs = <<>> /\ \A w \in Worker : worker[w] = "exit"
      /\ \A s \in DOMAIN sources : waiter[s] \in {"none", "done"}
  BY DEF EngineInv, ShutdownInv, UncutInv
<1>2. Waiting = {}
  BY <1>1 DEF Waiting, Offered, Queued
<1>3. sources \in Seq(SourceRec) /\ cur \in Nat \ {0}
  BY InputsAssumption DEF EngineInv, TypeOK
<1>4. ~ctxDone => \A s \in DOMAIN sources : s < cur
  BY <1>1, <1>3 DEF UncutInv, Walking
<1> QED BY <1>1, <1>2, <1>4 DEF UncutInv, Walked
-----------------------------------------------------------------------------
(* The stream: what its reader has received, then what is in the channel.   *)
(* The reader's part d and the stream p are parameters, so that a reader    *)
(* that keeps no record of what it received can cite these facts too.       *)

\* No element of q follows a sentinel of its own source.
SentinelsEnd(q) == \A k, m \in DOMAIN q : k < m /\ q[k].final => q[m].src # q[k].src

\* Element r of the stream is the result of a job that owes none any more, or
\* the sentinel of a source whose waiter is done.
ResultOfJob(r, j) ==
  /\ Walked(j) /\ j \notin Waiting /\ ItemOf(j).status # "none"
  /\ \E st \in Verdicts(j) : r = ResultOf(j, st)
Sentinel(r) == r.src \in DOMAIN sources /\ waiter[r.src] = "done" /\ r = FinalOf(r.src)
Accounted(r) == (\E j \in Nat \X Nat : ResultOfJob(r, j)) \/ Sentinel(r)

SameKey(r, x) == r.src = x.src /\ r.doc = x.doc /\ r.final = x.final

\* Every element of the stream is accounted for, and none is there twice.
CarriedOnce(q) ==
  /\ \A k \in DOMAIN q : Accounted(q[k])
  /\ \A k, m \in DOMAIN q : SameKey(q[k], q[m]) => k = m

\* Without a cancellation, what is not in the stream is still under way.
DeliveredAll(q) ==
  ~ctxDone =>
    /\ \A j \in Nat \X Nat :
         Walked(j) /\ j \notin Waiting /\ ItemOf(j).status # "none" =>
           \E k \in DOMAIN q : q[k] = ResultOf(j, ItemOf(j).status)
    /\ \A s \in DOMAIN sources :
         waiter[s] = "done" => \E k \in DOMAIN q : q[k] = FinalOf(s)

StreamIs(q) == SentinelsEnd(q) /\ CarriedOnce(q) /\ DeliveredAll(q)

\* The reader has received d, and the stream is p.
Carries(d, p) ==
  /\ d \in Seq(ResultRec) /\ p = d \o results
  /\ StreamIs(p)

\* A push appends to the stream.
LEMMA PushAppends ==
  ASSUME NEW T, NEW d \in Seq(T), NEW q \in Seq(T), NEW e \in T
  PROVE  d \o Append(q, e) = Append(d \o q, e)
<1>1. <<e>> \in Seq(T) /\ d \o q \in Seq(T)
  BY ConcatProperties
<1>2. Append(q, e) = q \o <<e>> /\ Append(d \o q, e) = (d \o q) \o <<e>>
  BY <1>1, AppendIsConcat
<1> QED BY <1>1, <1>2, ConcatAssociative

\* A receive moves the head of the channel to the receiver: the stream stays.
LEMMA ReceiveKeeps ==
  ASSUME NEW T, NEW d \in Seq(T), NEW q \in Seq(T), q # <<>>
  PROVE  Append(d, Head(q)) \o Tail(q) = d \o q
<1>1. Head(q) \in T /\ Tail(q) \in Seq(T) /\ <<Head(q)>> \in Seq(T)
  BY HeadTailProperties
<1>2. <<Head(q)>> \o Tail(q) = q
  OBVIOUS
<1>3. Append(d, Head(q)) = d \o <<Head(q)>>
  BY <1>1, AppendIsConcat
<1> QED BY <1>1, <1>2, <1>3, ConcatAssociative

LEMMA StreamType ==
  ASSUME EngineInv, NEW d, NEW p, Carries(d, p)
  PROVE  /\ d \in Seq(ResultRec) /\ results \in Seq(ResultRec) /\ p \in Seq(ResultRec)
         /\ DOMAIN p = 1 .. Len(p) /\ Len(p) \in Nat
         /\ \A k \in DOMAIN p : p[k] \in ResultRec
<1>1. d \in Seq(ResultRec) /\ results \in Seq(ResultRec) /\ p = d \o results
  BY DEF Carries, EngineInv, TypeOK
<1>2. p \in Seq(ResultRec)
  BY <1>1, ConcatProperties
<1> QED BY <1>1, <1>2, LenProperties

\* A sentinel in the stream is the last act of the waiter of its source.
LEMMA FinalsAccounted ==
  ASSUME NEW p, StreamIs(p), NEW k \in DOMAIN p, p[k].final
  PROVE  p[k].src \in DOMAIN sources /\ waiter[p[k].src] = "done" /\ p[k] = FinalOf(p[k].src)
<1>1. Accounted(p[k])
  BY DEF StreamIs, CarriedOnce
<1>2. \A j : ~ResultOfJob(p[k], j)
  BY DEF ResultOfJob, ResultOf
<1> QED BY <1>1, <1>2 DEF Accounted, Sentinel

\* No step brings a waiter back from the end of its goroutine.
LEMMA DoneStays ==
  ASSUME EngineInv, Engine \/ ReaderStep \/ UNCHANGED engineVars,
         NEW s \in DOMAIN sources, waiter[s] = "done"
  PROVE  sources' = sources /\ waiter'[s] = "done"
<1> USE DEF EngineInv
<1>1. CASE EmitFinal \/ WalkReturns
  <2>1. sources' = sources /\ prod = "walk"
    BY <1>1 DEF EmitFinal, WalkReturns
  <2>2. waiter' = waiter \/ waiter' = [waiter EXCEPT ![cur] = "wait"]
    BY <1>1 DEF EmitFinal, WalkReturns
  <2>3. s # cur
    <3>1. s < cur
      BY <2>1 DEF WaiterInv, Walking
    <3>2. cur \in Nat
      BY DEF TypeOK
    <3> QED BY <3>1, <3>2
  <2> QED BY <2>1, <2>2, <2>3 DEF TypeOK
<1>2. CASE \E x \in DOMAIN sources : WaiterStep(x)
  <2> PICK x \in DOMAIN sources : WaiterStep(x)
    BY <1>2
  <2>1. sources' = sources /\ waiter[x] # "done" /\ \E st : waiter' = [waiter EXCEPT ![x] = st]
    BY DEF WaiterStep, WaitReturns, PushFinal, DropFinal
  <2> QED BY <2>1 DEF TypeOK
<1>3. CASE \E w \in Worker : WorkerStep(w)
  BY <1>3 DEF WorkerStep, TakeJob, WorkerReturns, PushResult, DropResult, FinishJob
<1>4. CASE Producer /\ ~EmitFinal /\ ~WalkReturns
  BY <1>4 DEF Producer, EmitDoc, SendJob, AbandonJob, CloseJobs, JoinWorkers, DrainJob,
              DrainEnd, CloseResults
<1>5. CASE ReaderStep \/ UNCHANGED engineVars
  BY <1>5 DEF ReaderStep, Deliver, CancelCtx, engineVars
<1> QED BY <1>1, <1>2, <1>3, <1>4, <1>5 DEF Engine

\* One result of a source has one DocIndex.
LEMMA DocNamesJob ==
  ASSUME sources \in Inputs, NEW j \in Nat \X Nat, NEW i \in Nat \X Nat, Walked(j), Walked(i),
         j[1] = i[1], ItemOf(j).doc = ItemOf(i).doc
  PROVE  i = j
<1>1. j[2] = i[2]
  BY DocsAssumption DEF Walked, ItemOf
<1> QED BY <1>1

\* What is accounted for stays so.
LEMMA AccountedStays ==
  ASSUME EngineInv, UncutInv, Engine \/ ReaderStep \/ UNCHANGED engineVars, NEW r, Accounted(r)
  PROVE  Accounted(r)'
<1>0. sources' = sources /\ (ctxDone => ctxDone')
  BY InputStays
<1>1. ASSUME NEW j \in Nat \X Nat, ResultOfJob(r, j)
      PROVE  ResultOfJob(r, j)'
  <2>1. Walked(j)' /\ j \notin Waiting'
    BY <1>1, JobsProgress DEF ResultOfJob
  <2>2. Verdicts(j) \subseteq Verdicts(j)' /\ ItemOf(j)' = ItemOf(j)
    BY <1>0 DEF Verdicts, ItemOf
  <2>3. \A st : ResultOf(j, st)' = ResultOf(j, st)
    BY <1>0 DEF ResultOf, ItemOf
  <2> QED BY <1>1, <2>1, <2>2, <2>3 DEF ResultOfJob
<1>2. ASSUME Sentinel(r)
      PROVE  Sentinel(r)'
  BY <1>0, <1>2, DoneStays DEF Sentinel, FinalOf
<1> QED BY <1>1, <1>2 DEF Accounted

\* A step that pushes nothing: only a cancellation may have lost something.
LEMMA StreamStays ==
  ASSUME EngineInv, UncutInv, Engine \/ ReaderStep \/ UNCHANGED engineVars, NEW p, StreamIs(p),
         ~\E w \in Worker : PushResult(w),
         ~ctxDone' => \A s \in DOMAIN sources : waiter'[s] = "done" => waiter[s] = "done"
  PROVE  StreamIs(p)'
<1>1. CarriedOnce(p)'
  <2>1. \A r : Accounted(r) => Accounted(r)'
    BY AccountedStays
  <2> QED BY <2>1 DEF StreamIs, CarriedOnce, SameKey
<1>2. DeliveredAll(p)'
  <2> SUFFICES ASSUME ~ctxDone' PROVE DeliveredAll(p)'
    BY DEF DeliveredAll
  <2>0. sources' = sources /\ ~ctxDone
    BY InputStays
  <2>1. \A j : ItemOf(j)' = ItemOf(j) /\ \A st : ResultOf(j, st)' = ResultOf(j, st)
    BY <2>0 DEF ResultOf, ItemOf
  <2>2. \A s : FinalOf(s)' = FinalOf(s)
    BY <2>0 DEF FinalOf
  <2>3. ASSUME NEW j \in Nat \X Nat, Walked(j)', j \notin Waiting', ItemOf(j).status # "none"
        PROVE  \E k \in DOMAIN p : p[k] = ResultOf(j, ItemOf(j).status)
    <3>1. Walked(j) /\ j \notin Waiting
      BY <2>0, <2>3, JobsProgress
    <3> QED BY <2>0, <2>3, <3>1 DEF StreamIs, DeliveredAll
  <2>4. \A s \in DOMAIN sources : waiter'[s] = "done" => \E k \in DOMAIN p : p[k] = FinalOf(s)
    BY <2>0 DEF StreamIs, DeliveredAll
  <2> QED BY <2>0, <2>1, <2>2, <2>3, <2>4 DEF DeliveredAll
<1>3. SentinelsEnd(p)'
  BY DEF StreamIs, SentinelsEnd
<1> QED BY <1>1, <1>2, <1>3 DEF StreamIs

\* No element of p has the key of e, and its source has no sentinel out.
NewIn(p, e) ==
  /\ \A k \in DOMAIN p : ~SameKey(p[k], e)
  /\ \A k \in DOMAIN p : p[k].final => p[k].src # e.src

\* Stream q is p and, somewhere, e.
Extends(p, q, e) ==
  /\ DOMAIN p \subseteq DOMAIN q
  /\ \A k \in DOMAIN p : q[k] = p[k]
  /\ \E k \in DOMAIN q : q[k] = e

\* A push of an element whose key is new and whose source has no sentinel out.
LEMMA StreamGrows ==
  ASSUME EngineInv, UncutInv, Engine, NEW p \in Seq(ResultRec), StreamIs(p),
         NEW e \in ResultRec, Accounted(e)', NewIn(p, e), NEW q, q = Append(p, e)
  PROVE  CarriedOnce(q)' /\ SentinelsEnd(q)' /\ Extends(p, q, e)
<1>1. DOMAIN p = 1 .. Len(p) /\ Len(p) \in Nat
  BY LenProperties
<1>2. /\ DOMAIN q = (DOMAIN p) \cup {Len(p) + 1} /\ q[Len(p) + 1] = e
      /\ \A k \in DOMAIN p : q[k] = p[k]
  BY <1>1, AppendProperties, LenProperties
<1>3. \A k \in DOMAIN q : Accounted(q[k])'
  <2> TAKE k \in DOMAIN q
  <2>1. CASE k \in DOMAIN p
    <3>1. Accounted(p[k])
      BY <2>1 DEF StreamIs, CarriedOnce
    <3>2. \A r : Accounted(r) => Accounted(r)'
      BY AccountedStays
    <3> QED BY <1>2, <2>1, <3>1, <3>2
  <2>2. CASE k = Len(p) + 1
    BY <1>2, <2>2
  <2> QED BY <1>2, <2>1, <2>2
<1>4. \A k, m \in DOMAIN q : SameKey(q[k], q[m]) => k = m
  BY <1>2 DEF StreamIs, CarriedOnce, SameKey, NewIn
<1>5. CarriedOnce(q)'
  BY <1>3, <1>4 DEF CarriedOnce, SameKey
<1>6. SentinelsEnd(q)'
  <2> SUFFICES ASSUME NEW k \in DOMAIN q, NEW m \in DOMAIN q, k < m, q[k].final
               PROVE  q[m].src # q[k].src
    BY DEF SentinelsEnd
  <2>1. k \in DOMAIN p
    BY <1>1, <1>2
  <2> QED BY <1>2, <2>1 DEF StreamIs, SentinelsEnd, NewIn
<1>7. Extends(p, q, e)
  BY <1>2 DEF Extends
<1> QED BY <1>5, <1>6, <1>7

\* A worker's result: its job waited until now, so no element has its key,
\* and was in flight, so the waiter of its source is still in Wait.
LEMMA StreamPushResult ==
  ASSUME EngineInv, UncutInv, NEW d, NEW p, Carries(d, p), NEW w \in Worker, PushResult(w)
  PROVE  \E q : Carries(d, q)'
<1>0. PICK j : j = held[w]
  OBVIOUS
<1>1. j \in Running /\ Walked(j) /\ j \in Nat \X Nat /\ j \in Waiting
  BY <1>0 DEF PushResult, Running, Busy, EngineInv, PlacedInv, TypeOK, Waiting
<1>2. PICK st \in Verdicts(j) : results' = Append(results, ResultOf(j, st))
  BY <1>0 DEF PushResult
<1>3. PICK e : e = ResultOf(j, st)
  OBVIOUS
<1>4. e \in ResultRec /\ e.src = j[1] /\ ~e.final /\ e.doc = ItemOf(j).doc
  BY <1>1, <1>3, ResultType DEF EngineInv, TypeOK, ResultOf
<1>5. /\ sources' = sources /\ waiter' = waiter /\ ctxDone' = ctxDone
      /\ results' = Append(results, e) /\ ItemOf(j).status # "none"
  BY <1>0, <1>2, <1>3 DEF PushResult
<1>6. PICK q : q = Append(p, e)
  OBVIOUS
<1>7. d \in Seq(ResultRec) /\ results \in Seq(ResultRec) /\ p \in Seq(ResultRec) /\ StreamIs(p)
  BY StreamType DEF Carries
<1>8. q = d \o results'
  <2>1. d \o Append(results, e) = Append(d \o results, e)
    BY <1>4, <1>7, PushAppends
  <2> QED BY <1>5, <1>6, <2>1 DEF Carries
<1>9. WorkerStep(w) /\ Engine
  BY DEF WorkerStep, Engine
<1>10. Walked(j)' /\ j \notin Waiting'
  BY <1>0, <1>1, <1>9, WorkerProgress
<1>11. Accounted(e)'
  <2>1. Verdicts(j)' = Verdicts(j) /\ ItemOf(j)' = ItemOf(j) /\ ResultOf(j, st)' = ResultOf(j, st)
    BY <1>5 DEF Verdicts, ItemOf, ResultOf
  <2>2. ResultOfJob(e, j)'
    BY <1>2, <1>3, <1>5, <1>10, <2>1 DEF ResultOfJob
  <2> QED BY <1>1, <2>2 DEF Accounted
<1>12. ASSUME NEW k \in DOMAIN p, SameKey(p[k], e)
       PROVE  FALSE
  <2>1. Accounted(p[k])
    BY <1>7 DEF StreamIs, CarriedOnce
  <2>2. ~Sentinel(p[k])
    BY <1>4, <1>12 DEF Sentinel, FinalOf, SameKey
  <2>3. PICK i \in Nat \X Nat : ResultOfJob(p[k], i)
    BY <2>1, <2>2 DEF Accounted
  <2>4. Walked(i) /\ i \notin Waiting /\ p[k].src = i[1] /\ p[k].doc = ItemOf(i).doc
    BY <2>3 DEF ResultOfJob, ResultOf
  <2>5. i[1] = j[1] /\ ItemOf(i).doc = ItemOf(j).doc
    BY <1>4, <1>12, <2>4 DEF SameKey
  <2>6. i = j
    BY <1>1, <2>4, <2>5, DocNamesJob DEF EngineInv, TypeOK
  <2> QED BY <1>1, <2>4, <2>6
<1>13. \A k \in DOMAIN p : p[k].final => p[k].src # e.src
  <2>1. InFlightOf(j[1]) # {} /\ j[1] \in DOMAIN sources
    BY <1>1 DEF InFlightOf, InFlight, Walked
  <2>2. waiter[j[1]] # "done"
    BY <2>1 DEF EngineInv, WaiterInv
  <2> QED BY <1>4, <1>7, <2>2, FinalsAccounted
<1>14. CarriedOnce(q)' /\ SentinelsEnd(q)' /\ Extends(p, q, e)
  <2>1. NewIn(p, e)
    BY <1>12, <1>13 DEF NewIn
  <2> QED BY <1>4, <1>6, <1>7, <1>9, <1>11, <2>1, StreamGrows
<1>15. DeliveredAll(q)'
  <2> SUFFICES ASSUME ~ctxDone PROVE DeliveredAll(q)'
    BY <1>5 DEF DeliveredAll
  <2>1. \A i : ItemOf(i)' = ItemOf(i) /\ \A x : ResultOf(i, x)' = ResultOf(i, x)
    BY <1>5 DEF ResultOf, ItemOf
  <2>2. \A s : FinalOf(s)' = FinalOf(s)
    BY <1>5 DEF FinalOf
  <2>3. st = ItemOf(j).status
    BY DEF Verdicts
  <2>4. ASSUME NEW i \in Nat \X Nat, Walked(i)', i \notin Waiting', ItemOf(i).status # "none"
        PROVE  \E k \in DOMAIN q : q[k] = ResultOf(i, ItemOf(i).status)
    <3>1. CASE i = j
      BY <1>3, <1>14, <2>3, <3>1 DEF Extends
    <3>2. CASE i # j
      <4>1. Walked(i) /\ i \notin Waiting
        BY <1>0, <1>9, <2>4, <3>2, WorkerProgress DEF DropResult, PushResult
      <4>2. PICK k \in DOMAIN p : p[k] = ResultOf(i, ItemOf(i).status)
        BY <1>7, <2>4, <4>1 DEF StreamIs, DeliveredAll
      <4> QED BY <1>14, <4>2 DEF Extends
    <3> QED BY <3>1, <3>2
  <2>5. ASSUME NEW s \in DOMAIN sources, waiter[s] = "done"
        PROVE  \E k \in DOMAIN q : q[k] = FinalOf(s)
    <3>1. PICK k \in DOMAIN p : p[k] = FinalOf(s)
      BY <1>7, <2>5 DEF StreamIs, DeliveredAll
    <3> QED BY <1>14, <3>1 DEF Extends
  <2> QED BY <1>5, <2>1, <2>2, <2>4, <2>5 DEF DeliveredAll
<1> QED BY <1>7, <1>8, <1>14, <1>15 DEF Carries, StreamIs

\* A sentinel: its waiter was not done, so it is the first of its source.
LEMMA StreamPushFinal ==
  ASSUME EngineInv, UncutInv, NEW d, NEW p, Carries(d, p), NEW s \in DOMAIN sources, PushFinal(s)
  PROVE  \E q : Carries(d, q)'
<1>1. PICK e : e = FinalOf(s)
  OBVIOUS
<1>2. e \in ResultRec /\ e.src = s /\ e.final
  BY <1>1, FinalType DEF EngineInv, TypeOK
<1>3. /\ sources' = sources /\ waiter' = [waiter EXCEPT ![s] = "done"] /\ ctxDone' = ctxDone
      /\ results' = Append(results, e) /\ waiter[s] = "send"
      /\ UNCHANGED <<cur, pos, prod, jobs, held, worker>>
  BY <1>1 DEF PushFinal, walkVars, poolVars
<1>4. PICK q : q = Append(p, e)
  OBVIOUS
<1>5. d \in Seq(ResultRec) /\ results \in Seq(ResultRec) /\ p \in Seq(ResultRec) /\ StreamIs(p)
  BY StreamType DEF Carries
<1>6. q = d \o results'
  <2>1. d \o Append(results, e) = Append(d \o results, e)
    BY <1>2, <1>5, PushAppends
  <2> QED BY <1>3, <1>4, <2>1 DEF Carries
<1>7. waiter'[s] = "done" /\ \A x \in DOMAIN sources : x # s => waiter'[x] = waiter[x]
  BY <1>3 DEF EngineInv, TypeOK
<1>8. Accounted(e)'
  BY <1>1, <1>2, <1>3, <1>7 DEF Accounted, Sentinel, FinalOf
<1>9. \A k \in DOMAIN p : p[k].final => p[k].src # e.src
  BY <1>2, <1>3, <1>5, FinalsAccounted
<1>10. \A k \in DOMAIN p : ~SameKey(p[k], e)
  BY <1>2, <1>9 DEF SameKey
<1>11. Engine
  BY DEF Engine, WaiterStep
<1>12. CarriedOnce(q)' /\ SentinelsEnd(q)' /\ Extends(p, q, e)
  <2>1. NewIn(p, e)
    BY <1>9, <1>10 DEF NewIn
  <2> QED BY <1>2, <1>4, <1>5, <1>8, <1>11, <2>1, StreamGrows
<1>13. DeliveredAll(q)'
  <2> SUFFICES ASSUME ~ctxDone PROVE DeliveredAll(q)'
    BY <1>3 DEF DeliveredAll
  <2>1. \A i : ItemOf(i)' = ItemOf(i) /\ \A x : ResultOf(i, x)' = ResultOf(i, x)
    BY <1>3 DEF ResultOf, ItemOf
  <2>2. \A x : FinalOf(x)' = FinalOf(x)
    BY <1>3 DEF FinalOf
  <2>3. (\A i : Walked(i)' <=> Walked(i)) /\ Waiting' = Waiting
    BY <1>3 DEF Walked, Waiting, Offered, Queued
  <2>4. ASSUME NEW i \in Nat \X Nat, Walked(i), i \notin Waiting, ItemOf(i).status # "none"
        PROVE  \E k \in DOMAIN q : q[k] = ResultOf(i, ItemOf(i).status)
    <3>1. PICK k \in DOMAIN p : p[k] = ResultOf(i, ItemOf(i).status)
      BY <1>5, <2>4 DEF StreamIs, DeliveredAll
    <3> QED BY <1>12, <3>1 DEF Extends
  <2>5. ASSUME NEW x \in DOMAIN sources, waiter'[x] = "done"
        PROVE  \E k \in DOMAIN q : q[k] = FinalOf(x)
    <3>1. CASE x = s
      BY <1>1, <1>12, <3>1 DEF Extends
    <3>2. CASE x # s
      <4>1. PICK k \in DOMAIN p : p[k] = FinalOf(x)
        BY <1>5, <1>7, <2>5, <3>2 DEF StreamIs, DeliveredAll
      <4> QED BY <1>12, <4>1 DEF Extends
    <3> QED BY <3>1, <3>2
  <2> QED BY <1>3, <2>1, <2>2, <2>3, <2>4, <2>5 DEF DeliveredAll
<1> QED BY <1>5, <1>6, <1>12, <1>13 DEF Carries, StreamIs

\* The engine's steps push, or leave the stream alone.
LEMMA StreamEngineStep ==
  ASSUME EngineInv, UncutInv, NEW d, NEW p, Carries(d, p), Engine
  PROVE  \E q : Carries(d, q)'
<1>1. CASE \E w \in Worker : PushResult(w)
  BY <1>1, StreamPushResult
<1>2. CASE \E s \in DOMAIN sources : PushFinal(s)
  BY <1>2, StreamPushFinal
<1>3. CASE ~(\E w \in Worker : PushResult(w)) /\ ~(\E s \in DOMAIN sources : PushFinal(s))
  <2>1. /\ results' = results
        /\ ~ctxDone' => \A s \in DOMAIN sources : waiter'[s] = "done" => waiter[s] = "done"
    <3>1. CASE Producer
      <4>1. results' = results
        BY <3>1 DEF Producer, EmitDoc, SendJob, AbandonJob, EmitFinal, WalkReturns, CloseJobs,
                    JoinWorkers, DrainJob, DrainEnd, CloseResults, chanVars
      <4>2. waiter' = waiter \/ waiter' = [waiter EXCEPT ![cur] = "wait"]
        BY <3>1 DEF Producer, EmitDoc, SendJob, AbandonJob, EmitFinal, WalkReturns, CloseJobs,
                    JoinWorkers, DrainJob, DrainEnd, CloseResults
      <4> QED BY <4>1, <4>2 DEF EngineInv, TypeOK
    <3>2. CASE \E w \in Worker : WorkerStep(w)
      BY <1>3, <3>2 DEF WorkerStep, TakeJob, WorkerReturns, DropResult, FinishJob, chanVars
    <3>3. CASE \E s \in DOMAIN sources : WaiterStep(s)
      <4> PICK s \in DOMAIN sources : WaiterStep(s)
        BY <3>3
      <4>1. CASE WaitReturns(s)
        BY <4>1 DEF WaitReturns, chanVars, EngineInv, TypeOK
      <4>2. CASE DropFinal(s)
        BY <4>2 DEF DropFinal, chanVars
      <4> QED BY <1>3, <4>1, <4>2 DEF WaiterStep
    <3> QED BY <3>1, <3>2, <3>3 DEF Engine
  <2>2. StreamIs(p)'
    BY <1>3, <2>1, StreamStays DEF Carries
  <2> QED BY <2>1, <2>2 DEF Carries
<1> QED BY <1>1, <1>2, <1>3

LEMMA StreamReceiveStep ==
  ASSUME EngineInv, UncutInv, NEW d, NEW p, Carries(d, p), NEW r, Deliver(r)
  PROVE  r \in ResultRec /\ ReaderStep /\ Carries(Append(d, r), p)'
<1>1. d \in Seq(ResultRec) /\ results \in Seq(ResultRec)
  BY StreamType
<1>2. /\ results # <<>> /\ r = Head(results) /\ results' = Tail(results)
      /\ UNCHANGED <<waiter, worker, ctxDone>>
  BY DEF Deliver, poolVars
<1>3. r \in ResultRec
  BY <1>1, <1>2, HeadTailProperties
<1>4. ReaderStep
  BY <1>3 DEF ReaderStep
<1>5. ~\E w \in Worker : PushResult(w)
  BY <1>2 DEF PushResult, EngineInv, TypeOK
<1>6. StreamIs(p)'
  BY <1>2, <1>4, <1>5, StreamStays DEF Carries
<1>7. Append(d, r) \in Seq(ResultRec) /\ p = Append(d, r) \o results'
  <2>1. Append(d, Head(results)) \o Tail(results) = d \o results
    BY <1>1, <1>2, ReceiveKeeps
  <2> QED BY <1>1, <1>2, <1>3, <2>1, AppendProperties DEF Carries
<1> QED BY <1>3, <1>4, <1>6, <1>7 DEF Carries

LEMMA StreamRestStep ==
  ASSUME EngineInv, UncutInv, NEW d, NEW p, Carries(d, p), CancelCtx \/ UNCHANGED engineVars
  PROVE  Carries(d, p)'
<1>1. UNCHANGED <<results, waiter, worker>>
  BY DEF CancelCtx, engineVars, poolVars, chanVars
<1>2. ~\E w \in Worker : PushResult(w)
  BY <1>1 DEF PushResult, EngineInv, TypeOK
<1>3. StreamIs(p)'
  BY <1>1, <1>2, StreamStays DEF ReaderStep, Carries
<1> QED BY <1>1, <1>3 DEF Carries

LEMMA StreamBegins ==
  ASSUME EngineInit
  PROVE  Carries(<<>>, <<>>)
<1>1. /\ cur = 1 /\ pos = 1 /\ waiter = [s \in DOMAIN sources |-> "none"] /\ sources \in Inputs
      /\ results = <<>>
  BY DEF EngineInit
<1>2. sources \in Seq(SourceRec)
  BY <1>1, InputsAssumption
<1>3. \A j \in Nat \X Nat : ~Walked(j)
  BY <1>1, <1>2, NothingWalked
<1>4. DeliveredAll(<<>>)
  BY <1>1, <1>3 DEF DeliveredAll
<1>5. SentinelsEnd(<<>>) /\ CarriedOnce(<<>>)
  BY DEF SentinelsEnd, CarriedOnce
<1>6. <<>> \in Seq(ResultRec) /\ <<>> = <<>> \o results
  BY <1>1
<1> QED BY <1>4, <1>5, <1>6 DEF Carries, StreamIs

\* Once the results are closed and read, nothing reopens them.
LEMMA ClosedIsEnd ==
  ASSUME EngineInv, Engine, resultsClosed
  PROVE  resultsClosed' /\ results' = results
<1>1. NoSendOnClosed
  BY EngineInvImplies
<1>2. (\A w \in Worker : ~PushResult(w)) /\ (\A s \in DOMAIN sources : ~PushFinal(s))
  BY <1>1 DEF NoSendOnClosed, PushResult, PushFinal
<1> QED BY <1>2
  DEF Engine, Producer, EmitDoc, SendJob, AbandonJob, EmitFinal, WalkReturns, CloseJobs,
      JoinWorkers, DrainJob, DrainEnd, CloseResults, WorkerStep, TakeJob, WorkerReturns,
      DropResult, FinishJob, WaiterStep, WaitReturns, DropFinal, chanVars
=============================================================================
