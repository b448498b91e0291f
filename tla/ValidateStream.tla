---------------------------- MODULE ValidateStream ----------------------------
(***************************************************************************)
(* ValidateSources as its callers see it: a channel of results that they   *)
(* read until it is closed, under a context that they may cancel at any    *)
(* moment. (The validate command is one such caller: see ValidateCmd.)     *)
(***************************************************************************)
EXTENDS ValidateSources

CONSTANT MayCancel    \* whether the caller ever cancels the context
ASSUME MayCancelAssumption == MayCancel \in BOOLEAN

VARIABLES
  delivered,      \* what the caller has received, in order
  reading         \* the caller is still in its range loop

streamVars == <<delivered, reading>>
vars == <<engineVars, delivered, reading>>

Init == EngineInit /\ delivered = <<>> /\ reading = TRUE

Receive ==
  /\ reading
  /\ \E r \in {Head(results) : k \in DOMAIN results} :
       Deliver(r) /\ delivered' = Append(delivered, r)
  /\ UNCHANGED reading

RangeEnds ==
  /\ reading /\ StreamEnds
  /\ reading' = FALSE
  /\ UNCHANGED <<delivered, engineVars>>

Cancel == MayCancel /\ CancelCtx /\ UNCHANGED streamVars

\* Nothing is left to do once the caller has seen the channel closed.
Terminated == ~reading /\ UNCHANGED vars

Next ==
  \/ Engine /\ UNCHANGED streamVars
  \/ Receive
  \/ RangeEnds
  \/ Cancel
  \/ Terminated

Spec == Init /\ [][Next]_vars

(* Go schedules every runnable goroutine, and the caller keeps reading. A   *)
(* sender blocked on a full channel is served in FIFO order, but weak       *)
(* fairness is enough: what can fill the channel is finite. Nothing obliges *)
(* the caller to cancel.                                                    *)
Fairness ==
  /\ WF_vars(Producer /\ UNCHANGED streamVars)
  /\ \A w \in Worker : WF_vars(WorkerStep(w) /\ UNCHANGED streamVars)
  /\ \A s \in UNION {DOMAIN i : i \in Inputs} :
       WF_vars(s \in DOMAIN sources /\ WaiterStep(s) /\ UNCHANGED streamVars)
  /\ WF_vars(Receive \/ RangeEnds)

FairSpec == Spec /\ Fairness

-----------------------------------------------------------------------------
StreamTypeOK == TypeOK /\ delivered \in Seq(ResultRec) /\ reading \in BOOLEAN

\* Everything pushed so far, in channel order.
Pushed == delivered \o results

(***************************************************************************)
(* "Sentinels always arrive after every real Result for the same source"   *)
(* (validator.go:445): once the Final of a source is pushed nothing more   *)
(* of that source is, whatever the workers, the waiters and a cancellation *)
(* do.                                                                     *)
(***************************************************************************)
SentinelLast ==
  \A k, m \in DOMAIN Pushed :
    k < m /\ Pushed[k].final => Pushed[m].src # Pushed[k].src

Jobs == UNION {{s} \X DOMAIN sources[s].items : s \in DOMAIN sources}

\* What the stream owes for the sources of the walk.
Owed ==
  {ResultOf(j, ItemOf(j).status) : j \in {x \in Jobs : ItemOf(x).status # "none"}}
    \cup {FinalOf(s) : s \in DOMAIN sources}

\* What it may carry besides: the results of downloads cut short.
Aborted == {ResultOf(j, "invalid") : j \in {x \in Jobs : ItemOf(x).loads}}

(***************************************************************************)
(* Without a cancellation the closed stream has carried each result and    *)
(* each sentinel exactly once. A cancelled stream may be short, but it     *)
(* never has two results for a document and invents none.                  *)
(***************************************************************************)
ExactlyOnce ==
  LET carried == {Pushed[k] : k \in DOMAIN Pushed}
  IN  /\ carried \subseteq IF ctxDone THEN Owed \cup Aborted ELSE Owed
      /\ Cardinality({<<r.src, r.doc, r.final>> : r \in carried}) = Len(Pushed)
      /\ ~reading /\ ~ctxDone => carried = Owed

(***************************************************************************)
(* "The returned channel is closed once all documents have been processed  *)
(* and all sentinels have been delivered" (validator.go:450): the reader's *)
(* loop ends, a cancelled walk and its abandoned jobs included.            *)
(***************************************************************************)
Termination == <>~reading
=============================================================================
