----------------------------- MODULE ValidateCmd -----------------------------
(***************************************************************************)
(* `flux-schema validate` (validateCmdRun, cmd/flux-schema/validate.go):   *)
(* the engine of ValidateSources read by the reorder buffer of             *)
(* ResultCollector. The command's context has no other owner, so --fail-   *)
(* fast is the only source of cancellation.                                *)
(***************************************************************************)
EXTENDS ValidateSources, ResultCollector

CONSTANT FailFast     \* --fail-fast
ASSUME FailFastAssumption == FailFast \in BOOLEAN

\* The source of `validate ""` is labelled "": os.Stat refuses the empty path,
\* so that it has one source-level error (internal/source/source.go:93-96).
ASSUME EmptyPathAssumption ==
  \A i \in Inputs : \A s \in DOMAIN i :
    i[s].label = NoLabel => \A k \in DOMAIN i[s].items : i[s].items[k].doc = 0

\* No path is named twice on the command line.
DistinctLabels ==
  \A i \in Inputs : \A s, t \in DOMAIN i : i[s].label = i[t].label => s = t

VARIABLES
  collector,
  cmd,            \* program counter of the command's goroutine
  exit            \* exit code, or "none"

cmdVars == <<collector, cmd, exit>>
vars == <<engineVars, collector, cmd, exit>>

Init ==
  /\ EngineInit
  /\ collector = NewCollector
  /\ cmd = "range"
  /\ exit = "none"

\* collector.add(r). A panic ends the process.
Collect ==
  /\ cmd = "range"
  /\ \E r \in {Head(results) : k \in DOMAIN results} :
       /\ Deliver(r)
       /\ collector' = Add(collector, r)
       /\ cmd' = IF collector'.panic THEN "panic"
                 ELSE IF FailFast /\ r.status = "invalid" THEN "cancel" ELSE "range"
  /\ UNCHANGED exit

\* cancel(), while every other goroutine keeps running.
FailFastCancel ==
  /\ cmd = "cancel"
  /\ cmd' = "range"
  /\ IF ctxDone THEN UNCHANGED engineVars ELSE CancelCtx
  /\ UNCHANGED <<collector, exit>>

FlushAll ==
  /\ cmd = "range" /\ StreamEnds
  /\ collector' = FlushRemainingSources(collector)
  /\ cmd' = "summary"
  /\ UNCHANGED <<engineVars, exit>>

\* WriteSummary, which fails when a structured report cannot be written.
Exit ==
  /\ cmd = "summary"
  /\ \E written \in BOOLEAN :
       exit' = IF written /\ collector.nInvalid = 0 THEN "0" ELSE "1"
  /\ cmd' = "exit"
  /\ UNCHANGED <<engineVars, collector>>

Terminated == cmd \in {"exit", "panic"} /\ UNCHANGED vars

Next ==
  \/ Engine /\ cmd # "panic" /\ UNCHANGED cmdVars
  \/ Collect
  \/ FailFastCancel
  \/ FlushAll
  \/ Exit
  \/ Terminated

Spec == Init /\ [][Next]_vars

\* The command's goroutine, and when it is not blocked.
CmdStep == Collect \/ FailFastCancel \/ FlushAll \/ Exit
CmdRunnable ==
  \/ cmd = "range" /\ (results # <<>> \/ StreamEnds)
  \/ cmd \in {"cancel", "summary"}

(* Go schedules every runnable goroutine, the command's own included. The   *)
(* last conjunct is WF_vars(CmdStep) with ENABLED written out, so that TLC  *)
(* does not run the collector to find out whether the command can move.     *)
Fairness ==
  /\ WF_vars(Producer /\ cmd # "panic" /\ UNCHANGED cmdVars)
  /\ \A w \in Worker : WF_vars(WorkerStep(w) /\ cmd # "panic" /\ UNCHANGED cmdVars)
  /\ \A s \in UNION {DOMAIN i : i \in Inputs} :
       WF_vars(s \in DOMAIN sources /\ WaiterStep(s) /\ cmd # "panic" /\ UNCHANGED cmdVars)
  /\ []<>~CmdRunnable \/ []<><<CmdStep>>_vars

FairSpec == Spec /\ Fairness

-----------------------------------------------------------------------------
CmdTypeOK ==
  /\ TypeOK
  /\ collector.current \in 1 .. Len(collector.order) + 1
  /\ DOMAIN collector.bufs \subseteq Label /\ collector.completed \subseteq Label
  /\ cmd \in {"range", "cancel", "summary", "exit", "panic"}
  /\ exit \in {"none", "0", "1"}

\* The results the validator owes for source s of input i.
Owed(i, s) ==
  {[src |-> s, label |-> i[s].label, doc |-> it.doc, status |-> it.status,
    final |-> FALSE] : it \in {x \in ToSet(i[s].items) : x.status # "none"}}

AllOwed(i) == UNION {Owed(i, s) : s \in DOMAIN i}

\* The first DocIndex that source s of input i has no result for.
Gap(i, s) ==
  Min({n \in 1 .. Cardinality(Owed(i, s)) + 1 : ~\E r \in Owed(i, s) : r.doc = n})

\* The order owed: by source and DocIndex, except that a source-level error
\* (DocIndex 0) follows the documents read before any gap.
Place(i, r) == IF r.doc = 0 THEN Gap(i, r.src) ELSE r.doc
InOrder(i) ==
  {p \in AllOwed(i) \X AllOwed(i) :
     \/ p[1].src < p[2].src
     \/ p[1].src = p[2].src /\ Place(i, p[1]) < Place(i, p[2])}

ReportOf == [i \in Inputs |-> Sorted(AllOwed(i), InOrder(i))]
Report == ReportOf[sources]

(***************************************************************************)
(* The command implements the abstract report: whatever the interleaving   *)
(* of producer, workers and waiters, entries appear in the one canonical   *)
(* order (validate.go:144), complete, and the command exits. For sources   *)
(* with distinct labels and without --fail-fast.                           *)
(***************************************************************************)
Abstract == INSTANCE OrderedReport WITH
  expected <- Report, report <- collector.out, ended <- (cmd = "exit")
ImplementsOrderedReport == Abstract!Spec

(***************************************************************************)
(* Every result counted in the summary is written once or still waits in a *)
(* buffer, by status: an overwritten pending entry would be counted and    *)
(* never shown. Nothing waits when the summary is due.                     *)
(***************************************************************************)
Conservation ==
  LET shown == ToSet(collector.out) \cup PendingIn(collector)
      Of(st) == Cardinality({r \in shown : r.status = st})
  IN  /\ Len(collector.out) + Cardinality(PendingIn(collector)) = Total(collector)
      /\ collector.nValid = Of("valid")
      /\ collector.nInvalid = Of("invalid")
      /\ collector.nSkipped = Of("skipped")
      /\ cmd \in {"summary", "exit"} => PendingIn(collector) = {}

(***************************************************************************)
(* Streaming (validate.go:146): between two results the collector never    *)
(* sits on a source it could have passed or on an entry it could have      *)
(* written, however early the sentinels of later sources came; but for the *)
(* source of the empty path, which tryAdvance never passes (:269).         *)
(***************************************************************************)
Prompt ==
  LET c == collector
      l == sources[c.current].label
  IN  cmd \in {"range", "cancel"} /\ c.current \in DOMAIN c.order /\ l # NoLabel =>
        /\ l \notin c.completed
        /\ l \in DOMAIN c.bufs => c.bufs[l].next \notin DOMAIN c.bufs[l].pending

(***************************************************************************)
(* Exit code 0 means what a CI job reads into it: no document of the input *)
(* is invalid, even when --fail-fast cut the run short, dropped results    *)
(* and sentinels.                                                          *)
(***************************************************************************)
NoInvalidPasses ==
  exit = "0" =>
    \A s \in DOMAIN sources : \A k \in DOMAIN sources[s].items :
      sources[s].items[k].status # "invalid"

(***************************************************************************)
(* And when an invalid document makes the exit code 1, the report shows    *)
(* one that is invalid in itself: it is not lost with the sentinels of     *)
(* earlier sources (validate.go:371), and a download that --fail-fast cut  *)
(* short never is the only thing the report complains of.                  *)
(***************************************************************************)
ExitTellsTheTruth ==
  /\ NoInvalidPasses
  /\ cmd = "exit" /\ collector.nInvalid > 0 =>
       \E r \in ToSet(collector.out) : r.status = "invalid" /\ r \in ToSet(Report)

\* x before y, by source and DocIndex.
Precedes(x, y) ==
  \/ x.src < y.src
  \/ x.src = y.src /\ x.doc # y.doc /\ (y.doc # 0 => x.doc < y.doc)

(***************************************************************************)
(* A report cut short by --fail-fast keeps discovery order across sources  *)
(* and DocIndex order within one, and repeats nothing. The error of the    *)
(* empty path may come too early: flushRemainingSources writes it for any  *)
(* slot that no result has filled (validate.go:288).                       *)
(***************************************************************************)
CutReportInOrder ==
  LET out == collector.out
  IN  \A k, m \in DOMAIN out : k < m =>
        /\ out[k] # out[m]
        /\ NoLabel \notin {out[k].label, out[m].label} => Precedes(out[k], out[m])

\* The command exits, cancelled or not.
CmdTerminates == <>(cmd = "exit")

(***************************************************************************)
(* --fail-fast leaves "at most a handful of invalids" (validate_test.go:   *)
(* 484): the first one, and then no more than both channels, the workers   *)
(* and the producer hold when cancel() takes effect.                       *)
(***************************************************************************)
FailFastBound == 2 * ChanCap + Cardinality(Worker) + 2
FailFastStopsSoon == collector.nInvalid <= FailFastBound

(***************************************************************************)
(* "One entry per validated document" (docs/report.md:37): at exit the     *)
(* report holds as many entries as the summary counts. Refuted when two    *)
(* sources share a label.                                                  *)
(***************************************************************************)
OneEntryPerDocument == cmd = "exit" => Len(collector.out) = Total(collector)
=============================================================================
