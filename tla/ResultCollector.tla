--------------------------- MODULE ResultCollector ---------------------------
(***************************************************************************)
(* The reorder buffer of `flux-schema validate`: resultCollector in        *)
(* cmd/flux-schema/validate.go. Results arrive in completion order; the    *)
(* collector writes them source by source in discovery order and, within a *)
(* source, by DocIndex. One goroutine uses it, so each method is an        *)
(* operator from the collector before the call to the collector after it.  *)
(*                                                                         *)
(* Buffers and completion marks are keyed by the label of a source, the    *)
(* order by its index, as in the code. `out` is the sequence of            *)
(* WriteResult calls; `panic` records an assignment to a nil map.          *)
(***************************************************************************)
EXTENDS Naturals, Sequences, FiniteSets, SequencesExt, FiniteSetsExt

CONSTANT
  NoLabel         \* "": in a sourceOrder slot that no result has filled yet, and
                  \* the label of a source named by the empty path

NewCollector ==
  [nValid |-> 0, nInvalid |-> 0, nSkipped |-> 0,
   bufs |-> <<>>,             \* label -> buffer
   order |-> <<>>,            \* sourceOrder
   completed |-> {},          \* the labels with completed[label]
   current |-> 1,             \* currentIdx
   out |-> <<>>, panic |-> FALSE]

\* A sourceBuf: the next expected DocIndex and the results waiting for it.
NewBuf == [next |-> 1, pending |-> <<>>, nilMap |-> FALSE]

With(f, k, v) == [x \in DOMAIN f \cup {k} |-> IF x = k THEN v ELSE f[x]]
Without(f, S) == [x \in DOMAIN f \ S |-> f[x]]

\* The elements of S in the order whose pairs are R.
Sorted(S, R) ==
  [k \in 1 .. Cardinality(S) |->
     CHOOSE x \in S : Cardinality({y \in S : <<y, x>> \in R}) = k - 1]

\* slices.Sort(indices)
ByIndex == {p \in Nat \X Nat : p[1] < p[2]}

\* Writes l's results in the order of the DocIndex sequence ds.
WriteAll(c, l, ds) ==
  [c EXCEPT !.out = @ \o [k \in DOMAIN ds |-> c.bufs[l].pending[ds[k]]]]

\* The results from next on, up to the first gap.
FlushContiguous(c, l) ==
  IF l \notin DOMAIN c.bufs THEN c
  ELSE LET b == c.bufs[l]
           gap == Min({n \in b.next .. b.next + Cardinality(DOMAIN b.pending) :
                         n \notin DOMAIN b.pending})
           ready == b.next .. gap - 1
       IN  [WriteAll(c, l, [k \in 1 .. gap - b.next |-> b.next + k - 1]) EXCEPT
              !.bufs[l].next = gap,
              !.bufs[l].pending = Without(b.pending, ready)]

\* Fault: what was flushed stays pending.
FlushRemainingKept(c, l) ==
  IF l \notin DOMAIN c.bufs \/ DOMAIN c.bufs[l].pending = {} THEN c
  ELSE WriteAll(c, l, Sorted(DOMAIN c.bufs[l].pending, ByIndex))

\* What is left past a gap, by DocIndex; `buf.pending = nil` afterwards.
FlushRemaining(c, l) ==
  IF l \notin DOMAIN c.bufs \/ DOMAIN c.bufs[l].pending = {} THEN c
  ELSE [WriteAll(c, l, Sorted(DOMAIN c.bufs[l].pending, ByIndex)) EXCEPT
          !.bufs[l].pending = <<>>,
          !.bufs[l].nilMap = TRUE]

FlushSource(c, l) == FlushRemaining(FlushContiguous(c, l), l)

\* The sources ls flushed, one after the other.
FlushEach(c, ls) ==
  LET after[n \in 0 .. Len(ls)] ==
        IF n = 0 THEN c ELSE FlushSource(after[n - 1], ls[n])
  IN  after[Len(ls)]

\* Where the loop of tryAdvance stops: at a label that is not completed, or at
\* "", filled in or not.
StopAt(c) ==
  Min({k \in c.current .. Len(c.order) :
         c.order[k] = NoLabel \/ c.order[k] \notin c.completed} \cup {Len(c.order) + 1})

\* Fault: the source that stops the loop is not started on.
TryAdvanceLazily(c) ==
  LET stop == StopAt(c)
  IN  [FlushEach(c, SubSeq(c.order, c.current, stop - 1)) EXCEPT
         !.current = stop]

\* Fault: the pointer passes the source that stops the loop.
TryAdvanceTooFar(c) ==
  LET stop == StopAt(c)
  IN  [FlushEach(c, SubSeq(c.order, c.current, stop - 1)) EXCEPT
         !.current = stop + 1]

\* The loop passes every completed source, then starts on the one that stops
\* it, unless that is "".
TryAdvance(c) ==
  LET stop == StopAt(c)
      passed == FlushEach(c, SubSeq(c.order, c.current, stop - 1))
      begun == IF stop \in DOMAIN c.order /\ c.order[stop] # NoLabel
               THEN FlushContiguous(passed, c.order[stop])
               ELSE passed
  IN  [begun EXCEPT !.current = stop]

\* sourceOrder grown to the index of r and filled in with its label.
Ordered(c, r) ==
  [k \in 1 .. Max({Len(c.order), r.src}) |->
     IF k = r.src THEN r.label
     ELSE IF k \in DOMAIN c.order THEN c.order[k] ELSE NoLabel]

Counted(c, r) ==
  [c EXCEPT !.nValid = IF r.status = "valid" THEN @ + 1 ELSE @,
            !.nInvalid = IF r.status = "invalid" THEN @ + 1 ELSE @,
            !.nSkipped = IF r.status = "skipped" THEN @ + 1 ELSE @]

Buffer(c, l) == IF l \in DOMAIN c.bufs THEN c.bufs[l] ELSE NewBuf

Buffered(c, r) ==
  LET b == Buffer(c, r.label)
  IN  IF b.nilMap THEN [c EXCEPT !.panic = TRUE]
      ELSE [c EXCEPT !.bufs =
              With(@, r.label, [b EXCEPT !.pending = With(@, r.doc, r)])]

\* Fault: a result is written though its source is not the current one.
AddUnordered(c, r) ==
  LET d == [c EXCEPT !.order = Ordered(c, r)]
  IN  IF r.final
      THEN TryAdvance([d EXCEPT !.completed = @ \cup {r.label}])
      ELSE FlushContiguous(Buffered(Counted(d, r), r), r.label)

Add(c, r) ==
  LET d == [c EXCEPT !.order = Ordered(c, r)]
  IN  IF r.final
      THEN TryAdvance([d EXCEPT !.completed = @ \cup {r.label}])
      ELSE LET e == Buffered(Counted(d, r), r)
           IN  IF e.current \in DOMAIN e.order /\ e.order[e.current] = r.label
               THEN FlushContiguous(e, r.label)
               ELSE e

\* Fault: no defensive flush.
NoFlush(c) == c

\* Fault: the sources that are left come in no particular order.
FlushBackwards(c) ==
  FlushEach(c, Reverse(SubSeq(c.order, c.current, Len(c.order))))

\* After the channel is closed: every source the pointer has not passed.
FlushRemainingSources(c) ==
  FlushEach(c, SubSeq(c.order, c.current, Len(c.order)))

Total(c) == c.nValid + c.nInvalid + c.nSkipped

\* The results waiting in some buffer.
PendingIn(c) ==
  UNION {{c.bufs[l].pending[d] : d \in DOMAIN c.bufs[l].pending} : l \in DOMAIN c.bufs}
=============================================================================
