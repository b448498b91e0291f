---------------------------- MODULE OrderedReport ----------------------------
(***************************************************************************)
(* What `flux-schema validate` promises of its report, with no goroutine,  *)
(* channel or buffer in sight: "One entry per validated document, in       *)
(* source order" (docs/report.md:37). The report grows as a prefix of the  *)
(* expected entries, is never retracted, and ends complete.                *)
(***************************************************************************)
EXTENDS Naturals, Sequences

VARIABLES
  expected,     \* the entries this run owes, in order
  report,       \* the entries written so far
  ended         \* the command has exited

vars == <<expected, report, ended>>

Init ==
  /\ report = <<>>
  /\ ended = FALSE

\* One or more entries become writable at once.
Write ==
  /\ ~ended
  /\ \E n \in Len(report) + 1 .. Len(expected) : report' = SubSeq(expected, 1, n)
  /\ UNCHANGED <<expected, ended>>

End ==
  /\ ~ended /\ report = expected
  /\ ended' = TRUE
  /\ UNCHANGED <<expected, report>>

Next == Write \/ End

Spec == Init /\ [][Next]_vars /\ <>ended
=============================================================================
