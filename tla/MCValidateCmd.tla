---------------------------- MODULE MCValidateCmd ----------------------------
(* Small instances of ValidateCmd for TLC.                                  *)
EXTENDS ValidateCmd

CONSTANTS w1, w2, fa, fb, fc

It(d, st) == [doc |-> d, status |-> st, loads |-> FALSE]
Remote(d, st) == [doc |-> d, status |-> st, loads |-> TRUE]
Src(l, is) == [label |-> l, items |-> is]

\* The source of `validate ""`.
EmptyPath == Src(NoLabel, <<It(0, "invalid")>>)

\* Distinct labels: a gap left by a document without a result, a source with
\* a scan error after its documents, an empty source, sources that do not
\* load, one of them with the empty path, and several sources in flight.
DistinctInputs ==
  {<<Src(fa, <<It(1, "valid"), It(2, "none"), It(3, "skipped"), It(0, "invalid")>>),
     Src(fb, <<It(1, "valid")>>)>>,
   <<Src(fa, <<It(1, "invalid"), It(2, "valid")>>), Src(fb, <<>>), Src(fc, <<It(1, "valid")>>)>>,
   <<Src(fa, <<It(1, "valid")>>), Src(fb, <<It(0, "invalid")>>), Src(fc, <<It(1, "skipped")>>)>>,
   <<EmptyPath, Src(fa, <<It(1, "valid"), It(2, "valid")>>)>>,
   <<Src(fa, <<It(1, "valid")>>), EmptyPath, Src(fb, <<It(1, "invalid")>>)>>,
   <<>>}

\* Invalid documents in several places, for --fail-fast, and valid ones whose
\* schema is downloaded.
FailFastInputs ==
  {<<Src(fa, <<It(1, "valid"), It(2, "invalid")>>), Src(fb, <<It(1, "invalid"), Remote(2, "valid")>>)>>,
   <<Src(fa, <<It(1, "valid")>>), Src(fb, <<It(1, "invalid")>>), Src(fc, <<Remote(1, "valid")>>)>>,
   <<Src(fa, <<It(1, "valid"), It(0, "invalid")>>), Src(fb, <<It(1, "skipped")>>)>>,
   <<Src(fa, <<It(1, "valid")>>), Src(fb, <<Remote(1, "valid"), It(2, "skipped")>>)>>,
   <<Src(fa, <<It(1, "valid")>>), Src(fb, <<It(1, "invalid")>>), EmptyPath>>}

\* One long source of invalid documents (TestValidateCmd_FailFast).
LongInput == {<<Src(fa, [d \in 1 .. 12 |-> It(d, "invalid")])>>}

\* The same file named twice on the command line.
SharedLabelInputs ==
  {<<Src(fa, is), Src(fa, is)>> :
     is \in {<<It(1, "valid")>>, <<It(1, "valid"), It(2, "invalid")>>}}
=============================================================================
