--------------------------- MODULE MCValidateStream ---------------------------
(* Small instances of ValidateStream for TLC.                               *)
EXTENDS ValidateStream

CONSTANTS w1, w2, a, b, c

It(d, st) == [doc |-> d, status |-> st, loads |-> FALSE]
Remote(d, st) == [doc |-> d, status |-> st, loads |-> TRUE]
Src(l, is) == [label |-> l, items |-> is]

\* A content-free document between two others, a source with no document, a
\* document that needs a download, a source that fails to load (DocIndex 0),
\* and as many documents as the jobs channel and one worker hold.
MCInputs ==
  {<<Src(a, <<It(1, "valid"), It(2, "none"), It(3, "invalid")>>), Src(b, <<>>)>>,
   <<Src(a, <<Remote(1, "valid"), It(2, "skipped")>>), Src(b, <<It(1, "invalid")>>)>>,
   <<Src(a, <<It(0, "invalid")>>), Src(b, <<It(1, "none")>>), Src(c, <<It(1, "valid")>>)>>,
   <<Src(a, [d \in 1..5 |-> It(d, "valid")])>>,
   <<>>}
=============================================================================
