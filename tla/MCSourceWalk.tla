----------------------------- MODULE MCSourceWalk -----------------------------
(* Small command lines for SourceWalk.                                      *)
EXTENDS SourceWalk

CONSTANTS MaxBytes    \* bound: the length of the streams that are enumerated

\* A word of content per letter: two documents, comments, an empty file.
Two == <<"text", "newline", "dashes", "newline", "text">>
Comment == <<"hash", "text", "newline">>
One == <<"text">>

File(l, ds, c) ==
  [label |-> l, dir |-> FALSE, within |-> ds, skip |-> FALSE, yaml |-> TRUE,
   kustomization |-> FALSE, built |-> 0, asks |-> FALSE, openapi |-> FALSE, fails |-> "no", content |-> c]
Dir(l, ds) == [File(l, ds, <<>>) EXCEPT !.dir = TRUE, !.yaml = FALSE]
Build(l, ds, n) == [Dir(l, ds) EXCEPT !.kustomization = TRUE, !.built = n]
FileArg(e) == [label |-> e.label, what |-> "reader", entries |-> <<e>>]

\* Every stream, read by itself.
Streams ==
  {<<FileArg([File("f", {}, c) EXCEPT !.fails = x])>> :
     c \in UNION {[1 .. n -> Byte] : n \in 0 .. MaxBytes}, x \in {"no", "read"}}

\* Directories: a file before and after a directory `s`, which is plain,
\* skipped, a kustomization or unlistable; a root that a pattern matches or
\* that is a kustomization; files that fail, are skipped or are not YAML.
Trees ==
  {<<[label |-> "r", what |-> "directory",
      entries |-> <<[Dir("r", {}) EXCEPT !.skip = hiddenRoot, !.kustomization = rootBuilt, !.built = 2],
                    [File("a", {"r"}, Two) EXCEPT !.fails = fa],
                    s,
                    [File("b", {"r", "s"}, One) EXCEPT !.skip = hiddenFile],
                    Dir("t", {"r", "s"}),
                    File("c", {"r", "s", "t"}, Comment),
                    [File("d", {"r"}, One) EXCEPT !.yaml = ~hiddenFile]>>],
     last>> :
     hiddenRoot, rootBuilt, hiddenFile \in BOOLEAN,
     fa \in {"no", "open", "read"},
     s \in {Dir("s", {"r"}), [Dir("s", {"r"}) EXCEPT !.skip = TRUE],
            Build("s", {"r"}, 1), [Build("s", {"r"}, 1) EXCEPT !.fails = "build"],
            [Build("s", {"r"}, 1) EXCEPT !.openapi = TRUE, !.fails = "panic"],
            [Build("s", {"r"}, 1) EXCEPT !.openapi = TRUE, !.asks = TRUE],
            [Build("s", {"r"}, 1) EXCEPT !.fails = "origin"], [Build("s", {"r"}, 1) EXCEPT !.fails = "gone"],
            [Dir("s", {"r"}) EXCEPT !.fails = "read"]},
     last \in {[label |-> "m", what |-> "missing", entries |-> <<>>],
               [label |-> "k", what |-> "kustomization", entries |-> <<Build("k", {}, 2)>>],
              [label |-> "k", what |-> "kustomization", entries |-> <<[Build("k", {}, 1) EXCEPT !.asks = TRUE]>>]}}

MCWalks == Streams \cup Trees \cup {<<>>}
=============================================================================
