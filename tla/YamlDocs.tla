------------------------------- MODULE YamlDocs -------------------------------
(***************************************************************************)
(* How a stream of bytes is cut into YAML documents (internal/yamldoc).    *)
(* Bytes are told apart as far as the splitter does: newlines, the three   *)
(* dashes, the '#' of a comment, and everything else.                      *)
(***************************************************************************)
EXTENDS Naturals, Sequences, SequencesExt, FiniteSetsExt

Byte == {"newline", "dashes", "hash", "text"}

FirstOf(S) == IF S = {} THEN 0 ELSE Min(S)

\* bytes.Index(data, "\n---"): where the first separator is, 0 when nowhere.
Separator(data) ==
  FirstOf({k \in 1 .. Len(data) - 1 : data[k] = "newline" /\ data[k + 1] = "dashes"})

\* The newline that ends the line of the separator at k.
EndOfLine(data, k) == FirstOf({m \in k + 2 .. Len(data) : data[m] = "newline"})

MoreData == [advance |-> 0, found |-> FALSE, token |-> <<>>]
Token(n, t) == [advance |-> n, found |-> TRUE, token |-> t]

\* Fault: dashes at the end of the buffer are taken for a whole line.
SplitEagerly(data, atEOF) ==
  LET k == Separator(data)
  IN  CASE data = <<>> -> MoreData
        [] k > 0 /\ k + 1 = Len(data) -> Token(Len(data), SubSeq(data, 1, k - 1))
        [] k > 0 /\ EndOfLine(data, k) > 0 -> Token(EndOfLine(data, k), SubSeq(data, 1, k - 1))
        [] k > 0 /\ k + 1 # Len(data) /\ EndOfLine(data, k) = 0 -> MoreData
        [] k = 0 /\ data # <<>> -> IF atEOF THEN Token(Len(data), data) ELSE MoreData

\* Fault: an empty buffer at the end of the stream is a document too.
SplitUnguarded(data, atEOF) ==
  LET k == Separator(data)
  IN  CASE k > 0 /\ k + 1 = Len(data) ->
             IF atEOF THEN Token(Len(data), SubSeq(data, 1, k - 1)) ELSE MoreData
        [] k > 0 /\ EndOfLine(data, k) > 0 -> Token(EndOfLine(data, k), SubSeq(data, 1, k - 1))
        [] k > 0 /\ k + 1 # Len(data) /\ EndOfLine(data, k) = 0 -> MoreData
        [] k = 0 -> IF atEOF THEN Token(Len(data), data) ELSE MoreData

\* A separator is recognized once its whole line is there; the end of the
\* stream stands for that of a line of three dashes, but of no longer line.
SplitDocument(data, atEOF) ==
  LET k == Separator(data)
  IN  CASE data = <<>> -> MoreData
        [] k > 0 /\ k + 1 = Len(data) ->
             IF atEOF THEN Token(Len(data), SubSeq(data, 1, k - 1)) ELSE MoreData
        [] k > 0 /\ EndOfLine(data, k) > 0 -> Token(EndOfLine(data, k), SubSeq(data, 1, k - 1))
        [] k > 0 /\ k + 1 # Len(data) /\ EndOfLine(data, k) = 0 -> MoreData
        [] k = 0 /\ data # <<>> -> IF atEOF THEN Token(Len(data), data) ELSE MoreData

\* bytes.TrimSpace
Trim(data) ==
  LET ink == {k \in DOMAIN data : data[k] # "newline"}
  IN  IF ink = {} THEN <<>> ELSE SubSeq(data, Min(ink), Max(ink))

\* IsContentFree: every line is empty or a comment.
IsContentFree(data) ==
  \A k \in DOMAIN data :
    data[k] \notin {"newline", "hash"} =>
      \E m \in 1 .. k : /\ data[m] = "hash"
                        /\ m = 1 \/ data[m - 1] = "newline"
                        /\ \A n \in m .. k : data[n] # "newline"

-----------------------------------------------------------------------------
(* What a stream holds, by its lines, with no buffer.                       *)

\* The positions at which a line begins with the dashes.
DashLines(data) ==
  {k \in DOMAIN data : data[k] = "dashes" /\ (k = 1 \/ data[k - 1] = "newline")}

LineEnd(data, k) == Min({m \in k .. Len(data) : data[m] = "newline"} \cup {Len(data) + 1})

\* A line of dashes separates unless it is the first line of a document,
\* where it is the document's own start marker.
Separates(data) ==
  LET sep[k \in 1 .. Len(data) + 1] ==
        /\ k \in DashLines(data) \ {1}
        /\ ~\E m \in DashLines(data) : m < k /\ LineEnd(data, m) + 1 = k /\ sep[m]
  IN  {k \in DOMAIN data : sep[k]}

\* A document begins with the stream, and below each separator line.
Starts(data) == {1} \cup {LineEnd(data, k) + 1 : k \in Separates(data)}

\* The separator below the document that starts at p, or the end of the stream.
EndFrom(data, p) == Min({k \in Separates(data) : k > p} \cup {Len(data) + 1})

\* The document that starts at p, unless it is comments alone.
DocumentAt(data, p) ==
  LET raw == Trim(SubSeq(data, p, EndFrom(data, p) - 1))
  IN  IF IsContentFree(raw) THEN <<>> ELSE <<raw>>

\* The documents of a stream, but for those above the separators `lost`.
DocumentsBut(data, lost) ==
  FlattenSeq([p \in DOMAIN data |->
    IF p \in Starts(data) /\ EndFrom(data, p) \notin lost THEN DocumentAt(data, p) ELSE <<>>])

AllDocuments(data) == DocumentsBut(data, {})

\* A separator line that is longer than its dashes and ends with the stream.
Unterminated(data) ==
  {k \in Separates(data) : LineEnd(data, k) = Len(data) + 1 /\ k < Len(data)}

\* What is read: all of it, but for the document that an unterminated
\* separator line follows.
Documents(data) == DocumentsBut(data, Unterminated(data))
=============================================================================
