------------------------------ MODULE ExtractCmd ------------------------------
(***************************************************************************)
(* `flux-schema extract k8s`, `extract openshift` and `extract crd`        *)
(* (cmd/flux-schema/extract*.go): commands run one after the other, each   *)
(* writing schemas, alias redirects, field indexes and explain metadata    *)
(* file by file, into the output directory or into an archive. A write may *)
(* fail; the command goes on, reports its failures and exits 1.            *)
(*                                                                         *)
(* The output layout is the default one: a schema is at its group (core    *)
(* for the empty one), version and kind, its field index beside it.        *)
(***************************************************************************)
EXTENDS CatalogFiles

CONSTANTS
  ExtractFrom(_, _),   \* what a tool may make of a document: schemas, and the number of errors
  ForOutput(_, _),     \* a schema as a command writes it
  Plans,               \* what may be run: a sequence of sequences of commands
  Unwritable           \* sets of paths on which writing fails

VARIABLES
  plan,           \* the commands to come
  broken,         \* the paths that cannot be written
  pc,             \* "idle", "input", "schema", "names" or "metadata"
  cmd,            \* the command that runs
  inputs,         \* its inputs still to read
  todo,           \* schemas of the input still to write
  aliases,        \* aliases of the first of them still to write, by place
  index,          \* its field index, <<>> if there is none
  kept,           \* the set of schemas that go into the explain metadata
  documents,      \* files of explain metadata still to write, by path
  failures,
  trees,          \* files in the output directory, the staging directory and the archive
  exits           \* the failures with which commands have exited

vars == <<plan, broken, pc, cmd, inputs, todo, aliases, index, kept, documents, failures, trees, exits>>

NoCommand == [tool |-> "none", inputs |-> <<>>, explain |-> "none", index |-> FALSE,
              strip |-> FALSE, archive |-> FALSE]

-----------------------------------------------------------------------------
Commands == UNION {ToSet(Plans[k]) : k \in DOMAIN Plans}

\* The schemas that a command may come to write.
Extractable(c) ==
  UNION {UNION {ToSet(r.schemas) : r \in ExtractFrom(c.tool, i.doc)} : i \in {x \in ToSet(c.inputs) : x.readable}}

\* A written schema is no alias file; what it says of its kind, it says as
\* injectExplainMetadata does. No group is called "core": SchemaPath needs that
\* name for the empty one.
Outputs(s, c) ==
  LET out == ForOutput(s.json, c)
  IN  ~HasAlias(out) /\ (HasObject(out, GVKKey) => At(out, GVKKey) = SaysKind(GVKOf(s)))

ASSUME PlansAssumption ==
  /\ Plans \in Seq(Seq(Commands))
  /\ \A c \in Commands : c.archive \in BOOLEAN /\ c.inputs \in Seq(ToSet(c.inputs))

ASSUME ExtractionAssumption ==
  \A c \in Commands :
    /\ \A s \in Extractable(c) :
         s.group # "core" /\ s.resource.short \in Seq(ToSet(s.resource.short)) /\ Outputs(s, c)
    /\ \A i \in ToSet(c.inputs) :
         i.readable => \A r \in ExtractFrom(c.tool, i.doc) : r.errors \in Nat /\ r.schemas \in Seq(ToSet(r.schemas))

Init ==
  /\ \E k \in DOMAIN Plans : plan = Plans[k]
  /\ broken \in Unwritable
  /\ pc = "idle" /\ cmd = NoCommand /\ inputs = <<>> /\ todo = <<>> /\ aliases = {} /\ index = <<>>
  /\ kept = {} /\ documents = <<>> /\ failures = 0 /\ exits = <<>>
  /\ trees = [t \in {"dir", "staging", "archive"} |-> <<>>]

ArchivePath == <<"archive">>
Dest == IF cmd.archive THEN "staging" ELSE "dir"
With(tree, p, x) == [q \in DOMAIN tree \cup {p} |-> IF q = p THEN x ELSE tree[q]]
Write(p, x) == trees' = [trees EXCEPT ![Dest] = With(@, p, x)]

\* A command starts: with an empty staging directory, if it has an archive.
Start ==
  /\ pc = "idle" /\ plan # <<>>
  /\ cmd' = Head(plan) /\ plan' = Tail(plan)
  /\ inputs' = cmd'.inputs /\ pc' = "input" /\ failures' = 0 /\ kept' = {}
  /\ trees' = [trees EXCEPT !["staging"] = <<>>]
  /\ UNCHANGED <<broken, todo, aliases, index, documents, exits>>

ReadInput ==
  /\ pc = "input" /\ inputs # <<>> /\ Head(inputs).readable
  /\ \E r \in ExtractFrom(cmd.tool, Head(inputs).doc) : todo' = r.schemas /\ failures' = failures + r.errors
  /\ inputs' = Tail(inputs) /\ pc' = "schema"
  /\ UNCHANGED <<plan, broken, cmd, aliases, index, kept, documents, trees, exits>>

\* extract crd goes on with the other inputs; the others have only this one
\* and end.
InputUnreadable ==
  /\ pc = "input" /\ inputs # <<>> /\ ~Head(inputs).readable
  /\ IF cmd.tool = "crd"
     THEN /\ inputs' = Tail(inputs) /\ failures' = failures + 1 /\ pc' = "schema"
          /\ UNCHANGED <<cmd, exits>>
     ELSE /\ exits' = Append(exits, 1) /\ cmd' = NoCommand /\ pc' = "idle" /\ inputs' = <<>>
          /\ UNCHANGED failures
  /\ UNCHANGED <<plan, broken, todo, aliases, index, kept, documents, trees>>

\* Lists have no field index in extract k8s and extract openshift.
Lists == {k \in ToSet(Alphabet) : Len(k) >= 4 /\ SubSeq(k, Len(k) - 3, Len(k)) = "list"}
Indexed(s) == cmd.index /\ (cmd.tool = "crd" \/ s.kind \notin Lists)

\* A schema without kind or version has no field index: a failure.
Unflattened(s) == IF Indexed(s) /\ ~Flattens(s) THEN 1 ELSE 0
Target == SchemaPath(GVKOf(Head(todo)))

WriteSchema ==
  /\ pc = "schema" /\ todo # <<>> /\ Target \notin broken
  /\ LET s == Head(todo)
     IN  /\ failures' = failures + Unflattened(s)
         /\ Write(Target, ForOutput(s.json, cmd))
         /\ kept' = IF cmd.explain = "full" THEN kept \cup {s} ELSE kept
         /\ aliases' = IF cmd.explain = "full" THEN ExplainAliases(s) ELSE {}
         /\ index' = IF Indexed(s) /\ Flattens(s) THEN <<FlattenMap(s)>> ELSE <<>>
  /\ pc' = "names"
  /\ UNCHANGED <<plan, broken, cmd, inputs, todo, documents, exits>>

\* Fault: a schema that could not be written goes into the metadata.
KeepUnwritten ==
  /\ pc = "schema" /\ todo # <<>> /\ Target \in broken
  /\ failures' = failures + Unflattened(Head(todo)) + 1 /\ todo' = Tail(todo)
  /\ kept' = kept \cup {Head(todo)}
  /\ UNCHANGED <<plan, broken, pc, cmd, inputs, aliases, index, documents, trees, exits>>

SchemaUnwritten ==
  /\ pc = "schema" /\ todo # <<>> /\ Target \in broken
  /\ failures' = failures + Unflattened(Head(todo)) + 1 /\ todo' = Tail(todo)
  /\ UNCHANGED <<plan, broken, pc, cmd, inputs, aliases, index, kept, documents, trees, exits>>

\* Fault: the field index of the schema in hand is not forgotten.
NextSchemaKeepsIndex == todo' = Tail(todo) /\ aliases' = {} /\ UNCHANGED index /\ pc' = "schema"

\* The schema in hand is done with.
NextSchema == todo' = Tail(todo) /\ aliases' = {} /\ index' = <<>> /\ pc' = "schema"

\* Fault: what fails here is not counted.
WriteAliasUncounted ==
  /\ pc = "names" /\ aliases # {}
  /\ LET p == AliasPath(Head(todo), Min(aliases))
     IN  IF p \in broken
         THEN NextSchema /\ UNCHANGED <<trees, failures>>
         ELSE Write(p, AliasFile(Head(todo))) /\ aliases' = aliases \ {Min(aliases)}
              /\ UNCHANGED <<todo, index, pc, failures>>
  /\ UNCHANGED <<plan, broken, cmd, inputs, kept, documents, exits>>

\* An alias that cannot be written costs the aliases after it and the index.
WriteAlias ==
  /\ pc = "names" /\ aliases # {}
  /\ LET p == AliasPath(Head(todo), Min(aliases))
     IN  IF p \in broken
         THEN NextSchema /\ failures' = failures + 1 /\ UNCHANGED trees
         ELSE Write(p, AliasFile(Head(todo))) /\ aliases' = aliases \ {Min(aliases)}
              /\ UNCHANGED <<todo, index, pc, failures>>
  /\ UNCHANGED <<plan, broken, cmd, inputs, kept, documents, exits>>

WriteFieldIndex ==
  /\ pc = "names" /\ aliases = {}
  /\ LET p == IndexPath(SchemaPath(GVKOf(Head(todo))))
     IN  IF index = <<>> THEN UNCHANGED <<trees, failures>>
         ELSE IF p \in broken THEN failures' = failures + 1 /\ UNCHANGED trees
         ELSE Write(p, index[1]) /\ UNCHANGED failures
  /\ NextSchema
  /\ UNCHANGED <<plan, broken, cmd, inputs, kept, documents, exits>>

\* The input is done with: the next one, or the explain metadata of all.
EndInput ==
  /\ pc = "schema" /\ todo = <<>>
  /\ pc' = IF inputs = <<>> THEN "metadata" ELSE "input"
  /\ documents' = IF inputs = <<>> /\ cmd.explain = "full" THEN ExplainMetadata(kept) ELSE <<>>
  /\ UNCHANGED <<plan, broken, cmd, inputs, todo, aliases, index, kept, failures, trees, exits>>

\* References first, then shards; which of several comes first does not matter
\* but for what is left out when one fails.
NextDocument ==
  LET refs == {p \in DOMAIN documents : p[1] = "refs"}
  IN  CHOOSE p \in IF refs # {} THEN refs ELSE DOMAIN documents : TRUE

\* The first file of explain metadata that fails is the last.
WriteMetadata ==
  /\ pc = "metadata" /\ DOMAIN documents # {}
  /\ IF NextDocument \in broken
     THEN documents' = <<>> /\ failures' = failures + 1 /\ UNCHANGED trees
     ELSE /\ Write(NextDocument, documents[NextDocument])
          /\ documents' = [p \in DOMAIN documents \ {NextDocument} |-> documents[p]]
          /\ UNCHANGED failures
  /\ UNCHANGED <<plan, broken, pc, cmd, inputs, todo, aliases, index, kept, exits>>

\* The archive is made of what there is, failures or not; one that cannot be
\* written is left with nothing readable in it.
Archived ==
  IF ~cmd.archive THEN trees
  ELSE [trees EXCEPT !["archive"] = IF ArchivePath \in broken THEN <<>> ELSE trees["staging"],
                     !["staging"] = <<>>]

Finish ==
  /\ pc = "metadata" /\ DOMAIN documents = {}
  /\ trees' = Archived
  /\ exits' = Append(exits, failures + (IF cmd.archive /\ ArchivePath \in broken THEN 1 ELSE 0))
  /\ cmd' = NoCommand /\ pc' = "idle"
  /\ UNCHANGED <<plan, broken, inputs, todo, aliases, index, kept, documents, failures>>

Next ==
  \/ Start \/ ReadInput \/ InputUnreadable \/ WriteSchema \/ SchemaUnwritten \/ WriteAlias \/ WriteFieldIndex
  \/ EndInput \/ WriteMetadata \/ Finish

Spec == Init /\ [][Next]_vars /\ WF_vars(Next)
=============================================================================
