---------------------------- MODULE WrittenCatalog ----------------------------
(***************************************************************************)
(* The catalog that the extract commands write, file by file, and the      *)
(* schemas that explain finds in it meanwhile.                             *)
(***************************************************************************)
EXTENDS ExtractCmd, Lookup

Dir == [files |-> trees["dir"], failing |-> {}, ecosystem |-> FALSE, index |-> <<>>]

KindAt(p) == GVK(IF p[2] = "core" THEN "" ELSE p[2], p[3], p[4])

\* No alias of a kind is another kind of its group and version.
Schemas == UNION {Extractable(c) : c \in Commands}
NamesApart ==
  \A s, t \in Schemas : \A k \in ExplainAliases(s) : AliasPath(s, k) # SchemaPath(GVKOf(t))

\* Only files of the four kinds are written, nothing where writing fails, and
\* nothing of an input or of a schema is left over after it.
CatalogTypeOK ==
  /\ pc \in {"idle", "input", "schema", "names", "metadata"}
  /\ failures \in Nat /\ exits \in Seq(Nat)
  /\ pc = "names" => todo # <<>>
  /\ pc \in {"idle", "metadata"} => todo = <<>> /\ inputs = <<>> /\ aliases = {} /\ index = <<>>
  /\ \A t \in DOMAIN trees : \A p \in DOMAIN trees[t] :
       p[1] \in {"schema", "index", "refs", "completion"} /\ p \notin broken

\* Whenever the command is interrupted, and whatever failed before: an alias
\* file and a reference that explain may follow lead to the schema of the kind
\* they name (extract.go writes them after it, and for written schemas only).
NoDanglingName ==
  LET dir == trees["dir"]
      Leads(g) == LET r == LoadGVK(<<Dir>>, g) IN r.st = "found" /\ r.x.gvk = g
  IN  \A p \in DOMAIN dir :
        /\ p[1] = "schema" /\ HasAlias(dir[p]) => Leads(AliasOf(dir[p], KindAt(p)))
        /\ p[1] = "refs" => \A g \in dir[p] : Leads(g)

-----------------------------------------------------------------------------
(* What a command promises when it ends.                                    *)

Ends == pc = "metadata" /\ pc' = "idle"

\* All that extract promises for schema s is in tree.
Complete(s, tree) ==
  LET p == SchemaPath(GVKOf(s))
  IN  /\ p \in DOMAIN tree /\ ~HasAlias(tree[p])
      /\ Indexed(s) => IndexPath(p) \in DOMAIN tree
      /\ cmd.explain = "full" =>
           /\ \A k \in ExplainAliases(s) : AliasPath(s, k) \in DOMAIN tree
           /\ HasDiscoveryResource(s) =>
                \A n \in MetadataNames(s) :
                  ReferencePath(n) \in DOMAIN tree /\ GVKOf(s) \in tree[ReferencePath(n)]

\* An extract command that exits 0 has read all of its inputs and written
\* every file of every schema in them: no failure goes uncounted.
CleanExitIsComplete ==
  [][Ends /\ Last(exits') = 0 =>
       LET tree == trees'[IF cmd.archive THEN "archive" ELSE "dir"]
       IN  \A k \in DOMAIN cmd.inputs :
             /\ cmd.inputs[k].readable
             /\ \E r \in ExtractFrom(cmd.tool, cmd.inputs[k].doc) :
                  r.errors = 0 /\ \A s \in ToSet(r.schemas) : Complete(s, tree)]_vars
=============================================================================
