----------------------------- MODULE SchemaLoader -----------------------------
(***************************************************************************)
(* SchemaLoader.Resolve (internal/validator/loader.go) called by the       *)
(* workers of the validator at the same time: a sync.Map of cache entries, *)
(* a sync.Once per entry, and one compiler behind a mutex.                 *)
(*                                                                         *)
(* A Resolve goes through a plan: the locations its templates render to,   *)
(* for one kind. What a location holds is data, and it may change while    *)
(* the loader runs, so each fetch may yield anything: nothing (404,        *)
(* ENOENT), a load error (also the one of a cancelled context) or a        *)
(* document. Documents outside Compilable are rejected by the compiler.    *)
(***************************************************************************)
EXTENDS Naturals, Sequences

CONSTANTS
  Worker, Location, Doc, Uri,
  Compilable,     \* the documents that compile
  UriOf,          \* baseURIFor: two spellings of a path share one URI
  Plans,          \* the sequences of locations the templates may render to
  Unrenderable,   \* in a plan, a template whose execution fails
  NoEntry, NoDoc, NoOne,
  MaxCalls        \* bound: Resolve calls per worker

ASSUME DocAssumption == Compilable \subseteq Doc /\ NoDoc \notin Doc
ASSUME NobodyAssumption == NoEntry \notin Worker /\ NoOne \notin Worker
ASSUME UriAssumption == UriOf \in [Location -> Uri]
ASSUME PlansAssumption == Plans \subseteq Seq(Location \cup {Unrenderable})
ASSUME LocationAssumption == Unrenderable \notin Location
ASSUME MaxCallsAssumption == MaxCalls \in Nat

\* loadResult and err: `json` is the compiled schema, by the document it was
\* compiled from, `rules` the document the evaluators were built from.
Nothing == [kind |-> "notFound", json |-> NoDoc, rules |-> NoDoc]
LoadError == [kind |-> "loadError", json |-> NoDoc, rules |-> NoDoc]
CompileError == [kind |-> "compileError", json |-> NoDoc, rules |-> NoDoc]
Schemas == [kind : {"schema"}, json : Doc, rules : Doc]
Outcomes == {Nothing, LoadError, CompileError} \cup Schemas
Unknown == [kind |-> "unknown", json |-> NoDoc, rules |-> NoDoc]

VARIABLES
  cache,          \* sync.Map: location -> entry, named by who allocated it
  once,           \* sync.Once of the entry of a location allocated by a worker
  result,         \* what such an entry holds; the zero value says "not found"
  resource,       \* the compiler's documents, by URI
  compileMu,      \* who holds the mutex
  pc, plan, idx,  \* each worker's Resolve call: where, through what, how far
  entry,          \* the entry it uses
  body,           \* what it has loaded, and then made of it
  calls,          \* the calls it has begun
  fetches,        \* history: fetches of each location
  said            \* history: what the calls returned

sharedVars == <<cache, once, result, resource, compileMu>>
callVars == <<pc, plan, idx, entry, body, calls>>
vars == <<sharedVars, callVars, fetches, said>>

Loc(g) == plan[g][idx[g]]

Init ==
  /\ cache = [l \in Location |-> NoEntry]
  /\ once = [l \in Location |-> [w \in Worker |-> "fresh"]]
  /\ result = [l \in Location |-> [w \in Worker |-> Nothing]]
  /\ resource = [u \in Uri |-> NoDoc]
  /\ compileMu = NoOne
  /\ pc = [w \in Worker |-> "idle"]
  /\ plan = [w \in Worker |-> <<>>]
  /\ idx = [w \in Worker |-> 1]
  /\ entry = [w \in Worker |-> NoEntry]
  /\ body = [w \in Worker |-> Nothing]
  /\ calls = [w \in Worker |-> 0]
  /\ fetches = [l \in Location |-> 0]
  /\ said = {}

Goto(g, label) == pc' = [pc EXCEPT ![g] = label]

\* The call of g returns o.
Return(g, o) ==
  /\ said' = said \cup {[plan |-> plan[g], at |-> idx[g], outcome |-> o]}
  /\ Goto(g, "idle")

-----------------------------------------------------------------------------
(* Resolve: the loop over the templates.                                    *)

Call(g) ==
  /\ pc[g] = "idle" /\ calls[g] < MaxCalls
  /\ \E p \in Plans : plan' = [plan EXCEPT ![g] = p]
  /\ idx' = [idx EXCEPT ![g] = 1]
  /\ calls' = [calls EXCEPT ![g] = @ + 1]
  /\ Goto(g, "next")
  /\ UNCHANGED <<sharedVars, entry, body, fetches, said>>

\* Every location said "not found".
Exhausted(g) ==
  /\ pc[g] = "next" /\ idx[g] \notin DOMAIN plan[g]
  /\ Return(g, Nothing)
  /\ UNCHANGED <<sharedVars, plan, idx, entry, body, calls, fetches>>

\* tmpl.Execute fails.
RenderFails(g) ==
  /\ pc[g] = "next" /\ idx[g] \in DOMAIN plan[g]
  /\ Loc(g) = Unrenderable
  /\ Return(g, LoadError)
  /\ UNCHANGED <<sharedVars, plan, idx, entry, body, calls, fetches>>

\* cacheEntry: cache.Load.
Lookup(g) ==
  /\ pc[g] = "next" /\ idx[g] \in DOMAIN plan[g]
  /\ Loc(g) # Unrenderable
  /\ IF cache[Loc(g)] = NoEntry
     THEN Goto(g, "store") /\ UNCHANGED entry
     ELSE Goto(g, "once") /\ entry' = [entry EXCEPT ![g] = cache[Loc(g)]]
  /\ UNCHANGED <<sharedVars, plan, idx, body, calls, fetches, said>>

\* Fault: Store, so that the last of two racing callers wins.
StoreEntry(g) ==
  /\ pc[g] = "store"
  /\ cache' = [cache EXCEPT ![Loc(g)] = g]
  /\ entry' = [entry EXCEPT ![g] = g]
  /\ Goto(g, "once")
  /\ UNCHANGED <<once, result, resource, compileMu, plan, idx, body, calls,
                 fetches, said>>

\* cacheEntry: cache.LoadOrStore of a new entry.
LoadOrStore(g) ==
  /\ pc[g] = "store"
  /\ cache' = IF cache[Loc(g)] = NoEntry THEN [cache EXCEPT ![Loc(g)] = g] ELSE cache
  /\ entry' = [entry EXCEPT ![g] = cache'[Loc(g)]]
  /\ Goto(g, "once")
  /\ UNCHANGED <<once, result, resource, compileMu, plan, idx, body, calls,
                 fetches, said>>

\* once.Do: g is the first and runs the load.
OnceFirst(g) ==
  /\ pc[g] = "once" /\ once[Loc(g)][entry[g]] = "fresh"
  /\ once' = [once EXCEPT ![Loc(g)][entry[g]] = "running"]
  /\ Goto(g, "load")
  /\ UNCHANGED <<cache, result, resource, compileMu, plan, idx, entry, body,
                 calls, fetches, said>>

\* Fault: a caller that is not the first does not wait for the first.
OnceSkipped(g) ==
  /\ pc[g] = "once" /\ once[Loc(g)][entry[g]] # "fresh"
  /\ Goto(g, "read")
  /\ UNCHANGED <<sharedVars, plan, idx, entry, body, calls, fetches, said>>

\* once.Do: g waits for the first.
OnceDone(g) ==
  /\ pc[g] = "once" /\ once[Loc(g)][entry[g]] = "done"
  /\ Goto(g, "read")
  /\ UNCHANGED <<sharedVars, plan, idx, entry, body, calls, fetches, said>>

\* An error or a schema ends the call.
Conclude(g) ==
  /\ pc[g] = "read" /\ result[Loc(g)][entry[g]] # Nothing
  /\ Return(g, result[Loc(g)][entry[g]])
  /\ UNCHANGED <<sharedVars, plan, idx, entry, body, calls, fetches>>

\* Fault: the next location is taken without asking whether there is one.
NextUnchecked(g) ==
  /\ pc[g] = "read" /\ result[Loc(g)][entry[g]] = Nothing
  /\ idx' = [idx EXCEPT ![g] = @ + 1]
  /\ Goto(g, "store")
  /\ UNCHANGED <<sharedVars, plan, entry, body, calls, fetches, said>>

NextLocation(g) ==
  /\ pc[g] = "read" /\ result[Loc(g)][entry[g]] = Nothing
  /\ idx' = [idx EXCEPT ![g] = @ + 1]
  /\ Goto(g, "next")
  /\ UNCHANGED <<sharedVars, plan, entry, body, calls, fetches, said>>

-----------------------------------------------------------------------------
(* loadAndCompile, inside once.Do.                                          *)

\* loadBytes, and the parsing of what it read.
Load(g) ==
  /\ pc[g] = "load"
  /\ fetches' = [fetches EXCEPT ![Loc(g)] = @ + 1]
  /\ \/ \E o \in {Nothing, LoadError} :
          body' = [body EXCEPT ![g] = o] /\ Goto(g, "publish")
     \/ \E d \in Doc :
          /\ body' = [body EXCEPT ![g] = [kind |-> "schema", json |-> d, rules |-> d]]
          /\ Goto(g, "lock")
  /\ UNCHANGED <<sharedVars, plan, idx, entry, calls, said>>

\* compileJSONSchema: compileMu.Lock()
Lock(g) ==
  /\ pc[g] = "lock" /\ compileMu = NoOne
  /\ compileMu' = g
  /\ Goto(g, "add")
  /\ UNCHANGED <<cache, once, result, resource, plan, idx, entry, body, calls,
                 fetches, said>>

\* Fault: a resource that exists already is an error.
AddResourceStrict(g) ==
  LET u == UriOf[Loc(g)]
      fresh == resource[u] = NoDoc
  IN  /\ pc[g] = "add"
      /\ resource' = IF fresh THEN [resource EXCEPT ![u] = body[g].json] ELSE resource
      /\ body' = IF fresh THEN body ELSE [body EXCEPT ![g] = CompileError]
      /\ compileMu' = IF fresh THEN compileMu ELSE NoOne
      /\ Goto(g, IF fresh THEN "compile" ELSE "publish")
      /\ UNCHANGED <<cache, once, result, plan, idx, entry, calls, fetches, said>>

\* AddResource: the first document of a URI stays, ResourceExistsError is
\* ignored.
AddResource(g) ==
  LET u == UriOf[Loc(g)]
  IN  /\ pc[g] = "add"
      /\ resource' = IF resource[u] = NoDoc
                     THEN [resource EXCEPT ![u] = body[g].json] ELSE resource
      /\ Goto(g, "compile")
      /\ UNCHANGED <<cache, once, result, compileMu, plan, idx, entry, body,
                     calls, fetches, said>>

\* Fault: the error path keeps the mutex.
CompileKeepsLock(g) ==
  LET d == resource[UriOf[Loc(g)]]
  IN  /\ pc[g] = "compile"
      /\ body' = [body EXCEPT ![g] =
                    IF d \in Compilable THEN [@ EXCEPT !.json = d] ELSE CompileError]
      /\ compileMu' = IF d \in Compilable THEN NoOne ELSE compileMu
      /\ Goto(g, "publish")
      /\ UNCHANGED <<cache, once, result, resource, plan, idx, entry, calls,
                     fetches, said>>

\* Compile of whatever is registered at the URI; the deferred Unlock.
Compile(g) ==
  LET d == resource[UriOf[Loc(g)]]
  IN  /\ pc[g] = "compile"
      /\ body' = [body EXCEPT ![g] =
                    IF d \in Compilable THEN [@ EXCEPT !.json = d] ELSE CompileError]
      /\ compileMu' = NoOne
      /\ Goto(g, "publish")
      /\ UNCHANGED <<cache, once, result, resource, plan, idx, entry, calls,
                     fetches, said>>

\* The entry is filled in and once.Do returns.
Publish(g) ==
  /\ pc[g] = "publish"
  /\ result' = [result EXCEPT ![Loc(g)][entry[g]] = body[g]]
  /\ once' = [once EXCEPT ![Loc(g)][entry[g]] = "done"]
  /\ Goto(g, "read")
  /\ UNCHANGED <<cache, resource, compileMu, plan, idx, entry, body, calls,
                 fetches, said>>

-----------------------------------------------------------------------------
Resolving(g) ==
  \/ Exhausted(g) \/ RenderFails(g) \/ Lookup(g) \/ LoadOrStore(g)
  \/ OnceFirst(g) \/ OnceDone(g) \/ Conclude(g) \/ NextLocation(g)
  \/ Load(g) \/ Lock(g) \/ AddResource(g) \/ Compile(g) \/ Publish(g)

Finished ==
  /\ \A g \in Worker : pc[g] = "idle" /\ calls[g] = MaxCalls
  /\ UNCHANGED vars

Next ==
  \/ \E g \in Worker : Call(g) \/ Resolving(g)
  \/ Finished

Spec == Init /\ [][Next]_vars

(* A goroutine inside Resolve is scheduled, and a fetch comes to an end (the *)
(* HTTP client has a timeout and a bounded number of retries). Weak fairness *)
(* is enough for the mutex: each location takes it once.                     *)
Fairness == \A g \in Worker : WF_vars(Resolving(g))

FairSpec == Spec /\ Fairness

-----------------------------------------------------------------------------
Loading == {"load", "lock", "add", "compile", "publish"}
Using == Loading \cup {"once", "read"}

LoaderTypeOK ==
  /\ cache \in [Location -> Worker \cup {NoEntry}]
  /\ once \in [Location -> [Worker -> {"fresh", "running", "done"}]]
  /\ result \in [Location -> [Worker -> Outcomes]]
  /\ resource \in [Uri -> Doc \cup {NoDoc}]
  /\ compileMu \in Worker \cup {NoOne}
  /\ pc \in [Worker -> {"idle", "next", "store"} \cup Using]
  /\ plan \in [Worker -> Plans \cup {<<>>}]
  /\ idx \in [Worker -> Nat \ {0}]
  /\ entry \in [Worker -> Worker \cup {NoEntry}]
  /\ body \in [Worker -> Outcomes]
  /\ calls \in [Worker -> 0 .. MaxCalls]
  /\ fetches \in [Location -> Nat]
  /\ said \subseteq [plan : Plans, at : Nat \ {0}, outcome : Outcomes]
  /\ \A g \in Worker :
       pc[g] \in Using \cup {"store"} => idx[g] \in DOMAIN plan[g] /\ Loc(g) \in Location

(***************************************************************************)
(* "Each rendered location is fetched at most once per loader lifetime"    *)
(* (loader.go:29), however many workers miss the cache at the same time.   *)
(***************************************************************************)
FetchedOnce == \A l \in Location : fetches[l] <= 1

\* What the cache says of each location.
Fact == [l \in Location |->
  IF cache[l] # NoEntry /\ once[l][cache[l]] = "done" THEN result[l][cache[l]] ELSE Unknown]

(***************************************************************************)
(* Two spellings of one path that both reach the compiler share one        *)
(* compiled schema, whichever came first: the second is not an error, and  *)
(* it does not replace the schema the first one's callers hold.            *)
(***************************************************************************)
AliasesAgree ==
  \A l, m \in Location :
    /\ UriOf[l] = UriOf[m]
    /\ {Fact[l].kind, Fact[m].kind} \subseteq {"schema", "compileError"}
    => Fact[l].kind = Fact[m].kind /\ Fact[l].json = Fact[m].json

(***************************************************************************)
(* The loader implements the store: every answer any worker ever gets is   *)
(* the one that looking at the locations once and in order would give. No  *)
(* caller sees an entry before it is filled in and falls through to a      *)
(* later location, and a transient failure is the same for everybody.      *)
(***************************************************************************)
Store == INSTANCE SchemaStore WITH
  fact <- Fact, Failure <- LoadError
ImplementsStore == Store!Spec

(***************************************************************************)
(* Every Resolve returns: neither the mutex nor a once that is being run   *)
(* by another worker is waited for in vain.                                *)
(***************************************************************************)
EveryCallReturns == \A g \in Worker : pc[g] # "idle" ~> pc[g] = "idle"
=============================================================================
