------------------------- MODULE SchemaLoader_proofs -------------------------
(***************************************************************************)
(* Proofs about SchemaLoader, for any set of workers, locations, documents *)
(* and plans: the inductive invariant, that no location is fetched twice,  *)
(* that two spellings of a file share a schema, and that the loader        *)
(* implements SchemaStore.                                                 *)
(***************************************************************************)
EXTENDS SchemaLoader, TLAPS

\* Only an entry of the cache is ever run.
EntryInv ==
  \A l \in Location, e \in Worker : once[l][e] # "fresh" => cache[l] = e

\* A worker uses the entry of the cache, has waited for it before it reads
\* it, and is alone in loading it.
UseInv ==
  /\ \A g \in Worker : pc[g] \in Using =>
       entry[g] \in Worker /\ cache[Loc(g)] = entry[g]
  /\ \A g \in Worker : pc[g] \in Loading => once[Loc(g)][entry[g]] = "running"
  /\ \A g \in Worker : pc[g] = "read" => once[Loc(g)][entry[g]] = "done"
  /\ \A g, h \in Worker :
       pc[g] \in Loading /\ pc[h] \in Loading /\ Loc(g) = Loc(h) => g = h

\* A call is past the locations that are known to hold nothing.
PassedInv ==
  \A g \in Worker : pc[g] # "idle" =>
    /\ plan[g] \in Plans
    /\ idx[g] <= Len(plan[g]) + 1
    /\ \A k \in 1 .. idx[g] - 1 : plan[g][k] \in Location /\ Fact[plan[g][k]] = Nothing

\* A location that was fetched has an entry whose once is not fresh.
FetchInv ==
  /\ FetchedOnce
  /\ \A l \in Location : fetches[l] = 1 =>
       cache[l] \in Worker /\ once[l][cache[l]] # "fresh"
  /\ \A g \in Worker : pc[g] = "load" => fetches[Loc(g)] = 0

\* Outcome o is what compiling the resource d yields.
Compiled(d, o) ==
  /\ o.kind = "schema" => o.json = d /\ d \in Compilable
  /\ o.kind = "compileError" => d # NoDoc /\ d \notin Compilable

\* What the compiler has for the URI of l.
ResourceOf(l) == resource[UriOf[l]]

CompileInv ==
  /\ \A l \in Location, e \in Worker : Compiled(ResourceOf(l), result[l][e])
  /\ \A g \in Worker : pc[g] = "publish" => Compiled(ResourceOf(Loc(g)), body[g])
  /\ \A g \in Worker : pc[g] \in {"lock", "add", "compile"} => body[g] \in Schemas
  /\ \A g \in Worker : pc[g] = "compile" => ResourceOf(Loc(g)) \in Doc

LoaderInv ==
  /\ LoaderTypeOK
  /\ EntryInv
  /\ UseInv
  /\ PassedInv
  /\ FetchInv
  /\ CompileInv

-----------------------------------------------------------------------------
(* Outcomes.                                                                *)

LEMMA OutcomeFacts ==
  /\ {Nothing, LoadError, CompileError} \subseteq Outcomes
  /\ Schemas \subseteq Outcomes
  /\ Nothing # LoadError /\ Unknown \notin Outcomes
  /\ Nothing.kind = "notFound" /\ LoadError.kind = "loadError"
  /\ CompileError.kind = "compileError" /\ Unknown.kind = "unknown"
  /\ \A o \in Schemas : o.kind = "schema" /\ o.json \in Doc /\ o.rules \in Doc
BY DEF Outcomes, Nothing, LoadError, CompileError, Unknown, Schemas

LEMMA NewSchema ==
  ASSUME NEW d \in Doc
  PROVE  [kind |-> "schema", json |-> d, rules |-> d] \in Schemas
BY DEF Schemas

LEMMA Recompiled ==
  ASSUME NEW o \in Schemas, NEW d \in Doc
  PROVE  [o EXCEPT !.json = d] \in Schemas /\ [o EXCEPT !.json = d].json = d
BY DEF Schemas

-----------------------------------------------------------------------------
(* Each part of the invariant is preserved, action by action.               *)

LEMMA PlanLocations ==
  ASSUME LoaderInv, NEW g \in Worker, pc[g] = "next", idx[g] \in DOMAIN plan[g]
  PROVE  Loc(g) \in Location \cup {Unrenderable}
BY PlansAssumption DEF LoaderInv, LoaderTypeOK, PassedInv, Loc

LEMMA TypeStep ==
  ASSUME LoaderInv, [Next]_vars
  PROVE  LoaderTypeOK'
<1> USE DEF LoaderInv, LoaderTypeOK, Loc, Goto, Return, Using, Loading, vars, sharedVars, callVars
<1>1. CASE UNCHANGED vars
  BY <1>1
<1>2. CASE \E g \in Worker : Call(g) \/ Resolving(g)
  <2> PICK g \in Worker : Call(g) \/ Resolving(g)
    BY <1>2
  <2>1. CASE Call(g)
    BY <2>1, MaxCallsAssumption, PlansAssumption DEF Call
  <2>2. CASE Exhausted(g)
    BY <2>2, OutcomeFacts DEF Exhausted, PassedInv
  <2>3. CASE RenderFails(g)
    BY <2>3, OutcomeFacts DEF RenderFails, PassedInv
  <2>4. CASE Lookup(g)
    <3>1. Loc(g) \in Location
      BY <2>4, PlanLocations DEF Lookup
    <3> QED
      BY <2>4, <3>1 DEF Lookup
  <2>5. CASE LoadOrStore(g)
    BY <2>5 DEF LoadOrStore
  <2>6. CASE OnceFirst(g)
    BY <2>6 DEF OnceFirst
  <2>7. CASE OnceDone(g)
    BY <2>7 DEF OnceDone
  <2>8. CASE Conclude(g)
    <3>1. result[Loc(g)][entry[g]] \in Outcomes
      BY <2>8 DEF Conclude, UseInv
    <3> QED
      BY <2>8, <3>1 DEF Conclude, PassedInv
  <2>9. CASE NextLocation(g)
    BY <2>9 DEF NextLocation
  <2>10. CASE Load(g)
    <3>1. CASE \E o \in {Nothing, LoadError} :
                 body' = [body EXCEPT ![g] = o] /\ Goto(g, "publish")
      BY <2>10, <3>1, OutcomeFacts DEF Load
    <3>2. CASE \E d \in Doc :
                 /\ body' = [body EXCEPT ![g] = [kind |-> "schema", json |-> d, rules |-> d]]
                 /\ Goto(g, "lock")
      BY <2>10, <3>2, OutcomeFacts, NewSchema DEF Load
    <3> QED
      BY <2>10, <3>1, <3>2 DEF Load
  <2>11. CASE Lock(g)
    BY <2>11 DEF Lock
  <2>12. CASE AddResource(g)
    <3>1. Loc(g) \in Location /\ UriOf[Loc(g)] \in Uri
      BY <2>12, UriAssumption DEF AddResource
    <3>2. body[g].json \in Doc
      BY <2>12, OutcomeFacts DEF AddResource, CompileInv
    <3>3. resource' \in [Uri -> Doc \cup {NoDoc}]
      BY <2>12, <3>1, <3>2 DEF AddResource
    <3> QED
      BY <2>12, <3>3 DEF AddResource
  <2>13. CASE Compile(g)
    <3>1. body[g] \in Schemas /\ resource[UriOf[Loc(g)]] \in Doc
      BY <2>13 DEF Compile, CompileInv, ResourceOf
    <3>2. [body[g] EXCEPT !.json = resource[UriOf[Loc(g)]]] \in Outcomes
      BY <3>1, Recompiled, OutcomeFacts
    <3>3. body' \in [Worker -> Outcomes]
      BY <2>13, <3>2, OutcomeFacts DEF Compile
    <3> QED
      BY <2>13, <3>3 DEF Compile
  <2>14. CASE Publish(g)
    BY <2>14 DEF Publish
  <2> QED
    BY <2>1, <2>2, <2>3, <2>4, <2>5, <2>6, <2>7, <2>8, <2>9, <2>10, <2>11, <2>12, <2>13, <2>14 DEF Resolving
<1> QED
  BY <1>1, <1>2 DEF Next, Finished

LEMMA EntryStep ==
  ASSUME LoaderInv, [Next]_vars
  PROVE  EntryInv'
<1> USE DEF LoaderInv, EntryInv, LoaderTypeOK, UseInv, Loc, Goto, Return, Using, Loading, vars, sharedVars, callVars
<1>1. CASE UNCHANGED vars
  BY <1>1
<1>2. CASE \E g \in Worker : Call(g) \/ Resolving(g)
  <2> PICK g \in Worker : Call(g) \/ Resolving(g)
    BY <1>2
  <2>1. CASE Call(g)
    BY <2>1 DEF Call
  <2>2. CASE Exhausted(g)
    BY <2>2 DEF Exhausted
  <2>3. CASE RenderFails(g)
    BY <2>3 DEF RenderFails
  <2>4. CASE Lookup(g)
    BY <2>4 DEF Lookup
  <2>5. CASE LoadOrStore(g)
    <3>1. CASE cache[Loc(g)] = NoEntry
      BY <2>5, <3>1, NobodyAssumption DEF LoadOrStore
    <3>2. CASE cache[Loc(g)] # NoEntry
      BY <2>5, <3>2, NobodyAssumption DEF LoadOrStore
    <3> QED
      BY <3>1, <3>2
  <2>6. CASE OnceFirst(g)
    BY <2>6 DEF OnceFirst
  <2>7. CASE OnceDone(g)
    BY <2>7 DEF OnceDone
  <2>8. CASE Conclude(g)
    BY <2>8 DEF Conclude
  <2>9. CASE NextLocation(g)
    BY <2>9 DEF NextLocation
  <2>10. CASE Load(g)
    BY <2>10 DEF Load
  <2>11. CASE Lock(g)
    BY <2>11 DEF Lock
  <2>12. CASE AddResource(g)
    BY <2>12 DEF AddResource
  <2>13. CASE Compile(g)
    BY <2>13 DEF Compile
  <2>14. CASE Publish(g)
    BY <2>14 DEF Publish
  <2> QED
    BY <2>1, <2>2, <2>3, <2>4, <2>5, <2>6, <2>7, <2>8, <2>9, <2>10, <2>11, <2>12, <2>13, <2>14 DEF Resolving
<1> QED
  BY <1>1, <1>2 DEF Next, Finished

\* A worker that begins to use the entry of the cache disturbs nobody.
LEMMA UseKept ==
  ASSUME UseInv, NEW g \in Worker, cache' = cache, once' = once,
         \A h \in Worker : h # g =>
           pc'[h] = pc[h] /\ Loc(h)' = Loc(h) /\ entry'[h] = entry[h],
         \/ pc'[g] = "store"
         \/ pc'[g] = "once" /\ entry'[g] \in Worker /\ cache'[Loc(g)'] = entry'[g]
  PROVE  UseInv'
BY DEF UseInv, Using, Loading

LEMMA UseStep ==
  ASSUME LoaderInv, [Next]_vars
  PROVE  UseInv'
<1> USE DEF LoaderInv, EntryInv, LoaderTypeOK, UseInv, Loc, Goto, Return, Using, Loading, vars, sharedVars, callVars
<1>1. CASE UNCHANGED vars
  BY <1>1
<1>2. CASE \E g \in Worker : Call(g) \/ Resolving(g)
  <2> PICK g \in Worker : Call(g) \/ Resolving(g)
    BY <1>2
  <2>1. CASE Call(g)
    BY <2>1 DEF Call
  <2>2. CASE Exhausted(g)
    BY <2>2 DEF Exhausted
  <2>3. CASE RenderFails(g)
    BY <2>3 DEF RenderFails
  <2>4. CASE Lookup(g)
    <3>1. CASE cache[Loc(g)] = NoEntry
      <4>1. \A h \in Worker : h # g =>
              pc'[h] = pc[h] /\ Loc(h)' = Loc(h) /\ entry'[h] = entry[h]
        BY <2>4, <3>1 DEF Lookup
      <4>2. cache' = cache /\ once' = once /\ pc'[g] = "store"
        BY <2>4, <3>1 DEF Lookup
      <4> HIDE DEF UseInv, Loc
      <4> QED
        BY <4>1, <4>2, UseKept
    <3>2. CASE cache[Loc(g)] # NoEntry
      <4>1. \A h \in Worker : h # g =>
              pc'[h] = pc[h] /\ Loc(h)' = Loc(h) /\ entry'[h] = entry[h]
        BY <2>4, <3>2 DEF Lookup
      <4>2. cache' = cache /\ once' = once /\ Loc(g)' = Loc(g)
        BY <2>4, <3>2 DEF Lookup
      <4>3. pc'[g] = "once" /\ entry'[g] = cache[Loc(g)] /\ cache[Loc(g)] \in Worker
        BY <2>4, <3>2, PlanLocations DEF Lookup
      <4> HIDE DEF UseInv, Loc
      <4> QED
        BY <4>1, <4>2, <4>3, UseKept
    <3> QED
      BY <3>1, <3>2
  <2>5. CASE LoadOrStore(g)
    <3>1. CASE cache[Loc(g)] = NoEntry
      BY <2>5, <3>1, NobodyAssumption DEF LoadOrStore
    <3>2. CASE cache[Loc(g)] # NoEntry
      <4>1. \A h \in Worker : h # g =>
              pc'[h] = pc[h] /\ Loc(h)' = Loc(h) /\ entry'[h] = entry[h]
        BY <2>5, <3>2 DEF LoadOrStore
      <4>2. cache' = cache /\ once' = once /\ Loc(g)' = Loc(g)
        BY <2>5, <3>2 DEF LoadOrStore
      <4>3. pc'[g] = "once" /\ entry'[g] = cache[Loc(g)] /\ cache[Loc(g)] \in Worker
        BY <2>5, <3>2, PlanLocations DEF LoadOrStore
      <4> HIDE DEF UseInv, Loc
      <4> QED
        BY <4>1, <4>2, <4>3, UseKept
    <3> QED
      BY <3>1, <3>2
  <2>6. CASE OnceFirst(g)
    BY <2>6 DEF OnceFirst
  <2>7. CASE OnceDone(g)
    BY <2>7 DEF OnceDone
  <2>8. CASE Conclude(g)
    BY <2>8 DEF Conclude
  <2>9. CASE NextLocation(g)
    BY <2>9 DEF NextLocation
  <2>10. CASE Load(g)
    <3>1. pc' = [pc EXCEPT ![g] = "publish"] \/ pc' = [pc EXCEPT ![g] = "lock"]
      BY <2>10 DEF Load
    <3> QED
      BY <2>10, <3>1 DEF Load
  <2>11. CASE Lock(g)
    BY <2>11 DEF Lock
  <2>12. CASE AddResource(g)
    BY <2>12 DEF AddResource
  <2>13. CASE Compile(g)
    BY <2>13 DEF Compile
  <2>14. CASE Publish(g)
    BY <2>14 DEF Publish
  <2> QED
    BY <2>1, <2>2, <2>3, <2>4, <2>5, <2>6, <2>7, <2>8, <2>9, <2>10, <2>11, <2>12, <2>13, <2>14 DEF Resolving
<1> QED
  BY <1>1, <1>2 DEF Next, Finished

LEMMA FetchStep ==
  ASSUME LoaderInv, [Next]_vars
  PROVE  FetchInv'
<1> USE DEF LoaderInv, FetchInv, FetchedOnce, EntryInv, LoaderTypeOK, UseInv, Loc, Goto, Return, Using, Loading, vars, sharedVars, callVars
<1>1. CASE UNCHANGED vars
  BY <1>1
<1>2. CASE \E g \in Worker : Call(g) \/ Resolving(g)
  <2> PICK g \in Worker : Call(g) \/ Resolving(g)
    BY <1>2
  <2>1. CASE Call(g)
    BY <2>1 DEF Call
  <2>2. CASE Exhausted(g)
    BY <2>2 DEF Exhausted
  <2>3. CASE RenderFails(g)
    BY <2>3 DEF RenderFails
  <2>4. CASE Lookup(g)
    BY <2>4 DEF Lookup
  <2>5. CASE LoadOrStore(g)
    <3>1. CASE cache[Loc(g)] = NoEntry
      BY <2>5, <3>1, NobodyAssumption DEF LoadOrStore
    <3>2. CASE cache[Loc(g)] # NoEntry
      BY <2>5, <3>2, NobodyAssumption DEF LoadOrStore
    <3> QED
      BY <3>1, <3>2
  <2>6. CASE OnceFirst(g)
    BY <2>6 DEF OnceFirst
  <2>7. CASE OnceDone(g)
    BY <2>7 DEF OnceDone
  <2>8. CASE Conclude(g)
    BY <2>8 DEF Conclude
  <2>9. CASE NextLocation(g)
    BY <2>9 DEF NextLocation
  <2>10. CASE Load(g)
    BY <2>10 DEF Load
  <2>11. CASE Lock(g)
    BY <2>11 DEF Lock
  <2>12. CASE AddResource(g)
    BY <2>12 DEF AddResource
  <2>13. CASE Compile(g)
    BY <2>13 DEF Compile
  <2>14. CASE Publish(g)
    BY <2>14 DEF Publish
  <2> QED
    BY <2>1, <2>2, <2>3, <2>4, <2>5, <2>6, <2>7, <2>8, <2>9, <2>10, <2>11, <2>12, <2>13, <2>14 DEF Resolving
<1> QED
  BY <1>1, <1>2 DEF Next, Finished

-----------------------------------------------------------------------------
(* How the facts evolve.                                                    *)

\* Publishing an entry is what makes a fact known.
LEMMA FactPublished ==
  ASSUME LoaderInv, NEW g \in Worker, Publish(g)
  PROVE  /\ Loc(g) \in Location /\ body[g] \in Outcomes
         /\ Fact[Loc(g)] = Unknown
         /\ \A l \in Location : Fact'[l] = IF l = Loc(g) THEN body[g] ELSE Fact[l]
<1>1. /\ Loc(g) \in Location /\ entry[g] \in Worker /\ body[g] \in Outcomes
      /\ cache[Loc(g)] = entry[g] /\ once[Loc(g)][entry[g]] = "running"
  BY DEF LoaderInv, LoaderTypeOK, UseInv, Using, Loading, Publish
<1>2. Fact[Loc(g)] = Unknown
  BY <1>1 DEF Fact
<1>3. Fact'[Loc(g)] = body[g]
  BY <1>1, NobodyAssumption DEF Fact, Publish, LoaderInv, LoaderTypeOK
<1>4. ASSUME NEW l \in Location, l # Loc(g)
      PROVE  Fact'[l] = Fact[l]
  BY <1>1, <1>4 DEF Fact, Publish, LoaderInv, LoaderTypeOK
<1> QED
  BY <1>1, <1>2, <1>3, <1>4

\* No other step changes a fact.
LEMMA FactsKept ==
  ASSUME LoaderInv, [Next]_vars, \A g \in Worker : ~Publish(g)
  PROVE  \A l \in Location : Fact'[l] = Fact[l]
<1> SUFFICES ASSUME NEW l \in Location
             PROVE  Fact'[l] = Fact[l]
  OBVIOUS
<1> USE DEF LoaderInv, LoaderTypeOK, Fact
<1>1. CASE UNCHANGED vars
  BY <1>1 DEF vars, sharedVars
<1>2. CASE \E g \in Worker : Call(g) \/ Resolving(g)
  <2> PICK g \in Worker : Call(g) \/ Resolving(g)
    BY <1>2
  <2>1. CASE LoadOrStore(g)
    BY <2>1, NobodyAssumption DEF LoadOrStore, EntryInv
  <2>2. CASE OnceFirst(g)
    <3>1. Loc(g) \in Location /\ entry[g] \in Worker /\ once[Loc(g)][entry[g]] = "fresh"
      BY <2>2 DEF OnceFirst, UseInv, Using, Loading
    <3> QED
      BY <2>2, <3>1 DEF OnceFirst
  <2>3. CASE UNCHANGED <<cache, once, result>>
    BY <2>3
  <2> QED
    BY <2>1, <2>2, <2>3 DEF Resolving, sharedVars,
       Call, Exhausted, RenderFails, Lookup, OnceDone, Conclude, NextLocation, Load, Lock, AddResource, Compile
<1> QED
  BY <1>1, <1>2 DEF Next, Finished

LEMMA FactStep ==
  ASSUME LoaderInv, [Next]_vars, NEW l \in Location, Fact[l] # Unknown
  PROVE  Fact'[l] = Fact[l]
<1>1. CASE \E g \in Worker : Publish(g)
  BY <1>1, FactPublished
<1>2. CASE \A g \in Worker : ~Publish(g)
  BY <1>2, FactsKept
<1> QED
  BY <1>1, <1>2

\* What the cache says, the compiler agrees with.
LEMMA FactRead ==
  ASSUME LoaderInv, NEW g \in Worker, pc[g] = "read"
  PROVE  /\ Loc(g) \in Location /\ idx[g] \in DOMAIN plan[g] /\ plan[g] \in Plans
         /\ Fact[Loc(g)] = result[Loc(g)][entry[g]]
         /\ Fact[Loc(g)] \in Outcomes
BY NobodyAssumption DEF LoaderInv, LoaderTypeOK, UseInv, PassedInv, Using, Fact

-----------------------------------------------------------------------------

LEMMA PassedStep ==
  ASSUME LoaderInv, [Next]_vars
  PROVE  PassedInv'
<1> SUFFICES ASSUME NEW h \in Worker, pc'[h] # "idle"
             PROVE  /\ plan'[h] \in Plans
                    /\ idx'[h] <= Len(plan'[h]) + 1
                    /\ \A k \in 1 .. idx'[h] - 1 :
                         plan'[h][k] \in Location /\ Fact'[plan'[h][k]] = Nothing
  BY DEF PassedInv
<1> DEFINE Kept == plan'[h] = plan[h] /\ idx'[h] = idx[h] /\ pc[h] # "idle"
<1>1. CASE Kept
  <2>1. ASSUME NEW k \in 1 .. idx[h] - 1
        PROVE  plan[h][k] \in Location /\ Fact'[plan[h][k]] = Nothing
    BY <1>1, <2>1, FactStep, OutcomeFacts DEF LoaderInv, PassedInv
  <2> QED
    BY <1>1, <2>1 DEF LoaderInv, PassedInv
<1>2. CASE UNCHANGED vars
  BY <1>1, <1>2 DEF vars, callVars
<1>3. CASE \E g \in Worker : Call(g) \/ Resolving(g)
  <2> PICK g \in Worker : Call(g) \/ Resolving(g)
    BY <1>3
  <2>1. CASE Call(g)
    <3>1. CASE h = g
      BY <2>1, <3>1, PlansAssumption DEF Call, LoaderInv, LoaderTypeOK
    <3>2. CASE h # g
      BY <1>1, <2>1, <3>2 DEF Call, Goto, LoaderInv, LoaderTypeOK
    <3> QED
      BY <3>1, <3>2
  <2>2. CASE NextLocation(g)
    <3>1. CASE h = g
      <4>1. /\ plan'[g] = plan[g] /\ idx'[g] = idx[g] + 1 /\ idx[g] \in Nat \ {0}
            /\ plan[g] \in Plans /\ idx[g] \in DOMAIN plan[g]
            /\ Loc(g) \in Location /\ Fact[Loc(g)] = Nothing
        BY <2>2, FactRead DEF NextLocation, LoaderInv, LoaderTypeOK
      <4>2. plan[g] \in Seq(Location \cup {Unrenderable})
        BY <4>1, PlansAssumption
      <4>3. ASSUME NEW k \in 1 .. idx[g]
            PROVE  plan[g][k] \in Location /\ Fact[plan[g][k]] = Nothing
        <5>1. k \in 1 .. idx[g] - 1 \/ k = idx[g]
          BY <4>1
        <5>2. pc[g] # "idle"
          BY <2>2 DEF NextLocation
        <5> QED
          BY <4>1, <5>1, <5>2 DEF LoaderInv, PassedInv, Loc
      <4>4. ASSUME NEW k \in 1 .. idx[g]
            PROVE  plan[g][k] \in Location /\ Fact'[plan[g][k]] = Nothing
        BY <4>3, FactStep, OutcomeFacts
      <4> QED
        BY <3>1, <4>1, <4>2, <4>4
    <3>2. CASE h # g
      BY <1>1, <2>2, <3>2 DEF NextLocation, Goto, LoaderInv, LoaderTypeOK
    <3> QED
      BY <3>1, <3>2
  <2>3. CASE /\ plan' = plan /\ idx' = idx
             /\ pc[g] # "idle" /\ \A w \in Worker : w # g => pc'[w] = pc[w]
    BY <1>1, <2>3
  <2> QED
    BY <2>1, <2>2, <2>3 DEF Resolving, Goto, Return, LoaderInv, LoaderTypeOK,
       Exhausted, RenderFails, Lookup, LoadOrStore, OnceFirst, OnceDone, Conclude, Load, Lock, AddResource, Compile, Publish
<1> QED
  BY <1>2, <1>3 DEF Next, Finished

LEMMA CompileStep ==
  ASSUME LoaderInv, [Next]_vars
  PROVE  CompileInv'
<1> DEFINE Steady(g) ==
      \A h \in Worker : h # g =>
        pc'[h] = pc[h] /\ Loc(h)' = Loc(h) /\ body'[h] = body[h]
<1>0. CompileInv /\ LoaderTypeOK
  BY DEF LoaderInv
<1>1. CASE UNCHANGED vars
  BY <1>0, <1>1 DEF CompileInv, ResourceOf, Loc, vars, sharedVars, callVars
<1>2. CASE \E g \in Worker : Call(g) \/ Resolving(g)
  <2> PICK g \in Worker : Call(g) \/ Resolving(g)
    BY <1>2
  <2>0. Steady(g)
    BY <1>0 DEF LoaderTypeOK, Loc, Goto, Return, sharedVars, callVars, Resolving,
       Call, Exhausted, RenderFails, Lookup, LoadOrStore, OnceFirst, OnceDone, Conclude, NextLocation, Load, Lock, AddResource, Compile, Publish
  <2>1. CASE /\ UNCHANGED <<resource, result>>
             /\ pc'[g] \notin {"lock", "add", "compile", "publish"}
    <3> HIDE DEF Loc
    <3>1. \A l \in Location : ResourceOf(l)' = ResourceOf(l)
      BY <2>1 DEF ResourceOf
    <3>2. \A h \in Worker : h # g => ResourceOf(Loc(h))' = ResourceOf(Loc(h))
      BY <2>0, <2>1 DEF ResourceOf
    <3> QED
      BY <1>0, <2>0, <2>1, <3>1, <3>2 DEF CompileInv
  <2>2. CASE Load(g)
    <3>1. UNCHANGED <<resource, result>> /\ Loc(g)' = Loc(g)
      BY <2>2 DEF Load, Loc, sharedVars
    <3>2. \/ pc'[g] = "publish" /\ body'[g] \in {Nothing, LoadError}
          \/ pc'[g] = "lock" /\ body'[g] \in Schemas
      BY <1>0, <2>2, NewSchema DEF Load, Goto, LoaderTypeOK
    <3>3. \A h \in Worker : ResourceOf(Loc(h))' = ResourceOf(Loc(h))
      BY <2>0, <3>1 DEF ResourceOf
    <3>4. pc'[g] = "publish" => Compiled(ResourceOf(Loc(g))', body'[g])
      BY <3>2, OutcomeFacts DEF Compiled
    <3>5. \A l \in Location : ResourceOf(l)' = ResourceOf(l)
      BY <3>1 DEF ResourceOf
    <3> QED
      BY <1>0, <2>0, <3>1, <3>2, <3>3, <3>4, <3>5 DEF CompileInv
  <2>3. CASE Lock(g)
    <3>1. UNCHANGED <<resource, result>> /\ Loc(g)' = Loc(g)
      BY <2>3 DEF Lock, Loc
    <3>2. pc[g] = "lock" /\ pc'[g] = "add" /\ body'[g] = body[g]
      BY <1>0, <2>3 DEF Lock, Goto, LoaderTypeOK
    <3>3. \A h \in Worker : ResourceOf(Loc(h))' = ResourceOf(Loc(h))
      BY <2>0, <3>1 DEF ResourceOf
    <3>4. \A l \in Location : ResourceOf(l)' = ResourceOf(l)
      BY <3>1 DEF ResourceOf
    <3> QED
      BY <1>0, <2>0, <3>1, <3>2, <3>3, <3>4 DEF CompileInv
  <2>4. CASE AddResource(g)
    <3>1. /\ result' = result /\ body' = body /\ Loc(g)' = Loc(g) /\ Loc(g) \in Location
          /\ pc[g] = "add" /\ pc'[g] = "compile"
      BY <1>0, <2>4 DEF AddResource, Goto, Loc, LoaderTypeOK, Using, Loading
    <3>2. \A l \in Location :
            ResourceOf(l)' # ResourceOf(l) =>
              ResourceOf(l) = NoDoc /\ ResourceOf(l)' = body[g].json
      BY <1>0, <2>4, <3>1, UriAssumption DEF AddResource, ResourceOf, LoaderTypeOK
    <3>3. body[g].json \in Doc
      BY <1>0, <3>1, OutcomeFacts DEF CompileInv
    <3>4. \A l \in Location, o \in Outcomes :
            Compiled(ResourceOf(l), o) => Compiled(ResourceOf(l)', o)
      BY <3>2, DocAssumption DEF Compiled
    <3>5. \A h \in Worker : Loc(h)' = Loc(h)
      BY <2>0, <3>1
    <3>6. ResourceOf(Loc(g))' \in Doc
      BY <1>0, <2>4, <3>1, <3>3, UriAssumption DEF AddResource, ResourceOf, LoaderTypeOK
    <3>7. \A h \in Worker : pc[h] \in Loading => Loc(h) \in Location /\ body[h] \in Outcomes
      BY <1>0 DEF LoaderTypeOK, Using
    <3>8. \A h \in Worker : ResourceOf(Loc(h))' = resource'[UriOf[Loc(h)]]
      BY <3>5 DEF ResourceOf
    <3>9. \A l \in Location : ResourceOf(l)' = resource'[UriOf[l]]
      BY DEF ResourceOf
    <3>10. ASSUME NEW h \in Worker, pc'[h] = "publish"
           PROVE  Compiled(ResourceOf(Loc(h))', body'[h])
      <4>1. h # g /\ pc[h] = "publish"
        BY <2>0, <3>1, <3>10
      <4>2. Compiled(ResourceOf(Loc(h)), body[h])
        BY <1>0, <4>1 DEF CompileInv
      <4>3. Loc(h) \in Location /\ body[h] \in Outcomes
        BY <3>7, <4>1 DEF Loading
      <4> QED
        BY <3>1, <3>4, <3>8, <3>9, <4>2, <4>3
    <3>11. ASSUME NEW h \in Worker, pc'[h] = "compile"
           PROVE  ResourceOf(Loc(h))' \in Doc
      <4>1. CASE h = g
        BY <3>6, <4>1
      <4>2. CASE h # g
        <5>1. pc[h] = "compile" /\ Loc(h) \in Location
          BY <2>0, <3>7, <3>11, <4>2 DEF Loading
        <5>2. ResourceOf(Loc(h)) \in Doc
          BY <1>0, <5>1 DEF CompileInv
        <5> QED
          BY <3>2, <3>8, <3>9, <5>1, <5>2, DocAssumption
      <4> QED
        BY <4>1, <4>2
    <3>12. \A l \in Location, e \in Worker : Compiled(ResourceOf(l)', result'[l][e])
      BY <1>0, <3>1, <3>4 DEF CompileInv, LoaderTypeOK
    <3>13. \A h \in Worker : pc'[h] \in {"lock", "add", "compile"} => body'[h] \in Schemas
      BY <1>0, <2>0, <3>1 DEF CompileInv
    <3> QED
      BY <3>10, <3>11, <3>12, <3>13 DEF CompileInv
  <2>5. CASE Compile(g)
    <3> DEFINE d == ResourceOf(Loc(g))
    <3>1. /\ resource' = resource /\ result' = result /\ Loc(g)' = Loc(g)
          /\ pc[g] = "compile" /\ pc'[g] = "publish"
          /\ body'[g] = IF d \in Compilable THEN [body[g] EXCEPT !.json = d] ELSE CompileError
      BY <1>0, <2>5 DEF Compile, Goto, Loc, ResourceOf, LoaderTypeOK
    <3>2. body[g] \in Schemas /\ d \in Doc
      BY <1>0, <3>1 DEF CompileInv
    <3>3. Compiled(d, body'[g])
      <4>1. CASE d \in Compilable
        <5>1. body'[g] \in Schemas /\ body'[g].json = d
          BY <3>1, <3>2, <4>1, Recompiled
        <5> QED
          BY <4>1, <5>1, OutcomeFacts DEF Compiled
      <4>2. CASE d \notin Compilable
        BY <3>1, <3>2, <4>2, DocAssumption, OutcomeFacts DEF Compiled
      <4> QED
        BY <4>1, <4>2
    <3> HIDE DEF d
    <3>4. \A h \in Worker : ResourceOf(Loc(h))' = ResourceOf(Loc(h))
      BY <2>0, <3>1 DEF ResourceOf
    <3>5. \A l \in Location : ResourceOf(l)' = ResourceOf(l)
      BY <3>1 DEF ResourceOf
    <3>6. Compiled(ResourceOf(Loc(g))', body'[g])
      BY <3>3, <3>4 DEF d
    <3> QED
      BY <1>0, <2>0, <3>1, <3>4, <3>5, <3>6 DEF CompileInv
  <2>6. CASE Publish(g)
    <3>1. /\ resource' = resource /\ body' = body /\ Loc(g)' = Loc(g)
          /\ pc[g] = "publish" /\ pc'[g] = "read"
          /\ Loc(g) \in Location /\ entry[g] \in Worker
          /\ result' = [result EXCEPT ![Loc(g)][entry[g]] = body[g]]
      BY <1>0, <2>6 DEF Publish, Goto, Loc, LoaderTypeOK, Using, Loading, LoaderInv, UseInv
    <3>2. \A h \in Worker : ResourceOf(Loc(h))' = ResourceOf(Loc(h))
      BY <2>0, <3>1 DEF ResourceOf
    <3>3. \A l \in Location : ResourceOf(l)' = ResourceOf(l)
      BY <3>1 DEF ResourceOf
    <3>4. Compiled(ResourceOf(Loc(g)), body[g])
      BY <1>0, <3>1 DEF CompileInv
    <3>5. \A l \in Location, e \in Worker :
            result'[l][e] = IF l = Loc(g) /\ e = entry[g] THEN body[g] ELSE result[l][e]
      BY <1>0, <3>1 DEF LoaderTypeOK
    <3>6. \A l \in Location, e \in Worker : Compiled(ResourceOf(l)', result'[l][e])
      BY <1>0, <3>3, <3>4, <3>5 DEF CompileInv
    <3> QED
      BY <1>0, <2>0, <3>1, <3>2, <3>6 DEF CompileInv
  <2> QED
    BY <1>0, <2>1, <2>2, <2>3, <2>4, <2>5, <2>6
       DEF Resolving, Goto, Return, LoaderTypeOK, sharedVars, callVars,
       Call, Exhausted, RenderFails, Lookup, LoadOrStore, OnceFirst, OnceDone,
       Conclude, NextLocation
<1> QED
  BY <1>1, <1>2 DEF Next, Finished

-----------------------------------------------------------------------------
(* The invariant.                                                           *)

LEMMA LoaderInvInit == Init => LoaderInv
<1> SUFFICES ASSUME Init
             PROVE  LoaderInv
  OBVIOUS
<1>1. LoaderTypeOK
  BY OutcomeFacts, MaxCallsAssumption DEF Init, LoaderTypeOK, Using, Loading
<1>2. EntryInv /\ UseInv
  BY DEF Init, EntryInv, UseInv, Using, Loading
<1>3. PassedInv /\ FetchInv
  BY DEF Init, PassedInv, FetchInv, FetchedOnce
<1>4. CompileInv
  BY OutcomeFacts DEF Init, CompileInv, Compiled
<1> QED
  BY <1>1, <1>2, <1>3, <1>4 DEF LoaderInv

LEMMA LoaderInvStep == LoaderInv /\ [Next]_vars => LoaderInv'
BY TypeStep, EntryStep, UseStep, PassedStep, FetchStep, CompileStep DEF LoaderInv

LEMMA LoaderInvariant == Spec => []LoaderInv
BY LoaderInvInit, LoaderInvStep, PTL DEF Spec

(***************************************************************************)
(* The state of the loader is well typed: no call runs past its plan, and  *)
(* what is published is always a complete outcome.                         *)
(***************************************************************************)
THEOREM LoaderTypeCorrect == Spec => []LoaderTypeOK
<1>1. LoaderInv => LoaderTypeOK
  BY DEF LoaderInv
<1> QED
  BY <1>1, LoaderInvariant, PTL

(***************************************************************************)
(* "Each rendered location is fetched at most once per loader lifetime"    *)
(* (loader.go:29), for any number of workers, locations and calls.         *)
(***************************************************************************)
THEOREM NeverFetchedTwice == Spec => []FetchedOnce
<1>1. LoaderInv => FetchedOnce
  BY DEF LoaderInv, FetchInv
<1> QED
  BY <1>1, LoaderInvariant, PTL

(***************************************************************************)
(* Ignoring ResourceExistsError is sound: two locations with one URI that  *)
(* both reach the compiler have the same schema.                           *)
(***************************************************************************)
THEOREM SpellingsAgree == Spec => []AliasesAgree
<1>1. ASSUME LoaderInv
      PROVE  AliasesAgree
  <2> SUFFICES ASSUME NEW l \in Location, NEW m \in Location, UriOf[l] = UriOf[m],
                      Fact[l].kind \in {"schema", "compileError"},
                      Fact[m].kind \in {"schema", "compileError"}
               PROVE  Fact[l].kind = Fact[m].kind /\ Fact[l].json = Fact[m].json
    BY DEF AliasesAgree
  <2>1. \A n \in Location : Fact[n].kind \in {"schema", "compileError"} =>
          /\ Fact[n] \in Outcomes
          /\ Compiled(ResourceOf(n), Fact[n])
    BY <1>1, NobodyAssumption, OutcomeFacts DEF LoaderInv, CompileInv, LoaderTypeOK, Fact
  <2>2. \A o \in Outcomes : o.kind = "compileError" => o.json = NoDoc
    BY DEF Outcomes, Nothing, LoadError, CompileError, Schemas
  <2>3. ResourceOf(l) = ResourceOf(m)
    BY DEF ResourceOf
  <2> QED
    BY <2>1, <2>2, <2>3 DEF Compiled
<1> QED
  BY <1>1, LoaderInvariant, PTL

-----------------------------------------------------------------------------
(* Refinement.                                                              *)

LEMMA StoreInit == Init => Store!Init
BY DEF Init, Store!Init, Fact

LEMMA Answers ==
  ASSUME LoaderInv, [Next]_vars, NEW g \in Worker, NEW o,
         Fact' = Fact, plan[g] \in Plans, Return(g, o),
         idx[g] \in 1 .. Len(plan[g]) + 1,
         \A k \in 1 .. idx[g] - 1 : Store!Outcome(plan[g][k]) = Nothing,
         idx[g] \in DOMAIN plan[g] =>
           o = Store!Outcome(Loc(g)) /\ o \notin {Nothing, Unknown},
         idx[g] \notin DOMAIN plan[g] => o = Nothing
  PROVE  Store!Say
<1>1. Store!StopsAt(plan[g], idx[g])
  BY DEF Store!StopsAt, Loc
<1>2. Store!Answer(plan[g], idx[g]) = [plan |-> plan[g], at |-> idx[g], outcome |-> o]
  BY DEF Store!Answer, Loc
<1> QED
  BY <1>1, <1>2 DEF Store!Say, Return

LEMMA StoreStep == LoaderInv /\ [Next]_vars => [Store!Next]_(Store!vars)
<1> SUFFICES ASSUME LoaderInv, [Next]_vars
             PROVE  [Store!Next]_(Store!vars)
  OBVIOUS
<1>1. CASE UNCHANGED vars
  <2>1. Fact' = Fact /\ said' = said
    BY <1>1 DEF Fact, vars, sharedVars
  <2> QED
    BY <2>1 DEF Store!vars
<1>2. ASSUME NEW g \in Worker, Publish(g)
      PROVE  Store!Learn
  <2>1. Fact' = [Fact EXCEPT ![Loc(g)] = body[g]]
    BY <1>2, FactPublished DEF Fact
  <2>2. said' = said
    BY <1>2 DEF Publish
  <2> QED
    BY <1>2, <2>1, <2>2, FactPublished DEF Store!Learn
<1>3. ASSUME \A h \in Worker : ~Publish(h),
             NEW g \in Worker, Call(g) \/ Resolving(g)
      PROVE  Store!Say \/ UNCHANGED Store!vars
  <2>1. Fact' = Fact
    BY <1>3, FactsKept DEF Fact
  <2>2. ASSUME pc[g] # "idle"
        PROVE  /\ plan[g] \in Plans /\ idx[g] \in 1 .. Len(plan[g]) + 1
               /\ \A k \in 1 .. idx[g] - 1 : Store!Outcome(plan[g][k]) = Nothing
    BY <2>2, PlansAssumption, LocationAssumption
       DEF LoaderInv, LoaderTypeOK, PassedInv, Store!Outcome
  <2>3. CASE Exhausted(g)
    <3>1. Return(g, Nothing) /\ idx[g] \notin DOMAIN plan[g] /\ pc[g] # "idle"
      BY <2>3 DEF Exhausted
    <3> QED
      BY <2>1, <2>2, <3>1, Answers
  <2>4. CASE RenderFails(g)
    <3>1. /\ Return(g, LoadError) /\ idx[g] \in DOMAIN plan[g] /\ pc[g] # "idle"
          /\ Store!Outcome(Loc(g)) = LoadError /\ LoadError \notin {Nothing, Unknown}
      BY <2>4, OutcomeFacts DEF RenderFails, Store!Outcome
    <3> QED
      BY <2>1, <2>2, <3>1, Answers
  <2>5. CASE Conclude(g)
    <3> DEFINE o == result[Loc(g)][entry[g]]
    <3>1. Return(g, o) /\ pc[g] = "read" /\ o # Nothing
      BY <2>5 DEF Conclude
    <3>2. Store!Outcome(Loc(g)) = o /\ o # Unknown /\ idx[g] \in DOMAIN plan[g]
      BY <3>1, FactRead, OutcomeFacts, LocationAssumption DEF Store!Outcome
    <3> HIDE DEF o
    <3> QED
      BY <2>1, <2>2, <3>1, <3>2, Answers
  <2>6. CASE said' = said
    BY <2>1, <2>6 DEF Store!vars
  <2> QED
    BY <1>3, <2>3, <2>4, <2>5, <2>6 DEF Resolving, Call, Lookup, LoadOrStore,
       OnceFirst, OnceDone, NextLocation, Load, Lock, AddResource, Compile
<1> QED
  BY <1>1, <1>2, <1>3 DEF Next, Finished, Store!Next

(***************************************************************************)
(* For any number of workers, locations, plans and calls, the concurrent   *)
(* loader implements the store: its answers are a function of facts that   *)
(* are found out once, by the first location in the order of the plan.     *)
(***************************************************************************)
THEOREM LoaderImplementsStore == Spec => ImplementsStore
BY LoaderInvariant, StoreInit, StoreStep, PTL DEF Spec, ImplementsStore, Store!Spec

=============================================================================
