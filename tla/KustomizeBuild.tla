---------------------------- MODULE KustomizeBuild ----------------------------
(***************************************************************************)
(* Build (internal/kustomize/build.go): one rendering of a kustomization   *)
(* by krusty, which keeps its OpenAPI schemas in global state, under a     *)
(* mutex, with the origins of the documents asked for behind the back of   *)
(* the kustomization.                                                      *)
(*                                                                         *)
(* A kustomization is data: how many documents it renders (`built`),       *)
(* whether its buildMetadata asks for originAnnotations (`asks`), whether  *)
(* it brings an OpenAPI schema (`openapi`), and how it fails. A rendered   *)
(* document is what tells two renderings apart: the origin annotation, if  *)
(* it is there, and the schemas it was rendered with.                      *)
(***************************************************************************)
EXTENDS Naturals, Sequences

VARIABLES
  buildMutex,     \* held
  openapi,        \* the schemas in kustomize's global state, by who brought them
  injected,       \* originFS.injected
  rendered        \* the documents

buildVars == <<buildMutex, openapi, injected, rendered>>

BuildInit == buildMutex = FALSE /\ openapi = {} /\ injected = FALSE /\ rendered = <<>>

Rendering(annotated, schemas) == [annotated |-> annotated, schemas |-> schemas]

\* A new originFS, the lock, and ResetOpenAPI.
Begin ==
  /\ ~buildMutex
  /\ buildMutex' = TRUE /\ openapi' = {} /\ injected' = FALSE /\ rendered' = <<>>

\* originFS.ReadFile of the root kustomization, as often as krusty likes: what
\* it returns asks for the origins, one way or the other.
ReadRoot(k) == injected' = ~k.asks /\ UNCHANGED <<buildMutex, openapi, rendered>>

\* krusty adds the schema of the kustomization to the global ones.
LoadSchema(k) ==
  /\ k.openapi
  /\ openapi' = openapi \cup {k.label}
  /\ UNCHANGED <<buildMutex, injected, rendered>>

\* The deferred calls of build: ResetOpenAPI, recover, Unlock.
Unwind == openapi' = {} /\ buildMutex' = FALSE

RunReturns(k) ==
  /\ k.openapi => k.label \in openapi
  /\ rendered' = [n \in 1 .. k.built |-> Rendering(TRUE, openapi)]
  /\ Unwind /\ UNCHANGED injected

\* Fault: ResetOpenAPI is called after Run and not deferred.
RunPanicsBeforeReset == buildMutex' = FALSE /\ UNCHANGED <<openapi, injected, rendered>>

\* A panic is an error of this build and of no other.
RunPanics == Unwind /\ UNCHANGED <<injected, rendered>>

RunFails == Unwind /\ UNCHANGED <<injected, rendered>>

\* The annotations that nobody asked for are taken out again.
StripOrigins ==
  /\ rendered' = [n \in DOMAIN rendered |->
                    IF injected THEN [rendered[n] EXCEPT !.annotated = FALSE] ELSE rendered[n]]
  /\ UNCHANGED <<buildMutex, openapi, injected>>

-----------------------------------------------------------------------------
\* What kustomize by itself makes of k.
RenderedAlone(k) ==
  [n \in 1 .. k.built |-> Rendering(k.asks, IF k.openapi THEN {k.label} ELSE {})]
=============================================================================
