----------------------------- MODULE SchemaStore -----------------------------
(***************************************************************************)
(* What SchemaLoader promises to its concurrent callers, with no cache,    *)
(* lock or goroutine in sight. What a location holds is found out once and *)
(* then never changes; a Resolve is answered by the first location of its  *)
(* plan that holds something, and only once all the ones before it are     *)
(* known to hold nothing.                                                  *)
(***************************************************************************)
EXTENDS Naturals, Sequences

CONSTANTS
  Location,       \* the rendered schema locations
  Plans,          \* the sequences of locations a Resolve may go through
  Outcomes,       \* what looking at a location can yield
  Unrenderable,   \* stands for a template that does not render
  Failure,        \* the outcome of such a template
  Nothing,        \* the outcome "no schema here"
  Unknown         \* not an outcome

VARIABLES
  fact,           \* what is known of each location
  said            \* the answers given: [plan, at, outcome]

vars == <<fact, said>>

Outcome(l) == IF l = Unrenderable THEN Failure ELSE fact[l]

\* k is where the search of plan p stops: past its end when nothing is found.
StopsAt(p, k) ==
  /\ k \in 1 .. Len(p) + 1
  /\ \A m \in 1 .. k - 1 : Outcome(p[m]) = Nothing
  /\ k \in DOMAIN p => Outcome(p[k]) \notin {Nothing, Unknown}

Answer(p, k) ==
  [plan |-> p, at |-> k, outcome |-> IF k \in DOMAIN p THEN Outcome(p[k]) ELSE Nothing]

Init ==
  /\ fact = [l \in Location |-> Unknown]
  /\ said = {}

Learn ==
  /\ \E l \in Location, o \in Outcomes :
       fact[l] = Unknown /\ fact' = [fact EXCEPT ![l] = o]
  /\ UNCHANGED said

Say ==
  /\ \E p \in Plans : \E k \in 1 .. Len(p) + 1 :
       StopsAt(p, k) /\ said' = said \cup {Answer(p, k)}
  /\ UNCHANGED fact

Next == Learn \/ Say

Spec == Init /\ [][Next]_vars
=============================================================================
