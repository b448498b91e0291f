---------------------------- MODULE MCSchemaLoader ----------------------------
(* A small instance of SchemaLoader for TLC.                                *)
EXTENDS SchemaLoader

CONSTANTS w1, w2, x, y, z, u1, u2, good, bad

\* x and y are two spellings of one file, z is elsewhere.
MCUriOf == [l \in {x, y, z} |-> IF l = z THEN u2 ELSE u1]

\* Kinds whose plans share locations, in the same order as in one list of
\* templates, and a kind for which the second template does not render.
MCPlans == {<<x, z>>, <<y, z>>, <<z, Unrenderable>>}
=============================================================================
