----------------------------- MODULE MCInventory -----------------------------
(* Small trees for Inventory.                                               *)
EXTENDS Inventory

CONSTANTS p, q, r, pk, qk, rk, px, qy

Config(comp, patches, refs) ==
  [what |-> "config", decodes |-> TRUE, component |-> comp, patches |-> patches, refs |-> refs]
Malformed == [Config(FALSE, {}, {}) EXCEPT !.decodes = FALSE]
Plain(w) == [Config(FALSE, {}, {}) EXCEPT !.what = w]
Kustomization(f, d, x) ==
  [name |-> f, dir |-> d, kustomization |-> TRUE, readable |-> TRUE, docs |-> <<x>>]
Manifests(f, d, xs) ==
  [name |-> f, dir |-> d, kustomization |-> FALSE, readable |-> TRUE, docs |-> xs]

AllPlain == [d \in {p, q, r} |-> "plain"]

\* Every reference graph over three kustomizations, each an overlay or a
\* component: chains, diamonds, cycles, unused components.
Graphs ==
  {[children |-> AllPlain,
    files |-> <<Kustomization(pk, p, Config(kp, {}, rp)),
                Kustomization(qk, q, Config(kq, {}, rq)),
                Kustomization(rk, r, Config(kr, {}, rr))>>] :
     kp, kq, kr \in BOOLEAN,
     rp \in SUBSET {p, q, r}, rq \in SUBSET {p, r}, rr \in SUBSET {p, q}}

\* Patches before and after the kustomization that names them, two
\* configurations in one directory, a configuration outside a kustomization
\* file, documents that do not decode, a file that cannot be read.
Mixed ==
  {[children |-> [AllPlain EXCEPT ![r] = cr],
    files |-> <<Manifests(px, p, <<Plain("resource"), y, Plain("broken"), Plain("resource")>>),
                [Kustomization(pk, p, Config(kp, {px, qy}, {q, r})) EXCEPT
                   !.docs = <<Plain("broken")>> \o @ \o <<Config(TRUE, {}, {r})>>],
                [Kustomization(qk, q, Malformed) EXCEPT !.docs = z],
                [Manifests(qy, q, <<Plain("resource"), Plain("other")>>) EXCEPT !.readable = ok],
                Kustomization(rk, r, Config(FALSE, {}, {p}))>>] :
     y \in {Config(FALSE, {qy}, {r}), Config(TRUE, {}, {}), Malformed},
     z \in {<<Malformed>>, <<Plain("broken")>>, <<Config(FALSE, {px}, {q, r})>>},
     kp, ok \in BOOLEAN,
     cr \in {"plain", "helm-chart", "terraform-module"}}

MCTrees == Graphs \cup Mixed
=============================================================================
