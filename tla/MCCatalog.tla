------------------------------ MODULE MCCatalog ------------------------------
(***************************************************************************)
(* Small swagger documents and CustomResourceDefinitions for Catalog.      *)
(***************************************************************************)
EXTENDS Catalog

MCAlphabet ==
  <<"", "apps.openshift.io", "deploymentconfig", "deploymentconfigs", "dc", "events.k8s.io",
    "example.com", "ev", "event", "events", "gadget", "gadgets", "gd", "node", "nodes", "pod",
    "podlist", "pods", "po", "v1", "v1beta1">>
MCShortNames == [pod |-> <<"po">>, event |-> <<"ev">>]
MCKubernetesGroups == <<"", "events.k8s.io">>
MCVersionCandidates == <<"v1", "v1beta1">>
MCKindGuesses ==
  [pods |-> <<"pods", "pod">>, po |-> <<"po", "pod">>, events |-> <<"events", "event">>,
   ev |-> <<"ev", "event">>, gadgets |-> <<"gadgets", "gadget">>, nodes |-> <<"nodes", "node">>]
MCGuessedPlurals == [x \in ToSet(MCAlphabet) |-> IF x = "gadget" THEN "gadgets" ELSE "nodes"]
MCSegments ==
  "" :> <<>> @@ "events.k8s.io" :> <<"events", "k8s", "io">> @@ "example.com" :> <<"example", "com">>
    @@ "apps.openshift.io" :> <<"apps", "openshift", "io">>
MCPlurals == [pod |-> "pods", event |-> "events", node |-> "nodes"]

-----------------------------------------------------------------------------
(* Schemas.                                                                 *)

String == Object([type |-> Str("string")])
MapOf(x) == Object([type |-> Str("object"), additionalProperties |-> x])
ListOf(x) == Object([type |-> Str("array"), items |-> x])
Props(f) == Object([type |-> Str("object"), properties |-> Object(f)])
PropsNeeding(f, ks) == Put(Props(f), "required", Strs(ks))
Ref(name) == Object(("$ref" :> Str(name)) @@ [description |-> Str("about it")])
QuantityNode == Object([type |-> Str("string"), format |-> Str("int-or-string")])

Container == PropsNeeding([name |-> String, port |-> QuantityNode, description |-> String], <<"name">>)
PodSpec ==
  PropsNeeding([containers |-> ListOf(Ref("container")), labels |-> MapOf(String),
                ports |-> MapOf(Ref("container")), extra |-> Put(Props([x |-> String]), PreserveKey, True),
                tree |-> Ref("tree")], <<"containers">>)
Tree == Props(("$ref" :> String) @@ [child |-> Ref("tree"), default |-> Ref("nowhere")])
Pod == Props([apiVersion |-> String, kind |-> String, metadata |-> Ref("meta"), spec |-> Ref("podspec")])

Plain == Props([apiVersion |-> String, kind |-> String, metadata |-> Ref("meta")])
Core(k) == GVK("", "v1", k)
NoKey == [openshift |-> FALSE, parses |-> FALSE, gvk |-> GVK("", "", "")]
Definition(name, node, gvks) == [name |-> name, node |-> node, gvks |-> gvks, key |-> NoKey]

Helpers ==
  <<Definition("container", Put(Container, "description", Str("a container")), <<>>),
    Definition("meta", Props([name |-> String, labels |-> MapOf(String)]), <<>>),
    Definition("podspec", PodSpec, <<>>), Definition("tree", Tree, <<>>)>>

PodPaths ==
  <<"api", "v1", "pods">> :> {Core("pod")}
    @@ <<"api", "v1", "namespaces", "{namespace}", "pods", "{name}">> :> {Core("pod")}
    @@ <<"apis", "events.k8s.io", "v1", "events">> :> {GVK("events.k8s.io", "v1", "event")}
    @@ <<"watch", "api", "v1", "nodes", "{name}">> :> {Core("node")}

K8s ==
  [decodes |-> TRUE, paths |-> PodPaths,
   definitions |->
     Helpers \o
     <<Definition("pod", Pod, <<Core("pod")>>),
       Definition("event", Plain, <<Core("event"), GVK("events.k8s.io", "v1", "event")>>),
       Definition("node", Props([spec |-> String]), <<Core("node"), Core("deleteoptions")>>),
       Definition("podlist", PropsNeeding([items |-> ListOf(Ref("pod"))], <<"items">>), <<Core("podlist")>>),
       Definition("text", Str("not a schema"), <<>>)>>]

\* Nodes with the paths of a Kubernetes release: watches and subresources too.
WatchedNodes ==
  [decodes |-> TRUE,
   paths |-> <<"api", "v1", "nodes">> :> {Core("node")}
               @@ <<"api", "v1", "watch", "nodes">> :> {Core("node")}
               @@ <<"api", "v1", "nodes", "{name}", "status">> :> {Core("node")},
   definitions |-> <<Definition("node", Props([spec |-> String]), <<Core("node")>>)>>]

OpenShiftDefinition(name, node, parses, kind) ==
  [name |-> name, node |-> node, gvks |-> <<>>,
   key |-> [openshift |-> TRUE, parses |-> parses, gvk |-> GVK("apps.openshift.io", "v1", kind)]]
OpenShift ==
  [decodes |-> TRUE,
   paths |-> <<"apis", "apps.openshift.io", "v1", "deploymentconfigs">> :>
               {GVK("apps.openshift.io", "v1", "deploymentconfig")},
   definitions |->
     Helpers \o
     <<OpenShiftDefinition("deploymentconfig", Plain, TRUE, "deploymentconfig"),
       OpenShiftDefinition("podoptions", Plain, TRUE, "podoptions"),
       OpenShiftDefinition("request", Props([kind |-> String]), TRUE, "node"),
       OpenShiftDefinition("unparsed", Plain, FALSE, "")>>]

GadgetSpec ==
  Put(Props([size |-> Object(IntOrStringKey :> True), mode |-> String, any |-> Put(Props(<<>>), PreserveKey, True),
             rules |-> ListOf(Props([host |-> String])), description |-> String]),
      "oneOf", Array(<<PropsNeeding([size |-> Object(<<>>)], <<"size">>), PropsNeeding([mode |-> Object(<<>>)], <<"mode">>)>>))
Gadget == Put(Props([spec |-> GadgetSpec]), "description", Str("a gadget"))
Names(k) == [singular |-> k, plural |-> k \o "s", short |-> IF k = "gadget" THEN <<"gd">> ELSE <<>>]
CRD(kind, versions) == [group |-> "example.com", kind |-> kind, scope |-> "Namespaced",
                        names |-> Names(kind), versions |-> versions]
Version(v, schema) == [name |-> v, schema |-> schema]
Item(c) == [crd |-> <<c>>, items |-> <<>>]
List(items) == [crd |-> <<>>, items |-> items]
Parsed(m) == [parses |-> TRUE, manifest |-> m]
Gadgets ==
  <<Parsed(Item(CRD("node", <<Version("v1", <<Gadget>>), Version("v1beta1", <<>>)>>)))>>
GoodGadgets ==
  <<Parsed(List(<<Item(CRD("gadget", <<Version("v1", <<Gadget>>), Version("v1beta1", <<Gadget>>)>>)),
                  Item(CRD("event", <<Version("v1", <<Gadget>>)>>))>>))>>
Garbled == <<[parses |-> FALSE, manifest |-> List(<<>>)]>>
Nameless == <<Parsed(Item(CRD("gadget", <<Version("", <<Gadget>>)>>))), Parsed(Item(CRD("gadget", <<>>)))>>

-----------------------------------------------------------------------------
Read(doc) == [readable |-> TRUE, doc |-> doc]
Unread == [readable |-> FALSE, doc |-> <<>>]
Command(tool, ins, explain, indexes, strip, archive) ==
  [tool |-> tool, inputs |-> ins, explain |-> explain, index |-> indexes, strip |-> strip, archive |-> archive]

K8sFull == Command("k8s", <<Read(K8s)>>, "full", TRUE, FALSE, FALSE)
CRDFull == Command("crd", <<Read(GoodGadgets)>>, "full", TRUE, FALSE, FALSE)
MCPlans ==
  <<<<K8sFull, CRDFull>>,
    <<CRDFull, Command("k8s", <<Unread>>, "full", TRUE, FALSE, FALSE)>>,
    <<Command("crd", <<Unread, Read(Gadgets), Read(Garbled \o GoodGadgets)>>, "full", TRUE, TRUE, FALSE), CRDFull>>,
    <<Command("k8s", <<Read(K8s)>>, "none", FALSE, TRUE, FALSE)>>,
    <<Command("k8s", <<Read([K8s EXCEPT !.decodes = FALSE])>>, "none", FALSE, TRUE, FALSE)>>,
    <<Command("openshift", <<Read(OpenShift)>>, "types", TRUE, TRUE, FALSE)>>,
    <<Command("crd", <<Read(Nameless), Read(GoodGadgets)>>, "full", TRUE, FALSE, TRUE)>>>>
PluralPlans == <<<<Command("k8s", <<Read(WatchedNodes)>>, "full", FALSE, FALSE, FALSE)>>>>

GadgetV1 == GVK("example.com", "v1", "gadget")
MCUnwritable ==
  {{}, {SchemaPath(Core("pod")), SchemaPath(GadgetV1)}, {SchemaPath(GVK("example.com", "v1", "gadgets"))},
   {SchemaPath(Core("po"))}, {IndexPath(SchemaPath(GadgetV1)), IndexPath(SchemaPath(Core("node")))},
   {ReferencePath("gadget"), ReferencePath("pods")}, {ShardPath("g"), ShardPath("po")}, {ArchivePath}}
AllWritable == {{}}

Hosted(g, names, plural) ==
  [group |-> g.group, version |-> g.version, kind |-> g.kind, name |-> g.kind, singular |-> "",
   plural |-> plural, short |-> names]
MCEcosystem ==
  [files |-> SchemaPath(GadgetV1) :> Gadget @@ SchemaPath(Core("pod")) :> Plain,
   failing |-> {}, ecosystem |-> TRUE,
   index |-> <<Hosted(GVK("example.com", "v1beta1", "gadget"), <<"gd">>, ""), Hosted(GadgetV1, <<"gd">>, ""),
               Hosted(Core("pod"), <<"po">>, "pods")>>]

-----------------------------------------------------------------------------
(* Documents.                                                               *)

One == Scalar("integer", "1")
Tag(x) == Put(Put(x, "apiVersion", Str("v1")), "kind", Str("kind"))
WithSpec(x) == Tag(Object([spec |-> x]))
Has1(k, x) == Object(k :> x)
Named1 == Has1("name", Str("a"))
Spec1 == Has1("containers", Array(<<Named1>>))
PodSamples ==
  {Tag(Object(<<>>)), Object(<<>>), Drop(WithSpec(Spec1), {"kind"}), Put(WithSpec(Spec1), "other", Str("a")),
   Put(WithSpec(Spec1), "kind", Null), WithSpec(Null), WithSpec(Object(<<>>))}
    \cup {WithSpec(Put(Spec1, "containers", Array(<<Put(Named1, k, x)>>))) :
            k \in {"port", "description", "other"}, x \in {One, Str("a"), Null, Object(<<>>)}}
    \cup {WithSpec(Put(Spec1, k, x)) :
            k \in {"labels", "extra", "tree", "containers", "ports"},
            x \in {Null, Has1("x", Null), Has1("x", Str("a")), Has1("other", One), Has1("$ref", Str("a")),
                   Has1("$ref", One), Has1("child", Has1("other", One)), Has1("child", One), Has1("default", Null),
                   Has1("default", Has1("x", One)), Has1("a", Named1), Has1("a", Has1("port", One))}}
\* Without what SchemasServe leaves out of custom resources.
GadgetSamples ==
  {WithSpec(x) :
     x \in {Str("a"), Object(<<>>), Has1("size", One), Has1("size", Str("a")), Has1("size", Named1),
            Has1("mode", Str("a")), Has1("mode", One),
            Object([size |-> One, mode |-> Str("a")]), Object([size |-> One, other |-> One]),
            Object([size |-> One, any |-> Has1("x", Null)]), Object([size |-> One, any |-> Has1("x", One)]),
            Object([size |-> One, rules |-> Array(<<Has1("host", Str("a"))>>)]),
            Object([size |-> One, rules |-> Array(<<Has1("host", One)>>)]),
            Object([size |-> One, rules |-> Array(<<Has1("other", Str("a"))>>)])}}
    \cup {Tag(Object(<<>>))}
EventSamples == {Tag(Object(<<>>)), Tag(Has1("metadata", Null)), Tag(Has1("metadata", Has1("labels", Has1("a", Null))))}

MCSamples ==
  Core("pod") :> PodSamples @@ GadgetV1 :> GadgetSamples
    @@ GVK("events.k8s.io", "v1", "event") :> EventSamples

ASSUME NamesApartAssumption == NamesApart
=============================================================================
