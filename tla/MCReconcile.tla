------------------------------ MODULE MCReconcile ------------------------------
(***************************************************************************)
(* Two families of repositories of three components without a common       *)
(* root: Guarded puts webhooks (of component 2, or of 1 and 2, or          *)
(* Kyverno's) in front of what 3 applies, with a backend that may wait for *)
(* a Secret; Wired has the waits, their providers and their orders.        *)
(***************************************************************************)
EXTENDS Reconcile

CONSTANT Hidden   \* a second gate may stand in front of the same object

Keys == {"tls.crt", "k"}
Labelled == {<<"enrolled", "yes">>}

MCRepo(above, wait, health, deps, objs, externals) ==
  [parent    |-> [c \in Comp |-> IF c = 3 THEN above ELSE NoComp],
   helm      |-> {}, wait |-> wait, health |-> health, checks |-> {},
   dependsOn |-> [c \in Comp |-> {d \in Comp : <<c, d>> \in deps}],
   needs     |-> {}, repeated |-> {}, objs |-> objs, externals |-> externals, repoSource |-> "repo"]

Ref(what, name, keys) == [what |-> what, name |-> name, keys |-> keys, optional |-> FALSE, pull |-> FALSE]

Hook(c, index, nsSel) ==
  [kind |-> "Webhook", comp |-> c, ns |-> NoName, labels |-> {}, index |-> index, failClosed |-> TRUE,
   conditions |-> FALSE, service |-> <<"system", IF c = 1 THEN "other" ELSE "guard">>,
   rules |-> {[kinds |-> {"Namespace", "Certificate"}, scope |-> "*"]}, objSel |-> {}, nsSel |-> nsSel,
   injected |-> FALSE, caBundle |-> FALSE]
Service(c, kyverno) ==
  [kind |-> "Service", comp |-> c, ns |-> "system", name |-> IF c = 1 THEN "other" ELSE "guard", labels |-> {},
   selector |-> {[key |-> "app", op |-> "In", values |-> {c}]}, kyverno |-> kyverno]
Pod(c, ns, replicas, refs) ==
  [kind |-> "Workload", comp |-> c, ns |-> ns, name |-> "pod", labels |-> {}, podLabels |-> {<<"app", c>>},
   replicas |-> replicas, daemon |-> FALSE, refs |-> refs]
Tenant(c) == [kind |-> "Namespace", comp |-> c, ns |-> NoName, name |-> "team", labels |-> {<<"tier", "tenant">>}]
Secret(c, ns) ==
  [kind |-> "Secret", comp |-> c, ns |-> ns, name |-> "s", labels |-> {}, keys |-> {"tls.crt"}]
ConfigMap(c, keys) ==
  [kind |-> "ConfigMap", comp |-> c, ns |-> "team", name |-> "s", labels |-> {}, keys |-> keys, webhooks |-> {}]
Certificate(c, ns, ca) ==
  [kind |-> "Certificate", comp |-> c, ns |-> ns, name |-> "cert", labels |-> {}, secret |-> "s",
   keystores |-> FALSE, issuer |-> "ca", clusterIssuer |-> ca]
Issuer(c, ns) == [kind |-> "Issuer", comp |-> c, ns |-> ns, name |-> "ca", labels |-> {}]
Policy(c) ==
  [kind |-> "ClusterPolicy", comp |-> c, ns |-> NoName, name |-> "p", labels |-> {}, failClosed |-> TRUE,
   admission |-> TRUE, kinds |-> {"Namespace"}]
Store(c, name, owns) ==
  [kind |-> "ExternalSecret", comp |-> c, ns |-> "team", name |-> name, labels |-> {}, esName |-> name, target |-> "s",
   dataFrom |-> FALSE, template |-> {}, mergeTemplate |-> FALSE, data |-> {"k"}, owns |-> owns]
ClusterStore(c, tier) ==
  [kind |-> "ClusterExternalSecret", comp |-> c, ns |-> NoName, name |-> "b", labels |-> {}, esName |-> "b", target |-> "s",
   dataFrom |-> TRUE, template |-> {}, mergeTemplate |-> FALSE, data |-> {}, owns |-> TRUE, namespaces |-> {},
   selectors |-> {{[key |-> "tier", op |-> "In", values |-> {tier}]}}]
Release(c) ==
  [kind |-> "HelmRelease", comp |-> c, ns |-> "team", name |-> "app", labels |-> {}, refs |-> {Ref("ConfigMap", "s", {"k"})}]
Source(c) == [kind |-> "Source", comp |-> c, ns |-> "team", name |-> "src", labels |-> {}, credentials |-> {"s"}]
Autoscaler(c) == [kind |-> "Autoscaler", comp |-> c, ns |-> "team", name |-> "pod", labels |-> {}]

-----------------------------------------------------------------------------
Enrolled == {[key |-> "enrolled", op |-> "Exists", values |-> {}]}
Selectors ==
  {{}, {[key |-> "tier", op |-> "In", values |-> {"tenant"}]}, {[key |-> "tier", op |-> "NotIn", values |-> {"tenant"}]},
   Enrolled}

Gated(sel) ==
  {{Hook(2, 1, sel), Service(2, FALSE)}, {Hook(2, 1, Enrolled), Hook(2, 2, sel), Service(2, FALSE)}, {Service(2, TRUE), Policy(1)}, {Service(2, TRUE), Policy(3)}}
    \cup (IF Hidden THEN {{Hook(1, 1, sel), Service(1, FALSE), Pod(1, "system", 2, {}), Hook(2, 1, sel), Service(2, FALSE)}} ELSE {})

Backing ==
  {{Pod(2, "system", n, {})} : n \in {NoName, 2, 0}}
    \cup {{Pod(2, "system", NoName, {Ref("Secret", "s", {"tls.crt"})})} \cup made :
            made \in {{Secret(1, "system")}, {Certificate(3, "system", TRUE), Issuer(1, NoName)}}}

GuardedRepos ==
  {MCRepo(above, wait, health, deps, g \cup b \cup {Tenant(3)}, {}) :
     above \in {NoComp, 2}, wait \in {{}, {2}, {2, 3}} \cup (IF Hidden THEN {{1}} ELSE {}), health \in {{}, {2}},
     deps \in {{}, {<<3, 2>>}, {<<2, 3>>}} \cup (IF Hidden THEN {{<<3, 1>>}} ELSE {}),
     g \in UNION {Gated(sel) : sel \in Selectors}, b \in Backing}

-----------------------------------------------------------------------------
Account(c) ==
  [kind |-> "ServiceAccount", comp |-> c, ns |-> "team", name |-> "sa", labels |-> {}, keys |-> {}]

Consumers ==
  {{Pod(3, "team", NoName, {[Ref("Secret", "s", {"k"}) EXCEPT !.optional = TRUE], Ref("ServiceAccount", "sa", {})}),
    Account(2)},
   {Pod(3, "team", NoName, {Ref("Secret", "s", {"k"})})}, {Source(3)}, {Release(3), ConfigMap(2, {"k"})},
   {Release(3), ConfigMap(2, {})}, {Pod(3, "team", 2, {}), Autoscaler(2)}, {Pod(3, "team", NoName, {}), Autoscaler(2)},
   {Certificate(3, "team", FALSE), Issuer(2, "team")}, {Certificate(3, "team", TRUE), Issuer(2, "team")}}

Makers ==
  {{}, {Store(1, "a", TRUE)}, {Store(1, "a", TRUE), ClusterStore(2, "tenant"), Tenant(1)},
   {Store(1, "a", FALSE), ClusterStore(2, "tenant"), Tenant(1)}, {ClusterStore(2, "system"), Tenant(1)},
   {Store(1, "a", TRUE), Store(2, "b", TRUE)}}

WiredRepos ==
  {MCRepo(NoComp, wait, {}, deps, c \cup m, e) :
     wait \in {{}, {1, 2, 3}},
     deps \in {{}, {<<3, 2>>}, {<<2, 3>>}, {<<1, 3>>}}, c \in Consumers, m \in Makers,
     e \in {{}, {Made("Secret", "team", "s", {"k"})}}}

MCRepos == GuardedRepos \cup WiredRepos

ASSUME TakenForGrantedAssumption == TakenForGranted
=============================================================================
