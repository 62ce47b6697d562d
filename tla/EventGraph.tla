----------------------------- MODULE EventGraph -----------------------------
(***************************************************************************)
(* What pkg/lint derives from a rendered repository about its bootstrap:   *)
(* the events start(K) and ready(K) of every component, the precedence     *)
(* edges the manifests declare and those the imports imply (events.go),    *)
(* and the findings that are about order (rules_graph.go, rules_timing.go).*)
(*                                                                         *)
(* A repository is the part of model.Tree and lint.Index these rules read. *)
(* A need keeps all of its providers, in place of the one that addNeed     *)
(* retains, because the cluster is served by any of them.                  *)
(***************************************************************************)
EXTENDS Integers, FiniteSets

CONSTANTS
  Comp,    \* the components of the tree
  NoComp,  \* a nil *Component: the parent of the root, the provider of nothing
  Absent   \* a dependsOn reference that no component answers to

ASSUME CompAssumption ==
  IsFiniteSet(Comp) /\ Comp # {} /\ NoComp \notin Comp /\ Absent \notin Comp

(* "crd" and "lateCRD" are both NeedCRD: the CRD is an object of some      *)
(* component, or is installed at run time (externals.runtimeCRDs).         *)
Kind == {"namespace", "crd", "lateCRD", "source", "runtime", "api"}

Need == [kind : Kind, consumer : Comp, provs : SUBSET Comp, first : Comp \cup {NoComp}]

RepoType ==
  [parent    : [Comp -> Comp \cup {NoComp}],
   helm      : SUBSET Comp,               \* the HelmReleases
   wait      : SUBSET Comp,               \* spec.wait, or a release that waits
   health    : SUBSET Comp,               \* has spec.healthChecks
   checks    : SUBSET (Comp \X Comp),     \* <<P, C>>: P's healthChecks name C
   dependsOn : [Comp -> SUBSET (Comp \cup {Absent})],
   needs     : SUBSET Need,
   repeated  : SUBSET Need]               \* sources that a sibling asked for before

(* Component.Within: p is c or one of its ancestors.                       *)
Within(r, c, p) ==
  \A S \in SUBSET Comp :
    c \in S /\ (\A x \in S : r.parent[x] \in Comp => r.parent[x] \in S) => p \in S

(* Two children of one component may be built from one source.  They are   *)
(* if their sources have one name; two sources may have the same providers.*)
SameSource(r, m, n) ==
  /\ m.kind = "source" /\ n.kind = "source" /\ m.provs = n.provs
  /\ r.parent[m.consumer] = r.parent[n.consumer]

(* What every rendered tree satisfies: parents form a tree, dependencies   *)
(* are of the dependant's own kind, the provider kept is one of those      *)
(* found, the component that holds a source cannot be built from it, and   *)
(* whoever repeats a source has a sibling that does not.                   *)
Repo ==
  {r \in RepoType :
     /\ \A S \in SUBSET Comp : S # {} => \E c \in S : r.parent[c] \notin S
     /\ \A c \in Comp : \A d \in r.dependsOn[c] \cap Comp : d \in r.helm <=> c \in r.helm
     /\ \A pc \in r.checks : r.parent[pc[2]] = pc[1] /\ pc[1] \in r.health
     /\ \A n \in r.needs :
          /\ n.first \in n.provs \/ (n.provs = {} /\ n.first = NoComp)
          /\ n.kind = "source" => n.consumer \notin n.provs
     /\ \A n \in r.repeated :
          n \in r.needs /\ \E m \in r.needs \ r.repeated : SameSource(r, m, n)}

-----------------------------------------------------------------------------
Start(c) == <<"start", c>>
Ready(c) == <<"ready", c>>
Event    == {"start", "ready"} \X Comp

Children(r)     == {c \in Comp : r.parent[c] \in Comp}
Dependencies(r) == {cd \in Comp \X Comp : cd[2] \in r.dependsOn[cd[1]]}

BlocksOnHealth(r, c) == c \in r.wait \/ c \in r.health

(* Faults, as in Schedule: versions of the operators below with a slip.    *)
FaultDeclared(r) ==         \* wait: true is forgotten
  {<<Start(c), Ready(c)>> : c \in Comp}
    \cup {<<Start(r.parent[c]), Start(c)>> : c \in Children(r)}
    \cup {<<Ready(d[2]), Start(d[1])>> : d \in Dependencies(r)}

FaultParentReady(r) ==      \* a child waits until its parent is ready
  {<<Start(c), Ready(c)>> : c \in Comp}
    \cup {<<Ready(r.parent[c]), Start(c)>> : c \in Children(r)}
    \cup {<<Ready(c), Ready(r.parent[c])>> : c \in {k \in Children(r) : r.parent[k] \in r.wait}}
    \cup {<<Ready(d[2]), Start(d[1])>> : d \in Dependencies(r)}

FaultMatters(r, n) == n.kind \in {"namespace", "crd", "lateCRD"}

FaultDropped(r, n) ==           \* satisfied by a provider with the same parent
  \E p \in n.provs : r.parent[p] = r.parent[n.consumer]

-----------------------------------------------------------------------------
(* declaredGraph: what the manifests state.                                *)
Declared(r) ==
  {<<Start(c), Ready(c)>> : c \in Comp}
    \cup {<<Start(r.parent[c]), Start(c)>> : c \in Children(r)}
    \cup {<<Ready(c), Ready(r.parent[c])>> : c \in {k \in Children(r) : r.parent[k] \in r.wait}}
    \cup {<<Ready(d[2]), Start(d[1])>> : d \in Dependencies(r)}

(* addNeed and addRuntimeNeed: dropped as satisfied by construction, when  *)
(* a provider is the consumer or created it; otherwise the first one stays.*)
(* once("src|"): of the objects that one component renders, only the first *)
(* to name a source is looked at, although the need is that of the child.  *)
Dropped(r, n) == \E p \in n.provs : Within(r, n.consumer, p)
Kept(r) == {n \in r.needs \ r.repeated : n.provs # {} /\ ~Dropped(r, n)}

(* needEdge: a CRD is there once its provider is ready, the rest once the  *)
(* provider started; a pod, or a release without its chart, is applied but *)
(* not ready.                                                              *)
NeedFrom(n) ==
  IF n.kind \in {"crd", "lateCRD"} THEN Ready(n.first) ELSE Start(n.first)

NeedTo(r, n) ==
  IF n.kind = "runtime" \/ (n.kind = "source" /\ n.consumer \in r.helm)
  THEN Ready(n.consumer)
  ELSE Start(n.consumer)

Matters(r, n) ==
  /\ n.kind # "api"
  /\ n.kind = "runtime" => BlocksOnHealth(r, n.consumer) \/ n.consumer \in r.helm

(* fullGraph: and what the imports imply.                                  *)
Full(r) ==
  Declared(r) \cup {<<NeedFrom(n), NeedTo(r, n)>> : n \in {m \in Kept(r) : Matters(r, m)}}

-----------------------------------------------------------------------------
(* Events none of which can be first: each has a predecessor among them.   *)
Blocked(E, S) == \A b \in S : \E a \in S : <<a, b>> \in E

(* Graph.Cycles finds something.                                           *)
Cyclic(E) == \E S \in SUBSET Event : S # {} /\ Blocked(E, S)

(* Graph.Reachable: b is in every set that holds what a points at and all  *)
(* that its members point at.                                              *)
Closed(E, S) == \A ab \in E : ab[1] \in S => ab[2] \in S
Reachable(E, a, b) ==
  \A S \in SUBSET Event :
    (\A x \in Event : <<a, x>> \in E => x \in S) /\ Closed(E, S) => b \in S

(* FL-G001 (dependsOn, sources), FL-G004 and FL-G005: something needed     *)
(* is provided by nothing.                                                 *)
Dangling(r) ==
  \/ \E c \in Comp : Absent \in r.dependsOn[c]
  \/ \E n \in r.needs : n.kind \notin {"runtime", "api"} /\ n.provs = {}

(* FL-R001 and FL-R002: a pod references an object that nothing creates.   *)
Unresolved(r) == \E n \in r.needs : n.kind = "runtime" /\ n.provs = {}

(* FL-G002.                                                                *)
Deadlocked(r) == Cyclic(Full(r))

(* FL-T006: an import that no declared path orders.                        *)
Unordered(r) ==
  LET E == Declared(r) IN
  \E n \in Kept(r) :
    /\ Matters(r, n) /\ n.kind # "runtime"
    /\ ~Reachable(E, NeedFrom(n), NeedTo(r, n))
    /\ ~Reachable(E, NeedTo(r, n), NeedFrom(n))

Findings(r) ==
  [dangling |-> Dangling(r), unresolved |-> Unresolved(r),
   deadlocked |-> Deadlocked(r), unordered |-> Unordered(r)]
=============================================================================
