------------------------------ MODULE Bootstrap ------------------------------
(***************************************************************************)
(* A cluster that Flux brings up from nothing, next to what fluxlint said  *)
(* about the repository beforehand.  The controllers are not in this       *)
(* repository: they do here what the comments of pkg/lint/events.go,       *)
(* index.go, rules_runtime.go and pkg/config/config.go say they do.        *)
(*                                                                         *)
(* A component is applied once the object that declares it exists and its  *)
(* dependencies are ready; an apply that lacks something fails and is      *)
(* tried again; readiness waits for what the component health-checks.      *)
(***************************************************************************)
EXTENDS EventGraph

CONSTANT Repos   \* the repositories considered
ASSUME ReposAssumption == Repos \subseteq Repo

VARIABLES
  repo,         \* never changes
  findings,     \* what lint.Run reports about it
  applied,      \* start(K) has happened: an apply of K went through
  established,  \* components whose run-time CRDs the API server now serves
  ready,        \* ready(K) has happened
  failed        \* components that had an apply rejected

vars == <<repo, findings, applied, established, ready, failed>>

Init ==
  /\ repo \in Repos
  /\ findings = Findings(repo)
  /\ applied = {} /\ established = {} /\ ready = {} /\ failed = {}

-----------------------------------------------------------------------------
(* A need is met by the consumer's own apply, which stages namespaces and  *)
(* CRDs first, or by any provider that has been applied; a run-time CRD by *)
(* a provider that has installed it.                                       *)
Met(n) ==
  IF n.kind = "lateCRD" THEN n.provs \cap established # {}
                        ELSE n.consumer \in n.provs \/ n.provs \cap applied # {}

(* A HelmRelease object applies without its source; a Kustomization has    *)
(* nothing to apply.                                                       *)
BlocksApply(n) ==
  \/ n.kind \in {"namespace", "crd", "lateCRD"}
  \/ n.kind = "source" /\ n.consumer \notin repo.helm

BlocksReady(n) ==
  \/ n.kind = "runtime" /\ BlocksOnHealth(repo, n.consumer)
  \/ n.kind = "source" /\ n.consumer \in repo.helm

Attempted(c) ==
  /\ c \notin applied
  /\ repo.parent[c] \in Comp => repo.parent[c] \in applied
  /\ repo.dependsOn[c] \subseteq ready

Accepted(c) == \A n \in repo.needs : n.consumer = c /\ BlocksApply(n) => Met(n)

Healthy(c) ==
  /\ c \in repo.wait => \A k \in Comp : repo.parent[k] = c => k \in ready
  /\ \A k \in Comp : <<c, k>> \in repo.checks => k \in ready
  /\ \A n \in repo.needs : n.consumer = c /\ BlocksReady(n) => Met(n)

InstallsLate(c) == \E n \in repo.needs : n.kind = "lateCRD" /\ c \in n.provs

(* A fault: readiness reported for what was never applied.                 *)
FaultBecomeReady(c) ==
  /\ c \notin ready
  /\ Healthy(c)
  /\ ready' = ready \cup {c}
  /\ UNCHANGED <<repo, findings, applied, established, failed>>

Apply(c) ==
  /\ Attempted(c) /\ Accepted(c)
  /\ applied' = applied \cup {c}
  /\ UNCHANGED <<repo, findings, established, ready, failed>>

FailApply(c) ==
  /\ Attempted(c) /\ ~Accepted(c)
  /\ failed' = failed \cup {c}
  /\ UNCHANGED <<repo, findings, applied, established, ready>>

(* A controller that is running installs its CRDs.                         *)
Establish(c) ==
  /\ c \in applied /\ c \notin established /\ InstallsLate(c)
  /\ established' = established \cup {c}
  /\ UNCHANGED <<repo, findings, applied, ready, failed>>

BecomeReady(c) ==
  /\ c \in applied /\ c \notin ready
  /\ Healthy(c)
  /\ InstallsLate(c) => c \in established
  /\ ready' = ready \cup {c}
  /\ UNCHANGED <<repo, findings, applied, established, failed>>

Next == \E c \in Comp : Apply(c) \/ FailApply(c) \/ Establish(c) \/ BecomeReady(c)

Spec == Init /\ [][Next]_vars

(* Controllers retry for ever: what can be applied is, what can become     *)
(* ready does.                                                             *)
FairSpec ==
  Spec /\ \A c \in Comp : WF_vars(Apply(c)) /\ WF_vars(Establish(c)) /\ WF_vars(BecomeReady(c))

-----------------------------------------------------------------------------
TypeOK ==
  /\ repo \in Repo
  /\ findings \in [{"dangling", "unresolved", "deadlocked", "unordered"} -> BOOLEAN]
  /\ applied \in SUBSET Comp /\ failed \in SUBSET Comp
  /\ established \in SUBSET applied /\ ready \in SUBSET applied

Converged == ready = Comp
Happened  == {Start(c) : c \in applied} \cup {Ready(c) : c \in ready}

(* What the edges do not carry: a healthChecks entry that names a child,   *)
(* without wait, a run-time CRD needed below its own provider, and a       *)
(* repeated source, unless declared edges order it anyway.                 *)
HealthChecksWait(r) == \A pc \in r.checks : pc[1] \in r.wait
LateNeedsKept(r)    == \A n \in r.needs : n.kind = "lateCRD" => ~Dropped(r, n)
SourcesSeen(r) ==
  LET E == Declared(r) IN
  \A n \in r.repeated : Dropped(r, n) \/ Reachable(E, NeedFrom(n), NeedTo(r, n))

(* Nothing that FL-G00x or FL-R00x would report as missing or stuck.       *)
Clean == ~findings.dangling /\ ~findings.unresolved /\ ~findings.deadlocked

(* Every declared edge of the timed event graph is real: in no bootstrap   *)
(* does its head happen before its tail.  A bound computed from an edge    *)
(* that is not, or a deadlock found through one, would be about nothing.   *)
DeclaredEdgesHold ==
  \A ab \in Declared(repo) : ab[2] \in Happened => ab[1] \in Happened

(* An import edge is just as hard when it has one provider, kept, and is   *)
(* not a CRD (whose edge waits for the provider's readiness to be on the   *)
(* safe side) or a pod of a release that does not wait.                    *)
HardNeeds(r) ==
  {n \in Kept(r) : /\ n.provs = {n.first}
                   /\ n.kind \in {"namespace", "source", "runtime"}
                   /\ n.kind = "runtime" => BlocksOnHealth(r, n.consumer)}

Hard(r) ==
  Declared(r) \cup {<<NeedFrom(n), NeedTo(r, n)>> : n \in HardNeeds(r)}

(* FL-G002 is not a false alarm: the events of a cycle of hard edges never *)
(* happen, whatever the controllers do.                                    *)
CycleIsDeadlock ==
  LET E == Hard(repo) IN
  \A S \in SUBSET Event : S # {} /\ Blocked(E, S) => S \cap Happened = {}

(* The bootstrap theorem of docs/design.md, from the other side: while a   *)
(* clean repository has not converged, some controller can still go on.    *)
Progress ==
  \E c \in Comp :
    \/ Attempted(c) /\ Accepted(c)
    \/ c \in applied /\ c \notin established /\ InstallsLate(c)
    \/ c \in applied /\ c \notin ready /\ Healthy(c) /\ (InstallsLate(c) => c \in established)

NeverStuck ==
  Clean /\ HealthChecksWait(repo) /\ LateNeedsKept(repo) /\ SourcesSeen(repo) /\ ~Converged => Progress

(* FL-T006 reports every import left to retries: without that finding no   *)
(* apply is ever rejected, in whatever order the controllers work.         *)
NoFailedApply ==
  Clean /\ ~findings.unordered /\ LateNeedsKept(repo) /\ SourcesSeen(repo) => failed = {}

(* A clean repository converges from an empty cluster.                     *)
CleanConverges ==
  Clean /\ HealthChecksWait(repo) /\ LateNeedsKept(repo) /\ SourcesSeen(repo) ~> Converged
=============================================================================
