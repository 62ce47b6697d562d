------------------------------- MODULE Reconcile -------------------------------
(***************************************************************************)
(* A cluster that reconciles a repository again and again, next to what    *)
(* the rules of Wiring and Admission reported about it.  The controllers   *)
(* and the API server are not in this repository: they do here what        *)
(* rules_reconcile.go, rules_runtime.go and kyverno_gate.go say of them.   *)
(*                                                                         *)
(* An apply that a registered gate without an answering pod stands in      *)
(* front of is rejected, the first one and every later one.  Objects that  *)
(* wait for others come up once those are there; an ExternalSecret owns    *)
(* its Secret if it is the first to claim it; a field that two write is    *)
(* written by both.  A pod restarts at most once in a behaviour.           *)
(***************************************************************************)
EXTENDS Admission

CONSTANTS
  Repos,          \* the repositories considered
  RuntimeLabels   \* labels that controllers may set where Git sets none

(* What rendering yields: finitely many objects, each of a component.      *)
ASSUME ReposAssumption ==
  \A r \in Repos :
    /\ "objs" \in DOMAIN r
    /\ r.parent \in [Comp -> Comp \cup {NoComp}]
    /\ r.dependsOn \in [Comp -> SUBSET (Comp \cup {Absent})]
    /\ IsFiniteSet(r.objs) /\ \A o \in r.objs : o.comp \in Comp

VARIABLES
  repo, extra,    \* never change: the repository, the labels set at run time
  findings,       \* what was reported about it
  applied,        \* components an apply of which went through
  ready,          \* components that became ready
  up,             \* waiting objects that got what they wait for
  owned,          \* <<namespace, Secret, ExternalSecret>>: who owns what
  running,        \* components whose Kyverno has registered its webhooks
  rejected,       \* applies the API server rejected
  restarted,      \* the one restart has happened
  theirs          \* objects of which the other controller wrote the field last

vars == <<repo, extra, findings, applied, ready, up, owned, running, rejected, restarted, theirs>>
fixed == <<repo, extra, findings>>

Reports(r) ==
  [windows |-> Windows(r), single |-> SinglePods(r), unbacked |-> Unbacked(r),
   unresolved |-> UnresolvedPods(r), contested |-> ContestedSecrets(r), unissued |-> Unissued(r),
   uncredited |-> Uncredited(r), unvalued |-> Unvalued(r), fields |-> ContestedFields(r),
   deadlocked |-> Deadlocked([r EXCEPT !.needs = RuntimeNeeds(r)])]

Init ==
  /\ repo \in Repos /\ extra \in SUBSET RuntimeLabels
  /\ findings = Reports(repo)
  /\ applied = {} /\ ready = {} /\ up = {} /\ owned = {} /\ running = {}
  /\ rejected = {} /\ restarted = FALSE /\ theirs = {}

-----------------------------------------------------------------------------
Waiting == {"Workload", "Source", "HelmRelease", "Certificate"} \cup Stores
IsUp(o) == o.comp \in applied /\ (o.kind \in Waiting => o \in up)

(* The kubelet carries on without a pull secret.                           *)
Wants(o) ==
  IF o.kind = "Workload" THEN {ref \in Refs(o) : ~ref.pull}
  ELSE IF o.kind = "HelmRelease" THEN Refs(o)
  ELSE IF o.kind = "Source" THEN Credential(o)
  ELSE {}

Owns(o, ns) == <<ns, TargetName(o), o.esName>> \in owned

Created(o) ==
  IF o.kind \in Stores /\ o.owns THEN {m \in Makes(repo, o) : Owns(o, m.ns)}
  ELSE IF IsUp(o) THEN Makes(repo, o)
  ELSE {}

Existing == repo.externals \cup UNION {Created(o) : o \in repo.objs}

Met(o) ==
  /\ \A ref \in Wants(o) :
       LET ms == {m \in Existing : Fits(m, o.ns, ref)} IN ms # {} /\ Defines(ms, ref.keys)
  /\ o.kind = "Certificate" /\ o.issuer # NoName => \E i \in repo.objs : Issues(i, o) /\ IsUp(i)
  /\ o.kind \in Stores /\ o.owns => \A ns \in Targets(repo, o) : Owns(o, ns)

-----------------------------------------------------------------------------
(* The gates that applied manifests, and a running Kyverno, registered.    *)
Live ==
  {g \in Gates([repo EXCEPT !.objs = {o \in repo.objs : o.comp \in applied}]) :
     g.runtime => g.comp \in running}

Answers(g) == \E w \in Backends(repo, g.service) : w \in up /\ w.replicas # 0

Labels(known) == known \cup {l \in extra : \A k \in known : k[1] # l[1]}

Calls(g, o) ==
  /\ Matched(g, o)
  /\ SelectorMatches(g.objSel, Labels(o.labels))
  /\ o.kind = "Namespace" \/ o.ns # NoName => SelectorMatches(g.nsSel, Labels(Selectable(repo, o)))

Refusing(c) == {g \in Live : ~Answers(g) /\ \E o \in repo.objs : o.comp = c /\ Calls(g, o)}

Attempted(c) ==
  /\ c \notin applied
  /\ repo.parent[c] \in Comp => repo.parent[c] \in applied
  /\ repo.dependsOn[c] \subseteq ready

Apply(c) ==
  /\ Attempted(c) /\ Refusing(c) = {}
  /\ applied' = applied \cup {c}
  /\ UNCHANGED <<fixed, ready, up, owned, running, rejected, restarted, theirs>>

Reject(c) ==
  /\ Attempted(c) \/ c \in applied
  /\ \E g \in Refusing(c) :
       rejected' = rejected \cup {[comp |-> c, gate |-> g, first |-> c \notin applied, restarted |-> restarted]}
  /\ UNCHANGED <<fixed, applied, ready, up, owned, running, restarted, theirs>>

(* A reconcile takes back the fields that the manifests set.               *)
InGit(o) == (o.kind = "Workload" /\ o.replicas # NoName) \/ (o.kind = "Webhook" /\ o.caBundle)
Reapply(c) ==
  /\ c \in applied /\ Refusing(c) = {}
  /\ theirs' = {o \in theirs : o.comp = c => ~InGit(o)}
  /\ UNCHANGED <<fixed, applied, ready, up, owned, running, rejected, restarted>>

(* An autoscaler writes replicas, cert-manager a caBundle.                 *)
Contender(o) ==
  \/ o.kind = "Workload" /\ \E s \in repo.objs : Scales(s, o) /\ IsUp(s)
  \/ o.kind = "Webhook" /\ o.injected
Contend(c) ==
  \E o \in repo.objs :
    /\ o.comp = c /\ c \in applied /\ Contender(o)
    /\ theirs' = theirs \cup {o}
    /\ UNCHANGED <<fixed, applied, ready, up, owned, running, rejected, restarted>>

ComeUp(o) ==
  /\ o.kind \in Waiting /\ o.comp \in applied /\ o \notin up
  /\ Met(o)
  /\ up' = up \cup {o}
  /\ UNCHANGED <<fixed, applied, ready, owned, running, rejected, restarted, theirs>>

(* "already owned by another ExternalSecret": the first claim wins.        *)
Claim(o) ==
  /\ o.kind \in Stores /\ o.owns /\ o.comp \in applied
  /\ \E ns \in Targets(repo, o) :
       /\ \A s \in owned : s[1] = ns => s[2] # TargetName(o)
       /\ owned' = owned \cup {<<ns, TargetName(o), o.esName>>}
  /\ UNCHANGED <<fixed, applied, ready, up, running, rejected, restarted, theirs>>

(* Kyverno registers its webhooks when it starts.                          *)
Register(c) ==
  /\ c \in applied \ running
  /\ \E s \in Kyverno(repo) : s.comp = c /\ \E w \in Backends(repo, <<s.ns, s.name>>) : w.replicas # 0 /\ Met(w)
  /\ running' = running \cup {c}
  /\ UNCHANGED <<fixed, applied, ready, up, owned, rejected, restarted, theirs>>

(* The only pod behind a webhook is restarted, rescheduled or upgraded.    *)
Restart(w) ==
  /\ ~restarted /\ w \in up /\ w.kind = "Workload" /\ Pods(repo, w) = 1
  /\ \E g \in Live : w \in Backends(repo, g.service)
  /\ up' = up \ {w} /\ restarted' = TRUE
  /\ UNCHANGED <<fixed, applied, ready, owned, running, rejected, theirs>>

(* wait: true waits for all that was applied, healthChecks for workloads.  *)
BecomeReady(c) ==
  /\ c \in applied \ ready
  /\ \A o \in repo.objs : o.comp = c /\ (c \in repo.wait \/ (c \in repo.health /\ o.kind = "Workload")) => IsUp(o)
  /\ c \in repo.wait => \A k \in Comp : repo.parent[k] = c => k \in ready
  /\ ready' = ready \cup {c}
  /\ UNCHANGED <<fixed, applied, up, owned, running, rejected, restarted, theirs>>

Advance(c) ==
  \/ Apply(c) \/ Register(c) \/ BecomeReady(c)
  \/ \E o \in repo.objs : o.comp = c /\ (ComeUp(o) \/ Claim(o))

Next ==
  \/ \E c \in Comp : Advance(c) \/ Reapply(c) \/ Contend(c) \/ Reject(c)
  \/ \E w \in repo.objs : Restart(w)

Spec == Init /\ [][Next]_vars

(* Controllers retry for ever and reconcile at every interval.             *)
FairSpec ==
  Spec /\ \A c \in Comp : WF_vars(Advance(c)) /\ WF_vars(Reapply(c)) /\ WF_vars(Contend(c))

-----------------------------------------------------------------------------
(* What the rules do not look at.  A gate is reported for an object if it  *)
(* is the first in front of it and neither component is part of the other. *)
Noticed(g, o) ==
  ~Related(repo, o.comp, g.comp) /\ \A h \in InFront(repo, o) : ~Before(h, g)
SeenBy(c, g) == \E o \in repo.objs : o.comp = c /\ Calls(g, o) /\ Noticed(g, o)
Surely(c, g) ==
  \E o \in repo.objs : o.comp = c /\ Noticed(g, o) /\ Admits(repo, g, o) = Intercepts

(* What the rules take for granted: whoever puts a gate up brings what     *)
(* answers for it, Kyverno comes as one installation, a release waits for  *)
(* what it installs, and nothing scales from zero.                         *)
BackedAtHome(r) == \A g \in Gates(r) : \A w \in Backends(r, g.service) : w.comp = g.comp
KyvernoIsOne(r) ==
  /\ \A s, t \in Kyverno(r) : s = t
  /\ \A s \in Kyverno(r), o \in Of(r, "ConfigMap") : o.ns = s.ns /\ o.webhooks # {} => o.comp = s.comp
ReleasesWait(r) == r.helm \subseteq r.wait \cup r.health
ZeroIsNone(r) == \A w \in Of(r, "Workload") : w.replicas = 0 => Pods(r, w) = 0

TakenForGranted ==
  \A r \in Repos : BackedAtHome(r) /\ KyvernoIsOne(r) /\ ReleasesWait(r) /\ ZeroIsNone(r)

(* Every rejection was foretold: of a first apply, before anything         *)
(* restarted, by an FL-R008 that does not call it safe; of a later one,    *)
(* by an FL-R008; after a restart of the webhook's only pod, by FL-R013;   *)
(* or the webhook has nothing behind it, FL-R004.  (A gate that only a     *)
(* label set at run time puts in front is left out of FL-R013.)            *)
EveryRejectionIsForetold ==
  \A x \in rejected :
    SeenBy(x.comp, x.gate) =>
      \/ x.gate.service \in findings.unbacked
      \/ \E f \in findings.windows :
           f.comp = x.comp /\ f.owner = x.gate.comp /\ (x.first /\ ~x.restarted => ~f.safe)
      \/ x.restarted /\ (Surely(x.comp, x.gate) =>
                            Backends(repo, x.gate.service) \cap findings.single # {})

(* The same of gates that another one stands before: of a component whose  *)
(* apply a starting webhook rejected, FL-R008 had said something.          *)
NoGateIsHidden ==
  \A x \in rejected :
    ~Related(repo, x.comp, x.gate.comp) /\ ~x.restarted /\ x.gate.service \notin findings.unbacked =>
      \E f \in findings.windows : f.comp = x.comp

-----------------------------------------------------------------------------
Clean ==
  /\ \A f \in findings.windows : f.safe
  /\ findings.unbacked = {} /\ findings.unresolved = {} /\ findings.contested = {}
  /\ findings.unissued = {} /\ findings.uncredited = {} /\ findings.unvalued = {}
  /\ findings.fields = {} /\ ~findings.deadlocked

GatesSeen == \A o \in repo.objs : \A g \in Gates(repo) : Calls(g, o) => Noticed(g, o)

(* Certificates, sources and releases wait as pods do, but FL-G002 has no  *)
(* edge for them: here they close no cycle that it does not report anyway. *)
Directly(o) ==
  {q \in repo.objs : (\E m \in Makes(repo, q), ref \in Wants(o) : Fits(m, o.ns, ref))
                       \/ (o.kind = "Certificate" /\ Issues(q, o))}
Behind(o) == Directly(o) \cup UNION {Directly(q) : q \in Directly(o)}
WaitsSeen ==
  Cyclic(Full([repo EXCEPT !.needs = RuntimeNeeds(repo)])
           \cup UNION {{<<Start(q.comp), Ready(o.comp)>> : q \in Behind(o)} :
                         o \in {x \in repo.objs : BlocksOnHealth(repo, x.comp)}})
    => findings.deadlocked

Settled ==
  /\ applied = Comp /\ ready = Comp
  /\ \A o \in repo.objs : IsUp(o) /\ (Contender(o) => o \in theirs)

(* A repository without a finding settles, and stays: every pod, source,   *)
(* release, certificate and ExternalSecret gets what it waits for, in      *)
(* whatever order they come, and nobody fights over a field.               *)
EverythingSettles == Clean /\ GatesSeen /\ WaitsSeen => <>[]Settled
=============================================================================
