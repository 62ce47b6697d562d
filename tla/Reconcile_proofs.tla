-------------------------- MODULE Reconcile_proofs --------------------------
(***************************************************************************)
(* A webhook that starts rejects no apply that fluxlint is silent about,   *)
(* for any repositories.  Three steps: the gate that called is one of the  *)
(* whole repository's, and the first one reported for the object; if its   *)
(* owner was to be ready before, it was, and with it every pod but the one *)
(* that restarted; so what kept it from answering is in the finding.       *)
(***************************************************************************)
EXTENDS Reconcile, FiniteSetTheorems, TLAPS

-----------------------------------------------------------------------------
(* fluxlint looks at the whole repository, the cluster at what was applied. *)
Known == [repo EXCEPT !.objs = {o \in repo.objs : o.comp \in applied}]

LEMMA KnownIs ==
  ASSUME repo \in Repos
  PROVE  /\ Known.objs = {o \in repo.objs : o.comp \in applied}
         /\ \A kind : Of(Known, kind) = {o \in Of(repo, kind) : o.comp \in applied}
  BY ReposAssumption DEF Known, Of

(* A gate stands for another if it differs in nothing but the kinds.       *)
StandsFor(h, g) ==
  /\ h.comp = g.comp /\ h.index = g.index /\ h.runtime = g.runtime /\ h.service = g.service
  /\ h.objSel = g.objSel /\ h.nsSel = g.nsSel
  /\ \A o : Matched(g, o) => Matched(h, o)

LEMMA KyvernoGateStands ==
  ASSUME NEW s, NEW i, NEW K, NEW L, K \subseteq L, NEW sel
  PROVE  StandsFor(KyvernoGate(s, i, L, sel), KyvernoGate(s, i, K, sel))
  <1>1. ASSUME NEW o, Matched(KyvernoGate(s, i, K, sel), o) PROVE Matched(KyvernoGate(s, i, L, sel), o)
    <2> DEFINE small == [kinds |-> K, scope |-> "*"]
               large == [kinds |-> L, scope |-> "*"]
    <2>1. KyvernoGate(s, i, K, sel).rules = {small} /\ KyvernoGate(s, i, L, sel).rules = {large}
      BY DEF KyvernoGate
    <2>2. o.kind \in small.kinds
      BY <1>1, <2>1 DEF Matched
    <2>3. o.kind \in large.kinds /\ large.scope # "Namespaced" /\ large.scope # "Cluster"
      BY <2>2
    <2> HIDE DEF small, large
    <2> QED BY <2>1, <2>3 DEF Matched
  <1> QED BY <1>1 DEF StandsFor, KyvernoGate

LEMMA RegisteredGates ==
  ASSUME repo \in Repos, NEW g \in Gates(Known), g \notin KyvernoGates(Known)
  PROVE  g \in Gates(repo) /\ g.comp \in applied /\ ~g.runtime
         /\ \E h \in Of(repo, "Webhook") : h.failClosed /\ h.service # NoName /\ g.service = h.service
  <1>1. PICK h \in Of(Known, "Webhook") : h.failClosed /\ h.service # NoName /\ ~h.conditions /\ g = Registered(h)
    BY DEF Gates
  <1>2. h \in Of(repo, "Webhook") /\ h.comp \in applied
    BY <1>1, KnownIs
  <1>3. g \in Gates(repo)
    BY <1>1, <1>2 DEF Gates
  <1> QED BY <1>1, <1>2, <1>3 DEF Registered

Chart(r, s) == {o.webhooks : o \in {x \in Of(r, "ConfigMap") : x.ns = s.ns /\ x.webhooks # {}}}
Excluded(r, s) == {[key |-> "name", op |-> "NotIn", values |-> {s.ns, "kube-system"}]} \cup UNION Chart(r, s)

LEMMA KyvernoGatesAre ==
  ASSUME NEW r, NEW g
  PROVE  g \in KyvernoGates(r) <=>
           \E s \in Kyverno(r) :
             /\ \A y \in Kyverno(r) : y.comp <= s.comp
             /\ \/ g = KyvernoGate(s, 1, Policies, {})
                \/ MatchedKinds(r) # {} /\ g = KyvernoGate(s, 2, MatchedKinds(r), Excluded(r, s))
  <1> DEFINE Last == {x \in Kyverno(r) : \A y \in Kyverno(r) : y.comp <= x.comp}
             Own(s) == {KyvernoGate(s, 1, Policies, {})}
             Others(s) == IF MatchedKinds(r) = {} THEN {}
                          ELSE {KyvernoGate(s, 2, MatchedKinds(r), Excluded(r, s))}
  <1>1. KyvernoGates(r) = UNION {Own(s) \cup Others(s) : s \in Last}
    BY DEF KyvernoGates, Excluded, Chart
  <1> QED BY <1>1

LEMMA StartedGates ==
  ASSUME repo \in Repos, KyvernoIsOne(repo), NEW g \in KyvernoGates(Known)
  PROVE  \E h \in KyvernoGates(repo), s \in Kyverno(repo) :
           StandsFor(h, g) /\ g.runtime /\ g.comp \in applied /\ s.comp = g.comp /\ g.service = <<s.ns, s.name>>
  <1>1. PICK s \in Kyverno(Known) :
          /\ \A y \in Kyverno(Known) : y.comp <= s.comp
          /\ \/ g = KyvernoGate(s, 1, Policies, {})
             \/ MatchedKinds(Known) # {} /\ g = KyvernoGate(s, 2, MatchedKinds(Known), Excluded(Known, s))
    BY KyvernoGatesAre
  <1>2. s \in Kyverno(repo) /\ s.comp \in applied /\ \A y \in Kyverno(repo) : y.comp <= s.comp
    <2>1. s \in Kyverno(repo) /\ s.comp \in applied
      BY <1>1, KnownIs DEF Kyverno
    <2>2. \A y \in Kyverno(repo) : y = s
      BY <2>1 DEF KyvernoIsOne
    <2> QED BY <2>1, <2>2, <1>1
  <1>3. MatchedKinds(Known) \subseteq MatchedKinds(repo)
    BY KnownIs DEF MatchedKinds
  <1>4. Excluded(Known, s) = Excluded(repo, s)
    <2>1. \A o \in Of(repo, "ConfigMap") : o.ns = s.ns /\ o.webhooks # {} => o.comp \in applied
      BY <1>2 DEF KyvernoIsOne
    <2>2. Chart(Known, s) = Chart(repo, s)
      BY <2>1, KnownIs DEF Chart
    <2> QED BY <2>2 DEF Excluded
  <1>5. g.runtime /\ g.comp = s.comp /\ g.service = <<s.ns, s.name>>
    BY <1>1 DEF KyvernoGate
  <1>6. CASE g = KyvernoGate(s, 1, Policies, {})
    <2>1. g \in KyvernoGates(repo)
      BY <1>2, <1>6, KyvernoGatesAre
    <2>2. StandsFor(g, g)
      BY DEF StandsFor
    <2> QED BY <2>1, <2>2, <1>2, <1>5
  <1>7. CASE MatchedKinds(Known) # {} /\ g = KyvernoGate(s, 2, MatchedKinds(Known), Excluded(repo, s))
    <2> DEFINE h == KyvernoGate(s, 2, MatchedKinds(repo), Excluded(repo, s))
    <2>1. h \in KyvernoGates(repo)
      BY <1>2, <1>3, <1>7, KyvernoGatesAre
    <2>2. StandsFor(h, g)
      BY <1>3, <1>7, KyvernoGateStands
    <2> QED BY <2>1, <2>2, <1>2, <1>5
  <1> QED BY <1>1, <1>4, <1>6, <1>7

(* A gate that stands in front of what is applied now is one of the        *)
(* repository's, or its beginnings.                                        *)
LEMMA LiveGates ==
  ASSUME repo \in Repos, KyvernoIsOne(repo), NEW g \in Live
  PROVE  \E h \in Gates(repo) : StandsFor(h, g) /\ g.comp \in applied
  <1>1. g \in Gates(Known)
    BY DEF Live, Known
  <1>2. CASE g \notin KyvernoGates(Known)
    <2>1. StandsFor(g, g)
      BY DEF StandsFor
    <2> QED BY <1>1, <1>2, <2>1, RegisteredGates
  <1>3. CASE g \in KyvernoGates(Known)
    BY <1>3, StartedGates DEF Gates
  <1> QED BY <1>2, <1>3

-----------------------------------------------------------------------------
(* What a webhook is called for, it is taken to be called for, whichever   *)
(* labels are set at run time.                                             *)
LEMMA CalledIsSelected ==
  ASSUME NEW sel, NEW known, SelectorMatches(sel, Labels(known))
  PROVE  Selects(sel, known) \in {Perhaps, Intercepts}
  <1> DEFINE keyed == {q \in sel : q.op \in {"In", "Exists"} => \E l \in known : l[1] = q.key}
             Values(q, labels) == {l[2] : l \in {x \in labels : x[1] = q.key}}
  <1>1. ASSUME NEW q \in sel PROVE Values(q, known) \subseteq Values(q, Labels(known))
    BY DEF Labels
  <1>2. ASSUME NEW q \in sel, \E l \in known : l[1] = q.key PROVE Values(q, known) = Values(q, Labels(known))
    BY <1>2 DEF Labels
  <1>3. \A q \in sel :
          LET values == Values(q, Labels(known)) IN
          /\ q.op = "In" => values \cap q.values # {}
          /\ q.op = "NotIn" => values \cap q.values = {}
          /\ q.op = "Exists" => values # {}
          /\ q.op = "DoesNotExist" => values = {}
    BY DEF SelectorMatches
  <1>4. ASSUME NEW q \in keyed
        PROVE  LET values == Values(q, known) IN
               /\ q.op = "In" => values \cap q.values # {}
               /\ q.op = "NotIn" => values \cap q.values = {}
               /\ q.op = "Exists" => values # {}
               /\ q.op = "DoesNotExist" => values = {}
    <2> HIDE DEF Values
    <2>1. q \in sel /\ (q.op \in {"In", "Exists"} => \E l \in known : l[1] = q.key)
      OBVIOUS
    <2> HIDE DEF keyed
    <2> QED BY <1>1, <1>2, <1>3, <2>1
  <1>5. SelectorMatches(keyed, known)
    <2> HIDE DEF keyed
    <2> QED BY <1>4 DEF SelectorMatches
  <1> QED BY <1>5 DEF Selects

LEMMA LeastOf ==
  ASSUME NEW a \in {1, 2}, NEW b \in {1, 2}
  PROVE  Min({a}) = a /\ Min({a, b}) \in {1, 2} /\ Min({a} \cup {}) = a /\ Min({a} \cup {b}) \in {1, 2}
  <1>1. \E x \in {a, b} : \A y \in {a, b} : x <= y
    OBVIOUS
  <1>2. Min({a, b}) \in {a, b}
    BY <1>1 DEF Min
  <1>3. {a} \cup {} = {a} /\ {a} \cup {b} = {a, b} /\ Min({a}) = a
    BY DEF Min
  <1> QED BY <1>2, <1>3

LEMMA CalledIsAdmitted ==
  ASSUME NEW g, NEW o, Calls(g, o)
  PROVE  Admits(repo, g, o) \in {Perhaps, Intercepts}
  <1> DEFINE known == Selectable(repo, o)
  <1>1. Matched(g, o) /\ Selects(g.objSel, o.labels) \in {1, 2}
    BY CalledIsSelected DEF Calls, Perhaps, Intercepts
  <1>2. CASE o.kind # "Namespace" /\ o.ns = NoName
    BY <1>1, <1>2, LeastOf DEF Admits, Perhaps, Intercepts
  <1>3. CASE ~(o.kind # "Namespace" /\ o.ns = NoName)
    <2>1. Selects(g.nsSel, known) \in {1, 2}
      BY <1>3, CalledIsSelected DEF Calls, Perhaps, Intercepts
    <2> QED BY <1>1, <1>3, <2>1, LeastOf DEF Admits, Perhaps, Intercepts
  <1> QED BY <1>2, <1>3

LEMMA StandsAdmits ==
  ASSUME NEW h, NEW g, StandsFor(h, g), NEW o, Matched(g, o)
  PROVE  Admits(repo, h, o) = Admits(repo, g, o)
  BY DEF StandsFor, Admits

(* The gate that called for an object is the first one reported for it.    *)
LEMMA SeenIsFirst ==
  ASSUME NEW g, NEW h \in Gates(repo), StandsFor(h, g), NEW o \in repo.objs, Noticed(g, o),
         Matched(g, o), Admits(repo, g, o) \in {Perhaps, Intercepts}
  PROVE  h \in First(repo, o) /\ Admits(repo, h, o) = Admits(repo, g, o)
  <1>1. Admits(repo, h, o) = Admits(repo, g, o) /\ Admits(repo, h, o) # Passes
    BY StandsAdmits DEF Passes, Perhaps, Intercepts
  <1>2. ~Related(repo, o.comp, h.comp) /\ \A k \in InFront(repo, o) : ~Before(k, h)
    BY DEF Noticed, StandsFor, Before
  <1> QED BY <1>1, <1>2 DEF First, InFront

LEMMA AdmittedIsMatched ==
  ASSUME NEW g, NEW o, Admits(repo, g, o) # Passes
  PROVE  Matched(g, o)
  BY DEF Admits

-----------------------------------------------------------------------------
(* The order of applies, as the declared edges have it.                    *)
Happened == {Start(c) : c \in applied} \cup {Ready(c) : c \in ready}

Causal ==
  /\ repo \in Repos /\ findings = Reports(repo)
  /\ applied \in SUBSET Comp /\ ready \in SUBSET applied
  /\ \A c \in applied : repo.parent[c] \in Comp => repo.parent[c] \in applied
  /\ \A c \in applied : repo.dependsOn[c] \subseteq ready
  /\ \A c \in ready : c \in repo.wait => \A k \in Comp : repo.parent[k] = c => k \in ready

LEMMA EventsAreDistinct ==
  \A c, d \in Comp : /\ Start(c) # Ready(d)
                     /\ Start(c) = Start(d) => c = d
                     /\ Ready(c) = Ready(d) => c = d
                     /\ Start(c) \in Event /\ Ready(c) \in Event
  BY DEF Start, Ready, Event

LEMMA HappenedIs ==
  ASSUME NEW c \in Comp, applied \in SUBSET Comp, ready \in SUBSET Comp
  PROVE  /\ Start(c) \in Happened <=> c \in applied
         /\ Ready(c) \in Happened <=> c \in ready
  BY EventsAreDistinct DEF Happened

LEMMA CausalStep == Causal /\ [Next]_vars => Causal'
  <1> SUFFICES ASSUME Causal, [Next]_vars PROVE Causal'
    OBVIOUS
  <1>1. ASSUME NEW c \in Comp, Apply(c) PROVE Causal'
    BY <1>1 DEF Apply, Attempted, Causal, fixed
  <1>2. ASSUME NEW c \in Comp, BecomeReady(c) PROVE Causal'
    BY <1>2 DEF BecomeReady, Causal, fixed
  <1>3. ASSUME UNCHANGED <<fixed, applied, ready>> PROVE Causal'
    BY <1>3 DEF Causal, fixed
  <1>4. \/ \E c \in Comp : Apply(c) \/ BecomeReady(c)
        \/ UNCHANGED <<fixed, applied, ready>>
    BY DEF Next, Advance, Register, ComeUp, Claim, Reapply, Contend, Reject, Restart, vars, fixed
  <1> QED BY <1>1, <1>2, <1>3, <1>4

(* Before an apply is attempted, all that a declared edge puts before it   *)
(* has happened; the same of what has happened.                            *)
LEMMA EdgesHold ==
  ASSUME Causal, NEW c \in Comp, Attempted(c) \/ c \in applied,
         NEW ab \in Declared(repo), ab[2] \in Happened \cup {Start(c)}
  PROVE  ab[1] \in Happened
  <1>1. /\ repo.parent \in [Comp -> Comp \cup {NoComp}]
        /\ repo.dependsOn \in [Comp -> SUBSET (Comp \cup {Absent})]
        /\ applied \in SUBSET Comp /\ ready \in SUBSET Comp
    BY ReposAssumption DEF Causal
  <1>2. CASE \E k \in Comp : ab = <<Start(k), Ready(k)>>
    <2>1. PICK k \in Comp : ab[1] = Start(k) /\ ab[2] = Ready(k)
      BY <1>2
    <2>2. k \in ready
      BY <1>1, <2>1, HappenedIs, EventsAreDistinct
    <2> QED BY <1>1, <2>1, <2>2, HappenedIs DEF Causal
  <1>3. CASE \E k \in Children(repo) : ab = <<Start(repo.parent[k]), Start(k)>>
    <2>1. PICK k \in Comp : repo.parent[k] \in Comp /\ ab[1] = Start(repo.parent[k]) /\ ab[2] = Start(k)
      BY <1>3 DEF Children
    <2>2. k \in applied \/ k = c
      BY <1>1, <2>1, HappenedIs, EventsAreDistinct
    <2>3. repo.parent[k] \in applied
      BY <2>1, <2>2 DEF Causal, Attempted
    <2> QED BY <1>1, <2>1, <2>3, HappenedIs
  <1>4. CASE \E k \in Children(repo) : repo.parent[k] \in repo.wait /\ ab = <<Ready(k), Ready(repo.parent[k])>>
    <2>1. PICK k \in Comp : /\ repo.parent[k] \in Comp /\ repo.parent[k] \in repo.wait
                            /\ ab[1] = Ready(k) /\ ab[2] = Ready(repo.parent[k])
      BY <1>4 DEF Children
    <2>2. repo.parent[k] \in ready
      BY <1>1, <2>1, HappenedIs, EventsAreDistinct
    <2> QED BY <1>1, <2>1, <2>2, HappenedIs DEF Causal
  <1>5. CASE \E d \in Dependencies(repo) : ab = <<Ready(d[2]), Start(d[1])>>
    <2>1. PICK k \in Comp, d \in Comp : d \in repo.dependsOn[k] /\ ab[1] = Ready(d) /\ ab[2] = Start(k)
      BY <1>5 DEF Dependencies
    <2>2. k \in applied \/ k = c
      BY <1>1, <2>1, HappenedIs, EventsAreDistinct
    <2>3. d \in ready
      BY <2>1, <2>2 DEF Causal, Attempted
    <2> QED BY <1>1, <2>1, <2>3, HappenedIs
  <1> QED BY <1>2, <1>3, <1>4, <1>5 DEF Declared

(* So no declared path leads there from what has not happened.             *)
LEMMA PathsHold ==
  ASSUME Causal, NEW c \in Comp, Attempted(c) \/ c \in applied,
         NEW a \in Event, Reachable(Declared(repo), a, Start(c)), a # Start(c)
  PROVE  a \in Happened
  <1> SUFFICES ASSUME a \notin Happened PROVE FALSE
    OBVIOUS
  <1> DEFINE H == Happened \cup {Start(c)}
             S == Event \ H
  <1>1. ASSUME NEW ab \in Declared(repo), ab[1] \notin H PROVE ab[2] \notin H
    BY <1>1, EdgesHold
  <1>2. \A ab \in Declared(repo) : ab[2] \in Event
    BY EventsAreDistinct DEF Declared, Children, Dependencies
  <1>3. Closed(Declared(repo), S)
    BY <1>1, <1>2 DEF Closed
  <1>4. ASSUME NEW x \in Event, <<a, x>> \in Declared(repo) PROVE x \in S
    <2> DEFINE ab == <<a, x>>
    <2>1. ab \in Declared(repo) /\ ab[1] = a /\ ab[2] = x
      BY <1>4
    <2>2. ab[2] \notin H
      BY <1>1, <2>1
    <2> QED BY <2>1, <2>2
  <1>5. S \in SUBSET Event /\ Start(c) \notin S
    OBVIOUS
  <1> HIDE DEF S
  <1> QED BY <1>3, <1>4, <1>5 DEF Reachable

-----------------------------------------------------------------------------
(* What readiness has waited for is up, but for the pod that restarted.    *)
Awaited(o) == o.kind = "Workload" /\ o.comp \in ready /\ BlocksOnHealth(repo, o.comp)

UpInv ==
  \E w : /\ restarted => w \in Of(repo, "Workload") /\ Pods(repo, w) = 1
         /\ \A o \in repo.objs : Awaited(o) /\ o \notin up => restarted /\ o = w

(* A Kyverno that runs had a pod to run in.                                *)
RunningInv ==
  \A c \in running : \E s \in Kyverno(repo) :
    s.comp = c /\ \E w \in Backends(repo, <<s.ns, s.name>>) : w.replicas # 0

LEMMA UpStep == Causal /\ UpInv /\ [Next]_vars => UpInv'
  <1> SUFFICES ASSUME Causal, UpInv, [Next]_vars PROVE UpInv'
    OBVIOUS
  <1>1. PICK w : /\ restarted => w \in Of(repo, "Workload") /\ Pods(repo, w) = 1
                 /\ \A o \in repo.objs : Awaited(o) /\ o \notin up => restarted /\ o = w
    BY DEF UpInv
  <1>2. ASSUME repo' = repo, ready' = ready, up \subseteq up', restarted' = restarted PROVE UpInv'
    <2>1. \A o \in repo.objs : Awaited(o)' /\ o \notin up' => restarted' /\ o = w
      BY <1>1, <1>2 DEF Awaited
    <2> QED BY <1>1, <1>2, <2>1 DEF UpInv
  <1>3. ASSUME NEW c \in Comp, BecomeReady(c) PROVE UpInv'
    <2>1. repo' = repo /\ up' = up /\ restarted' = restarted /\ ready' = ready \cup {c}
      BY <1>3 DEF BecomeReady, fixed
    <2>2. \A o \in repo.objs : o.kind = "Workload" /\ o.comp = c /\ BlocksOnHealth(repo, c) => o \in up
      BY <1>3 DEF BecomeReady, BlocksOnHealth, IsUp, Waiting
    <2>3. \A o \in repo.objs : Awaited(o)' /\ o \notin up' => restarted' /\ o = w
      BY <1>1, <2>1, <2>2 DEF Awaited
    <2> QED BY <1>1, <2>1, <2>3 DEF UpInv
  <1>4. ASSUME NEW v \in repo.objs, Restart(v) PROVE UpInv'
    <2>1. /\ repo' = repo /\ ready' = ready /\ up' = up \ {v} /\ restarted' /\ ~restarted
          /\ v \in Of(repo, "Workload") /\ Pods(repo, v) = 1
      BY <1>4 DEF Restart, fixed, Of
    <2>2. \A o \in repo.objs : Awaited(o)' /\ o \notin up' => restarted' /\ o = v
      BY <1>1, <2>1 DEF Awaited
    <2> QED BY <2>1, <2>2 DEF UpInv
  <1>5. \/ \E c \in Comp : BecomeReady(c)
        \/ \E v \in repo.objs : Restart(v)
        \/ repo' = repo /\ ready' = ready /\ up \subseteq up' /\ restarted' = restarted
    BY DEF Next, Advance, Apply, Register, ComeUp, Claim, Reapply, Contend, Reject, vars, fixed
  <1> QED BY <1>2, <1>3, <1>4, <1>5

LEMMA RunningStep == RunningInv /\ [Next]_vars => RunningInv'
  <1> SUFFICES ASSUME RunningInv, [Next]_vars PROVE RunningInv'
    OBVIOUS
  <1>1. ASSUME NEW c \in Comp, Register(c) PROVE RunningInv'
    BY <1>1 DEF Register, fixed, RunningInv
  <1>2. ASSUME repo' = repo, running' = running PROVE RunningInv'
    BY <1>2 DEF RunningInv
  <1>3. \/ \E c \in Comp : Register(c)
        \/ repo' = repo /\ running' = running
    BY DEF Next, Advance, Apply, BecomeReady, ComeUp, Claim, Reapply, Contend, Reject, Restart, vars, fixed
  <1> QED BY <1>1, <1>2, <1>3

-----------------------------------------------------------------------------
(* The pods behind a gate add up to one if all but one count for nothing.  *)
(* A fold is any function that satisfies its equation; on a finite set     *)
(* there is only one: a smallest set on which two differ has an element    *)
(* without which they still do.                                            *)
LEMMA SumOfOne ==
  ASSUME NEW S, IsFiniteSet(S), NEW w \in S, Pods(repo, w) = 1,
         \A v \in S : v # w => Pods(repo, v) = 0
  PROVE  MapThenSumSet(LAMBDA v : Pods(repo, v), S) = 1
  <1> DEFINE pick(s) == CHOOSE x \in s : TRUE
             pods(v) == Pods(repo, v)
             IsFold(f) == f = [s \in SUBSET S |-> IF s = {} THEN 0 ELSE pods(pick(s)) + f[s \ {pick(s)}]]
             one == [s \in SUBSET S |-> IF w \in s THEN 1 ELSE 0]
             fold == CHOOSE f : IsFold(f)
  <1>1. MapThenSumSet(LAMBDA v : Pods(repo, v), S) = fold[S]
    BY DEF MapThenSumSet, MapThenFoldSet
  <1>2. IsFold(one)
    <2>1. ASSUME NEW s \in SUBSET S
          PROVE  one[s] = IF s = {} THEN 0 ELSE pods(pick(s)) + one[s \ {pick(s)}]
      <3>1. s # {} => pick(s) \in s
        OBVIOUS
      <3> HIDE DEF pick
      <3> QED BY <3>1
    <2> QED BY <2>1
  <1>3. IsFold(fold)
    <2> HIDE DEF one, IsFold
    <2> QED BY <1>2
  <1> DEFINE T == {s \in SUBSET S : fold[s] # one[s]}
  <1>4. ASSUME T # {} PROVE FALSE
    <2>1. IsWellFoundedOn(StrictSubsetOrdering(S), SUBSET S)
      BY FS_StrictSubsetOrderingWellFounded, FS_FiniteSubsetsOfFinite
    <2>2. PICK s \in T : \A t \in T : <<t, s>> \notin StrictSubsetOrdering(S)
      <3>1. T \subseteq SUBSET S
        OBVIOUS
      <3> HIDE DEF T
      <3> QED BY <1>4, <2>1, <3>1, WFMin
    <2> DEFINE x == pick(s)
               t == s \ {x}
    <2>3. s \in SUBSET S /\ fold[s] # one[s]
      BY <2>2
    <2>4. fold[s] = IF s = {} THEN 0 ELSE pods(x) + fold[t]
      <3> HIDE DEF pods, pick, fold
      <3> QED BY <1>3, <2>3
    <2>5. one[s] = IF s = {} THEN 0 ELSE pods(x) + one[t]
      <3> HIDE DEF pods, pick, one
      <3> QED BY <1>2, <2>3
    <2>6. s # {} => x \in s
      OBVIOUS
    <2>7. s # {} => t \in T
      <3> HIDE DEF pods, pick, one, fold
      <3> QED BY <2>3, <2>4, <2>5
    <2>8. s # {} => <<t, s>> \in StrictSubsetOrdering(S)
      <3> HIDE DEF x
      <3> QED BY <2>3, <2>6 DEF StrictSubsetOrdering
    <2> HIDE DEF pods, pick, one, fold, T
    <2> QED BY <2>2, <2>3, <2>4, <2>5, <2>7, <2>8
  <1>5. S \in SUBSET S /\ one[S] = 1
    OBVIOUS
  <1>6. fold[S] = one[S]
    <2> HIDE DEF fold, one
    <2> QED BY <1>4, <1>5
  <1> HIDE DEF fold
  <1> QED BY <1>1, <1>5, <1>6

-----------------------------------------------------------------------------
(* What a reported gate and an unreported one mean for a component.        *)
Reported(c, owner) ==
  ~ (/\ Reachable(Declared(repo), Ready(owner), Start(c))
     /\ BlocksOnHealth(repo, owner) \/ owner \in repo.helm)

LEMMA WindowIs ==
  ASSUME NEW o \in repo.objs, NEW h \in First(repo, o), Reported(o.comp, h.comp)
  PROVE  \E f \in Windows(repo) :
           /\ f.comp = o.comp /\ f.owner = h.comp
           /\ f.safe = Reachable(Declared(repo), Ready(o.comp), Start(h.comp))
  <1> DEFINE hits == UNION {{<<x.comp, g.comp>> : g \in First(repo, x)} : x \in repo.objs}
             cp == <<o.comp, h.comp>>
             f == [comp |-> cp[1], owner |-> cp[2], safe |-> Reachable(Declared(repo), Ready(cp[1]), Start(cp[2]))]
  <1>1. cp \in hits
    OBVIOUS
  <1>2. cp \in {x \in hits : ~ (/\ Reachable(Declared(repo), Ready(x[2]), Start(x[1]))
                                /\ BlocksOnHealth(repo, x[2]) \/ x[2] \in repo.helm)}
    BY <1>1 DEF Reported
  <1>3. f \in Windows(repo)
    <2> HIDE DEF cp
    <2> QED BY <1>2 DEF Windows
  <1>4. f.comp = o.comp /\ f.owner = h.comp /\ f.safe = Reachable(Declared(repo), Ready(o.comp), Start(h.comp))
    OBVIOUS
  <1> HIDE DEF f
  <1> QED BY <1>3, <1>4

(* A first apply that a gate already rejects was not safe.                 *)
LEMMA NotSafe ==
  ASSUME Causal, NEW c \in Comp, c \notin applied, NEW k \in applied
  PROVE  ~Reachable(Declared(repo), Ready(c), Start(k))
  <1>1. Ready(c) \in Event /\ Ready(c) # Start(k) /\ Ready(c) \notin Happened
    BY HappenedIs, EventsAreDistinct DEF Causal
  <1> QED BY <1>1, PathsHold DEF Causal

(* A gate nobody reported has been waited for, and all behind it are up,   *)
(* but for the pod that restarted.                                         *)
LEMMA BehindIsAwaited ==
  ASSUME Causal, BackedAtHome(repo), ReleasesWait(repo),
         NEW c \in Comp, Attempted(c) \/ c \in applied, NEW h \in Gates(repo), h.comp \in Comp,
         ~Reported(c, h.comp)
  PROVE  \A w \in Backends(repo, h.service) : w \in repo.objs /\ Awaited(w)
  <1>1. Ready(h.comp) \in Happened
    BY PathsHold, EventsAreDistinct DEF Reported
  <1>2. h.comp \in ready /\ BlocksOnHealth(repo, h.comp)
    BY <1>1, HappenedIs DEF Causal, Reported, ReleasesWait, BlocksOnHealth
  <1> QED BY <1>2 DEF BackedAtHome, Backends, Of, Awaited

(* Something stands behind a gate that no FL-R004 says nothing does.       *)
LEMMA BackedGate ==
  ASSUME repo \in Repos, KyvernoIsOne(repo), RunningInv, NEW g \in Live, g.service \notin Unbacked(repo)
  PROVE  \E w \in Backends(repo, g.service) : w.replicas # 0
  <1>1. g \in Gates(Known) /\ (g.runtime => g.comp \in running)
    BY DEF Live, Known
  <1>2. CASE g \notin KyvernoGates(Known)
    <2>1. PICK h \in Of(repo, "Webhook") : h.failClosed /\ h.service # NoName /\ g.service = h.service
      BY <1>1, <1>2, RegisteredGates
    <2> QED BY <2>1 DEF Unbacked
  <1>3. CASE g \in KyvernoGates(Known)
    <2>1. PICK s \in Kyverno(repo) : s.comp = g.comp /\ g.service = <<s.ns, s.name>> /\ g.runtime
      BY <1>3, StartedGates
    <2>2. PICK t \in Kyverno(repo) : \E w \in Backends(repo, <<t.ns, t.name>>) : w.replicas # 0
      BY <1>1, <2>1 DEF RunningInv
    <2>3. s = t
      BY <2>1, <2>2 DEF KyvernoIsOne
    <2> QED BY <2>1, <2>2, <2>3
  <1> QED BY <1>2, <1>3

LEMMA FiniteBackends ==
  ASSUME repo \in Repos, NEW at
  PROVE  IsFiniteSet(Backends(repo, at))
  <1>1. IsFiniteSet(repo.objs) /\ Backends(repo, at) \in SUBSET repo.objs
    BY ReposAssumption DEF Backends, Of
  <1> QED BY <1>1, FS_Subset

(* A backed gate without an answer, nobody having reported it: its one pod *)
(* restarted, and FL-R013 says so of whom it surely stands in front of.    *)
LEMMA OnePodRestarted ==
  ASSUME Causal, UpInv, RunningInv, BackedAtHome(repo), KyvernoIsOne(repo), ReleasesWait(repo), ZeroIsNone(repo),
         NEW c \in Comp, Attempted(c) \/ c \in applied, NEW g \in Live, ~Answers(g),
         NEW h \in Gates(repo), StandsFor(h, g), h.comp \in Comp, ~Reported(c, h.comp), g.service \notin Unbacked(repo)
  PROVE  /\ restarted
         /\ Guarded(repo, h) # {} => Backends(repo, g.service) \cap SinglePods(repo) # {}
  <1> DEFINE B == Backends(repo, g.service)
  <1>0. repo \in Repos /\ h.service = g.service
    BY DEF Causal, StandsFor
  <1>1. PICK w : /\ restarted => w \in Of(repo, "Workload") /\ Pods(repo, w) = 1
                 /\ \A o \in repo.objs : Awaited(o) /\ o \notin up => restarted /\ o = w
    BY DEF UpInv
  <1>2. \A v \in B : v \in repo.objs /\ Awaited(v)
    BY <1>0, BehindIsAwaited
  <1>3. PICK v \in B : v.replicas # 0
    BY <1>0, BackedGate
  <1>4. v \notin up
    BY <1>3 DEF Answers
  <1>5. restarted /\ v = w
    BY <1>1, <1>2, <1>4
  <1>6. \A u \in B : u # w => Pods(repo, u) = 0
    <2> SUFFICES ASSUME NEW u \in B, u # w PROVE Pods(repo, u) = 0
      OBVIOUS
    <2>1. u \in up
      BY <1>1, <1>2
    <2>2. u.replicas = 0
      BY <2>1 DEF Answers
    <2>3. u \in Of(repo, "Workload")
      BY DEF Backends
    <2> QED BY <2>2, <2>3 DEF ZeroIsNone
  <1>7. MapThenSumSet(LAMBDA u : Pods(repo, u), B) = 1
    <2>1. IsFiniteSet(B) /\ w \in B /\ Pods(repo, w) = 1
      BY <1>0, <1>1, <1>3, <1>5, FiniteBackends
    <2> HIDE DEF B
    <2> QED BY <1>6, <2>1, SumOfOne
  <1>8. ASSUME Guarded(repo, h) # {} PROVE B \subseteq SinglePods(repo)
    BY <1>0, <1>7, <1>8 DEF SinglePods
  <1> QED BY <1>3, <1>5, <1>8

(* A rejection is recorded with what foretold it.                          *)
Foretold(x) ==
  \/ x.gate.service \in findings.unbacked
  \/ \E f \in findings.windows :
       f.comp = x.comp /\ f.owner = x.gate.comp /\ (x.first /\ ~x.restarted => ~f.safe)
  \/ x.restarted /\ (Surely(x.comp, x.gate) =>
                        Backends(repo, x.gate.service) \cap findings.single # {})

LEMMA RejectionIsForetold ==
  ASSUME Causal, UpInv, RunningInv, TakenForGranted, NEW c \in Comp, Attempted(c) \/ c \in applied,
         NEW g \in Refusing(c), NEW x, SeenBy(c, g),
         x = [comp |-> c, gate |-> g, first |-> c \notin applied, restarted |-> restarted]
  PROVE  Foretold(x)
  <1>1. /\ repo \in Repos /\ BackedAtHome(repo) /\ KyvernoIsOne(repo) /\ ReleasesWait(repo) /\ ZeroIsNone(repo)
        /\ findings.windows = Windows(repo) /\ findings.single = SinglePods(repo)
        /\ findings.unbacked = Unbacked(repo)
    BY DEF Causal, TakenForGranted, Reports
  <1>2. g \in Live /\ ~Answers(g)
    BY DEF Refusing
  <1>3. PICK h \in Gates(repo) : StandsFor(h, g) /\ g.comp \in applied
    BY <1>1, <1>2, LiveGates
  <1>4. h.comp = g.comp /\ g.comp \in Comp
    BY <1>3 DEF StandsFor, Causal
  <1>5. PICK o \in repo.objs : o.comp = c /\ Calls(g, o) /\ Noticed(g, o)
    BY DEF SeenBy
  <1>6. h \in First(repo, o)
    BY <1>3, <1>5, CalledIsAdmitted, SeenIsFirst DEF Calls
  <1>7. CASE Reported(c, g.comp)
    <2>1. PICK f \in Windows(repo) :
            f.comp = c /\ f.owner = g.comp /\ f.safe = Reachable(Declared(repo), Ready(c), Start(g.comp))
      BY <1>4, <1>5, <1>6, <1>7, WindowIs
    <2>2. c \notin applied => ~f.safe
      BY <1>3, <2>1, NotSafe
    <2> QED BY <1>1, <2>1, <2>2 DEF Foretold
  <1>8. CASE ~Reported(c, g.comp) /\ g.service \notin Unbacked(repo)
    <2>1. /\ restarted
          /\ Guarded(repo, h) # {} => Backends(repo, g.service) \cap SinglePods(repo) # {}
      BY <1>1, <1>2, <1>3, <1>4, <1>8, OnePodRestarted
    <2>2. ASSUME Surely(c, g) PROVE Guarded(repo, h) # {}
      <3>1. PICK p \in repo.objs : p.comp = c /\ Noticed(g, p) /\ Admits(repo, g, p) = Intercepts
        BY <2>2 DEF Surely
      <3>2. Matched(g, p)
        BY <3>1, AdmittedIsMatched DEF Passes, Intercepts
      <3>3. h \in First(repo, p) /\ Admits(repo, h, p) = Intercepts
        BY <1>3, <3>1, <3>2, SeenIsFirst
      <3> QED BY <3>3 DEF Guarded
    <2> QED BY <1>1, <2>1, <2>2 DEF Foretold
  <1> QED BY <1>1, <1>7, <1>8 DEF Foretold

(* Every rejection of an apply was foretold by a rule, whatever happens in *)
(* whichever order, where gates bring what answers for them.               *)
THEOREM RejectionsForetold == TakenForGranted => (Spec => []EveryRejectionIsForetold)
  <1> SUFFICES ASSUME TakenForGranted PROVE Spec => []EveryRejectionIsForetold
    OBVIOUS
  <1> DEFINE IInv == Causal /\ UpInv /\ RunningInv /\ EveryRejectionIsForetold
  <1>1. Init => IInv
    BY DEF Init, Causal, UpInv, Awaited, RunningInv, EveryRejectionIsForetold
  <1>2. IInv /\ [Next]_vars => IInv'
    <2> SUFFICES ASSUME IInv, [Next]_vars PROVE IInv'
      OBVIOUS
    <2>1. Causal' /\ UpInv' /\ RunningInv'
      BY CausalStep, UpStep, RunningStep
    <2>2. fixed' = fixed
      BY DEF Next, Advance, Apply, BecomeReady, Register, ComeUp, Claim, Reapply, Contend, Reject, Restart, vars, fixed
    <2>3. \A x : SeenBy(x.comp, x.gate)' = SeenBy(x.comp, x.gate) /\ Surely(x.comp, x.gate)' = Surely(x.comp, x.gate)
      BY <2>2 DEF SeenBy, Surely, Calls, Labels, Noticed, fixed
    <2>4. ASSUME NEW x, SeenBy(x.comp, x.gate) => Foretold(x) PROVE (SeenBy(x.comp, x.gate) => Foretold(x))'
      BY <2>2, <2>3, <2>4 DEF Foretold, fixed
    <2>5. \A x \in rejected : SeenBy(x.comp, x.gate) => Foretold(x)
      BY DEF EveryRejectionIsForetold, Foretold
    <2>6. ASSUME NEW c \in Comp, Reject(c) PROVE \A x \in rejected' : SeenBy(x.comp, x.gate) => Foretold(x)
      <3>1. PICK g \in Refusing(c) :
              rejected' = rejected \cup {[comp |-> c, gate |-> g, first |-> c \notin applied, restarted |-> restarted]}
        BY <2>6 DEF Reject
      <3> QED BY <2>5, <2>6, <3>1, RejectionIsForetold DEF Reject
    <2>7. (\E c \in Comp : Reject(c)) \/ rejected' = rejected
      BY DEF Next, Advance, Apply, BecomeReady, Register, ComeUp, Claim, Reapply, Contend, Restart, vars
    <2>8. EveryRejectionIsForetold'
      BY <2>4, <2>5, <2>6, <2>7 DEF EveryRejectionIsForetold, Foretold
    <2> QED BY <2>1, <2>8
  <1>3. IInv => EveryRejectionIsForetold
    OBVIOUS
  <1> QED BY <1>1, <1>2, <1>3, PTL DEF Spec
=============================================================================
