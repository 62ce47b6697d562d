------------------------------- MODULE Admission -------------------------------
(***************************************************************************)
(* The fail-closed admission webhooks of a repository and what is said     *)
(* about the applies they intercept: FL-R008 and FL-R013                   *)
(* (rules_reconcile.go), FL-R004 (rules_runtime.go), with the webhooks     *)
(* that Kyverno registers itself (kyverno_gate.go).                        *)
(*                                                                         *)
(* A webhook rule names kinds: the mapping of kinds to resource names is   *)
(* left out.  A hook whose matchConditions nobody evaluates is left out of *)
(* Gates, as the code lets everything pass it.  So are the components that *)
(* Flux does not deliver (Synthetic), which no order concerns.             *)
(***************************************************************************)
EXTENDS Wiring

-----------------------------------------------------------------------------
(* kyvernoGates: the Service of its admission controller tells where it is *)
(* installed; its own policies always go through a gate, the kinds its     *)
(* fail-closed policies match through another, which leaves out the        *)
(* namespaces of its chart's selector and its own.                         *)
Policies == {"ClusterPolicy", "ValidatingPolicy"}
Kyverno(r) == {s \in Of(r, "Service") : s.kyverno}

MatchedKinds(r) ==
  UNION {p.kinds : p \in {x \in r.objs : x.kind \in Policies /\ x.failClosed /\ x.admission}}

KyvernoGate(s, index, kinds, nsSel) ==
  [comp |-> s.comp, index |-> index, rules |-> {[kinds |-> kinds, scope |-> "*"]},
   objSel |-> {}, nsSel |-> nsSel, service |-> <<s.ns, s.name>>, runtime |-> TRUE]

KyvernoGates(r) ==
  LET chart(s)    == {o.webhooks : o \in {x \in Of(r, "ConfigMap") : x.ns = s.ns /\ x.webhooks # {}}}
      excluded(s) == {[key |-> "name", op |-> "NotIn", values |-> {s.ns, "kube-system"}]} IN
  UNION {
    {KyvernoGate(s, 1, Policies, {})}
      \cup (IF MatchedKinds(r) = {} THEN {}
            ELSE {KyvernoGate(s, 2, MatchedKinds(r), excluded(s) \cup UNION chart(s))})
    : s \in {x \in Kyverno(r) : \A y \in Kyverno(r) : y.comp <= x.comp}}

(* admissionWindows: the gates that manifests register, Kyverno's last.    *)
Registered(h) ==
  [comp |-> h.comp, index |-> h.index, rules |-> h.rules, objSel |-> h.objSel, nsSel |-> h.nsSel,
   service |-> h.service, runtime |-> FALSE]

Gates(r) ==
  {Registered(h) : h \in {x \in Of(r, "Webhook") :
                            x.failClosed /\ x.service # NoName /\ ~x.conditions}}
    \cup KyvernoGates(r)

Before(g, h) ==
  \/ ~g.runtime /\ h.runtime
  \/ g.runtime = h.runtime /\ g.comp < h.comp
  \/ g.runtime = h.runtime /\ g.comp = h.comp /\ g.index < h.index

-----------------------------------------------------------------------------
Passes     == 0   \* the API server does not call the webhook
Perhaps    == 1   \* it does if a label that is not in Git is set at run time
Intercepts == 2   \* it does

(* selects: a requirement that an unset key fails is not a "no".           *)
Selects(sel, labels) ==
  LET known == {q \in sel : q.op \in {"In", "Exists"} => \E l \in labels : l[1] = q.key} IN
  IF SelectorMatches(sel, labels) THEN Intercepts
  ELSE IF SelectorMatches(known, labels) THEN Perhaps
  ELSE Passes

Matched(g, o) ==
  \E rule \in g.rules :
    /\ o.kind \in rule.kinds
    /\ rule.scope = "Namespaced" => o.ns # NoName
    /\ rule.scope = "Cluster" => o.ns = NoName

(* A Namespace is selected by its own labels, what is in a namespace by    *)
(* the labels of that, the rest always.                                    *)
NamespaceOf(r, o) ==
  IF o.kind = "Namespace" THEN {o} ELSE {n \in Of(r, "Namespace") : n.name = o.ns}
Selectable(r, o) ==
  LET ns == NamespaceOf(r, o) IN
  IF ns # {} THEN WithNameLabel(CHOOSE n \in ns : TRUE) ELSE {<<"name", o.ns>>}

(* gate.admits                                                             *)
Admits(r, g, o) ==
  IF ~Matched(g, o) THEN Passes
  ELSE Min({Selects(g.objSel, o.labels)}
             \cup (IF o.kind # "Namespace" /\ o.ns = NoName THEN {}
                   ELSE {Selects(g.nsSel, Selectable(r, o))}))

-----------------------------------------------------------------------------
Related(r, c, p) == Within(r, c, p) \/ Within(r, p, c)

(* The gates in front of an object; admissionWindows goes by the first.    *)
InFront(r, o) == {g \in Gates(r) : ~Related(r, o.comp, g.comp) /\ Admits(r, g, o) # Passes}
First(r, o)   == {g \in InFront(r, o) : \A h \in InFront(r, o) : ~Before(h, g)}

(* The components a gate surely stands in front of.                        *)
Guarded(r, g) == {o.comp : o \in {x \in r.objs : g \in First(r, x) /\ Admits(r, g, x) = Intercepts}}

(* A fault: an order is enough.                                            *)
FaultWindows(r) ==
  LET E    == Declared(r)
      hits == UNION {{<<o.comp, g.comp>> : g \in First(r, o)} : o \in r.objs} IN
  {[comp |-> cp[1], owner |-> cp[2], safe |-> Reachable(E, Ready(cp[1]), Start(cp[2]))] :
     cp \in {x \in hits : ~Reachable(E, Ready(x[2]), Start(x[1]))}}

(* FL-R008: an apply of comp can land between the registration of owner's  *)
(* webhook and its first answer; safe, when the first apply cannot.        *)
Windows(r) ==
  LET E    == Declared(r)
      hits == UNION {{<<o.comp, g.comp>> : g \in First(r, o)} : o \in r.objs} IN
  {[comp |-> cp[1], owner |-> cp[2], safe |-> Reachable(E, Ready(cp[1]), Start(cp[2]))] :
     cp \in {x \in hits : ~ (/\ Reachable(E, Ready(x[2]), Start(x[1]))
                             /\ BlocksOnHealth(r, x[2]) \/ x[2] \in r.helm)}}

-----------------------------------------------------------------------------
Services(r, at) == {s \in Of(r, "Service") : <<s.ns, s.name>> = at}

(* The workloads behind a Service: none, when it has no selector.          *)
Backends(r, at) ==
  {w \in Of(r, "Workload") :
     \E s \in Services(r, at) : s.selector # {} /\ w.ns = s.ns /\ SelectorMatches(s.selector, w.podLabels)}

(* One pod unless replicas says otherwise; a DaemonSet, and what is scaled *)
(* automatically, are taken to have several.                               *)
Pods(r, w) ==
  IF w.daemon \/ \E s \in r.objs : Scales(s, w) THEN 2
  ELSE IF w.replicas = NoName THEN 1 ELSE w.replicas

(* singlePodGates, FL-R013: the only pods behind gates that others meet.   *)
SinglePods(r) ==
  UNION {Backends(r, g.service) : g \in {x \in Gates(r) :
                        /\ Guarded(r, x) # {}
                        /\ MapThenSumSet(LAMBDA w : Pods(r, w), Backends(r, x.service)) = 1}}

(* serviceRules, FL-R004: a webhook with nothing behind it.                *)
Unbacked(r) ==
  {h.service : h \in {x \in Of(r, "Webhook") :
     /\ x.service # NoName
     /\ \/ Services(r, x.service) = {}
        \/ Backends(r, x.service) = {}
        \/ x.failClosed /\ \A w \in Backends(r, x.service) : w.replicas = 0}}
=============================================================================
