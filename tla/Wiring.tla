-------------------------------- MODULE Wiring --------------------------------
(***************************************************************************)
(* Who creates the Secrets, ConfigMaps and ServiceAccounts that pods,      *)
(* sources, releases and certificates wait for (wiring.go), and what the   *)
(* rules report about it: FL-R001/2 (rules_runtime.go), FL-R009, FL-R011,  *)
(* FL-R012, FL-R014 and FL-R015 (rules_reconcile.go).                      *)
(*                                                                         *)
(* A repository has, besides the components of EventGraph, the rendered    *)
(* objects r.objs and the declared externals.  An object is a record of    *)
(* its kind, its component comp and the fields that its kind's rules read. *)
(***************************************************************************)
EXTENDS EventGraph, FiniteSetsExt

CONSTANTS
  Key,     \* the keys of Secrets and ConfigMaps: a nil key set is all of them
  NoName   \* a field that is not set

ASSUME TreeOrderAssumption == Comp \subseteq Nat   \* numbered in tree order
ASSUME NoNameAssumption == NoName \notin Comp

Of(r, kind) == {o \in r.objs : o.kind = kind}

-----------------------------------------------------------------------------
(* selectorMatches; a matchLabels entry is an In of one value.  Labels are *)
(* pairs of a key and a value.                                             *)
SelectorMatches(sel, labels) ==
  \A q \in sel :
    LET values == {l[2] : l \in {x \in labels : x[1] = q.key}} IN
    /\ q.op = "In" => values \cap q.values # {}
    /\ q.op = "NotIn" => values \cap q.values = {}
    /\ q.op = "Exists" => values # {}
    /\ q.op = "DoesNotExist" => values = {}

(* withNameLabel: the API server labels every namespace with its name.     *)
WithNameLabel(n) == n.labels \cup {<<"name", n.name>>}

(* clusterExternalSecretNamespaces: those listed and those selected.       *)
Namespaces(r, o) ==
  o.namespaces
    \cup {n.name : n \in {m \in Of(r, "Namespace") :
                            \E sel \in o.selectors : SelectorMatches(sel, WithNameLabel(m))}}

(* externalSecretTarget: keys fetched as a whole cannot be enumerated, a   *)
(* template replaces the fetched keys unless it is merged with them.       *)
TargetName(o) == IF o.target = NoName THEN o.esName ELSE o.target
TargetKeys(o) ==
  IF o.dataFrom THEN Key
  ELSE IF o.template # {} /\ ~o.mergeTemplate THEN o.template
  ELSE o.template \cup o.data

Made(what, ns, name, keys) == [what |-> what, ns |-> ns, name |-> name, keys |-> keys]

(* Where an ExternalSecret, or those of a ClusterExternalSecret, are.      *)
Targets(r, o) == IF o.kind = "ExternalSecret" THEN {o.ns} ELSE Namespaces(r, o)

Stores == {"ExternalSecret", "ClusterExternalSecret"}

(* buildWiring: what an object leads to the creation of.  A SealedSecret   *)
(* is the Secret it decrypts to; a keystore adds keys that are not known.  *)
Makes(r, o) ==
  IF o.kind \in {"Secret", "ConfigMap", "ServiceAccount"}
  THEN {Made(o.kind, o.ns, o.name, o.keys)}
  ELSE IF o.kind \in Stores
  THEN {Made("Secret", ns, TargetName(o), TargetKeys(o)) : ns \in Targets(r, o)}
  ELSE IF o.kind = "Certificate" /\ o.secret # NoName
  THEN {Made("Secret", o.ns, o.secret, IF o.keystores THEN Key ELSE Key \cap {"tls.crt", "tls.key", "ca.crt"})}
  ELSE {}

(* A reference names what it needs, in the namespace of who needs it.      *)
Fits(m, ns, ref) == m.what = ref.what /\ m.ns = ns /\ m.name = ref.name
Producers(r, ns, ref) == {o \in r.objs : \E m \in Makes(r, o) : Fits(m, ns, ref)}
Provided(r, ns, ref) ==
  {m \in r.externals \cup UNION {Makes(r, o) : o \in r.objs} : Fits(m, ns, ref)}

(* anyHasKey *)
Defines(ms, keys) == \A k \in keys : \E m \in ms : k \in m.keys

-----------------------------------------------------------------------------
(* podRefs, without the optional ones.                                     *)
Refs(o) == {ref \in o.refs : ~ref.optional}

(* linkRuntime, runtimeRules: FL-R001 and FL-R002.                         *)
UnresolvedPods(r) ==
  {o \in Of(r, "Workload") :
     \E ref \in Refs(o) :
       \/ Provided(r, o.ns, ref) = {}
       \/ ~Defines(Provided(r, o.ns, ref), ref.keys)}

(* linkRuntime: the need a pod's reference becomes, of the first producer  *)
(* in tree order (of the last one for an account); none when the object is *)
(* declared external, or is created by the consumer or above it.           *)
RuntimeNeeds(r) ==
  {[kind |-> "runtime", consumer |-> x[1].comp, provs |-> {x[3]}, first |-> x[3]] :
     x \in {y \in UNION {{o} \X Refs(o) \X Comp : o \in Of(r, "Workload")} :
              LET from == {p.comp : p \in Producers(r, y[1].ns, y[2])} IN
              /\ from # {}
              /\ \A m \in r.externals : ~Fits(m, y[1].ns, y[2])
              /\ y[3] = IF y[2].what = "ServiceAccount" THEN Max(from) ELSE Min(from)}}

-----------------------------------------------------------------------------
(* secretOwners, FL-R011: the claims of one Secret by name of the          *)
(* ExternalSecret, those that do not want to own it left out.              *)
Claims(r) ==
  UNION {{o} \X Targets(r, o) : o \in {x \in r.objs : x.kind \in Stores /\ x.owns}}

Contest(a, b) ==
  a[2] = b[2] /\ TargetName(a[1]) = TargetName(b[1]) /\ a[1].esName # b[1].esName

(* A fault: the namespaces of a ClusterExternalSecret are not expanded.    *)
FaultContestedSecrets(r) ==
  {ab \in Claims(r) \X Claims(r) :
     Contest(ab[1], ab[2]) /\ ab[1][1].kind = "ExternalSecret" /\ ab[2][1].kind = "ExternalSecret"}

ContestedSecrets(r) == {ab \in Claims(r) \X Claims(r) : Contest(ab[1], ab[2])}

(* certificateIssuers, FL-R012; a ClusterIssuer is an Issuer without a     *)
(* namespace.  The issuers of other groups are not ours to know.           *)
Issues(i, o) ==
  i.kind = "Issuer" /\ i.name = o.issuer /\ i.ns = (IF o.clusterIssuer THEN NoName ELSE o.ns)
Unissued(r) ==
  {o \in Of(r, "Certificate") : o.issuer # NoName /\ \A i \in r.objs : ~Issues(i, o)}

(* sourceCredentials, FL-R014, but for the repository's own source.        *)
Credential(o) == {[what |-> "Secret", name |-> s, keys |-> {}] : s \in o.credentials}
Uncredited(r) ==
  {o \in Of(r, "Source") :
     /\ o.name # r.repoSource
     /\ \E ref \in Credential(o) : Provided(r, o.ns, ref) = {}}

(* valuesReferences, FL-R015.                                              *)
Unvalued(r) ==
  {o \in Of(r, "HelmRelease") :
     \E ref \in Refs(o) : ~Defines(Provided(r, o.ns, ref), ref.keys)}

(* contestedFields, FL-R009: replicas of a workload that is scaled, and a  *)
(* caBundle that cert-manager is asked to inject.                          *)
Scales(s, o) == s.kind = "Autoscaler" /\ s.ns = o.ns /\ s.name = o.name
ContestedFields(r) ==
  {o \in Of(r, "Workload") : o.replicas # NoName /\ \E s \in r.objs : Scales(s, o)}
    \cup {o \in Of(r, "Webhook") : o.injected /\ o.caBundle}
=============================================================================
