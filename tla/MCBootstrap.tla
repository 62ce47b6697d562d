---------------------------- MODULE MCBootstrap ----------------------------
(***************************************************************************)
(* Bootstrap on every small repository: a root (1) with components below   *)
(* it.  In Nested it has two, side by side or nested, and a last one (4)   *)
(* that waits for 2: with up to MaxDeps dependencies, or one dependency    *)
(* and one import, or two imports, or a dependency and parents that name   *)
(* children in their healthChecks.  In Siblings 3 and 4 are built from one *)
(* source, which 2 holds.                                                  *)
(***************************************************************************)
EXTENDS Bootstrap

CONSTANT MaxDeps

MCComp == 1 .. 4

Parents == {[c \in Comp |-> IF c = 1 THEN NoComp ELSE IF c = 3 THEN p ELSE 1] : p \in {1, 2}}

DependsOn(pairs, max) ==
  {[c \in Comp |-> {cd[2] : cd \in {x \in D : x[1] = c}}] :
     D \in {E \in SUBSET pairs : Cardinality(E) <= max}}

DepPairs == {cd \in (2 .. 3) \X (1 .. 3 \cup {Absent}) : cd[1] = 3 => cd[2] # 3}

(* Runtime needs, sources and run-time CRDs have one provider in the code; *)
(* namespaces and CRDs may have several, and keep the first.               *)
MCNeeds ==
  {n \in [kind : Kind, consumer : 2 .. 3, provs : SUBSET (1 .. 3), first : 1 .. 3 \cup {NoComp}] :
     /\ n.first \in n.provs \/ (n.provs = {} /\ n.first = NoComp)
     /\ Cardinality(n.provs) <= IF n.kind \in {"namespace", "crd"} THEN 2 ELSE 1
     /\ n.kind = "source" => n.consumer \notin n.provs
     /\ n.kind = "api" => n.provs = {2}}

(* Two imports at once: one of each component, from one provider each.     *)
NeedPairs ==
  {{m, n} : m \in {x \in MCNeeds : x.consumer = 2 /\ x.kind # "api" /\ Cardinality(x.provs) = 1},
            n \in {x \in MCNeeds : x.consumer = 3 /\ x.kind # "api" /\ Cardinality(x.provs) = 1}}

Shape(deps, waits, ns, checks) ==
  {[parent |-> p, helm |-> h, wait |-> w, health |-> IF ch = {} THEN hh ELSE Comp,
    checks |-> {pc \in ch : p[pc[2]] = pc[1]},
    dependsOn |-> [d EXCEPT ![4] = {2}], needs |-> ns, repeated |-> {}] :
     p \in Parents, w \in waits,
     h \in IF \E n \in ns : n.kind \in {"source", "runtime"} THEN {{}, {3}} ELSE {{}},
     hh \in IF \E n \in ns : n.kind = "runtime" THEN {{}, {3}} ELSE {{}},
     d \in DependsOn(DepPairs, deps), ch \in checks}

Nested ==
  UNION {Shape(MaxDeps, SUBSET {1, 2}, {}, {{}}),
         UNION {Shape(1, SUBSET {1, 2}, {n}, {{}}) : n \in MCNeeds},
         UNION {Shape(0, {{}, {1, 2}}, ns, {{}}) : ns \in NeedPairs},
         Shape(1, {{}, {1}, {1, 2}}, {}, SUBSET {<<1, 2>>, <<1, 3>>, <<2, 3>>})}

Source(c) == [kind |-> "source", consumer |-> c, provs |-> {2}, first |-> 2]

Siblings ==
  {[parent |-> [c \in Comp |-> IF c = 1 THEN NoComp ELSE IF c = 2 THEN p ELSE 1],
    helm |-> h, wait |-> w, health |-> {}, checks |-> {}, dependsOn |-> d,
    needs |-> {Source(3), Source(4)}, repeated |-> again] :
     p \in {1, 3}, h \in SUBSET {3, 4}, w \in SUBSET {1, 2},
     d \in DependsOn((2 .. 4) \X (2 .. 4), MaxDeps), again \in {{}, {Source(3)}, {Source(4)}}}

MCRepos == Repo \cap (Nested \cup Siblings)
=============================================================================
