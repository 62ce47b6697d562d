---------------------------- MODULE MCTransition ----------------------------
(***************************************************************************)
(* Transition for a root with two children and a component below one of    *)
(* them: components and objects that move, go or change between the two    *)
(* commits, with and without prune, rejected updates and opaque components.*)
(***************************************************************************)
EXTENDS Transition, TLC

CONSTANTS root, p, q, c, x, y, Gaps

MCComp   == {root, p, q, c}
MCObject == MCComp \cup {x, y}

Owned(f, by) == {o \in MCObject \ {root} : f[o] = by}
(* Who is owned by nothing that is there is not there.                     *)
Commit(f, prune, opaque) ==
  [comps  |-> {d \in MCComp : d = root \/ f[d] # None},
   owns   |-> [d \in MCComp |-> Owned(f, d)],
   prune  |-> [d \in MCComp |-> d \in prune],
   opaque |-> opaque,
   reads  |-> [d \in MCComp |-> {}], dependsOn |-> [d \in MCComp |-> {}], source |-> [d \in MCComp |-> "own"]]

Owners == [p : {root, None}, q : {root}, c : {p, q, None}, x : {p, q, c, None}, y : {q, c, None}]
AsMap(r) == (p :> r.p) @@ (q :> r.q) @@ (c :> r.c) @@ (x :> r.x) @@ (y :> r.y)
Exists(r) == /\ r.p = None => r.c # p /\ r.x # p
             /\ r.c = None => r.x # c /\ r.y # c

BaseOwners == {r \in Owners : Exists(r) /\ r.p = root /\ r.c # None /\ r.x \in {p, c} /\ r.y # None}
HeadOwners == {r \in Owners : Exists(r)}
All == {root, p, q, c}

Merge(b, h, bp, hp, op) ==
  [base |-> Commit(AsMap(b), bp, {}), head |-> Commit(AsMap(h), hp, op),
   changed |-> {}, immutable |-> {}, denied |-> {}, force |-> {}]

(* A component that fluxlint does not find in the head is gone, and pruned *)
(* what it applied; one that moves prunes as it did.                       *)
Usual(m) ==
  Gaps \/ \A d \in {p, c} :
    /\ ~Has(Tree(m.head), d) => ~Has(m.head, d) /\ m.base.prune[d]
    /\ Has(m.head, d) /\ Parent(m.head, d) # Parent(m.base, d) => m.base.prune[d] = m.head.prune[d]

Shapes ==
  {m \in {Merge(b, h, bp, hp, op) : b \in BaseOwners, h \in HeadOwners, bp \in {All, {root, q}, {root, p, c}, {root, q, c}},
                                   hp \in {All, {root, q}, {root, q, c}}, op \in {{}, {c}, {p}}} : Usual(m)}

Updates ==
  {[m EXCEPT !.changed = {x, y}, !.immutable = im, !.denied = de, !.force = fo] :
     m \in {n \in Shapes : n.head.opaque = {} /\ n.head.prune[p] /\ n.base.prune[p]},
     im \in {{}, {x}}, de \in {{}, {y}}, fo \in {{}, {q, c}}}

(* x is a ConfigMap that changes, and may move, while others substitute    *)
(* from it.  A chain of dependencies stays within one source, nobody       *)
(* substitutes from what it applies itself, or what waits for it applies.  *)
Reading(t, reader, deps, other) ==
  [t EXCEPT !.reads = [d \in MCComp |-> IF d = reader THEN {x} ELSE {}],
            !.dependsOn = [d \in MCComp |-> {e \in MCComp : <<d, e>> \in deps}],
            !.source = [d \in MCComp |-> IF d \in other THEN "another" ELSE "own"]]
InTime(m) ==
  LET by == Ownership(m.head)[x] IN
  Gaps \/ \A d \in {by} \cup DependsOn(m.head, by) : x \notin m.head.reads[d]
Readers ==
  {n \in
     UNION {
       {[base |-> Reading(m.base, r, deps, other), head |-> Reading(m.head, r, deps, other),
         changed |-> {x}, immutable |-> {}, denied |-> {}, force |-> {}] :
          r \in {p, q, c}, deps \in {{}, {<<c, q>>}, {<<q, c>>}, {<<q, p>>}, {<<c, q>>, <<q, p>>}},
          other \in {{}, {p}, {c}} \cup (IF Gaps THEN {{q}} ELSE {})}
       : m \in {o \in Shapes : /\ o.head.opaque = {} /\ o.head.prune = o.base.prune
                               /\ \A d \in {p, q, c, y} : Ownership(o.base)[d] = Ownership(o.head)[d]
                               /\ Ownership(o.head)[x] # None}} : InTime(n)}

MCMerges == Shapes \cup Updates \cup Readers
ASSUME MergesAreUsual == Gaps \/ (NothingHangsHidden /\ ChainsStay)
=============================================================================
