------------------------------ MODULE MCCheck -------------------------------
(***************************************************************************)
(* Check with two entrypoints: every mix of broken, missing and unchanged  *)
(* commits and of old, new and transition findings; and one entrypoint     *)
(* beside a cluster in which some of its components failed.                *)
(***************************************************************************)
EXTENDS Check, TLC

CONSTANTS one, two, root, p, x, y, Waiting

Of(rule, kind, sev, c) ==
  [rule |-> rule, kind |-> kind, severity |-> sev, component |-> c, mentions |-> {}]
Err  == Of("FL-G001", "rule", "error", p)
Warn == Of("FL-T006", "timing", "warning", p)
Info == Of("FL-D001", "rule", "info", p)
Gap  == Of("FL-X001", "gap", "warning", p)
Raised == Of("FL-X001", "gap", "error", p)    \* the source is known to be gone
Prune == Of("FL-D003", "rule", "warning", p)

World(broken, h, b, before, t) ==
  [brokenHead |-> broken, head |-> h, base |-> b, before |-> before, transition |-> t]
MCWorlds ==
  {World(FALSE, h, b, o, t) : h \in {{}, {Err}, {Warn, Info}, {Raised}}, b \in {"fine"},
                              o \in {{}, {Err, Warn}, {Gap}}, t \in {{}, {Prune}}}
    \cup {World(FALSE, {Err}, b, {Err}, {}) : b \in {"missing", "broken"}}
    \cup {World(TRUE, {}, "fine", {}, {}), World(FALSE, {Warn}, "broken", {}, {})}

Quiet == World(FALSE, {}, "fine", {}, {})

MCOptions ==
  [args : {{}, {one}, {one, two}}, base : {"no", "given", "unknown"}, failOn : {"error", "warning"},
   writes : BOOLEAN]

(* Who is whose child and who depends on whom, in a cluster.               *)
Comp == {root, p, x, y}
Tree(kids, deps, opaque) ==
  [comps |-> Comp, root |-> root, opaque |-> opaque,
   children |-> (root :> Comp \ ({root} \cup kids)) @@ [c \in Comp |-> IF c = p THEN kids ELSE {}],
   dependsOn |-> deps @@ [c \in Comp |-> {}]]
Trees ==
  {Tree(kids, deps, o) :
     kids \in {{}, {x}, {x, y}}, o \in {{}, {x}},
     deps \in {(x :> {y}), (x :> {y}) @@ (y :> {p}), (x :> {p}), (p :> {y})}}

(* With Waiting, no component that a parent may wait for leads back to it. *)
Sound(t) == Waiting => Grounded(t)

MCStates ==
  {[tree |-> t, st |-> [of |-> [c \in Comp |-> IF c \in f THEN "failed" ELSE IF c \in a THEN "absent" ELSE "ready"],
                        unknown |-> {}]] :
     t \in {u \in Trees : Sound(u)}, f \in {{p}, {x}, {p, x}, {x, y}, {p, x, y}}, a \in {{}, {y}}}

MCCases ==
  {[world |-> (one :> v) @@ (two :> w), opts |-> o, state |-> NoState] :
     v \in MCWorlds, w \in MCWorlds, o \in {q \in MCOptions : q.args = {one, two} /\ q.base = "given"}}
    \cup {[world |-> (one :> v) @@ (two :> Quiet), opts |-> o, state |-> NoState] :
             v \in MCWorlds, o \in MCOptions}
    \cup {[world |-> (one :> v) @@ (two :> Quiet), opts |-> o, state |-> st] :
             v \in {Quiet, World(FALSE, {Err}, "fine", {Err}, {}), World(FALSE, {Raised, Warn}, "fine", {Err}, {})},
             o \in {q \in MCOptions : q.args # {}  /\ q.failOn = "error" /\ q.writes},
             st \in MCStates}
=============================================================================
