---------------------------- MODULE ClusterState ----------------------------
(***************************************************************************)
(* run.clusterRules: what is reported when the findings of a run are laid  *)
(* beside the status that a real cluster gave the same components.         *)
(*                                                                         *)
(* A tree t has the fields comps, root, opaque (sets of components) and    *)
(* children, dependsOn (functions to sets of components).  A state st says *)
(* of a component "ready" or "failed", or of one that is suspended or not  *)
(* there "absent"; st.unknown is what the tree does not know.              *)
(***************************************************************************)
EXTENDS FiniteSets

CONSTANT NoComponent

(* FL-X gaps and timing advice explain no failure, and neither does what   *)
(* is only a suggestion.                                                   *)
Explains(f) == f.severity # "info" /\ f.kind \notin {"gap", "timing", "compared"}

Predicted(fs) == UNION {f.mentions \cup {f.component} : f \in {g \in fs : Explains(g)}}
ErrorsOn(fs)  == {f.component : f \in {g \in fs : Explains(g) /\ g.severity = "error"}}

Failed(t, st) == {c \in t.comps : st.of[c] = "failed"}
Cause(t, st, c) == (t.dependsOn[c] \cup t.children[c]) \cap Failed(t, st)

FaultUnpredicted(t, st, fs) ==   \* a dependency that is not Ready for any reason excuses
  {c \in Failed(t, st) \ (t.opaque \cup Predicted(fs)) :
     \A d \in t.dependsOn[c] \cup t.children[c] : st.of[d] = "ready"}
Unpredicted(t, st, fs) ==
  {c \in Failed(t, st) \ (t.opaque \cup Predicted(fs)) : Cause(t, st, c) = {}}

Reported(rule, sev, S) ==
  {[rule |-> rule, kind |-> "compared", severity |-> sev, component |-> c, mentions |-> {}] : c \in S}
Listed(S) ==   \* one finding for all of them
  IF S = {} THEN {} ELSE
    {[rule |-> "FL-O003", kind |-> "compared", severity |-> "info", component |-> NoComponent, mentions |-> S]}

ClusterRules(t, st, fs) ==
  Reported("FL-O001", "error", Unpredicted(t, st, fs))
    \cup Reported("FL-O002", "info", {c \in ErrorsOn(fs) \cap t.comps : st.of[c] = "ready"})
    \cup Listed({c \in t.comps \ {t.root} : st.of[c] = "absent"})
    \cup Listed(Failed(t, st) \cap t.opaque)
    \cup Listed(st.unknown)

-----------------------------------------------------------------------------
(* Excuses end: in every set of components one is excused by none of them. *)
Grounded(t) ==
  \A S \in (SUBSET t.comps) \ {{}} : \E c \in S : (t.dependsOn[c] \cup t.children[c]) \cap S = {}

(* A failure is accounted for if it was predicted, if it is reported, if   *)
(* the component was not rendered, or if it repeats one that is accounted  *)
(* for: least fixed point.                                                 *)
Accounted(t, st, fs) ==
  LET own == {c \in Failed(t, st) : c \in t.opaque \cup Predicted(fs) \cup
                {f.component : f \in {g \in fs : g.rule = "FL-O001"}}}
  IN  {c \in Failed(t, st) :
         \A S \in SUBSET Failed(t, st) :
           own \subseteq S /\ (\A x \in Failed(t, st) : Cause(t, st, x) \cap S # {} => x \in S) => c \in S}
=============================================================================
