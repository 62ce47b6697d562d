----------------------------- MODULE Transition -----------------------------
(***************************************************************************)
(* lint.Compare's account of a merge, transitionRules, beside a cluster    *)
(* that runs the base and reconciles the head: what Flux deletes, keeps,   *)
(* moves and cannot update is what was reported, in every order in which   *)
(* the components can reconcile.                                           *)
(*                                                                         *)
(* A component is itself an object, owned by the component that renders    *)
(* it.  A commit has comps, owns, prune, what fluxlint could not render    *)
(* (opaque), the ConfigMaps that components substitute from (reads), their *)
(* dependencies (dependsOn) and sources.                                   *)
(* Dependencies, sources and reads are the same in both commits.  The      *)
(* cluster is external: it is kustomize-controller as the messages of      *)
(* these rules describe it.                                                *)
(***************************************************************************)
CONSTANTS
  Object, Comp, Root,  \* Comp \subseteq Object
  Merges,              \* [base, head, changed, immutable, denied, force]
  SpecsFirst,          \* no component acts on a stale prune setting; the controller
                       \* makes no such promise (pkg/lint/rules_timing.go:164)
  None

ASSUME ComponentsAreObjects == Comp \subseteq Object /\ Root \in Comp /\ None \notin Object

VARIABLES
  merge,
  live,      \* object -> "no", or the commit it was applied from
  inv,       \* component -> its inventory
  dying,     \* components with a deletion timestamp
  applied,   \* components that have applied the head
  stale      \* <<component, object>>: it substituted from the base's version then

vars == <<merge, live, inv, dying, applied, stale>>

Has(t, c) == c \in t.comps
Parent(t, o) ==
  IF \E p \in t.comps : o \in t.owns[p] THEN CHOOSE p \in t.comps : o \in t.owns[p] ELSE None

(* No component owns what another owns (FL-G003), the components form a    *)
(* tree, and the base was rendered throughout.                             *)
Commits ==
  [comps : SUBSET Comp, owns : [Comp -> SUBSET Object], prune : [Comp -> BOOLEAN], opaque : SUBSET Comp,
   reads : [Comp -> SUBSET Object], dependsOn : [Comp -> SUBSET Comp], source : [Comp -> STRING]]
ASSUME MergesAssumption ==
  \A m \in Merges :
    /\ m.base \in Commits /\ m.head \in Commits
    /\ \A t \in {m.base, m.head} :
         /\ \A c, d \in t.comps : t.owns[c] \cap t.owns[d] # {} => c = d
         /\ \A c \in t.comps : t.owns[c] \cap Comp \subseteq t.comps \ {Root, c}
         /\ \A c \in t.comps \ {Root} : Parent(t, c) # None
    /\ m.base.opaque = {}

-----------------------------------------------------------------------------
(* What fluxlint knows of a commit.  Nothing hangs under an opaque         *)
(* component in its tree.                                                  *)
Below(t, c) ==
  {d \in Comp : \A S \in SUBSET Comp :
     c \in S /\ (\A x \in S : t.owns[x] \cap Comp \subseteq S) => d \in S}

Tree(t) ==
  [t EXCEPT !.comps = {c \in t.comps : \A o \in t.opaque : c = o \/ c \notin Below(t, o)},
            !.owns  = [c \in Comp |-> IF c \in t.opaque THEN {} ELSE t.owns[c]]]

Ownership(t) == [o \in Object |-> Parent(t, o)]   \* the first that renders it: there is one
Before == Ownership(Tree(merge.base))
After  == Ownership(Tree(merge.head))
Unrendered == Tree(merge.head).comps \cap merge.head.opaque

Removed == {o \in Object : Before[o] # None /\ After[o] = None /\ Before[o] \notin Unrendered}
Moved   == {o \in Object : Before[o] # None /\ After[o] # None /\ Before[o] # After[o]}

(* The component may be gone: then its parent's prune decides, as it is in *)
(* the head if it is there.                                                *)
Pruner(c) ==
  IF ~Has(Tree(merge.head), c) /\ Parent(merge.base, c) # None THEN Parent(merge.base, c) ELSE c
FaultPrunes(c) == merge.base.prune[c]   \* of the component, and of the base
Prunes(c) ==
  IF Has(Tree(merge.head), Pruner(c)) THEN merge.head.prune[Pruner(c)] ELSE merge.base.prune[Pruner(c)]

D001 == {o \in Removed : Prunes(Before[o])}
D004 == Removed \ D001

(* Updates that the API server, or a policy of the head, refuses.          *)
D002 == {o \in Object : /\ Before[o] # None /\ After[o] # None
                        /\ o \in merge.changed \cap merge.immutable /\ After[o] \notin merge.force}
V005 == {o \in Object : /\ Before[o] # None /\ After[o] # None
                        /\ o \in merge.changed \cap merge.denied}

(* FL-T010: a reader that no chain of dependsOn puts after the component   *)
(* of its source that applies the ConfigMap.  (Its label that makes        *)
(* readers reconcile again is left out.)                                   *)
DependsOn(t, c) ==   \* transitively
  {d \in Comp : \A S \in SUBSET Comp :
     t.dependsOn[c] \subseteq S /\ (\A x \in S : t.dependsOn[x] \subseteq S) => d \in S}
FaultT010(t) ==   \* takes it that an ancestor applies first
  {co \in Comp \X Object :
     LET by == Ownership(t)[co[2]] IN
     /\ Has(t, co[1]) /\ co[2] \in t.reads[co[1]]
     /\ by \notin {None, co[1]} \cup DependsOn(t, co[1]) /\ t.source[by] = t.source[co[1]]
     /\ co[1] \notin Below(t, by)}
T010(t) ==
  {co \in Comp \X Object :
     LET by == Ownership(t)[co[2]] IN
     /\ Has(t, co[1]) /\ co[2] \in t.reads[co[1]]
     /\ by \notin {None, co[1]} \cup DependsOn(t, co[1]) /\ t.source[by] = t.source[co[1]]}

-----------------------------------------------------------------------------
(* The cluster.                                                            *)
Init ==
  /\ merge \in Merges
  /\ inv = [c \in Comp |-> IF Has(merge.base, c) THEN merge.base.owns[c] ELSE {}]
  /\ live = [o \in Object |->
               IF o = Root \/ \E c \in Comp : o \in inv[c] THEN "base" ELSE "no"]
  /\ dying = {} /\ applied = {} /\ stale = {}

(* A component acts with the spec it was last applied with.                *)
PruneInEffect(c) ==
  IF c = Root \/ live[c] = "head" THEN merge.head.prune[c] ELSE merge.base.prune[c]

Rejected(o, c) ==
  /\ live[o] = "base" /\ o \in merge.changed
  /\ o \in merge.denied \/ (o \in merge.immutable /\ c \notin merge.force)

(* "dependency revision is not up to date": of the same source.            *)
Waits(c) ==
  \E d \in merge.head.dependsOn[c] \ applied :
    live[d] = "no" \/ merge.head.source[d] = merge.head.source[c]

(* Apply everything, then collect what left the inventory.  A component    *)
(* that Git no longer has finds nothing to apply, and fails; so does one   *)
(* that finds no ConfigMap to substitute from.                             *)
Reconcile(c) ==
  LET new  == merge.head.owns[c]
      gone == IF PruneInEffect(c) THEN inv[c] \ new ELSE {} IN
  /\ Has(merge.head, c) /\ live[c] # "no" /\ c \notin dying
  /\ SpecsFirst => PruneInEffect(c) = merge.head.prune[c]
  /\ ~Waits(c) /\ \A o \in merge.head.reads[c] : live[o] # "no"
  /\ \A o \in new : ~Rejected(o, c) /\ o \notin dying
  /\ inv' = [inv EXCEPT ![c] = new]
  /\ live' = [o \in Object |-> IF o \in new THEN "head" ELSE IF o \in gone \ Comp THEN "no" ELSE live[o]]
  /\ dying' = dying \cup {d \in gone \cap Comp : live[d] # "no"}
  /\ applied' = applied \cup {c}
  /\ stale' = IF c \in applied THEN stale
              ELSE stale \cup {<<c, o>> : o \in {x \in merge.head.reads[c] : live[x] = "base"}}
  /\ UNCHANGED merge

Finalize(d) ==   \* what a pruning component applied goes with it
  LET gone == IF PruneInEffect(d) THEN inv[d] ELSE {} IN
  /\ d \in dying
  /\ inv' = [inv EXCEPT ![d] = {}]
  /\ live' = [o \in Object |-> IF o = d \/ o \in gone \ Comp THEN "no" ELSE live[o]]
  /\ dying' = (dying \ {d}) \cup {e \in gone \cap Comp : live[e] # "no"}
  /\ UNCHANGED <<merge, applied, stale>>

Next == \E c \in Comp : Reconcile(c) \/ Finalize(c)

Spec == Init /\ [][Next]_vars

(* Every component reconciles again after its interval.                    *)
FairSpec == Spec /\ \A c \in Comp : WF_vars(Reconcile(c)) /\ WF_vars(Finalize(c))

-----------------------------------------------------------------------------
(* What the properties take for granted of the merges.  What fluxlint      *)
(* cannot see, below a component it could not render, is not there; and a  *)
(* chain of dependencies that comes back to a source does not leave it in  *)
(* between.                                                                *)
NothingHangsHidden ==
  \A m \in Merges : \A c \in Comp : ~Has(Tree(m.head), c) => ~Has(m.head, c)
Within(t) ==
  [t EXCEPT !.dependsOn = [c \in Comp |-> {d \in t.dependsOn[c] : t.source[d] = t.source[c]}]]
ChainsStay ==
  \A m \in Merges : \A c \in Comp : \A d \in DependsOn(m.head, c) :
    m.head.source[d] = m.head.source[c] => d \in DependsOn(Within(m.head), c)

(* No commit turns off the prune setting of a component, which could act   *)
(* on the old one once more.                                               *)
PruneIsKept ==
  \A m \in Merges : \A c \in Comp :
    Has(m.base, c) /\ Has(m.head, c) /\ m.base.prune[c] => m.head.prune[c]

(* Reported by itself, or with a component it hangs under that moves or    *)
(* goes: a component that is deleted takes along what it applied.          *)
Announced(o) ==
  \/ o \in D001 \cup Moved
  \/ \E d \in Comp \cap (D001 \cup Moved) :
       \E c \in Below(merge.base, d) : o \in merge.base.owns[c]

(* FL-D004 takes what a component it cannot look into takes over for left. *)
TakenOver(o) == o \in D004 /\ \E c \in Unrendered : o \in merge.head.owns[c]

(* Flux deletes nothing of the base that FL-D001 or FL-D003 did not        *)
(* announce, as far as the components that it leaves and that take it over *)
(* could be rendered: in every order in which a component reconciles with  *)
(* its new prune setting (SpecsFirst), or, where no commit turns it off    *)
(* (PruneIsKept), in every order.                                          *)
NothingIsLostSilently ==
  [][\A o \in Object :
       live[o] # "no" /\ live'[o] = "no" /\ Before[o] \notin {None} \cup Unrendered /\ ~TakenOver(o)
         => Announced(o)]_vars

(* Once all have reconciled, what was to be deleted is gone (if it did not *)
(* move to where fluxlint could not look), what was to stay is there, and  *)
(* everything in Git is there in the new version, moved objects included;  *)
(* unless an update was reported as impossible.                            *)
Settled ==
  /\ \A o \in D001 : live[o] = "no" \/ \E c \in merge.head.opaque : o \in merge.head.owns[c]
  /\ \A o \in D004 : live[o] # "no"
  /\ \A c \in merge.head.comps : \A o \in merge.head.owns[c] : live[o] = "head"
SettlesAsReported == <>[](D002 \cup V005 # {} \/ Settled)

(* When a commit arrives every component reconciles once, and then only    *)
(* after its interval: one that substitutes from a ConfigMap that another  *)
(* component of its source applies reads what the commit says, in every    *)
(* order of the two, or FL-T010 said that it may not.  (One that applies   *)
(* the ConfigMap itself always reads the old one.)                         *)
StaleReadsAreReported ==
  \A co \in stale :
    /\ co[2] \in merge.changed
    /\ Has(Tree(merge.head), co[1]) /\ After[co[2]] \notin {None, co[1]}
    /\ merge.head.source[After[co[2]]] = merge.head.source[co[1]]
    => co \in T010(Tree(merge.head))
=============================================================================
