----------------------------- MODULE RenderTree -----------------------------
(***************************************************************************)
(* render.Tree: everything that an entrypoint leads to, level by level.    *)
(* The sources of a level are fetched concurrently, its charts rendered    *)
(* concurrently while the main loop builds its Kustomizations; then its    *)
(* ConfigMaps and sources become visible, its components are substituted   *)
(* in order, and what they render is the next level.                       *)
(*                                                                         *)
(* A component is known by its key.  What it renders to, once it can be    *)
(* built, is given by the repository; a source object, a ConfigMap or a    *)
(* Secret is a name.                                                       *)
(***************************************************************************)
EXTENDS Integers, Sequences, FiniteSets

CONSTANTS
  Comp, Root,   \* component keys; the root's is that of its Kustomization
  Src, Here,    \* Flux sources; the repository under analysis
  Data,         \* ConfigMaps and Secrets that substituteFrom may name
  None,         \* no such ConfigMap, no parent
  Repos         \* the repositories considered

ASSUME RootAssumption ==
  /\ Root \in Comp /\ None \notin Comp /\ Here \notin Src
  /\ None \notin [by : Comp, text : {"raw", "final"}]

RepoType ==
  [helm      : SUBSET Comp,
   source    : [Comp -> Src \cup {Here}],
   yields    : [Comp -> Seq(Comp)],        \* children, in the order rendered
   defines   : [Comp -> SUBSET Src],
   writes    : [Comp -> SUBSET Data],
   reads     : [Comp -> SUBSET Data],      \* substituteFrom, not optional
   templated : SUBSET Comp,                \* has a postBuild
   externals : SUBSET Data,                \* externals.substitutions
   gone      : SUBSET Src,                 \* the resolver returns an error
   unbuilt   : SUBSET Comp,                \* kustomize or Helm fails
   unsubst   : SUBSET Comp,                \* envsubst fails
   resolver  : BOOLEAN]

(* A chart is always fetched and has no postBuild; the root is built from  *)
(* the repository, and has settings of its own only if it renders the      *)
(* Kustomization that applies it, as nobody else does.                     *)
Repo ==
  {r \in RepoType :
     /\ \A c \in r.helm : r.source[c] # Here
     /\ Root \notin r.helm /\ r.source[Root] = Here
     /\ Root \in r.templated => \E i \in 1 .. Len(r.yields[Root]) : r.yields[Root][i] = Root
     /\ \A c \in Comp \ {Root} : \A i \in 1 .. Len(r.yields[c]) : r.yields[c][i] # Root
     /\ \A c \in Comp : r.reads[c] # {} => c \in r.templated
     /\ r.unsubst \subseteq r.templated /\ r.templated \cap r.helm = {}}

ASSUME ReposAssumption == \A r \in Repos : r \in Repo

VARIABLES
  repo,
  phase,      \* "fetch", "build", "substitute", "done"
  level,      \* the components of this level, in order
  pos,        \* where the main loop over the level is
  kid,        \* where the loop over what level[pos] renders is, 0 outside it
  pending,    \* components whose goroutine is not done
  next,       \* the next level, as far as it is known
  comps,      \* Tree.Components
  byKey,      \* the domain of Tree.ByKey
  parent, depth,
  opaque,     \* why a component is not rendered, or "no"
  sources,    \* the domain of renderer.sources
  data,       \* renderer.data: who wrote it, and raw or substituted
  saw,        \* what a component substituted with
  missing     \* MissingSubstituteFrom

tree    == <<comps, byKey, parent, depth>>
visible == <<sources, data>>
vars    == <<repo, phase, level, pos, kid, pending, next, tree, opaque, visible, saw, missing>>

Value == {None} \cup [by : Comp, text : {"raw", "final"}]
Elems(s) == {s[i] : i \in 1 .. Len(s)}
External(c) == repo.source[c] # Here
Charts == {c \in Elems(level) : c \in repo.helm /\ opaque[c] = "no"}

Init ==
  /\ repo \in Repos
  /\ phase = "fetch" /\ level = <<Root>> /\ pos = 1 /\ kid = 0
  /\ pending = {} /\ next = <<>>
  /\ comps = <<>> /\ byKey = {}
  /\ parent = [c \in Comp |-> None] /\ depth = [c \in Comp |-> 0]
  /\ opaque = [c \in Comp |-> "no"]
  /\ sources = {} /\ data = [d \in Data |-> None]
  /\ saw = [c \in Comp |-> [d \in Data |-> None]]
  /\ missing = [c \in Comp |-> {}]

-----------------------------------------------------------------------------
(* What fetch finds out about the source of a component.                   *)
Resolved(c) ==
  IF repo.source[c] \notin sources THEN "undefined"
  ELSE IF ~repo.resolver THEN "noResolver"
  ELSE IF repo.source[c] \in repo.gone THEN "unavailable"
  ELSE "no"

(* Faults, as in Schedule.                                                 *)
FaultKnown(c, k) ==      \* looks at the keys of finished levels only
  k \in Elems(comps) \/ (c = Root /\ k = Root)

FaultFetch(c) ==         \* a return without wg.Done
  /\ phase = "fetch" /\ c \in pending /\ opaque[c] = "no"
  /\ opaque' = [opaque EXCEPT ![c] = Resolved(c)]
  /\ pending' = IF Resolved(c) = "unavailable" THEN pending ELSE pending \ {c}
  /\ UNCHANGED <<repo, phase, level, pos, kid, next, tree, visible, saw, missing>>

FaultIndex ==            \* leaves the data of a level to its substitution
  /\ phase = "build" /\ pos > Len(level) /\ pending = {}
  /\ phase' = "substitute" /\ pos' = 1
  /\ UNCHANGED <<repo, level, kid, pending, next, tree, opaque, visible, saw, missing>>

FaultSubstitute ==       \* indexes what was there before substitution
  /\ phase = "substitute" /\ pos <= Len(level) /\ kid = 0
  /\ LET c == level[pos]
     IN /\ saw' = [saw EXCEPT ![c] = [d \in Data |-> IF d \in repo.reads[c] THEN data[d] ELSE None]]
        /\ missing' = [missing EXCEPT ![c] =
             {d \in repo.reads[c] : data[d] = None /\ d \notin repo.externals}]
  /\ kid' = 1
  /\ UNCHANGED <<repo, phase, level, pos, pending, next, tree, opaque, visible>>

-----------------------------------------------------------------------------
(* fetch: one goroutine per external component whose source is known.      *)
Fetch(c) ==
  /\ phase = "fetch" /\ c \in pending
  /\ opaque' = [opaque EXCEPT ![c] = Resolved(c)]
  /\ pending' = pending \ {c}
  /\ UNCHANGED <<repo, phase, level, pos, kid, next, tree, visible, saw, missing>>

Fetched ==
  /\ phase = "fetch" /\ pending = {}
  /\ phase' = "build" /\ pos' = 1
  /\ pending' = Charts
  /\ UNCHANGED <<repo, level, kid, next, tree, opaque, visible, saw, missing>>

(* A chart is rendered by a goroutine of its own.                          *)
Chart(c) ==
  /\ phase = "build" /\ c \in pending
  /\ opaque' = IF c \in repo.unbuilt THEN [opaque EXCEPT ![c] = "build"] ELSE opaque
  /\ pending' = pending \ {c}
  /\ UNCHANGED <<repo, phase, level, pos, kid, next, tree, visible, saw, missing>>

(* Kustomizations are built one by one, in the main loop.                  *)
Build ==
  /\ phase = "build" /\ pos <= Len(level)
  /\ LET c == level[pos] IN
       /\ comps' = Append(comps, c)
       /\ opaque' = IF c \notin repo.helm /\ opaque[c] = "no" /\ c \in repo.unbuilt
                    THEN [opaque EXCEPT ![c] = "build"] ELSE opaque
  /\ pos' = pos + 1
  /\ UNCHANGED <<repo, phase, level, kid, pending, next, byKey, parent, depth, visible, saw, missing>>

(* After helmWG.Wait(): the level's unsubstituted objects become visible;  *)
(* of two that write the same name the later one wins.                     *)
Text(c) == IF c \in repo.templated THEN "raw" ELSE "final"
Index ==
  /\ phase = "build" /\ pos > Len(level) /\ pending = {}
  /\ LET built == {i \in 1 .. Len(level) : opaque[level[i]] = "no"} IN
       /\ sources' = sources \cup UNION {repo.defines[level[i]] : i \in built}
       /\ data' = [d \in Data |->
            IF \E i \in built : d \in repo.writes[level[i]]
            THEN LET last == CHOOSE i \in built :
                               /\ d \in repo.writes[level[i]]
                               /\ \A j \in built : d \in repo.writes[level[j]] => j <= i
                 IN  [by |-> level[last], text |-> Text(level[last])]
            ELSE data[d]]
  /\ phase' = "substitute" /\ pos' = 1
  /\ UNCHANGED <<repo, level, kid, pending, next, tree, opaque, saw, missing>>

-----------------------------------------------------------------------------
(* What a component leads to gets a place in the next level, unless some   *)
(* component has led to it before.  The Kustomization of the root is the   *)
(* root itself.                                                            *)
Known(c, k) == k \in byKey \/ (c = Root /\ k = Root)

Substitute ==
  /\ phase = "substitute" /\ pos <= Len(level) /\ kid = 0
  /\ LET c == level[pos] IN
     \/ /\ opaque[c] # "no"
        /\ pos' = pos + 1
        /\ UNCHANGED <<kid, opaque, visible, saw, missing>>
     \/ /\ opaque[c] = "no"
        /\ saw' = [saw EXCEPT ![c] = [d \in Data |-> IF d \in repo.reads[c] THEN data[d] ELSE None]]
        /\ missing' = [missing EXCEPT ![c] =
             {d \in repo.reads[c] : data[d] = None /\ d \notin repo.externals}]
        /\ IF c \in repo.unsubst
           THEN /\ opaque' = [opaque EXCEPT ![c] = "substitution"]
                /\ pos' = pos + 1
                /\ UNCHANGED <<kid, visible>>
           ELSE /\ sources' = sources \cup repo.defines[c]
                /\ data' = [d \in Data |->
                     IF d \in repo.writes[c] THEN [by |-> c, text |-> "final"] ELSE data[d]]
                /\ kid' = 1
                /\ UNCHANGED <<pos, opaque>>
  /\ UNCHANGED <<repo, phase, level, pending, next, tree>>

Discover ==
  /\ kid # 0
  /\ LET c == level[pos] IN
     \/ /\ kid > Len(repo.yields[c])
        /\ kid' = 0 /\ pos' = pos + 1
        /\ UNCHANGED <<next, tree>>
     \/ /\ kid <= Len(repo.yields[c])
        /\ kid' = kid + 1
        /\ LET k == repo.yields[c][kid] IN
           IF Known(c, k) THEN UNCHANGED <<next, tree>>
           ELSE /\ next' = Append(next, k)
                /\ byKey' = byKey \cup {k}
                /\ parent' = [parent EXCEPT ![k] = c]
                /\ depth' = [depth EXCEPT ![k] = depth[c] + 1]
                /\ UNCHANGED comps
        /\ UNCHANGED pos
  /\ UNCHANGED <<repo, phase, level, pending, opaque, visible, saw, missing>>

Descend ==
  /\ phase = "substitute" /\ pos > Len(level)
  /\ IF next = <<>>
     THEN /\ phase' = "done" /\ byKey' = byKey \cup {Root}
          /\ UNCHANGED <<level, pos, pending, next>>
     ELSE /\ phase' = "fetch" /\ level' = next /\ next' = <<>> /\ pos' = 1
          /\ pending' = {c \in Elems(next) : External(c)}
          /\ UNCHANGED byKey
  /\ UNCHANGED <<repo, kid, comps, parent, depth, opaque, visible, saw, missing>>

Next ==
  \/ \E c \in Comp : Fetch(c) \/ Chart(c)
  \/ Fetched \/ Build \/ Index \/ Substitute \/ Discover \/ Descend

Spec == Init /\ [][Next]_vars

(* Goroutines are scheduled, and every fetch is bounded by a timeout.      *)
FairSpec == Spec /\ WF_vars(Next)
-----------------------------------------------------------------------------
TypeOK ==
  /\ repo \in Repo
  /\ phase \in {"fetch", "build", "substitute", "done"}
  /\ level \in Seq(Comp) /\ next \in Seq(Comp) /\ comps \in Seq(Comp)
  /\ pos \in 1 .. Len(level) + 1
  /\ kid \in Nat /\ pending \subseteq Elems(level)
  /\ phase # "fetch" => pending \subseteq repo.helm
  /\ byKey \in SUBSET Comp
  /\ parent \in [Comp -> Comp \cup {None}]
  /\ depth \in [Comp -> Nat]
  /\ opaque \in [Comp -> {"no", "undefined", "noResolver", "unavailable", "build", "substitution"}]
  /\ sources \in SUBSET Src
  /\ data \in [Data -> Value]
  /\ saw \in [Comp -> [Data -> Value]]
  /\ missing \in [Comp -> SUBSET Data]

Rendered == {c \in Elems(comps) : opaque[c] = "no"}
Built    == {c \in Elems(comps) : opaque[c] \in {"no", "substitution"}}

(* The tree holds what the entrypoint leads to, each key once, and nothing *)
(* else; a key that several components render belongs to a shallowest one. *)
(* The graph rules take Parent for a tree and Components for "root first". *)
LevelsAreDistances ==
  phase = "done" =>
    /\ Elems(comps) = {Root} \cup UNION {Elems(repo.yields[c]) : c \in Rendered}
    /\ byKey = Elems(comps)
    /\ \A i, j \in 1 .. Len(comps) : i < j =>
         comps[i] # comps[j] /\ depth[comps[i]] <= depth[comps[j]]
    /\ \A k \in Elems(comps) \ {Root} :
         /\ parent[k] \in Rendered /\ k \in Elems(repo.yields[parent[k]])
         /\ depth[k] = depth[parent[k]] + 1
         /\ \A c \in Rendered : k \in Elems(repo.yields[c]) => depth[parent[k]] <= depth[c]

(* What any component of an earlier level renders is there to be used, be  *)
(* it a source to fetch or data to substitute with; data of the same level *)
(* is there too.                                                           *)
EarlierLevelsAreVisible ==
  phase = "done" =>
    \A c \in Elems(comps), w \in Built :
      /\ opaque[c] = "undefined" /\ repo.source[c] \in repo.defines[w] => depth[w] >= depth[c]
      /\ missing[c] \cap repo.writes[w] # {} => depth[w] > depth[c]

(* Nobody substitutes with text that is still to be substituted itself,    *)
(* except from its own level, or from a component whose substitution       *)
(* failed.                                                                 *)
EarlierLevelsAreFinal ==
  \A c \in Comp, d \in Data :
    saw[c][d] # None /\ saw[c][d].text = "raw" =>
      LET w == saw[c][d].by IN depth[w] = depth[c] \/ opaque[w] = "substitution"

(* Rendering ends, whatever renders whatever.                              *)
Terminates == <>(phase = "done")
=============================================================================
