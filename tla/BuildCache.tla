----------------------------- MODULE BuildCache -----------------------------
(***************************************************************************)
(* render.BuildCache: the renders of two commits, and of several           *)
(* entrypoints, share kustomize builds and rendered charts.  A build       *)
(* records what it asks of its checkout; another render may take its       *)
(* result when the same questions have the same answers there.             *)
(*                                                                         *)
(* A path is a sequence of names below the root of a checkout.  What       *)
(* kustomize itself reads is external: it follows the resources of a       *)
(* kustomization file.                                                     *)
(***************************************************************************)
EXTENDS Integers, Sequences, FiniteSets, SequencesExt

CONSTANTS
  Path,        \* the paths some checkout has, closed under parents
  K,           \* the name kustomization.yaml
  Yaml,        \* names that end in .yaml or .yml, K among them
  Object,      \* what manifests hold
  Remote,      \* a resource that kustomize reads outside the checkout
  Commit,      \* the commits considered
  Tree,        \* what each of them holds
  Checkouts,   \* the pairs [head, base] of commits considered
  Builds,      \* kustomize builds: [entrypoint, tree, dir, overlay]
  Charts       \* releases: [tree, release, external, source, revision, floating,
               \*            content, spec, kube, apis]; release is the object

Absent == [is |-> "absent", holds |-> {}]
Entry == [is : {"absent", "dir", "file"}, holds : SUBSET (Object \cup Path \cup {Remote})]

ASSUME TreeAssumption ==
  /\ Path \subseteq Seq(STRING)
  /\ Tree \in [Commit -> [files : [Path -> Entry], ignored : SUBSET Path]]
  /\ Checkouts \subseteq [head : Commit, base : Commit]
  /\ \A j \in Builds \cup Charts : j.tree \in {"head", "base"}
  /\ Builds \cap Charts = {}

ASSUME ChartsAssumption ==   \* PinnedServesCorrect of Resolver_proofs; a release of Kubernetes serves one list
  \A c, d \in Charts :
    /\ IsFiniteSet(c.apis)
    /\ c.revision = d.revision /\ c.source = d.source /\ ~c.floating /\ ~d.floating
         => c.content = d.content
    /\ c.kube = d.kube /\ c.apis # {} /\ d.apis # {} => c.apis = d.apis

VARIABLES
  checkout,    \* the commit of each tree
  entries,     \* BuildCache.entries
  charts,      \* BuildCache.charts
  pc, cand,    \* where a build or release is, and the entries it looked up
  got          \* what it answered

vars == <<checkout, entries, charts, pc, cand, got>>
Jobs == Builds \cup Charts

-----------------------------------------------------------------------------
(* A checkout as a render sees it.                                         *)
Hidden(co, p) == \E q \in co.ignored : IsPrefix(q, p)
View(co)      == [p \in Path |-> IF Hidden(co, p) THEN Absent ELSE co.files[p]]
At(v, p)      == IF p \in Path THEN v[p] ELSE Absent
Is(v, p, k)   == At(v, p).is = k
Kust(d)       == Append(d, K)
Children(d)   == {p \in Path \ {<<>>} : Front(p) = d}

(* What is reached from S when r leads to f[r].                            *)
Reached(S, f) ==
  {p \in DOMAIN f : \A T \in SUBSET DOMAIN f :
     S \cap DOMAIN f \subseteq T /\ (\A r \in T : f[r] \subseteq T) => p \in T}

Observe(v, op, p) ==
  CASE op = "f" -> IF Is(v, p, "file") THEN v[p] ELSE Absent
    [] op = "d" -> IF Is(v, p, "dir")
                     THEN [is |-> "dir", holds |-> {q \in Children(p) : ~Is(v, q, "absent")}]
                     ELSE Absent
    [] op = "s" -> [is |-> At(v, p).is, holds |-> {}]

Probe(v, op, ps) == {[op |-> op, rel |-> p, sum |-> Observe(v, op, p)] : p \in ps}

(* The resource list that stands in for a missing kustomization file, and  *)
(* what the walk that makes it asks.  hasKustomization looks at the disk,  *)
(* not through the ignore rules.                                           *)
HasKustomization(co, d) == Is(co.files, Kust(d), "file")
Walked(co, dir) ==
  LET dirs   == {d \in Path : Is(co.files, d, "dir")}
      below == [d \in dirs |-> {p \in Children(d) \cap dirs : ~Hidden(co, p) /\ ~HasKustomization(co, p)}]
  IN  Reached({dir}, below)
Found(co, dir, k) ==
  {p \in UNION {Children(d) : d \in Walked(co, dir)} : ~Hidden(co, p) /\ Is(co.files, p, k)}
YamlFound(co, dir) == {p \in Found(co, dir, "file") : Last(p) \in Yaml}
GenerateResources(co, dir) ==
  YamlFound(co, dir) \cup {d \in Found(co, dir, "dir") : HasKustomization(co, d)}
FaultNotedByWalk(co, dir) ==   \* lists only the directory it starts from
  LET v == View(co) IN
  Probe(v, "s", {Kust(d) : d \in Found(co, dir, "dir")})
    \cup Probe(v, "d", {dir}) \cup Probe(v, "f", YamlFound(co, dir))
NotedByWalk(co, dir) ==
  LET v == View(co) IN
  Probe(v, "s", {Kust(d) : d \in Found(co, dir, "dir")})
    \cup Probe(v, "d", Walked(co, dir)) \cup Probe(v, "f", YamlFound(co, dir))

WrapperResources(co, b) ==
  (IF HasKustomization(co, b.dir) THEN {b.dir} ELSE GenerateResources(co, b.dir))
    \cup {b.dir \o c : c \in b.overlay.components}
NotedByWrapper(co, b) ==
  Probe(View(co), "s", {Kust(b.dir)})
    \cup IF HasKustomization(co, b.dir) THEN {} ELSE NotedByWalk(co, b.dir)

-----------------------------------------------------------------------------
(* krusty.Kustomizer.Run: a resource is tried as a file, then as a         *)
(* directory with a kustomization file; resources must decode and must not *)
(* include themselves.                                                     *)
Lists(v, r) ==
  IF Is(v, r, "dir") /\ Is(v, Kust(r), "file") THEN At(v, Kust(r)).holds ELSE {}

Included(v, S) ==
  LET named == S \cup UNION {Lists(v, d) : d \in Path}
  IN  Reached(S, [r \in named |-> IF r = Remote THEN {} ELSE Lists(v, r)])

Decodes(v, r) == Is(v, r, "file") /\ At(v, r).holds \subseteq Object /\ At(v, r).holds # {}
Resources(co, b) == Included(View(co), WrapperResources(co, b))

Succeeds(co, b) ==
  LET v == View(co) IN
  /\ Is(co.files, b.dir, "dir")
  /\ HasKustomization(co, b.dir) \/ \A p \in YamlFound(co, b.dir) : Decodes(v, p)
  /\ \A r \in Resources(co, b) \ {Remote} :
       \/ Decodes(v, r)
       \/ Lists(v, r) # {} /\ r \notin Included(v, Lists(v, r))

NotedByKustomize(co, b) ==
  LET v == View(co)
      rs == Resources(co, b) \ {Remote}
      ds == {r \in rs : ~Is(v, r, "file")}
  IN  Probe(v, "f", rs) \cup Probe(v, "s", ds) \cup Probe(v, "f", {Kust(d) : d \in ds})

Objects(co, b) ==
  UNION {IF Is(View(co), r, "file") THEN At(View(co), r).holds ELSE {} : r \in Resources(co, b) \ {Remote}}

Cacheable(co, b) == Remote \notin Resources(co, b)

Fresh(co, b) ==
  IF Succeeds(co, b) THEN [ok |-> TRUE, objects |-> Objects(co, b), overlay |-> b.overlay]
                     ELSE [ok |-> FALSE, objects |-> {}, overlay |-> b.overlay]

(* What a build of each commit comes to, worked out once.                  *)
Outcomes ==
  {[commit    |-> c,
    build     |-> b,
    result    |-> Fresh(Tree[c], b),
    probes    |-> NotedByWrapper(Tree[c], b) \cup NotedByKustomize(Tree[c], b),
    cacheable |-> Cacheable(Tree[c], b)] : c \in Commit, b \in Builds}
Seen == [c \in Commit |-> View(Tree[c])]

-----------------------------------------------------------------------------
(* Kustomize builds.                                                       *)
OverlayKey(b) == [dir |-> b.dir, overlay |-> b.overlay]
Co(j) == checkout[j.tree]
Made(b) == CHOOSE o \in Outcomes : o.commit = Co(b) /\ o.build = b
Replays(b, e) == \A p \in e.probes : Observe(Seen[Co(b)], p.op, p.rel) = p.sum

Init ==
  /\ checkout \in Checkouts
  /\ entries = [k \in {OverlayKey(b) : b \in Builds} |-> <<>>]
  /\ charts = {}
  /\ pc = [j \in Jobs |-> "start"]
  /\ cand = [b \in Builds |-> <<>>]
  /\ got = [j \in Jobs |-> <<>>]

Ended(j) == pc[j] \in {"done", "reused"}
Go(j, from, to) == pc[j] = from /\ pc' = [pc EXCEPT ![j] = to]

(* An entrypoint renders the base after the head.  What is no directory    *)
(* fails before any entry is looked at.  The candidates are copied under   *)
(* the lock and compared outside it.                                       *)
Lookup(b) ==
  /\ b.tree = "base" =>
       \A a \in Builds : a.entrypoint = b.entrypoint /\ a.tree = "head" => Ended(a)
  /\ Go(b, "start", "replay")
  /\ cand' = [cand EXCEPT ![b] = IF Is(Tree[Co(b)].files, b.dir, "dir") THEN entries[OverlayKey(b)] ELSE <<>>]
  /\ UNCHANGED <<checkout, entries, charts, got>>

Hit(b) ==
  /\ Go(b, "replay", "reused")
  /\ LET ok(i) == Replays(b, cand[b][i]) IN
     \E i \in DOMAIN cand[b] :
       /\ ok(i) /\ \A h \in 1 .. i - 1 : ~ok(h)
       /\ got' = [got EXCEPT ![b] = cand[b][i].result]
  /\ UNCHANGED <<checkout, entries, charts, cand>>

(* A miss builds; what failed is not stored.                               *)
Build(b) ==
  /\ pc[b] = "replay"
  /\ \A i \in DOMAIN cand[b] : ~Replays(b, cand[b][i])
  /\ got' = [got EXCEPT ![b] = Made(b).result]
  /\ pc' = [pc EXCEPT ![b] = IF got'[b].ok THEN "store" ELSE "done"]
  /\ UNCHANGED <<checkout, entries, charts, cand>>

Store(b) ==
  /\ Go(b, "store", "done")
  /\ entries' = IF ~Made(b).cacheable THEN entries ELSE
       [entries EXCEPT ![OverlayKey(b)] =
          Append(@, [probes |-> Made(b).probes, result |-> got[b]])]
  /\ UNCHANGED <<checkout, charts, cand, got>>

-----------------------------------------------------------------------------
(* Charts: the key alone decides; no key, no sharing.                      *)
Shared(c) == c.external /\ c.revision # "" /\ ~c.floating
ChartKey(c) == [source |-> c.source, revision |-> c.revision, spec |-> c.spec,
                kube |-> c.kube, apis |-> Cardinality(c.apis)]
FreshChart(c) ==
  [content |-> c.content, spec |-> c.spec, kube |-> c.kube, apis |-> c.apis]

Rendered(c) ==   \* by an earlier level of its tree
  \E b \in Builds : b.tree = c.tree /\ Ended(b) /\ c.release \in got[b].objects

ChartHit(c) ==
  /\ Rendered(c) /\ Shared(c)
  /\ Go(c, "start", "reused")
  /\ \E e \in charts : e.key = ChartKey(c) /\ got' = [got EXCEPT ![c] = e.result]
  /\ UNCHANGED <<checkout, entries, charts, cand>>

HelmTemplate(c) ==
  /\ Rendered(c)
  /\ Go(c, "start", "store")
  /\ Shared(c) => \A e \in charts : e.key # ChartKey(c)
  /\ got' = [got EXCEPT ![c] = FreshChart(c)]
  /\ UNCHANGED <<checkout, entries, charts, cand>>

StoreChart(c) ==
  /\ Go(c, "store", "done")
  /\ charts' = IF Shared(c)
       THEN {e \in charts : e.key # ChartKey(c)} \cup {[key |-> ChartKey(c), result |-> got[c]]}
       ELSE charts
  /\ UNCHANGED <<checkout, entries, cand, got>>

Next ==
  \/ \E b \in Builds : Lookup(b) \/ Hit(b) \/ Build(b) \/ Store(b)
  \/ \E c \in Charts : ChartHit(c) \/ HelmTemplate(c) \/ StoreChart(c)

Spec == Init /\ [][Next]_vars

-----------------------------------------------------------------------------
(* What an observation does not tell apart: an entry that is a file here   *)
(* and a directory there, and a kustomization file that the ignore rules   *)
(* leave out while its directory is built or walked.                       *)
KindsStay ==
  \A c, d \in Commit, p \in Path : {Tree[c].files[p].is, Tree[d].files[p].is} # {"dir", "file"}
KustomizationsShow ==
  \A c \in Commit : \A d \in Path :
    HasKustomization(Tree[c], d) /\ Hidden(Tree[c], Kust(d)) =>
      Hidden(Tree[c], d) /\ \A b \in Builds : b.dir # d

(* A result that was taken over from another render, of another commit     *)
(* even, is the one this render would have computed itself: for every way  *)
(* in which the two checkouts can differ, and every order of the renders.  *)
ReusedIsFresh ==
  \A j \in Jobs : pc[j] = "reused" =>
    got[j] = IF j \in Builds THEN Made(j).result ELSE FreshChart(j)
=============================================================================
