# fluxlint in TLA+

fluxlint reads the Git repository of a cluster that Flux manages, renders it as
Flux would, and says what will go wrong: deadlocks in the bootstrap, missing
objects, races left to retries, and what a change does to a running cluster. It
is a Go program that runs once per invocation; its concurrency is goroutines
within a run, its persistence a cache directory that runs share, and its
subject is the concurrency of somebody else, the Flux controllers.

The development therefore models three things: the algorithms fluxlint decides
by, the controllers those decisions are about, and the concurrent parts of the
program itself.

## Inventory

The pipeline is `check()` in `cmd/fluxlint/main.go`. For every entrypoint one
goroutine renders the tree (`render.Tree`), runs the rules (`lint.Run`) and,
with `--base`, renders the tree of an older commit and compares
(`lint.Compare`). All goroutines share one `source.Resolver` and one
`render.BuildCache`.

| Component | State | Operations | Interacts through | What is hard | What makes it correct |
| --- | --- | --- | --- | --- | --- |
| Graph solver, `pkg/graph` | in-degrees, queue, earliest and latest times, predecessors | `Solve`, `topo`, `Cycles`, `Reachable`, `MakespanWithout` | called by the rules | cycles, parallel edges, boundaries of the two passes | verdict = cycle; times solve the max-plus equations; the critical path has no slack |
| Event graph and ordering rules, `pkg/lint` events, index, rules_graph, rules_timing, rules_runtime | index of exports, needs, findings | `buildIndex`, `addNeed`, `declaredGraph`, `fullGraph`, FL-G*, FL-R00*, FL-T* | reads `model.Tree`; feeds the solver | edges are claims about controllers that run concurrently and retry | every edge is a real precedence; no finding means that the cluster converges |
| Source resolver, `pkg/source` source, git, oci | `once`, `down`, cache slots and meta files on disk | `Resolve`, `git`, `oci`, `hostDown`, `markDown` | goroutines of every level of every tree; later runs through the disk | single flight, dead hosts, replacement of a slot, kills | one answer per source and run; a later run is never served half a tree |
| Helm charts, `pkg/source/helm.go` | chart slots, `indexes` | `Chart`, `httpChart`, `helmIndex` | as above, and other processes on the same cache directory | `httpChart` is not memoised, the index is | a chart is loaded whole |
| Published schemas, `openapi.go`, `kubeschemas.go` | schema slots, absent markers, `schemas` | `KubeSchema`, `kubeFile`, `KubeAPIVersions`, `loadKubeSchemas` | goroutines of several trees | one temporary file per slot, recursion on 404, answers remembered for ever | a cached document is whole; all schemas or none; "absent" means that the release does not serve it |
| Image contracts and checks, `contract.go`, `image.go`, `imagecontract.go`, `imageverify.go` | two cache files per image, `contracts`, `images` | `ImageContract`, `Image` | goroutines of several trees | two files written one after the other | an answer "no contract" is never a torn write |
| Tree rendering, `pkg/render/tree.go` | levels, `ByKey`, `data`, `sources`, opaque components | `Tree`, `fetch`, `indexData`, `substitute`, `adoptBootstrap` | resolver, build cache | data becomes visible level by level; charts render concurrently | each object once; visible data is that of earlier levels; it ends |
| Build cache, `buildcache.go` | entries with recorded observations | `lookup`, `store`, `observe` | all trees | reuse across two checkouts | a hit is what a build would give |
| Builds, `build.go`, `helm.go`, ignore files | none that lasts | `build`, `writeWrapper`, `generateResources`, `helmTemplate` | kustomize, Helm; the build cache records what they ask | which questions a build asks of its checkout | every question is recorded |
| Base comparison, `diff.go`, `base.go` | fingerprints, owners before and after | `Compare`, `transitionRules` | two trees of one entrypoint | what could not be rendered; components that reconcile in any order | nothing is deleted unannounced, and what is announced happens |
| Check command, `main.go`, `report.go` | results, errors, the base checkout | `check`, `Failed` | all of the above | partial failure | the exit status reflects every entrypoint; the checkout outlives its readers |
| Cluster state, `cluster.go` | none | `clusterRules` | the findings of a run, the status of a cluster | failures that excuse each other | every failure is predicted, reported or repeats one that is |
| Clusters, `clusters.go`, `resourcesets.go` | one index per cluster, one merged | `clusterIndexes`, `mergeIndexes` | event graph | objects meet within a cluster, ordering spans all | |
| Wiring, `wiring.go`, `rules_runtime.go`, part of `rules_reconcile.go` | producers of Secrets, ConfigMaps, accounts | `buildWiring`, `linkRuntime`, FL-R001/2/9/11/12/14/15 | event graph | objects that wait for objects, in any order | no finding means that everything gets what it waits for |
| Admission, part of `rules_reconcile.go`, `kyverno_gate.go`, `rules_admission.go`, `rules_policy.go`, `pkg/policy` | webhooks, policies | `admissionWindows`, `singlePodGates`, `kyvernoGates`, `admissionRules` | declared graph | when a webhook can intercept, now and at later reconciles | every rejection is foretold |
| Other rules, validation, configuration, reports, auxiliary commands | none | pure scans | | | |

## Modules

| Module | What it is | Code |
| --- | --- | --- |
| `Schedule` | `topo` and `Solve`, one action per loop body | `pkg/graph/graph.go` |
| `EventGraph` | pure definitions: a repository, its needs, its graphs, its findings | `pkg/lint/events.go`, `index.go`, `rules_graph.go`, `rules_timing.go`, `rules_runtime.go` |
| `Bootstrap` | the controllers that bring such a repository up | external, from the comments of the same files |
| `SharedAnswer` | what the resolver promises: one answer per key, returned to all | `pkg/source/source.go` |
| `Resolver` | how: calls, slots, dead hosts, runs, kills; implements `SharedAnswer` | `pkg/source/source.go`, `git.go`, `oci.go` |
| `Documents` | the cache of single files: charts, schemas, contracts, image answers | `pkg/source/helm.go`, `openapi.go`, `contract.go`, `image.go`, `pkg/render/kubeschemas.go`, `imagecontract.go` |
| `RenderTree` | the tree of an entrypoint, level by level | `pkg/render/tree.go` |
| `BuildCache` | builds and charts that several renders share, and what builds observe | `pkg/render/buildcache.go`, `build.go`, `helm.go`, `ignore.go` |
| `Check` | the command from its arguments to its exit status | `cmd/fluxlint/main.go`, `base.go`, `pkg/lint/diff.go` |
| `ClusterState` | pure definitions: findings beside the status of a cluster | `pkg/lint/cluster.go` |
| `Transition` | the report on a merge, and the cluster that makes it | `pkg/lint/diff.go` |
| `Wiring` | pure definitions: who creates what objects wait for | `pkg/lint/wiring.go`, `rules_runtime.go`, `rules_reconcile.go` |
| `Admission` | pure definitions: webhooks, whom they select, what is said about it | `pkg/lint/rules_reconcile.go`, `kyverno_gate.go`, `rules_runtime.go` |
| `Reconcile` | the cluster in which those webhooks refuse and those objects wait | external, from the comments of the same files |
| `Schedule_proofs`, `Bootstrap_proofs`, `Resolver_proofs`, `Documents_proofs`, `RenderTree_proofs`, `BuildCache_proofs`, `Comparison_proofs` (of `Check` and `Transition`), `Reconcile_proofs` | type correctness and safety of these modules, proved | |
| `MC*` | the small instances TLC checks | |

`Bootstrap` EXTENDS `EventGraph`: the repository is analysed in the initial
state, and the findings stand next to the cluster's behaviour. `Wiring` EXTENDS
`EventGraph` with objects, `Admission` EXTENDS `Wiring`, and `Reconcile` puts a
cluster beside both in the same way. `Check` EXTENDS `ClusterState`, the last
rule it runs. `Resolver` INSTANCEs `SharedAnswer`. `RenderTree` sees the
resolver only through the outcome of a fetch, `Check` sees rendering and the
rules only through what they come to, and `EventGraph` sees the tree only as
parents, dependencies and needs.

### Schedule

The state is that of the two functions: `indeg`, the queue (`order` holds every
event ever queued, `order[1..head]` those that came out), the edges of the
popped event still to follow (`scan`), then `pos` of the forward and the
backward loop and the fields of `graph.Schedule`. `Seed`, `Pop`, `Follow` and
`Sorted` are the loops of `topo`; `Relax`, `TurnBack`, `PullBack` and `Solved`
those of `Solve`. The inner loop over the in-edges of one event is one step: it
leaves the largest arrival and an edge that attains it. The order in which
adjacency lists are walked is left open, so the properties hold for all of them.

### EventGraph and Bootstrap

`EventGraph` has no variables. `Declared` is `declaredGraph`, `Full` is
`fullGraph`, `Kept` and `Dropped` are `addNeed`, `NeedFrom`, `NeedTo` and
`Matters` are `needEdge` and `Need.matters`, and `Findings` is what the rules
about order report. `buildIndex` looks at a source once per rendering component
(`once("src|")`), although the need it makes is that of the child: the needs of
further children built from that source are `repeated`, and not kept
(`SameSource`). Which child comes first is the order of the rendered objects, so
a repository says it. A cycle is a set of events each of which waits for another
of the set, and reachability is membership in every closed set: both equal the
depth-first searches of `graph.go` on finite graphs (`MCSchedule` compares the
first with a transitive closure), and both can be reasoned about without
recursion.

`Bootstrap` is not in the repository: kustomize-controller, helm-controller and
the API server do what fluxlint's comments say they do. A component is
attempted once its object exists (its parent was applied) and its dependencies
are ready; an apply that lacks something is rejected (`FailApply`) and tried
again; `BecomeReady` waits for children under `wait: true`, for what
healthChecks name, for the pods' ConfigMaps and Secrets, and for a chart.

### Resolver

One variable per field or file: `once`, `res` (`Resolver.once`, `call.res`),
`down`, and the slot's `tree` and `meta`. `pc` is where the goroutine of a call
is. Each step that another goroutine or a kill can come between is an action:
`Begin` (the locked look-up of `Resolve`), `Lookup` (`readMeta`, `dirExists`),
`Ask` (`hostDown`), the network's answer (`NoConnection`, `Refuse`, `Fetch`),
`Mark` (`markDown`), `Remove` (twice: `os.RemoveAll` has a middle), `Rename`,
`Truncate` and `WriteMeta` (`os.WriteFile` has one too). `Faults` are the steps
that the file system may refuse: as in the code, a removal that fails goes
unnoticed, a rename counts as failed only if no directory is there, and a meta
file that cannot be opened or written ends the call; `failures` records them.
`Mark` merges `markDown` with the publication of the answer. `Use` is the
renderer reading the directory. Runs follow one another over the same disk;
`Crash` ends one at any step; `Push` moves a remote ref.

### RenderTree

`level`, `next`, `comps`, `byKey`, `sources` and `data` are the variables of
`Tree` and `renderer`; `parent` is `Component.Parent`, `opaque` and `missing`
are `Component.Opaque` and `MissingSubstituteFrom`. `depth` and `saw` (what a
component substituted with) are kept for the properties only. `Fetch` and
`Chart` are the goroutines, `Build` is one round of the main loop, `Index` comes
after `helmWG.Wait()`. `Substitute` begins a round of the last loop
(substitution, `indexData`), `Discover` is one round of the loop inside it, over
what the component renders, with `kid` for its place there; `Known` is its
look-up in `Tree.ByKey`. `Descend` is the end of a level. What a component
renders to is given by the repository, which the initial state chooses.

### Documents

`disk` maps paths to files, `fd` is the file a call has open: a rename moves a
file that is still being written, and the writer does not notice, as in a file
system. `HttpChart`, `KubeFile`, `ImageContract` and `ImageAnswer` are the four
functions, one disjunct per step that a kill or another call can come between;
`at` is the document a call is about just now, which differs from its own while
`kubeFile` asks for the core document after a 404 and while `KubeAPIVersions`
goes through its three documents (`Answer` decides what follows). `Schemas` is
`loadKubeSchemas`. `Publish` is the day a release appears. On a disk that may
run full (`full`, a field of the job) a write can fail: also that of the absent
marker (`Mark`), whose error `openapi.go:135` ignores, so that nothing stays and
the answer is the same.

### BuildCache

`entries` and `charts` are the two maps of `render.BuildCache`. `Observe` is
`observe` for the three kinds of question, `NotedByWrapper`, `NotedByWalk` and
`NotedByKustomize` what a build asks. `Lookup` copies the candidates under the
lock, `Hit` is the first whose probes all replay, `Build` and `Store` the rest.
What a walk or kustomize comes to is what is `Reached` from where it starts, so
that a loop among resources needs no case of its own. A checkout is a function
from paths to what is there, seen through its ignore rules. kustomize is
external and does what its resource lists say.

### Check and ClusterState

`main`, `pc`, `results`, `errs` and `exit` are the variables of `check()` and
its goroutines, `base` the directory that `checkoutBase` makes. `Head`, `Base`
and `Compare` are the three parts of a goroutine; `Return` is any return, with
what was deferred. `ClusterState` is `clusterRules`, `Accounted` what it is
meant to achieve, as a least fixed point over the excuses.

### Transition

`D001`, `D002`, `D004`, `V005` and `Moved` (FL-D003) are `transitionRules`, on
the two trees as fluxlint sees them: nothing hangs under an opaque component.
The cluster has an inventory per component; `Reconcile` applies and then
collects what left the inventory, `Finalize` deletes a component with what it
applied. A component acts with the spec that was last applied. `T010` is
FL-T010; `applied` and `stale` record which ConfigMaps a component read too
early when the commit arrived.

### Wiring, Admission, Reconcile

An object is a record of its kind, its component and the fields the rules read.
`Makes` is what `buildWiring` lists as created by an object, `Claims` and
`ContestedSecrets` are FL-R011, `Gates`, `First`, `Windows` and `SinglePods` are
`admissionWindows`. `Selects` has three outcomes, as the code: a label that Git
does not set may be set at run time (`extra`, chosen initially).

In `Reconcile` an apply that a registered webhook intercepts is rejected while
no pod answers behind its Service (`Reject`), at the first attempt or when a
component reconciles again. `ComeUp` and `Claim` are pods, sources, releases,
certificates and ExternalSecrets that find what they wait for, `Register` is
Kyverno, `Restart` the loss of a webhook's only pod, `Reapply` and `Contend` the
two writers of a field.

## Runs

| Run | Instance | What it shows |
| --- | --- | --- |
| `schedule` | every multigraph of 3 events and 4 edges with weights 0 and 2, up to the names of the edges | the verdict of `topo` is "there is a cycle"; the order, the earliest times, the slack and the critical path are right; `Solve` returns |
| `bootstrap` | every repository of a root, 2 components with up to 2 dependencies, or 1 and an import, or 2 imports, or 1 and healthChecks, and a last one that waits for a component; and of a root and 3 with 2 dependencies, of which 2 siblings are built from a source that the third holds | declared edges are real precedences; the events of a hard cycle never happen; a repository without findings is never stuck and converges; without FL-T006 no apply is rejected |
| `resolver` | 1 run, 3 calls: two for a floating artifact, one for a pinned one on the same host; each step of replacing a slot may fail | one resolution per source, one answer for all, dead hosts only after a failed connection, every call returns, and the run implements `SharedAnswer` |
| `cache` | 3 runs over one pinned slot, two of them may be killed; each step of replacing the slot may fail | a later run is served whole revisions only, unless a removal failed, and ends |
| `render` | some 6,700 repositories of a root and 3 components: shared children and cycles with failures; places of sources, data and readers | the tree is what the entrypoint leads to, each key once and under a shallowest component that renders it; earlier levels are visible, and final; rendering ends |
| `build_cache` | 2 entrypoints and pairs of commits that differ in up to 2 of: the kustomization file, a manifest, a directory, the shared base, ignore rules | a reused build or chart is what would have been built |
| `check` | 2 entrypoints with every mix of failures and findings; 1 entrypoint beside a cluster of 4 components | the exit status, on every path; the base checkout outlives its readers and is removed; every failure of the cluster is accounted for |
| `transition` | a root, 2 children, 1 component below one of them and 2 objects, that move, go, change, are opaque or are substituted from | nothing is deleted unannounced in any order in which components know their new prune setting; what was announced happens, and all of Git is there in the end; a stale read was foretold |
| `documents` | 3 runs, one after the other, or at the same time for charts; refusals, full disks, kills | charts and contracts are read whole; schemas are the release's, all or none; what was fetched stays, absent markers where the disk has room |
| `absent_schema` | one run that asks for the core document and for one that the release does not serve | violated: see Findings |
| `reconcile` | 3 components with a webhook in front of what one applies, or with waits, their producers and their orders | no apply is rejected unforetold; a repository without findings settles, and stays |
| `hidden_gate` | the same with two webhooks in front of one object | violated: see Findings |

### Bounds, and why they are enough

- `schedule`: three events have a source, a middle and a sink, and are the least
  with a cycle that an acyclic part leads into; four edges give parallel edges
  with different weights, self loops and joins. The theorems
  cover the rest.
- `bootstrap`: `MaxDeps` is 2. With a root and two components there are nesting,
  siblings, self-dependency, dependency on the parent and on the child, and
  mutual imports. A repeated source takes a root, two siblings and the component
  that holds the source. The safety theorems hold for all sizes; convergence is
  checked at this size only.
- `resolver`, `cache`: two calls of one key and one of another are what single
  flight and dead hosts speak about. `MaxPush` 1 gives two revisions, so old
  and new can be told apart. `MaxCrash` 2 with three runs lets a second kill
  hit what the first one left.
- `render`: three components below the root give a chain of four levels, a
  child rendered by two components of one level or of two, a cycle, and a
  component that renders its own ancestor's sibling. One source and one
  ConfigMap suffice because each property speaks of one at a time.
- `build_cache`: a probe speaks of one path, and what it misses shows between
  two commits that differ there; two differences let one hide the other. Two
  builds of one directory with one overlay and one of another overlay give hits
  across commits and misses across overlays.
- `check`: two goroutines are enough for one to be early and one late. Four
  components give a chain of two excuses below the root.
- `transition`: two levels below the root, so that a deletion cascades, and a
  sibling to move to. Objects do not interact, so two (one below each level)
  suffice.
- `documents`: a third run finds what a second one made of what the first one
  left. Documents interact only where `kubeFile` or `KubeAPIVersions` goes from
  one to another, and those are asked for together.
- `reconcile`: a webhook, what it guards and what its pod waits for may be three
  components. One restart is enough, since a rejection depends on the last one.

The runs turn the deadlock check off because each of these systems stops: a
solved graph, a converged cluster, runs that are over, a finished tree. That
they do not stop early is what the liveness properties say.

### Fairness

- `Schedule`, `RenderTree`, `Check`: a program that has something to do goes on,
  so weak fairness of `Next`. For `RenderTree` and `Check` this includes the
  goroutines the main loop waits for: the Go scheduler runs them, and
  `Options.Timeout` bounds each fetch.
- `Bootstrap`: controllers requeue for ever, so weak fairness of each
  component's apply, establishment and readiness. Nothing is assumed of
  rejected applies.
- `Resolver`: weak fairness of each call's next step (scheduling and timeouts)
  and of the start and end of runs. No fairness for kills and pushes.
- `Transition`: every Kustomization reconciles again after its interval, and
  finalizers are retried: weak fairness of each component's two actions.
- `Reconcile`: the same for each component's progress (`Advance`), and for
  `Reapply` and `Contend`, each of them its own controller's loop, so neither
  writer of a field can be assumed to give up. No fairness for rejections and
  restarts.
- `BuildCache`, `Documents`: safety only.

### What is assumed

Conditions under which the properties are stated or the instances are drawn.
Each has a name, and the known gaps say what happens without it.

- `KeysAreSlots` (`Resolver_proofs`; the instances of the runs): no two keys
  share a slot. `ServesCorrect` also wants pinned refs (`Floating = {}`, as in
  `cache`) or no kills (`MaxCrash = 0`). See the known gaps.
- `HealthChecksWait`, `LateNeedsKept` (`Bootstrap`): see the known gaps.
- `SourcesSeen` (`Bootstrap`): declared edges order the source needs that
  `buildIndex` passes over.
- `Sound` (`Resolver`): the old tree of this slot could be removed and, if its
  ref floats, its meta file opened.
- `ChartsAssumption` (`BuildCache`): a pinned revision has one content, which
  is what `PinnedServesCorrect` proves of the resolver; one release of
  Kubernetes serves one list of APIs.
- `KindsStay`, `KustomizationsShow` (`BuildCache`): no path is a file in one
  commit and a directory in another, and ignore rules leave out a kustomization
  file only with its directory. `TypeChanges` and `HiddenKustomizations`
  (`MCBuildCache`), FALSE, lift them: see the gaps.
- `RootAssumption`, `ReposAssumption` (`RenderTree`): charts come from outside
  the repository, the root does not; nobody but the root renders the root.
- `Waiting` (`MCCheck`), TRUE, and `GroundedCases` (`Comparison_proofs`): no
  component leads back to itself through dependencies and children
  (`Grounded`). FL-G002 reports such a cycle when the parent waits.
- `CasesAssumption` (`Check`): the arguments are among the entrypoints, and a
  base revision or an entrypoint at the base is in one of three conditions.
- `SpecsFirst` (`Transition`), TRUE: a component reconciles with its new prune
  setting, that is after its parent. Flux does not promise it: as
  `rules_timing.go:164-165` says, components reconcile as soon as a revision
  arrives. `PruneIsKept`: no commit turns a prune setting off, which serves as
  well for what is not to be lost (`LossIsAnnounced`). `Usual` (`MCTransition`):
  see the gaps.
- `MergesAssumption` (`Transition`): one owner per object (FL-G003 reports
  others), components that form a tree, and a base that could be rendered.
- `NothingHangsHidden`, `ChainsStay` (`Transition`): nothing lies below a
  component that could not be rendered, and dependencies that come back to a
  source do not leave it in between. Merges without them are among the gaps.
- `Apart` (`Documents`): processes share a cache directory at the same time for
  charts only, and no two calls of a run may fetch the same document of those
  that never change. `absent_schema` is what happens without it.
- `DocumentsAssumption` (`Documents`): each kind of document has a directory of
  its own, and who asks for the APIs of a release asks for the core group first.
- `GatesSeen` (`Reconcile`): every webhook that intercepts an object is the
  first one in front of it, and its component is neither above nor below.
  `WaitsSeen`: the waits of sources, releases and certificates, which have no
  edge, close no cycle that FL-G002 misses.
- `TakenForGranted` (`Reconcile`, asserted of the instance by `MCReconcile`):
  whoever puts a webhook up brings the pods that answer for it
  (`BackedAtHome`), Kyverno is one installation with its configuration
  (`KyvernoIsOne`), a HelmRelease waits for what it installs (`ReleasesWait`,
  the rules say so of Helm), and a workload without replicas is not scaled up by
  an autoscaler (`ZeroIsNone`). The rules go by these without asking.

## What is proved

`Schedule_proofs`, for all finite graphs with natural weights, under
`NodeAssumption`, `EdgeAssumption` and `GraphsAssumption`:

- `TypeCorrect` with the invariant of the sort, `TopoInv`: an event's remaining
  in-degree is the number of its in-edges not followed yet, queued events are
  those whose count is 0, none is queued twice. Type correctness needs it: the
  in-degree stays natural only because every decrement is an edge.
- `VerdictCorrect`: with `VerdictInv`, a queue that ends short leaves a set of
  events that wait for each other; a full one contradicts such a set at its
  first member in the order.
- `OrderCorrect`, from the same invariant.
- `EarliestCorrect`, `SlackCorrect`, `CriticalCorrect`, from `SolveInv`: what
  the two loops have established about the part they have passed.
- `WorkCorrect`: at most 4|V| + |E| + 4 steps are left at any time, and each
  leaves fewer (`StepsLeft`). `NextCorrect`: until then there is a next step;
  the maximum and minimum each pass asks for exist, which rests on `LargestIn`.

`Bootstrap_proofs`, for every finite set of components and every set of
repositories in `Repo`, under `CompAssumption` and `ReposAssumption`:

- `TypeCorrect` and `DeclaredEdgesCorrect`, from `Causal`: what has happened had
  its reasons, that is its parent, its dependencies, its children under `wait`
  and its needs.
- `DeadlockCorrect`: the first event of a blocked set to happen would need
  another one of the set.
- `NeverStuckCorrect`: if nothing can go on, the events that have not happened
  block each other, which is a cycle of `Full`, and FL-G002 reports it. This
  is the bootstrap theorem of `docs/design.md` under three conditions,
  `HealthChecksWait`, `LateNeedsKept` and `SourcesSeen`: a need that was passed
  over waits along declared edges.
- `NoFailedApplyCorrect`: a need whose edge is ordered by a declared path is met
  when its consumer is attempted; the reverse path would be a cycle. Under
  `LateNeedsKept` and `SourcesSeen`.

`Resolver_proofs`, for any sets of calls, runs, keys, slots and hosts, under
`ResolverAssumption` and `ValuesApart`. The invariant `CallInv` says that an
entry that is being worked on has at most one owner, that an entry has an answer
exactly when it is done, and that a call that has been to the network is the
owner or has returned:

- `TypeCorrect`; `ResolvedOnceCorrect` and `CallsAgreeCorrect` where no two keys
  share a slot (`KeysAreSlots`).
- `SharedAnswerCorrect`: storing an answer is `Decide`, waiting for it is
  `Return`, every other step, kills included, is a stutter.
- `DeadHostCorrect`: `down` holds only hosts that a call of the run failed to
  connect to, and an answer "unreachable" comes from `down`.
- `PinnedServesCorrect`: a caller that finds a slot it may trust finds the
  revision it was told of. `SlotInv` says that a `Sound` slot with a whole meta
  file holds a whole tree at every point a run may be killed or fail at, and
  what the owner of a slot finds and leaves there at each of its steps; a slot
  is trusted as long as its ref is pinned or nobody was killed, and the
  condition is one per slot, since the known gap about kills is one of floating
  slots only. `ServesCorrect` is `ServesWhatItSays` for all calls at once.
- `WaitersCorrect` and `StepsCorrect`, on which the liveness rests: a call that
  waits, waits for one that works (`WaitInv`), so some call of an unfinished run
  can always go on; and every step leaves its call fewer to take (`Left`, at
  most 12) and the others no more.

`Comparison_proofs`, for any entrypoints, findings and outcomes of renders,
under `CasesAssumption`. `IInv` says what a goroutine has established where it
is: nothing at the head, the unmarked findings of the head before the base,
those of the base as well before the comparison, and at its end either an error
that has a reason or the findings the entrypoint introduces, marked apart from
the old:

- `ExitCorrect`: `Report` reads results only when all goroutines are done, and
  then what they left adds up to the status.
- `BaseCorrect`, from the same invariant: only `Report` removes a checkout.
- `AccountedCorrect`, under `GroundedCases`: among failures that nothing
  accounts for, one is excused by none of the others, so by none at all; it is
  unpredicted, hence reported.

`Documents_proofs`, for any documents, runs, jobs and faults, under
`DocumentsAssumption` and `NoneAssumption`. `FileInv` says under which name a
file was made, and that a call that writes has the file open it is to write;
hence a step changes the files of one document only (`StepFrame`):

- `ChartsCorrect`, without further conditions: a slot of a chart is empty or
  whole, since a temporary file has one writer and is renamed when it is whole.
- `ContractsCorrect`, `SchemasCorrect`, `FetchedStays`, under `Apart`.
  `CacheInv` adds what a call knows at each of its steps about the files of its
  document, which nobody else writes: a temporary file is whole before its
  rename, a slot or an absent marker agrees with the release, and a marker
  without its document is not there after a kill. `StaysInv` adds that a run
  after one that fetched something finds it, and so that a release does not
  serve a document, where the disk does not run full (`job.full`).

`RenderTree_proofs`, for any sets of components, sources and data and every
repository in `Repo`, under `RootAssumption` and `ReposAssumption`. The
invariant follows the three loops: a component is treated when its round of the
substitution has passed, started when what it renders is being looked at, and
indexed when its level is.

- `LevelsCorrect`: levels are disjoint and in order of their depths, and what
  was treated has led to what it renders (`LevelInv`, `ChildInv`). A key that is
  met for the first time is one deeper than the level, so whoever renders it
  later is no shallower than its parent.
- `VisibleCorrect`: what was indexed is visible, so what was not found is
  rendered on the level of the reader or deeper (`VisibleInv`).
- `FinalCorrect`: raw text in `data` is of a component of the level whose turn
  is still to come, or of one whose substitution failed (`TextInv`).
- `EndCorrect`, for finitely many components: every step makes what is `Ahead`
  smaller in the lexicographic order of four numbers, the keys not met, the
  phases of the level, its goroutines and rounds, and what the current component
  renders. A new level has keys that were not met (`LevelInv`); rendering a
  key twice is what would make a cycle endless.

`BuildCache_proofs`, for any checkouts, builds and charts, under
`TreeAssumption` and `ChartsAssumption`:

- `ReusedCorrect`, under `KindsStay` and `KustomizationsShow`. Where the probes
  of a build replay, everything the build reached is seen alike, so the same is
  reached (`SameReached`) and the build comes out the same (`SameBuild`,
  `RecordServes`); a chart's key decides what it renders to (`ChartKeyDecides`).
  `CacheInv` says that every entry and candidate is the record of a build that
  succeeded in some commit.

`Comparison_proofs` also has `Transition`, for any two trees of components,
under `ComponentsAreObjects` and `MergesAssumption`:

- `LossIsAnnounced`, under `NothingHangsHidden` and `SpecsFirst \/ PruneIsKept`:
  every order in which components know their new prune setting, or every order
  where no commit turns one off. An inventory
  is empty, or what the base or the head says (`InventoryInv`), so what a
  component collects is what it owned and does not own; a component that is
  being deleted is reported, new, or hung under one that could not be rendered
  (`DyingInv`). What is taken along by such a component and was taken over from
  another one (`TakenOver`) is excused: the proof failed there, and TLC found
  the merge under Known gaps.
- `StaleReadsForetold`, for every order of reconciles, under `ChainsStay`: a
  component that has applied the head waited for those of its source that it
  depends on (`AppliedInv`), so that the owner of what it read too early is not
  among them.

`Reconcile_proofs`, for any components and every repository in `Repos`, under
`ReposAssumption`:

- `RejectionsForetold`, under `TakenForGranted`. The cluster knows the gates of
  what was applied, FL-R008 those of the whole repository: a gate that is live
  has one that stands for it there (`LiveGates`, `StandsFor`), which differs in
  the kinds only, because Kyverno registers what its policies need so far. What
  has happened had its reasons (`Causal`), so where FL-R008 is silent the
  webhook's component was ready before the apply; then its pods were up, but for
  the one that restarted (`UpInv`), and Kyverno's webhooks have pods behind them
  (`RunningInv`). If the pod that restarted was the only one, the sum that
  FL-R013 computes is 1 (`SumOfOne`; the fold is finite, which takes an argument
  by the well-foundedness of its domain), and the finding names it.

Model-checked only: liveness, since fairness and ENABLED are out of the prover's
reach: `Terminates` (`Schedule`, `RenderTree`), `CleanConverges`,
`EveryCallReturns`, `EveryRunEnds`, `CleansUp`, `SettlesAsReported` and
`EverythingSettles`. What some of it rests on is proved: that nothing is stuck
(`NextCorrect`, `WaitersCorrect`, `NeverStuckCorrect`), and that there is less
to do after every step (`WorkCorrect`, `StepsCorrect`, `EndCorrect`).

## Findings

- `absent_schema`: `kubeFile` writes every fetch of a document to one temporary
  name. A 404 makes it fetch the core document, which another goroutine of
  `loadKubeSchemas` fetches too; the second rename fails, the error stands for
  "not found", and the tree is left without any schema. (When a run is killed in
  this race, a truncated document can stay in the slot for ever.)
- `hidden_gate`: FL-R008 looks at the first webhook in front of an object only.
  When its owner is waited for, a second one of another owner, not waited for,
  goes unreported, and its start rejects the apply.

### Known gaps

Disagreements between code, documents and cluster that have no run of their
own. Each can be seen by lifting the named condition.

- The design says that `ready(C) -> ready(P)` holds when `P` health-checks `C`;
  the code draws that edge for `wait: true` only (`events.go:39`,
  `docs/design.md:87`). A child that depends on such a parent is a deadlock
  without a finding: `CleanConverges` without `HealthChecksWait`.
- A need for a run-time CRD is dropped when the consumer lies below the
  provider, as if the apply staged it (`index.go:201`), although
  `config.go:137` says that consumers keep their ordering: `NoFailedApply`
  without `LateNeedsKept`.
- Of the source needs that one rendering component makes, one per source is kept
  (`once("src|")`, `index.go:168`), though the need is the child's
  (`index.go:176-178`). That a second Kustomization waits for the same source has
  no edge, so FL-G002 misses the deadlock when the provider depends on it, and
  FL-T006 the race when nothing orders the two; `docs/design.md:88` has an edge
  for every import, and `docs/design.md:95` says that a repository without a
  cycle converges: `NeverStuck`, `NoFailedApply` and `CleanConverges` without
  `SourcesSeen`. Four components show it: a root that waits, the holder of the
  source, which depends on the second of two siblings built from it.
- The error of `os.RemoveAll(slot)` is ignored (`git.go:110`, `oci.go:151`), and
  a rename that fails over what is left counts as success (`git.go:111`): the old
  or half-removed tree is returned, and cached, under the new revision, although
  a `Result` is a directory and its revision (`source.go:46-47`):
  `ServesWhatItSays` without `Sound`, and without any kill.
- A run killed while it refreshes a floating ref leaves the old meta file beside
  a partial or newer tree, which the next run takes for a hit (`git.go:110`,
  `oci.go:151`): `ServesWhatItSays` in `MCCache.cfg` with `Floating = {s1}`. The
  same holds of the contract of a floating tag; and of a refresh whose meta file
  cannot be opened (`git.go:115`), which leaves the old one beside the new tree:
  the call returns an error, and the next run a hit (`Sound`).
- `openapi.go:135` ignores that the absent marker could not be written. A later
  offline run then gets `ErrNotCached`, not "not found": `WhatWasFetchedStays`
  without `~job.full`.
- No ref and `{tag: latest}` are one OCI artifact and one slot, but two keys
  (`source.go:131`), so it is fetched and replaced twice in one run:
  `ResolvedOnce` with two keys in one slot.
- A component whose source object is rendered by a sibling, or deeper in the
  tree, is skipped; the comment at `tree.go:219` says that FL-G001 reports it,
  and FL-G001 looks at all levels.
- A cached build compares the names in a directory (`buildcache.go:129`), so an
  entry that becomes a directory goes unseen (`TypeChanges`); and
  `hasKustomization` asks the disk, not the ignore rules (`build.go:24`), so a
  build with an ignored kustomization file fails fresh and hits when cached
  (`HiddenKustomizations`).
- A parent without `wait` and its child that depends on it excuse each other's
  failure (`cluster.go:130`): `EveryFailureIsAccountedFor` without `Waiting`.
- Descendants of a component that head could not render are reported as removed
  (`diff.go:71`); a component that goes with `prune: false` is reported as
  deleting its objects: `Gaps`. FL-D001 goes by the head's prune setting too, so
  that where it is turned on in the commit that removes objects, a component
  that acts on its old one leaves what was announced as deleted:
  `SettlesAsReported` without `SpecsFirst`. Where it is turned off, such a
  component deletes what FL-D004 says remains (`diff.go:107`, `lint.go:84`):
  `NothingIsLostSilently` without `SpecsFirst`.
- FL-D004 says that an object stays unmanaged when it leaves Git from a
  component with `prune: false` (`diff.go:118`). A component that could not be
  rendered may have taken it over; if that one moves itself, and its old parent
  prunes it after the move, the object goes too: `NothingIsLostSilently` without
  `TakenOver`.
- A discovery document that is answered 404 is marked absent without asking
  whether the release exists (`openapi.go:132-135`), so an early question is
  answered so for ever.
- A component at or below the owner of a webhook is not looked at
  (`rules_reconcile.go:217`), although its own later applies can be rejected;
  nor is the owner of a Secret that the webhook's pod waits for, below the
  webhook. FL-R008 takes any HelmRelease for one that waits. Waits of
  `valuesFrom`, issuers and source credentials have no edge for FL-G002.
- FL-T010 counts a chain of dependsOn through a component of another source
  (`rules_timing.go:195`), whose revision says nothing about this source:
  `Gaps`. A component that substitutes from a ConfigMap it applies itself always
  reads the old one, and no edge says that a component waits for what it
  substitutes from, so that an owner which depends on its reader is no FL-G002.
- FL-S002 says that no component renders a ConfigMap, and means that none did
  when it was looked up; a Git host that cannot be reached is tried for every
  source, because `git` never asks `hostDown`.

## What the models leave out

- `Schedule`: weights are natural. `retries: -1` gives a health bound of 0,
  smaller values a negative weight, which `Solve` cuts off.
- `EventGraph`: which objects provide namespaces and CRDs (names, API groups,
  clusters) is the repository's choice; dual ownership and the durations on
  edges are left out. `CycleIsDeadlock` speaks of single providers
  (`HardNeeds`).
- `Resolver`: keys and slots are constants, so overrides and the parsing of refs
  are what an instance says. Two processes over one cache at once are not
  modelled: runs follow one another.
- `RenderTree`: names within one render are unique (kustomize sees to it); no
  deeper component takes the key of the root; the second build of a root that
  carries patches does not fail; image contracts, image checks and schemas,
  which load after rendering, are left out. An optional `substituteFrom` is as
  good as none.
- `BuildCache`: one name stands for the three names of a kustomization file;
  globs, Helm charts inside a kustomization and the hit counters are left out.
  So are the dependencies of a chart that `addDependencies` fetches when it
  renders (`tree.go:80-82`, `helm.go:290-345`): a chart's content is that of its
  revision.
- `Documents`: chart indexes, credentials, hosts that are marked down (a
  refusal stands for them), and schemas in a local directory, which `kubeFile`
  reads without a cache.
- `Check`: flags, the search for entrypoints, and output formats.
- `Transition`: which fields are immutable; nested diffs; what other rules say
  of the two trees; commits that change dependencies, and the label that makes
  readers of a ConfigMap reconcile again.
- `Admission`: kinds stand for resource names; `matchConditions`, operations of
  a rule and components that Flux does not deliver. A Namespace or external that
  is named is taken to exist.
- `Reconcile`: durations (an apply is retried some time), more than one restart,
  and what FL-R012, R014 and R015 lower when a component is opaque. healthChecks
  are taken to name the webhook's workloads. No HelmRelease is in the instance,
  so that `ReleasesWait` holds of it trivially and the theorem is what covers
  them. `creationPolicy: Merge` and `None` are listed as producers
  (`wiring.go:82`) and are so only beside another one.

Not modelled at all, for lack of state or order: the validation of objects, the
rules on images, metadata, modules and assertions, policies (the API server's
own evaluators run them), configuration, report formats, ResourceSets and the
auxiliary commands. Clusters (`clusters.go`) only partition what the models say
of one.

## Plan

1. `EventGraph`: weights, `healthBound` and the bounds; what a component
   substitutes from as a need.
2. `Resolver`: two processes at once; keys computed from specs and overrides.
3. `EventGraph` and `Wiring`: several clusters and their merged index.
