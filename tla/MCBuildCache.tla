---------------------------- MODULE MCBuildCache ----------------------------
(***************************************************************************)
(* BuildCache on pairs of small checkouts: app has manifests, a            *)
(* kustomization file or none, a directory below it, and may reach into    *)
(* base; any of it can differ between the two commits or be ignored in one *)
(* of them.                                                                *)
(***************************************************************************)
EXTENDS BuildCache, TLC

CONSTANTS
  HiddenKustomizations, TypeChanges,   \* BOOLEAN
  o1, o2, o3, o4, o5, o6, o7

App  == <<"app">>              Man     == <<"app", "m.yaml">>
Sub  == <<"app", "sub">>       SubMan  == <<"app", "sub", "m.yaml">>
Note == <<"app", "note">>      NoteMan == <<"app", "note", "m.yaml">>
Base == <<"base">>             BaseMan == <<"base", "m.yaml">>
AppK == <<"app", "kustomization.yaml">>
SubK == <<"app", "sub", "kustomization.yaml">>
BaseK == <<"base", "kustomization.yaml">>

MCPath == {<<>>, App, Man, Sub, SubMan, Note, NoteMan, Base, BaseMan, AppK, SubK, BaseK}

Dir     == [is |-> "dir", holds |-> {}]
File(h) == [is |-> "file", holds |-> h]
Gone    == [is |-> "absent", holds |-> {}]

Layout(k, m, s, b, n) ==
  (<<>> :> Dir) @@ (App :> Dir) @@ (Base :> Dir) @@ (BaseK :> File({BaseMan})) @@ (BaseMan :> File(b))
    @@ (AppK :> k) @@ (Man :> m) @@ s @@ n

SubOf(d, k, m) == (Sub :> d) @@ (SubK :> k) @@ (SubMan :> m)
NoteOf(d, m)   == (Note :> d) @@ (NoteMan :> m)

Varies ==
  [k |-> {"generated", "listed", "listsSub", "listsBase", "remote"},
   m |-> {"old", "new"},
   s |-> {"none", "generated", "listed", "changed"},
   b |-> {"old", "new"},
   n |-> {"file"} \cup (IF TypeChanges THEN {"dir", "none"} ELSE {}),
   i |-> {"nothing", "manifest", "sub", "below"} \cup (IF HiddenKustomizations THEN {"subKustomization"} ELSE {})]

MCCommit == [k : Varies.k, m : Varies.m, s : Varies.s, b : Varies.b, n : Varies.n, i : Varies.i]

TreeOf(x) ==
  [files |->
     Layout(CASE x.k = "generated" -> Gone [] x.k = "listed" -> File({Man}) [] x.k = "listsSub" -> File({Man, Sub})
              [] x.k = "listsBase" -> File({Man, Base}) [] x.k = "remote" -> File({Man, Remote}),
            IF x.m = "old" THEN File({o1}) ELSE File({o2}),
            CASE x.s = "none" -> SubOf(Gone, Gone, Gone) [] x.s = "generated" -> SubOf(Dir, Gone, File({o3}))
              [] x.s = "listed" -> SubOf(Dir, File({SubMan}), File({o3}))
              [] x.s = "changed" -> SubOf(Dir, File({SubMan}), File({o4})),
            IF x.b = "old" THEN {o5} ELSE {o6},
            CASE x.n = "file" -> NoteOf(File({o7}), Gone) [] x.n = "dir" -> NoteOf(Dir, File({o7}))
              [] x.n = "none" -> NoteOf(Gone, Gone)),
   ignored |-> CASE x.i = "nothing" -> {} [] x.i = "manifest" -> {Man} [] x.i = "sub" -> {Sub}
                 [] x.i = "below" -> {SubMan} [] x.i = "subKustomization" -> {SubK}]
MCTree == [x \in MCCommit |-> TreeOf(x)]

(* Commits that differ in at most two of these.                            *)
Near(x) == UNION {{[x EXCEPT ![f] = u, ![g] = v] : u \in Varies[f], v \in Varies[g]} :
                    f \in DOMAIN Varies, g \in DOMAIN Varies}
MCCheckouts == UNION {{[head |-> x, base |-> y] : y \in Near(x)} : x \in MCCommit}

Plain  == [patches |-> "none", components |-> {}]
WithBase == [patches |-> "none", components |-> {<<"sub">>}]
MCBuilds ==
  {[entrypoint |-> "one", tree |-> t, dir |-> App, overlay |-> Plain] : t \in {"head", "base"}}
    \cup {[entrypoint |-> "two", tree |-> "base", dir |-> App, overlay |-> WithBase]}

(* o6 is a HelmRelease.                                                    *)
Release(t, rev, floats, c, apis) ==
  [tree |-> t, release |-> o6, external |-> TRUE, source |-> "charts", revision |-> rev, floating |-> floats,
   content |-> c, spec |-> "values", kube |-> "1.30", apis |-> apis]
MCCharts ==
  {Release("head", "1.0.0", FALSE, "one", {"v1"}), Release("base", "1.0.0", FALSE, "one", {"v1"}),
   Release("base", "1.0.0", FALSE, "one", {}), Release("base", "main", TRUE, "new", {"v1"})}

ASSUME KindsAssumption == TypeChanges \/ KindsStay
ASSUME KustomizationsAssumption == HiddenKustomizations \/ KustomizationsShow
=============================================================================
