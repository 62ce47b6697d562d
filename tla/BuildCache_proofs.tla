-------------------------- MODULE BuildCache_proofs --------------------------
(***************************************************************************)
(* The build cache, proved for any checkouts, builds and charts.  A build  *)
(* reads its checkout by following what it finds: a set that is reached    *)
(* from where it starts.  Its observations cover all of that set, so a     *)
(* checkout where they come out the same leads to the same set             *)
(* (SameReached), and what is computed from it is the same (SameBuild).    *)
(***************************************************************************)
EXTENDS BuildCache, FiniteSetTheorems, TLAPS

Held == [files : [Path -> Entry], ignored : SUBSET Path]
Replayed(d, P) == \A p \in P : Observe(View(Tree[d]), p.op, p.rel) = p.sum
Visible(c, p)  == ~Is(View(Tree[c]), p, "absent")
Built(p)       == \E b \in Builds : b.dir = p

-----------------------------------------------------------------------------
(* Reached sets.                                                           *)
LEMMA ReachedIs ==
  ASSUME NEW D, NEW f \in [D -> SUBSET D], NEW S \in SUBSET D
  PROVE  /\ Reached(S, f) \subseteq D /\ S \subseteq Reached(S, f)
         /\ \A r \in Reached(S, f) : f[r] \subseteq Reached(S, f)
         /\ \A T \in SUBSET D : S \subseteq T /\ (\A r \in T : f[r] \subseteq T) => Reached(S, f) \subseteq T
<1>1. DOMAIN f = D /\ S \cap D = S
  OBVIOUS
<1>2. Reached(S, f) = {p \in D : \A T \in SUBSET D : S \subseteq T /\ (\A r \in T : f[r] \subseteq T) => p \in T}
  BY <1>1 DEF Reached
<1>3. ASSUME NEW r \in Reached(S, f), NEW p \in f[r] PROVE p \in Reached(S, f)
  BY <1>2, <1>3
<1> QED BY <1>2, <1>3

(* Two ways of following that agree on what one of them reaches reach the  *)
(* same.                                                                   *)
LEMMA SameReached ==
  ASSUME NEW D, NEW E, NEW f \in [D -> SUBSET D], NEW g \in [E -> SUBSET E],
         NEW S \in (SUBSET D) \cap SUBSET E, \A r \in Reached(S, f) \cap E : f[r] = g[r]
  PROVE  Reached(S, f) = Reached(S, g)
<1>1. Reached(S, g) \subseteq Reached(S, f) \cap E
  <2>1. S \subseteq Reached(S, f) \cap E
    BY ReachedIs
  <2>2. \A r \in Reached(S, f) \cap E : g[r] \subseteq Reached(S, f) \cap E
    BY ReachedIs
  <2>3. Reached(S, f) \cap E \in SUBSET E
    OBVIOUS
  <2> QED BY <2>1, <2>2, <2>3, ReachedIs
<1>2. Reached(S, f) \subseteq Reached(S, g)
  <2>1. \A r \in Reached(S, g) : f[r] \subseteq Reached(S, g)
    BY <1>1, ReachedIs
  <2>2. Reached(S, g) \in SUBSET D /\ S \subseteq Reached(S, g)
    BY <1>1, ReachedIs
  <2> QED BY <2>1, <2>2, ReachedIs
<1> QED BY <1>1, <1>2

-----------------------------------------------------------------------------
(* What a view shows of a checkout.                                        *)
LEMMA TreeIs == ASSUME NEW c \in Commit PROVE Tree[c] \in Held /\ View(Tree[c]) \in [Path -> Entry] /\ Absent \in Entry
<1>1. Tree[c] \in Held
  BY TreeAssumption DEF Held
<1>2. Absent \in Entry
  BY DEF Absent, Entry
<1>3. \A p \in Path : Tree[c].files[p] \in Entry
  BY <1>1 DEF Held
<1> QED BY <1>1, <1>2, <1>3 DEF View

LEMMA ViewIs ==
  ASSUME NEW c \in Commit, NEW p \in Path
  PROVE  /\ Hidden(Tree[c], p) => View(Tree[c])[p] = Absent
         /\ ~Hidden(Tree[c], p) => View(Tree[c])[p] = Tree[c].files[p]
         /\ At(View(Tree[c]), p) = View(Tree[c])[p] /\ At(Tree[c].files, p) = Tree[c].files[p]
BY DEF View, At

LEMMA VisibleIs ==
  ASSUME NEW c \in Commit, NEW p \in Path
  PROVE  /\ Visible(c, p) <=> ~Hidden(Tree[c], p) /\ ~Is(Tree[c].files, p, "absent")
         /\ Visible(c, p) => \A k : Is(View(Tree[c]), p, k) <=> Is(Tree[c].files, p, k)
         /\ \A k \in {"dir", "file"} : Is(View(Tree[c]), p, k) <=> ~Hidden(Tree[c], p) /\ Is(Tree[c].files, p, k)
BY ViewIs DEF Visible, Is, Absent

LEMMA IsFileThere ==
  ASSUME NEW v, NEW p, NEW k \in {"dir", "file"}, Is(v, p, k)
  PROVE  p \in Path
BY DEF Is, At, Absent

(* What is below an ignored directory is ignored.                          *)
LEMMA HidesBelow ==
  ASSUME NEW c \in Commit, NEW d \in Path, Hidden(Tree[c], d), NEW p \in Children(d)
  PROVE  Hidden(Tree[c], p)
<1>1. PICK q \in Tree[c].ignored : IsPrefix(q, d)
  BY DEF Hidden
<1>2. q \in Seq(STRING) /\ d \in Seq(STRING) /\ p \in Seq(STRING) /\ p # <<>> /\ Front(p) = d
  BY TreeIs, TreeAssumption DEF Held, Children
<1>3. Len(d) = Len(p) - 1 /\ Len(p) \in Nat /\ Len(q) \in Nat /\ d = SubSeq(p, 1, Len(p) - 1)
  BY <1>2 DEF Front
<1>4. Len(q) <= Len(d) /\ SubSeq(q, 1, Len(q)) = SubSeq(d, 1, Len(q))
  BY <1>1 DEF IsPrefix
<1>5. SubSeq(d, 1, Len(q)) = SubSeq(p, 1, Len(q))
  <2>1. \A i \in 1 .. Len(q) : d[i] = p[i]
    BY <1>2, <1>3, <1>4
  <2> QED BY <1>2, <1>3, <1>4, <2>1
<1>6. IsPrefix(q, p)
  BY <1>3, <1>4, <1>5 DEF IsPrefix
<1> QED BY <1>1, <1>6 DEF Hidden

(* Where a build looks, the disk and the view agree on kustomization files. *)
LEMMA KustomizationSeen ==
  ASSUME KustomizationsShow, NEW c \in Commit, NEW d \in Path, ~Hidden(Tree[c], d) \/ Built(d)
  PROVE  HasKustomization(Tree[c], d) <=> Is(View(Tree[c]), Kust(d), "file")
<1>1. HasKustomization(Tree[c], d) => Kust(d) \in Path /\ ~Hidden(Tree[c], Kust(d))
  BY IsFileThere DEF HasKustomization, KustomizationsShow, Built
<1>2. Is(View(Tree[c]), Kust(d), "file") => Kust(d) \in Path
  BY IsFileThere
<1> QED BY <1>1, <1>2, VisibleIs DEF HasKustomization

-----------------------------------------------------------------------------
(* What equal observations say.                                            *)
LEMMA StateAgrees ==
  ASSUME NEW v, NEW w, NEW p, Observe(w, "s", p) = Observe(v, "s", p)
  PROVE  \A k : Is(w, p, k) <=> Is(v, p, k)
BY DEF Observe, Is

LEMMA FileAgrees ==
  ASSUME NEW v, NEW w, NEW p, Observe(w, "f", p) = Observe(v, "f", p)
  PROVE  /\ Is(w, p, "file") <=> Is(v, p, "file")
         /\ Is(v, p, "file") => w[p] = v[p] /\ At(w, p) = At(v, p)
<1>1. Observe(v, "f", p) = (IF Is(v, p, "file") THEN v[p] ELSE Absent) /\ Observe(w, "f", p) = (IF Is(w, p, "file") THEN w[p] ELSE Absent)
  BY DEF Observe
<1>2. Is(v, p, "file") => p \in Path /\ v[p].is = "file"
  BY IsFileThere DEF Is, At
<1>3. Is(w, p, "file") => p \in Path /\ w[p].is = "file"
  BY IsFileThere DEF Is, At
<1>4. Absent.is # "file"
  BY DEF Absent
<1> QED BY <1>1, <1>2, <1>3, <1>4 DEF At

LEMMA ListingAgrees ==
  ASSUME NEW c \in Commit, NEW d \in Commit, NEW p \in Path, Is(Tree[c].files, p, "dir"), Is(Tree[d].files, p, "dir"),
         Observe(View(Tree[d]), "d", p) = Observe(View(Tree[c]), "d", p), NEW q \in Children(p)
  PROVE  Visible(c, q) <=> Visible(d, q)
<1>1. q \in Path
  BY DEF Children
<1> DEFINE List(x) == {r \in Children(p) : ~Is(View(Tree[x]), r, "absent")}
<1>2. ASSUME NEW x \in Commit
      PROVE  /\ Observe(View(Tree[x]), "d", p).is = IF Is(View(Tree[x]), p, "dir") THEN "dir" ELSE "absent"
             /\ Is(View(Tree[x]), p, "dir") => Observe(View(Tree[x]), "d", p).holds = List(x)
  <2>1. CASE Is(View(Tree[x]), p, "dir")
    <3>1. Observe(View(Tree[x]), "d", p) = [is |-> "dir", holds |-> List(x)]
      BY <2>1 DEF Observe
    <3> HIDE DEF List
    <3> QED BY <2>1, <3>1
  <2>2. CASE ~Is(View(Tree[x]), p, "dir")
    BY <2>2 DEF Observe, Absent
  <2> QED BY <2>1, <2>2
<1>3. ASSUME NEW x \in Commit, ~Is(View(Tree[x]), p, "dir"), Is(Tree[x].files, p, "dir") PROVE ~Visible(x, q)
  <2>1. Hidden(Tree[x], p)
    BY <1>3, VisibleIs
  <2> QED BY <1>1, <2>1, HidesBelow, VisibleIs
<1>4. Is(View(Tree[c]), p, "dir") <=> Is(View(Tree[d]), p, "dir")
  <2> HIDE DEF List
  <2> QED BY <1>2
<1>5. CASE Is(View(Tree[c]), p, "dir")
  <2>1. List(c) = List(d)
    <3> HIDE DEF List
    <3> QED BY <1>2, <1>4, <1>5
  <2> QED BY <2>1 DEF Visible
<1>6. CASE ~Is(View(Tree[c]), p, "dir")
  BY <1>3, <1>4, <1>6
<1> QED BY <1>5, <1>6

-----------------------------------------------------------------------------
(* The walk that makes a resource list.                                    *)
Dirs(c)  == {d \in Path : Is(Tree[c].files, d, "dir")}
Below(c) == [d \in Dirs(c) |->
               {p \in Children(d) \cap Dirs(c) : ~Hidden(Tree[c], p) /\ ~HasKustomization(Tree[c], p)}]

LEMMA WalkedIs ==
  ASSUME NEW c \in Commit, NEW dir
  PROVE  /\ Walked(Tree[c], dir) = Reached({dir}, Below(c)) /\ Below(c) \in [Dirs(c) -> SUBSET Dirs(c)]
         /\ Walked(Tree[c], dir) \subseteq Dirs(c)
<1>1. Walked(Tree[c], dir) = Reached({dir}, Below(c))
  BY DEF Walked, Below, Dirs
<1>2. Below(c) \in [Dirs(c) -> SUBSET Dirs(c)]
  BY DEF Below
<1> QED BY <1>1, <1>2 DEF Reached

LEMMA ProbesAgree ==
  ASSUME NEW d, NEW v, NEW op, NEW ps, NEW P, Probe(v, op, ps) \subseteq P, Replayed(d, P), NEW p \in ps
  PROVE  Observe(View(Tree[d]), op, p) = Observe(v, op, p)
<1>1. [op |-> op, rel |-> p, sum |-> Observe(v, op, p)] \in P
  BY DEF Probe
<1> QED BY <1>1 DEF Replayed

(* What a walk in c noted is the same in d.                                *)
WalkSeen(c, d, dir) ==
  /\ \A p \in Walked(Tree[c], dir) : Observe(View(Tree[d]), "d", p) = Observe(View(Tree[c]), "d", p)
  /\ \A p \in Found(Tree[c], dir, "dir") : Observe(View(Tree[d]), "s", Kust(p)) = Observe(View(Tree[c]), "s", Kust(p))
  /\ \A p \in YamlFound(Tree[c], dir) : Observe(View(Tree[d]), "f", p) = Observe(View(Tree[c]), "f", p)

LEMMA WalkIsSeen ==
  ASSUME NEW c, NEW d, NEW dir, Replayed(d, NotedByWalk(Tree[c], dir))
  PROVE  WalkSeen(c, d, dir)
<1> DEFINE v == View(Tree[c])
           P == NotedByWalk(Tree[c], dir)
           ks == {Kust(p) : p \in Found(Tree[c], dir, "dir")}
<1>1. /\ Probe(v, "s", ks) \subseteq P
      /\ Probe(v, "d", Walked(Tree[c], dir)) \subseteq P
      /\ Probe(v, "f", YamlFound(Tree[c], dir)) \subseteq P
  BY DEF NotedByWalk
<1> HIDE DEF P, v
<1>2. Replayed(d, P)
  BY DEF P
<1>3. \A q \in ks : Observe(View(Tree[d]), "s", q) = Observe(v, "s", q)
  <2> HIDE DEF ks
  <2> QED BY <1>1, <1>2, ProbesAgree
<1>4. \A p \in Walked(Tree[c], dir) : Observe(View(Tree[d]), "d", p) = Observe(v, "d", p)
  BY <1>1, <1>2, ProbesAgree
<1>5. \A p \in YamlFound(Tree[c], dir) : Observe(View(Tree[d]), "f", p) = Observe(v, "f", p)
  BY <1>1, <1>2, ProbesAgree
<1> QED BY <1>3, <1>4, <1>5 DEF WalkSeen, v

(* Below a directory that the walk listed both trees show the same, of the *)
(* same kind.                                                              *)
LEMMA ChildAgrees ==
  ASSUME KindsStay, NEW c \in Commit, NEW d \in Commit, NEW dir, WalkSeen(c, d, dir),
         NEW p \in Walked(Tree[c], dir) \cap Dirs(d), NEW q \in Children(p)
  PROVE  /\ q \in Path
         /\ Visible(c, q) <=> Visible(d, q)
         /\ Visible(c, q) => \A k \in {"dir", "file"} : Is(Tree[c].files, q, k) <=> Is(Tree[d].files, q, k)
<1>1. q \in Path /\ p \in Path /\ Is(Tree[c].files, p, "dir") /\ Is(Tree[d].files, p, "dir")
  BY WalkedIs DEF Children, Dirs
<1>2. Visible(c, q) <=> Visible(d, q)
  BY <1>1, ListingAgrees DEF WalkSeen
<1>3. ASSUME Visible(c, q), NEW k \in {"dir", "file"} PROVE Is(Tree[c].files, q, k) <=> Is(Tree[d].files, q, k)
  <2>1. /\ Tree[c].files[q].is \in {"absent", "dir", "file"} /\ Tree[d].files[q].is \in {"absent", "dir", "file"}
        /\ Tree[c].files[q].is # "absent" /\ Tree[d].files[q].is # "absent"
    <3>1. Tree[c].files[q] \in Entry /\ Tree[d].files[q] \in Entry
      BY <1>1, TreeIs DEF Held
    <3>2. Tree[c].files[q].is # "absent" /\ Tree[d].files[q].is # "absent"
      BY <1>1, <1>2, <1>3, VisibleIs, ViewIs DEF Is
    <3> QED BY <3>1, <3>2 DEF Entry
  <2>2. {Tree[c].files[q].is, Tree[d].files[q].is} # {"dir", "file"}
    BY <1>1 DEF KindsStay
  <2>3. Tree[c].files[q].is = Tree[d].files[q].is
    BY <2>1, <2>2
  <2> QED BY <1>1, <2>3, ViewIs DEF Is
<1> QED BY <1>1, <1>2, <1>3

LEMMA FoundIs ==
  ASSUME NEW c, NEW dir, NEW k
  PROVE  \A q : q \in Found(Tree[c], dir, k) <=>
            \E p \in Walked(Tree[c], dir) : q \in Children(p) /\ ~Hidden(Tree[c], q) /\ Is(Tree[c].files, q, k)
BY DEF Found

LEMMA WalkAgrees ==
  ASSUME KindsStay, KustomizationsShow, NEW c \in Commit, NEW d \in Commit, NEW dir \in Dirs(c) \cap Dirs(d),
         WalkSeen(c, d, dir)
  PROVE  /\ Walked(Tree[d], dir) = Walked(Tree[c], dir)
         /\ \A k \in {"dir", "file"} : Found(Tree[d], dir, k) = Found(Tree[c], dir, k)
         /\ \A p \in Found(Tree[c], dir, "dir") : HasKustomization(Tree[d], p) <=> HasKustomization(Tree[c], p)
<1>1. ASSUME NEW p \in Walked(Tree[c], dir) \cap Dirs(d), NEW q \in Children(p), Visible(c, q), Is(Tree[c].files, q, "dir")
      PROVE  HasKustomization(Tree[d], q) <=> HasKustomization(Tree[c], q)
  <2>1. q \in Path /\ ~Hidden(Tree[c], q) /\ ~Hidden(Tree[d], q)
    BY <1>1, ChildAgrees, VisibleIs
  <2>2. q \in Found(Tree[c], dir, "dir")
    BY <1>1, <2>1, FoundIs
  <2>3. Is(View(Tree[d]), Kust(q), "file") <=> Is(View(Tree[c]), Kust(q), "file")
    BY <2>2, StateAgrees DEF WalkSeen
  <2> QED BY <2>1, <2>3, KustomizationSeen
<1>2. ASSUME NEW p \in Walked(Tree[c], dir) \cap Dirs(d) PROVE Below(c)[p] = Below(d)[p]
  <2>1. p \in Dirs(c)
    BY WalkedIs
  <2>2. ASSUME NEW q \in Children(p)
        PROVE  q \in Dirs(c) /\ ~Hidden(Tree[c], q) /\ ~HasKustomization(Tree[c], q) <=>
               q \in Dirs(d) /\ ~Hidden(Tree[d], q) /\ ~HasKustomization(Tree[d], q)
    <3>1. \A x \in {c, d} : q \in Dirs(x) /\ ~Hidden(Tree[x], q) <=> Visible(x, q) /\ Is(Tree[x].files, q, "dir")
      BY ChildAgrees, VisibleIs, ViewIs DEF Dirs, Is
    <3> QED BY <1>1, <3>1, ChildAgrees
  <2> QED BY <2>1, <2>2 DEF Below
<1>3. Walked(Tree[d], dir) = Walked(Tree[c], dir)
  <2>1. {dir} \in (SUBSET Dirs(c)) \cap SUBSET Dirs(d)
    OBVIOUS
  <2>2. Walked(Tree[c], dir) = Reached({dir}, Below(c)) /\ Walked(Tree[d], dir) = Reached({dir}, Below(d))
        /\ Below(c) \in [Dirs(c) -> SUBSET Dirs(c)] /\ Below(d) \in [Dirs(d) -> SUBSET Dirs(d)]
    BY WalkedIs
  <2>3. Reached({dir}, Below(c)) = Reached({dir}, Below(d))
    <3>1. \A r \in Reached({dir}, Below(c)) \cap Dirs(d) : Below(c)[r] = Below(d)[r]
      BY <1>2, <2>2
    <3> DEFINE S == {dir}
               f == Below(c)
               g == Below(d)
    <3>2. S \in (SUBSET Dirs(c)) \cap SUBSET Dirs(d) /\ f \in [Dirs(c) -> SUBSET Dirs(c)] /\ g \in [Dirs(d) -> SUBSET Dirs(d)]
      BY <2>1, <2>2
    <3> HIDE DEF S, f, g
    <3>3. \A r \in Reached(S, f) \cap Dirs(d) : f[r] = g[r]
      BY <3>1 DEF S, f, g
    <3>4. Reached(S, f) = Reached(S, g)
      BY <3>2, <3>3, SameReached
    <3> QED BY <3>4 DEF S, f, g
  <2> QED BY <2>2, <2>3
<1>4. Walked(Tree[c], dir) \subseteq Dirs(d)
  BY <1>3, WalkedIs
<1>5. ASSUME NEW k \in {"dir", "file"}, NEW q PROVE q \in Found(Tree[d], dir, k) <=> q \in Found(Tree[c], dir, k)
  <2>1. ASSUME NEW p \in Walked(Tree[c], dir), q \in Children(p)
        PROVE  ~Hidden(Tree[c], q) /\ Is(Tree[c].files, q, k) <=> ~Hidden(Tree[d], q) /\ Is(Tree[d].files, q, k)
    <3>1. \A x \in {c, d} : ~Hidden(Tree[x], q) /\ Is(Tree[x].files, q, k) <=> Visible(x, q) /\ Is(Tree[x].files, q, k)
      BY <1>4, <2>1, ChildAgrees, VisibleIs, ViewIs DEF Is
    <3> QED BY <1>4, <2>1, <3>1, ChildAgrees
  <2> QED BY <1>3, <2>1, FoundIs
<1>6. ASSUME NEW q \in Found(Tree[c], dir, "dir") PROVE HasKustomization(Tree[d], q) <=> HasKustomization(Tree[c], q)
  <2>1. PICK p \in Walked(Tree[c], dir) : q \in Children(p) /\ ~Hidden(Tree[c], q) /\ Is(Tree[c].files, q, "dir")
    BY FoundIs
  <2>2. Visible(c, q)
    BY <2>1, VisibleIs, ViewIs DEF Children, Is
  <2> QED BY <1>1, <1>4, <2>1, <2>2
<1> QED BY <1>3, <1>5, <1>6

-----------------------------------------------------------------------------
(* What kustomize follows.                                                 *)
Named(v, S)   == S \cup UNION {Lists(v, d) : d \in Path}
Follows(v, S) == [r \in Named(v, S) |-> IF r = Remote THEN {} ELSE Lists(v, r)]

LEMMA IncludedIs ==
  ASSUME NEW v, NEW S
  PROVE  /\ Included(v, S) = Reached(S, Follows(v, S)) /\ Follows(v, S) \in [Named(v, S) -> SUBSET Named(v, S)]
         /\ S \in SUBSET Named(v, S)
         /\ \A r \in Named(v, S) \ {Remote} : Follows(v, S)[r] = Lists(v, r)
<1>1. \A r : Lists(v, r) \subseteq Named(v, S)
  <2> SUFFICES ASSUME NEW r PROVE Lists(v, r) \subseteq Named(v, S)
    OBVIOUS
  <2>1. CASE r \in Path
    BY <2>1 DEF Named
  <2>2. CASE r \notin Path
    BY <2>2, IsFileThere DEF Lists
  <2> QED BY <2>1, <2>2
<1>2. Included(v, S) = Reached(S, Follows(v, S))
  BY DEF Included, Follows, Named
<1>3. Follows(v, S) \in [Named(v, S) -> SUBSET Named(v, S)]
  BY <1>1 DEF Follows
<1>4. S \in SUBSET Named(v, S)
  BY DEF Named
<1> QED BY <1>2, <1>3, <1>4 DEF Follows

LEMMA IncludedCloses ==
  ASSUME NEW v, NEW S
  PROVE  /\ S \subseteq Included(v, S) /\ Included(v, S) \subseteq Named(v, S)
         /\ \A r \in Included(v, S) \ {Remote} : Lists(v, r) \subseteq Included(v, S)
<1> DEFINE D == Named(v, S)
           f == Follows(v, S)
<1>1. f \in [D -> SUBSET D] /\ S \in SUBSET D /\ Included(v, S) = Reached(S, f)
  BY IncludedIs
<1>2. \A r \in D \ {Remote} : f[r] = Lists(v, r)
  BY IncludedIs
<1> HIDE DEF D, f
<1>3. /\ Reached(S, f) \subseteq D /\ S \subseteq Reached(S, f)
      /\ \A r \in Reached(S, f) : f[r] \subseteq Reached(S, f)
  BY <1>1, ReachedIs
<1> QED BY <1>1, <1>2, <1>3 DEF D

LEMMA IncludedWithin ==
  ASSUME NEW v, NEW S, NEW r \in Included(v, S) \ {Remote}
  PROVE  Included(v, Lists(v, r)) \subseteq Included(v, S)
<1> DEFINE R == Lists(v, r)
           D == Named(v, R)
           f == Follows(v, R)
           T == Included(v, S) \cap D
<1>1. f \in [D -> SUBSET D] /\ R \in SUBSET D /\ Included(v, R) = Reached(R, f)
  BY IncludedIs
<1>2. \A q \in D : f[q] = IF q = Remote THEN {} ELSE Lists(v, q)
  BY DEF Follows
<1>3. R \subseteq T
  BY <1>1, IncludedCloses
<1>4. ASSUME NEW q \in T PROVE f[q] \subseteq T
  <2>1. f[q] \subseteq D
    BY <1>1, <1>4
  <2>2. f[q] \subseteq Included(v, S)
    <3>1. q # Remote => Lists(v, q) \subseteq Included(v, S)
      BY <1>4, IncludedCloses
    <3> QED BY <1>2, <1>4, <3>1
  <2> QED BY <2>1, <2>2
<1>5. T \in SUBSET D /\ T \subseteq Included(v, S)
  OBVIOUS
<1> HIDE DEF R, D, f, T
<1>6. Reached(R, f) \subseteq T
  BY <1>1, <1>3, <1>4, <1>5, ReachedIs
<1> QED BY <1>1, <1>5, <1>6 DEF R

LEMMA IncludedAgrees ==
  ASSUME NEW v, NEW w, NEW S, \A r \in Included(v, S) \ {Remote} : Lists(w, r) = Lists(v, r)
  PROVE  Included(w, S) = Included(v, S)
<1> DEFINE D == Named(v, S)
           E == Named(w, S)
           f == Follows(v, S)
           g == Follows(w, S)
<1>1. /\ f \in [D -> SUBSET D] /\ g \in [E -> SUBSET E] /\ S \in (SUBSET D) \cap SUBSET E
      /\ Included(v, S) = Reached(S, f) /\ Included(w, S) = Reached(S, g)
  BY IncludedIs
<1>2. \A r \in Included(v, S) \cap E : f[r] = g[r]
  BY IncludedCloses DEF Follows
<1> HIDE DEF D, E, f, g
<1>3. Reached(S, f) = Reached(S, g)
  BY <1>1, <1>2, SameReached
<1> QED BY <1>1, <1>3

-----------------------------------------------------------------------------
(* A build whose observations are the same in d as they were in c.         *)
LEMMA KeyDecides ==
  ASSUME NEW a, NEW b, OverlayKey(a) = OverlayKey(b), NEW co
  PROVE  /\ Fresh(co, a) = Fresh(co, b)
         /\ NotedByWrapper(co, a) = NotedByWrapper(co, b) /\ NotedByKustomize(co, a) = NotedByKustomize(co, b)
<1>1. a.dir = b.dir /\ a.overlay = b.overlay
  BY DEF OverlayKey
<1>2. WrapperResources(co, a) = WrapperResources(co, b) /\ NotedByWrapper(co, a) = NotedByWrapper(co, b)
  BY <1>1 DEF WrapperResources, NotedByWrapper
<1>3. Resources(co, a) = Resources(co, b)
  BY <1>2 DEF Resources
<1>4. NotedByKustomize(co, a) = NotedByKustomize(co, b) /\ Objects(co, a) = Objects(co, b)
  BY <1>3 DEF NotedByKustomize, Objects
<1>5. Succeeds(co, a) <=> Succeeds(co, b)
  BY <1>1, <1>3 DEF Succeeds
<1> QED BY <1>1, <1>2, <1>4, <1>5 DEF Fresh

LEMMA WrapperAgrees ==
  ASSUME KindsStay, KustomizationsShow, NEW c \in Commit, NEW d \in Commit, NEW b \in Builds,
         b.dir \in Dirs(c) \cap Dirs(d), Replayed(d, NotedByWrapper(Tree[c], b))
  PROVE  /\ HasKustomization(Tree[d], b.dir) <=> HasKustomization(Tree[c], b.dir)
         /\ WrapperResources(Tree[d], b) = WrapperResources(Tree[c], b)
         /\ ~HasKustomization(Tree[c], b.dir) =>
              /\ YamlFound(Tree[d], b.dir) = YamlFound(Tree[c], b.dir)
              /\ \A p \in YamlFound(Tree[c], b.dir) : Decodes(View(Tree[c]), p) => Decodes(View(Tree[d]), p)
<1> DEFINE v == View(Tree[c])
           P == NotedByWrapper(Tree[c], b)
<1>1. Probe(v, "s", {Kust(b.dir)}) \subseteq P
  BY DEF NotedByWrapper
<1>2. Observe(View(Tree[d]), "s", Kust(b.dir)) = Observe(v, "s", Kust(b.dir))
  <2> HIDE DEF P, v
  <2>1. Replayed(d, P)
    BY DEF P
  <2> QED BY <1>1, <2>1, ProbesAgree
<1>3. HasKustomization(Tree[d], b.dir) <=> HasKustomization(Tree[c], b.dir)
  <2>1. b.dir \in Path /\ Built(b.dir)
    BY DEF Dirs, Built
  <2>2. Is(View(Tree[d]), Kust(b.dir), "file") <=> Is(v, Kust(b.dir), "file")
    BY <1>2, StateAgrees
  <2> QED BY <2>1, <2>2, KustomizationSeen
<1>4. CASE HasKustomization(Tree[c], b.dir)
  BY <1>3, <1>4 DEF WrapperResources
<1>5. CASE ~HasKustomization(Tree[c], b.dir)
  <2>1. Replayed(d, NotedByWalk(Tree[c], b.dir))
    BY <1>5 DEF NotedByWrapper, Replayed
  <2>2. WalkSeen(c, d, b.dir)
    BY <2>1, WalkIsSeen
  <2>3. /\ Found(Tree[d], b.dir, "dir") = Found(Tree[c], b.dir, "dir")
        /\ Found(Tree[d], b.dir, "file") = Found(Tree[c], b.dir, "file")
        /\ \A p \in Found(Tree[c], b.dir, "dir") : HasKustomization(Tree[d], p) <=> HasKustomization(Tree[c], p)
    BY <2>2, WalkAgrees
  <2>4. YamlFound(Tree[d], b.dir) = YamlFound(Tree[c], b.dir)
    BY <2>3 DEF YamlFound
  <2>5. GenerateResources(Tree[d], b.dir) = GenerateResources(Tree[c], b.dir)
    BY <2>3, <2>4 DEF GenerateResources
  <2>6. WrapperResources(Tree[d], b) = WrapperResources(Tree[c], b)
    BY <1>3, <1>5, <2>5 DEF WrapperResources
  <2>7. ASSUME NEW p \in YamlFound(Tree[c], b.dir), Decodes(v, p) PROVE Decodes(View(Tree[d]), p)
    BY <2>2, <2>7, FileAgrees DEF WalkSeen, Decodes
  <2> QED BY <1>3, <2>4, <2>6, <2>7
<1> QED BY <1>4, <1>5

LEMMA ResourceAgrees ==
  ASSUME NEW c \in Commit, NEW d \in Commit, NEW b \in Builds, Replayed(d, NotedByKustomize(Tree[c], b)),
         NEW r \in Resources(Tree[c], b) \ {Remote}
  PROVE  /\ Is(View(Tree[d]), r, "file") <=> Is(View(Tree[c]), r, "file")
         /\ Is(View(Tree[c]), r, "file") => At(View(Tree[d]), r) = At(View(Tree[c]), r)
         /\ Lists(View(Tree[d]), r) = Lists(View(Tree[c]), r)
         /\ Decodes(View(Tree[d]), r) <=> Decodes(View(Tree[c]), r)
<1> DEFINE v == View(Tree[c])
           w == View(Tree[d])
           P == NotedByKustomize(Tree[c], b)
           rs == Resources(Tree[c], b) \ {Remote}
           ds == {q \in rs : ~Is(v, q, "file")}
           ks == {Kust(q) : q \in ds}
<1>1. Probe(v, "f", rs) \subseteq P /\ Probe(v, "s", ds) \subseteq P /\ Probe(v, "f", ks) \subseteq P /\ Replayed(d, P)
  BY DEF NotedByKustomize
<1>2. /\ r \in rs
      /\ ~Is(v, r, "file") => r \in ds /\ Kust(r) \in ks
  OBVIOUS
<1> HIDE DEF P, rs, ds, ks
<1>3. Observe(w, "f", r) = Observe(v, "f", r)
  BY <1>1, <1>2, ProbesAgree
<1>4. /\ Is(w, r, "file") <=> Is(v, r, "file")
      /\ Is(v, r, "file") => At(w, r) = At(v, r)
  BY <1>3, FileAgrees
<1>5. CASE Is(v, r, "file")
  BY <1>4, <1>5 DEF Lists, Decodes, Is
<1>6. CASE ~Is(v, r, "file")
  <2>1. Observe(w, "s", r) = Observe(v, "s", r) /\ Observe(w, "f", Kust(r)) = Observe(v, "f", Kust(r))
    BY <1>1, <1>2, <1>6, ProbesAgree
  <2>2. Is(w, r, "dir") <=> Is(v, r, "dir")
    BY <2>1, StateAgrees
  <2>3. /\ Is(w, Kust(r), "file") <=> Is(v, Kust(r), "file")
        /\ Is(v, Kust(r), "file") => At(w, Kust(r)) = At(v, Kust(r))
    BY <2>1, FileAgrees
  <2>4. Lists(w, r) = Lists(v, r)
    BY <2>2, <2>3 DEF Lists
  <2> QED BY <1>4, <1>6, <2>4 DEF Decodes
<1> QED BY <1>5, <1>6

LEMMA SameBuild ==
  ASSUME KindsStay, KustomizationsShow, NEW c \in Commit, NEW d \in Commit, NEW b \in Builds,
         Succeeds(Tree[c], b), Is(Tree[d].files, b.dir, "dir"),
         Replayed(d, NotedByWrapper(Tree[c], b) \cup NotedByKustomize(Tree[c], b))
  PROVE  Fresh(Tree[d], b) = Fresh(Tree[c], b)
<1> DEFINE v == View(Tree[c])
           w == View(Tree[d])
           S == WrapperResources(Tree[c], b)
<1>1. /\ Replayed(d, NotedByWrapper(Tree[c], b)) /\ Replayed(d, NotedByKustomize(Tree[c], b))
      /\ b.dir \in Dirs(c) \cap Dirs(d)
  BY IsFileThere DEF Replayed, Succeeds, Dirs
<1>2. WrapperResources(Tree[d], b) = S
  BY <1>1, WrapperAgrees
<1>3. \A r \in Resources(Tree[c], b) \ {Remote} :
        /\ Is(w, r, "file") <=> Is(v, r, "file")
        /\ Is(v, r, "file") => At(w, r) = At(v, r)
        /\ Lists(w, r) = Lists(v, r)
        /\ Decodes(w, r) <=> Decodes(v, r)
  BY <1>1, ResourceAgrees
<1>4. Resources(Tree[d], b) = Resources(Tree[c], b)
  <2>1. Resources(Tree[c], b) = Included(v, S) /\ Resources(Tree[d], b) = Included(w, S)
    BY <1>2 DEF Resources
  <2> HIDE DEF v, w, S
  <2> QED BY <1>3, <2>1, IncludedAgrees
<1>5. ASSUME NEW r \in Resources(Tree[c], b) \ {Remote}
      PROVE  Included(w, Lists(w, r)) = Included(v, Lists(v, r))
  <2>1. Resources(Tree[c], b) = Included(v, S) /\ Lists(w, r) = Lists(v, r)
    BY <1>3 DEF Resources
  <2> HIDE DEF v, w, S
  <2>2. Included(v, Lists(v, r)) \subseteq Included(v, S)
    BY <2>1, IncludedWithin
  <2>3. \A q \in Included(v, Lists(v, r)) \ {Remote} : Lists(w, q) = Lists(v, q)
    BY <1>3, <2>1, <2>2
  <2> QED BY <2>1, <2>3, IncludedAgrees
<1>6. Succeeds(Tree[d], b)
  <2>1. HasKustomization(Tree[d], b.dir) \/ \A p \in YamlFound(Tree[d], b.dir) : Decodes(w, p)
    BY <1>1, WrapperAgrees DEF Succeeds
  <2>2. ASSUME NEW r \in Resources(Tree[d], b) \ {Remote}
        PROVE  Decodes(w, r) \/ (Lists(w, r) # {} /\ r \notin Included(w, Lists(w, r)))
    <3>1. Decodes(v, r) \/ (Lists(v, r) # {} /\ r \notin Included(v, Lists(v, r)))
      BY <1>4, <2>2 DEF Succeeds
    <3> QED BY <1>3, <1>4, <1>5, <2>2, <3>1
  <2> QED BY <2>1, <2>2 DEF Succeeds
<1>7. Objects(Tree[d], b) = Objects(Tree[c], b)
  <2>1. \A r \in Resources(Tree[c], b) \ {Remote} :
          (IF Is(w, r, "file") THEN At(w, r).holds ELSE {}) = (IF Is(v, r, "file") THEN At(v, r).holds ELSE {})
    BY <1>3
  <2> QED BY <1>4, <2>1 DEF Objects
<1> QED BY <1>6, <1>7 DEF Fresh

-----------------------------------------------------------------------------
(* The records of a key, and what a job ought to answer.                   *)
Keys      == {OverlayKey(b) : b \in Builds}
Noted(c, b) == NotedByWrapper(Tree[c], b) \cup NotedByKustomize(Tree[c], b)
Record(c, b) == [probes |-> Noted(c, b), result |-> Fresh(Tree[c], b)]
Records(k) == {r \in {Record(c, b) : c \in Commit, b \in {a \in Builds : OverlayKey(a) = k}} : r.result.ok}
Answers   == {<<>>} \cup {Fresh(Tree[c], b) : c \in Commit, b \in Builds} \cup {FreshChart(c) : c \in Charts}
Right(j)  == IF j \in Builds THEN Fresh(Tree[Co(j)], j) ELSE FreshChart(j)

LEMMA MadeIs ==
  ASSUME NEW b \in Builds, checkout \in Checkouts
  PROVE  /\ Co(b) \in Commit
         /\ Made(b).result = Fresh(Tree[Co(b)], b) /\ Made(b).probes = Noted(Co(b), b)
<1>1. Co(b) \in Commit
  BY TreeAssumption DEF Jobs, Co
<1> DEFINE Outcome(c, a) ==
             [commit |-> c, build |-> a, result |-> Fresh(Tree[c], a), probes |-> Noted(c, a),
              cacheable |-> Cacheable(Tree[c], a)]
<1>2. Outcomes = {Outcome(c, a) : c \in Commit, a \in Builds}
  BY DEF Outcomes, Noted
<1>3. \A c, a : /\ Outcome(c, a).commit = c /\ Outcome(c, a).build = a
                /\ Outcome(c, a).result = Fresh(Tree[c], a) /\ Outcome(c, a).probes = Noted(c, a)
  OBVIOUS
<1> HIDE DEF Outcome
<1>4. \E o \in Outcomes : o.commit = Co(b) /\ o.build = b
  BY <1>1, <1>2, <1>3
<1>5. Made(b) \in Outcomes /\ Made(b).commit = Co(b) /\ Made(b).build = b
  BY <1>4 DEF Made
<1>6. PICK c \in Commit, a \in Builds : Made(b) = Outcome(c, a)
  BY <1>2, <1>5
<1> QED BY <1>1, <1>3, <1>5, <1>6

(* A record that replays holds what the build itself would come to.        *)
LEMMA RecordServes ==
  ASSUME KindsStay, KustomizationsShow, NEW b \in Builds, checkout \in Checkouts,
         Is(Tree[Co(b)].files, b.dir, "dir"), NEW e \in Records(OverlayKey(b)), Replays(b, e)
  PROVE  e.result = Fresh(Tree[Co(b)], b)
<1>1. PICK c \in Commit, a \in {x \in Builds : OverlayKey(x) = OverlayKey(b)} : e = Record(c, a) /\ e.result.ok
  BY DEF Records
<1>2. e.probes = Noted(c, a) /\ e.result = Fresh(Tree[c], a)
  BY <1>1 DEF Record
<1>3. Fresh(Tree[c], a) = Fresh(Tree[c], b) /\ Noted(c, a) = Noted(c, b)
  BY <1>1, KeyDecides DEF Noted
<1>4. Succeeds(Tree[c], b)
  BY <1>1, <1>2, <1>3 DEF Fresh
<1>5. Replayed(Co(b), Noted(c, b))
  BY <1>2, <1>3, MadeIs DEF Replays, Replayed, Seen
<1> QED BY <1>2, <1>3, <1>4, <1>5, MadeIs, SameBuild DEF Noted

(* The key of a shared chart decides what it renders.                      *)
LEMMA ChartKeyDecides ==
  ASSUME NEW c \in Charts, NEW d \in Charts, Shared(c), Shared(d), ChartKey(c) = ChartKey(d)
  PROVE  FreshChart(c) = FreshChart(d)
<1>1. /\ c.source = d.source /\ c.revision = d.revision /\ c.spec = d.spec /\ c.kube = d.kube
      /\ Cardinality(c.apis) = Cardinality(d.apis)
  BY DEF ChartKey
<1>2. c.content = d.content
  BY <1>1, ChartsAssumption DEF Shared
<1>3. c.apis = d.apis
  <2>1. IsFiniteSet(c.apis) /\ IsFiniteSet(d.apis)
    BY ChartsAssumption
  <2>2. (c.apis = {} <=> Cardinality(c.apis) = 0) /\ (d.apis = {} <=> Cardinality(d.apis) = 0)
    BY <2>1, FS_EmptySet
  <2> QED BY <1>1, <2>2, ChartsAssumption
<1> QED BY <1>1, <1>2, <1>3 DEF FreshChart

-----------------------------------------------------------------------------
(* The inductive invariant: every record, wherever it is kept, is that of  *)
(* a build with this key that succeeded in some commit; a candidate was    *)
(* looked up by a build of a directory; what is about to be stored, and    *)
(* what was reused, is what the job ought to answer.                       *)
TypeInv ==
  /\ checkout \in Checkouts
  /\ DOMAIN entries = Keys /\ DOMAIN cand = Builds
  /\ pc \in [Jobs -> {"start", "replay", "store", "done", "reused"}] /\ got \in [Jobs -> Answers]
EntriesInv ==
  \A k \in Keys : entries[k] \in Seq(Records(k))
CandInv ==
  \A b \in Builds : /\ cand[b] \in Seq(Records(OverlayKey(b)))
                    /\ cand[b] # <<>> => Is(Tree[Co(b)].files, b.dir, "dir")
ChartsInv ==
  \A e \in charts : \E d \in Charts : Shared(d) /\ e.key = ChartKey(d) /\ e.result = FreshChart(d)
GotInv ==
  \A j \in Jobs : /\ pc[j] \in {"store", "reused"} => got[j] = Right(j)
                  /\ j \in Builds /\ pc[j] = "store" => got[j].ok
CacheInv == TypeInv /\ EntriesInv /\ CandInv /\ ChartsInv /\ GotInv

LEMMA AnswersAre ==
  /\ \A c \in Commit, b \in Builds : Fresh(Tree[c], b) \in Answers
  /\ \A c \in Charts : FreshChart(c) \in Answers
  /\ \A j \in Jobs : checkout \in Checkouts => Right(j) \in Answers
<1>1. \A b \in Builds : checkout \in Checkouts => Co(b) \in Commit
  BY MadeIs
<1> QED BY <1>1 DEF Answers, Right, Jobs

LEMMA JobsAre == \A j \in Jobs : (j \in Builds \/ j \in Charts) /\ ~(j \in Builds /\ j \in Charts)
BY TreeAssumption DEF Jobs

LEMMA InitKeeps == Init => CacheInv
<1> SUFFICES ASSUME Init PROVE CacheInv
  OBVIOUS
<1>1. TypeInv
  BY DEF Init, TypeInv, Keys, Answers
<1>2. EntriesInv /\ CandInv
  BY DEF Init, EntriesInv, CandInv, Keys
<1>3. ChartsInv /\ GotInv
  BY DEF Init, ChartsInv, GotInv, Jobs
<1> QED BY <1>1, <1>2, <1>3 DEF CacheInv

LEMMA LookupKeeps ==
  ASSUME CacheInv, NEW b \in Builds, Lookup(b)
  PROVE  CacheInv'
<1> USE DEF CacheInv
<1>1. TypeInv' /\ ChartsInv' /\ EntriesInv'
  BY DEF TypeInv, ChartsInv, EntriesInv, Lookup, Go
<1>2. GotInv'
  <2>1. \A j \in Jobs : pc'[j] \in {"store", "reused"} => pc'[j] = pc[j]
    BY DEF TypeInv, Lookup, Go
  <2>2. got' = got /\ checkout' = checkout
    BY DEF Lookup
  <2> QED BY <2>1, <2>2 DEF GotInv, Right, Co
<1>3. CandInv'
  <2>1. checkout' = checkout /\ DOMAIN cand = Builds /\ OverlayKey(b) \in Keys
    BY DEF Lookup, TypeInv, Keys
  <2>2. cand' = [cand EXCEPT ![b] = IF Is(Tree[Co(b)].files, b.dir, "dir") THEN entries[OverlayKey(b)] ELSE <<>>]
    BY DEF Lookup
  <2>3. cand'[b] \in Seq(Records(OverlayKey(b))) /\ (cand'[b] # <<>> => Is(Tree[Co(b)].files, b.dir, "dir"))
    BY <2>1, <2>2 DEF EntriesInv
  <2>4. \A a \in Builds \ {b} : cand'[a] = cand[a]
    BY <2>1, <2>2
  <2> QED BY <2>1, <2>3, <2>4 DEF CandInv, Co
<1> QED BY <1>1, <1>2, <1>3

LEMMA HitKeeps ==
  ASSUME KindsStay, KustomizationsShow, CacheInv, NEW b \in Builds, Hit(b)
  PROVE  CacheInv'
<1> USE DEF CacheInv
<1>1. PICK i \in DOMAIN cand[b] : Replays(b, cand[b][i]) /\ got' = [got EXCEPT ![b] = cand[b][i].result]
  BY DEF Hit
<1>2. cand[b][i].result = Right(b)
  <2>1. cand[b][i] \in Records(OverlayKey(b)) /\ cand[b] # <<>>
    BY <1>1 DEF CandInv
  <2>2. Is(Tree[Co(b)].files, b.dir, "dir") /\ checkout \in Checkouts
    BY <2>1 DEF CandInv, TypeInv
  <2> QED BY <1>1, <2>1, <2>2, RecordServes DEF Right
<1>3. b \in Jobs /\ pc' = [pc EXCEPT ![b] = "reused"] /\ UNCHANGED <<checkout, entries, charts, cand>>
  BY DEF Hit, Go, Jobs
<1>4. TypeInv'
  BY <1>1, <1>2, <1>3, AnswersAre DEF TypeInv
<1>5. EntriesInv' /\ CandInv' /\ ChartsInv'
  BY <1>3 DEF EntriesInv, CandInv, ChartsInv, Co
<1>6. GotInv'
  <2>1. \A j \in Jobs : Right(j)' = Right(j)
    BY <1>3 DEF Right, Co
  <2>2. \A j \in Jobs \ {b} : pc'[j] = pc[j] /\ got'[j] = got[j]
    BY <1>1, <1>3 DEF TypeInv
  <2>3. got'[b] = Right(b) /\ pc'[b] = "reused"
    BY <1>1, <1>2, <1>3 DEF TypeInv
  <2> QED BY <2>1, <2>2, <2>3 DEF GotInv
<1> QED BY <1>4, <1>5, <1>6

LEMMA BuildKeeps ==
  ASSUME CacheInv, NEW b \in Builds, Build(b)
  PROVE  CacheInv'
<1> USE DEF CacheInv
<1>1. Made(b).result = Right(b)
  BY MadeIs DEF Right, TypeInv
<1>2. /\ b \in Jobs /\ got' = [got EXCEPT ![b] = Right(b)]
      /\ pc' = [pc EXCEPT ![b] = IF got'[b].ok THEN "store" ELSE "done"]
      /\ UNCHANGED <<checkout, entries, charts, cand>>
  BY <1>1 DEF Build, Jobs
<1>3. TypeInv'
  <2>1. Right(b) \in Answers
    BY <1>2, AnswersAre DEF TypeInv
  <2>2. got' \in [Jobs -> Answers]
    BY <1>2, <2>1 DEF TypeInv
  <2> QED BY <1>2, <2>2 DEF TypeInv
<1>4. EntriesInv' /\ CandInv' /\ ChartsInv'
  BY <1>2 DEF EntriesInv, CandInv, ChartsInv, Co
<1>5. GotInv'
  <2>1. \A j \in Jobs : Right(j)' = Right(j)
    BY <1>2 DEF Right, Co
  <2>2. \A j \in Jobs \ {b} : pc'[j] = pc[j] /\ got'[j] = got[j]
    BY <1>2 DEF TypeInv
  <2>3. got'[b] = Right(b) /\ (pc'[b] = "store" => got'[b].ok)
    BY <1>2 DEF TypeInv
  <2> QED BY <2>1, <2>2, <2>3 DEF GotInv
<1> QED BY <1>3, <1>4, <1>5

LEMMA StoreKeeps ==
  ASSUME CacheInv, NEW b \in Builds, Store(b)
  PROVE  CacheInv'
<1> USE DEF CacheInv
<1>1. /\ b \in Jobs /\ pc[b] = "store" /\ pc' = [pc EXCEPT ![b] = "done"]
      /\ UNCHANGED <<checkout, charts, cand, got>>
  BY DEF Store, Go, Jobs
<1>2. [probes |-> Made(b).probes, result |-> got[b]] \in Records(OverlayKey(b))
  <2>1. got[b] = Fresh(Tree[Co(b)], b) /\ got[b].ok
    BY <1>1 DEF GotInv, Right
  <2>2. Co(b) \in Commit /\ Made(b).probes = Noted(Co(b), b)
    BY MadeIs DEF TypeInv
  <2>3. [probes |-> Made(b).probes, result |-> got[b]] = Record(Co(b), b) /\ Record(Co(b), b).result.ok
    BY <2>1, <2>2 DEF Record
  <2> QED BY <2>2, <2>3 DEF Records
<1>3. EntriesInv' /\ DOMAIN entries' = Keys
  <2> DEFINE k == OverlayKey(b)
             r == [probes |-> Made(b).probes, result |-> got[b]]
  <2>1. entries' = entries \/ entries' = [entries EXCEPT ![k] = Append(entries[k], r)]
    BY DEF Store
  <2>2. k \in Keys /\ r \in Records(k) /\ DOMAIN entries = Keys
    BY <1>2 DEF Keys, TypeInv
  <2> HIDE DEF k, r
  <2>3. Append(entries[k], r) \in Seq(Records(k))
    BY <2>2 DEF EntriesInv
  <2> QED BY <2>1, <2>2, <2>3 DEF EntriesInv
<1>4. TypeInv' /\ CandInv' /\ ChartsInv'
  BY <1>1, <1>3 DEF TypeInv, CandInv, ChartsInv, Co
<1>5. GotInv'
  <2>1. \A j \in Jobs : Right(j)' = Right(j)
    BY <1>1 DEF Right, Co
  <2>2. \A j \in Jobs \ {b} : pc'[j] = pc[j]
    BY <1>1 DEF TypeInv
  <2>3. pc'[b] = "done"
    BY <1>1 DEF TypeInv
  <2> QED BY <1>1, <2>1, <2>2, <2>3 DEF GotInv
<1> QED BY <1>3, <1>4, <1>5

LEMMA ChartHitKeeps ==
  ASSUME CacheInv, NEW c \in Charts, ChartHit(c)
  PROVE  CacheInv'
<1> USE DEF CacheInv
<1>1. PICK e \in charts : e.key = ChartKey(c) /\ got' = [got EXCEPT ![c] = e.result]
  BY DEF ChartHit
<1>2. /\ c \in Jobs /\ c \notin Builds /\ Shared(c) /\ pc' = [pc EXCEPT ![c] = "reused"]
      /\ UNCHANGED <<checkout, entries, charts, cand>>
  BY JobsAre DEF ChartHit, Go, Jobs
<1>3. e.result = Right(c)
  <2>1. PICK d \in Charts : Shared(d) /\ e.key = ChartKey(d) /\ e.result = FreshChart(d)
    BY DEF ChartsInv
  <2> QED BY <1>1, <1>2, <2>1, ChartKeyDecides DEF Right
<1>4. TypeInv'
  BY <1>1, <1>2, <1>3, AnswersAre DEF TypeInv
<1>5. EntriesInv' /\ CandInv' /\ ChartsInv'
  BY <1>2 DEF EntriesInv, CandInv, ChartsInv, Co
<1>6. GotInv'
  <2>1. \A j \in Jobs : Right(j)' = Right(j)
    BY <1>2 DEF Right, Co
  <2>2. \A j \in Jobs \ {c} : pc'[j] = pc[j] /\ got'[j] = got[j]
    BY <1>1, <1>2 DEF TypeInv
  <2>3. got'[c] = Right(c)
    BY <1>1, <1>2, <1>3 DEF TypeInv
  <2> QED BY <1>2, <2>1, <2>2, <2>3 DEF GotInv
<1> QED BY <1>4, <1>5, <1>6

LEMMA HelmTemplateKeeps ==
  ASSUME CacheInv, NEW c \in Charts, HelmTemplate(c)
  PROVE  CacheInv'
<1> USE DEF CacheInv
<1>1. /\ c \in Jobs /\ c \notin Builds /\ pc' = [pc EXCEPT ![c] = "store"] /\ got' = [got EXCEPT ![c] = FreshChart(c)]
      /\ UNCHANGED <<checkout, entries, charts, cand>>
  BY JobsAre DEF HelmTemplate, Go, Jobs
<1>2. TypeInv'
  BY <1>1, AnswersAre DEF TypeInv
<1>3. EntriesInv' /\ CandInv' /\ ChartsInv'
  BY <1>1 DEF EntriesInv, CandInv, ChartsInv, Co
<1>4. GotInv'
  <2>1. \A j \in Jobs : Right(j)' = Right(j)
    BY <1>1 DEF Right, Co
  <2>2. \A j \in Jobs \ {c} : pc'[j] = pc[j] /\ got'[j] = got[j]
    BY <1>1 DEF TypeInv
  <2>3. got'[c] = Right(c)
    BY <1>1 DEF TypeInv, Right
  <2> QED BY <1>1, <2>1, <2>2, <2>3 DEF GotInv
<1> QED BY <1>2, <1>3, <1>4

LEMMA StoreChartKeeps ==
  ASSUME CacheInv, NEW c \in Charts, StoreChart(c)
  PROVE  CacheInv'
<1> USE DEF CacheInv
<1>1. /\ c \in Jobs /\ c \notin Builds /\ pc[c] = "store" /\ pc' = [pc EXCEPT ![c] = "done"]
      /\ UNCHANGED <<checkout, entries, cand, got>>
  BY JobsAre DEF StoreChart, Go, Jobs
<1>2. ChartsInv'
  <2>1. got[c] = FreshChart(c)
    BY <1>1 DEF GotInv, Right
  <2>2. \A e \in charts' : e \in charts \/ (Shared(c) /\ e = [key |-> ChartKey(c), result |-> got[c]])
    BY DEF StoreChart
  <2> QED BY <2>1, <2>2 DEF ChartsInv
<1>3. TypeInv' /\ EntriesInv' /\ CandInv'
  BY <1>1 DEF TypeInv, EntriesInv, CandInv, Co
<1>4. GotInv'
  <2>1. \A j \in Jobs : Right(j)' = Right(j)
    BY <1>1 DEF Right, Co
  <2>2. \A j \in Jobs \ {c} : pc'[j] = pc[j]
    BY <1>1 DEF TypeInv
  <2>3. pc'[c] = "done"
    BY <1>1 DEF TypeInv
  <2> QED BY <1>1, <2>1, <2>2, <2>3 DEF GotInv
<1> QED BY <1>2, <1>3, <1>4

(* The cache keeps its invariant, when kinds of files stay and             *)
(* kustomization files are not ignored.                                    *)
THEOREM CacheIsKept ==
  ASSUME KindsStay, KustomizationsShow
  PROVE  Spec => []CacheInv
<1>1. Init => CacheInv
  BY InitKeeps
<1>2. CacheInv /\ [Next]_vars => CacheInv'
  <2> SUFFICES ASSUME CacheInv, [Next]_vars PROVE CacheInv'
    OBVIOUS
  <2>1. ASSUME NEW b \in Builds, Lookup(b) \/ Hit(b) \/ Build(b) \/ Store(b) PROVE CacheInv'
    BY <2>1, LookupKeeps, HitKeeps, BuildKeeps, StoreKeeps
  <2>2. ASSUME NEW c \in Charts, ChartHit(c) \/ HelmTemplate(c) \/ StoreChart(c) PROVE CacheInv'
    BY <2>2, ChartHitKeeps, HelmTemplateKeeps, StoreChartKeeps
  <2>3. CASE UNCHANGED vars
    BY <2>3 DEF vars, CacheInv, TypeInv, EntriesInv, CandInv, ChartsInv, GotInv, Right, Co
  <2> QED BY <2>1, <2>2, <2>3 DEF Next
<1> QED BY <1>1, <1>2, PTL DEF Spec

(* A result that was taken over from another render, of another commit     *)
(* even, is the one the render would have computed: whatever the two       *)
(* checkouts hold, and in whatever order builds and charts look up and     *)
(* store.                                                                  *)
THEOREM ReusedCorrect ==
  ASSUME KindsStay, KustomizationsShow
  PROVE  Spec => []ReusedIsFresh
<1>1. CacheInv => ReusedIsFresh
  BY MadeIs DEF CacheInv, TypeInv, GotInv, ReusedIsFresh, Right
<1> QED BY <1>1, CacheIsKept, PTL
=============================================================================
