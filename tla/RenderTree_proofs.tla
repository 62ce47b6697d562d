-------------------------- MODULE RenderTree_proofs --------------------------
(***************************************************************************)
(* The tree that is rendered, for any repository: its levels are           *)
(* distances from the root, and what a level renders is there for the      *)
(* next.                                                                   *)
(***************************************************************************)
EXTENDS RenderTree, SequenceTheorems, FiniteSetTheorems, WellFoundedInduction, TLAPS

-----------------------------------------------------------------------------
(* The inductive invariant.  A component is treated when its place in the  *)
(* substitution of its level has passed, started when what it renders is   *)
(* being looked at; D is the depth of the level.                           *)
D == depth[level[1]]
Loop    == phase \in {"substitute", "done"}
Older   == Elems(comps) \ Elems(level)
Passed  == {level[j] : j \in 1 .. pos - 1}
Treated == IF Loop THEN Older \cup Passed ELSE Older
Started == IF kid # 0 THEN Treated \cup {level[pos]} ELSE Treated
Indexed == IF Loop THEN Elems(comps) ELSE Older
Why     == {"no", "undefined", "noResolver", "unavailable", "build", "substitution"}
Good    == {"no", "substitution"}
Raw(v)  == v # None /\ v.text = "raw"

TypeInv ==
  /\ repo \in Repo
  /\ phase \in {"fetch", "build", "substitute", "done"}
  /\ level \in Seq(Comp) /\ next \in Seq(Comp) /\ comps \in Seq(Comp) /\ Len(level) >= 1
  /\ pos \in 1 .. Len(level) + 1 /\ kid \in Nat
  /\ byKey \in SUBSET Comp
  /\ parent \in [Comp -> Comp \cup {None}] /\ depth \in [Comp -> Nat]
  /\ opaque \in [Comp -> Why]
  /\ sources \in SUBSET Src /\ data \in [Data -> Value]
  /\ saw \in [Comp -> [Data -> Value]] /\ missing \in [Comp -> SUBSET Data]

(* Where the loops are.                                                    *)
LoopInv ==
  /\ kid # 0 => phase = "substitute" /\ pos <= Len(level) /\ opaque[level[pos]] = "no"
  /\ phase # "substitute" => next = <<>>
  /\ phase = "done" => pos > Len(level)
  /\ pending \subseteq Elems(level)
  /\ phase = "build" => pending \subseteq repo.helm
  /\ Loop => pending = {}

(* Levels are disjoint, and in order of their depths.                      *)
LevelInv ==
  /\ \A i, j \in 1 .. Len(level) : level[i] = level[j] => i = j
  /\ \A i, j \in 1 .. Len(next) : next[i] = next[j] => i = j
  /\ \A i, j \in 1 .. Len(comps) : i < j => comps[i] # comps[j] /\ depth[comps[i]] <= depth[comps[j]]
  /\ \A c \in Elems(level) : depth[c] = D
  /\ \A c \in Elems(next) : depth[c] = D + 1
  /\ \A c \in Older : depth[c] < D
  /\ Elems(comps) \cap Elems(level) = IF phase = "fetch" THEN {} ELSE IF phase = "build" THEN Passed ELSE Elems(level)
  /\ Elems(next) \cap (Elems(comps) \cup Elems(level)) = {}
  /\ Root \in Elems(comps) \cup Elems(level) /\ Root \notin Elems(next)
  /\ byKey \ {Root} = (Elems(comps) \cup Elems(level) \cup Elems(next)) \ {Root}
  /\ Root \in byKey <=> phase = "done"

(* What was treated has led to what it renders; what is there was led to.  *)
Led(c, k) == k = Root \/ (k \in byKey /\ depth[k] <= depth[c] + 1)
ChildInv ==
  /\ \A c \in Treated : opaque[c] = "no" => \A k \in Elems(repo.yields[c]) : Led(c, k)
  /\ kid # 0 => \A i \in 1 .. Len(repo.yields[level[pos]]) : i < kid => Led(level[pos], repo.yields[level[pos]][i])
  /\ \A k \in byKey \ {Root} :
       /\ parent[k] \in Started /\ opaque[parent[k]] = "no"
       /\ k \in Elems(repo.yields[parent[k]]) /\ depth[k] = depth[parent[k]] + 1

(* What was indexed is visible; what was not found is rendered later.      *)
VisibleInv ==
  /\ \A c \in Comp : opaque[c] = "undefined" => c \in Elems(comps) \cup Elems(level)
  /\ \A c \in Comp : opaque[c] = "substitution" => c \in Treated
  /\ \A w \in Indexed : opaque[w] \in Good =>
       repo.defines[w] \subseteq sources /\ \A d \in repo.writes[w] : data[d] # None
  /\ \A c \in Comp, w \in Elems(comps) :
       opaque[c] = "undefined" /\ opaque[w] \in Good /\ repo.source[c] \in repo.defines[w] => depth[w] >= depth[c]
  /\ \A c \in Comp : missing[c] # {} => c \in Started
  /\ \A c \in Comp, w \in Elems(comps) :
       opaque[w] \in Good /\ missing[c] \cap repo.writes[w] # {} => depth[w] > depth[c]

(* Text that is still to be substituted is of a component whose turn is to *)
(* come, or has failed.                                                    *)
TextInv ==
  /\ \A d \in Data : Raw(data[d]) =>
       LET w == data[d].by IN
       \/ opaque[w] = "substitution"
       \/ /\ phase = "substitute" /\ d \in repo.writes[w] /\ opaque[w] = "no"
          /\ \E j \in 1 .. Len(level) : w = level[j] /\ (IF kid = 0 THEN j >= pos ELSE j > pos)
  /\ \A c \in Comp, d \in Data : Raw(saw[c][d]) =>
       LET w == saw[c][d].by IN
       /\ c \in Started /\ w \in Elems(comps)
       /\ depth[w] = depth[c] \/ opaque[w] = "substitution"

IInv == TypeInv /\ LoopInv /\ LevelInv /\ ChildInv /\ VisibleInv /\ TextInv

-----------------------------------------------------------------------------
(* Sequences of components, and the sets of the invariant.                 *)
LEMMA ElemsAre ==
  ASSUME NEW S, NEW s \in Seq(S)
  PROVE  /\ Elems(s) \subseteq S
         /\ \A i \in 1 .. Len(s) : s[i] \in Elems(s)
         /\ Elems(s) = {} <=> s = <<>>
         /\ \A k \in S : Elems(Append(s, k)) = Elems(s) \cup {k}
<1>1. \A i \in 1 .. Len(s) : s[i] \in S
  OBVIOUS
<1>2. Elems(s) = {} <=> s = <<>>
  <2>1. Len(s) \in Nat /\ (s = <<>> <=> Len(s) = 0)
    BY EmptySeq
  <2>2. Elems(s) = {} <=> 1 .. Len(s) = {}
    BY DEF Elems
  <2>3. 1 .. Len(s) = {} <=> ~(1 <= Len(s))
    BY <2>1
  <2> QED BY <2>1, <2>2, <2>3
<1>3. ASSUME NEW k \in S
      PROVE  Elems(Append(s, k)) = Elems(s) \cup {k}
  <2>1. /\ Len(Append(s, k)) = Len(s) + 1 /\ Len(s) \in Nat /\ Append(s, k)[Len(s) + 1] = k
        /\ \A i \in 1 .. Len(s) : Append(s, k)[i] = s[i]
    OBVIOUS
  <2>2. Elems(Append(s, k)) \subseteq Elems(s) \cup {k}
    BY <2>1 DEF Elems
  <2>3. Elems(s) \cup {k} \subseteq Elems(Append(s, k))
    BY <2>1 DEF Elems
  <2> QED BY <2>2, <2>3
<1> QED BY <1>1, <1>2, <1>3 DEF Elems

(* A set of positions has a last one.                                      *)
LEMMA LastIs ==
  ASSUME NEW n \in Nat, NEW S \in SUBSET (1 .. n), S # {}
  PROVE  \E i \in S : \A j \in S : j <= i
<1> DEFINE T == {n - i : i \in S}
<1>1. T \subseteq Nat /\ T # {}
  OBVIOUS
<1>2. PICK m \in T : \A k \in T : ~(<<k, m>> \in OpToRel(<, Nat))
  <2> HIDE DEF T
  <2> QED BY <1>1, NatLessThanWellFounded, WFMin
<1>3. \A k \in T : ~(k < m)
  BY <1>1, <1>2 DEF OpToRel
<1>4. PICK i \in S : m = n - i
  OBVIOUS
<1>5. ASSUME NEW j \in S PROVE j <= i
  <2>1. n - j \in T
    OBVIOUS
  <2> QED BY <1>3, <1>4, <2>1
<1> QED BY <1>5

LEMMA SetsAre ==
  ASSUME TypeInv
  PROVE  /\ Passed \subseteq Elems(level) /\ Older \subseteq Elems(comps) /\ Older \cap Elems(level) = {}
         /\ Treated \subseteq Started /\ Older \subseteq Treated
         /\ Elems(level) \subseteq Comp /\ Elems(comps) \subseteq Comp /\ Elems(next) \subseteq Comp
         /\ level[1] \in Elems(level) /\ D \in Nat
<1>1. /\ level \in Seq(Comp) /\ next \in Seq(Comp) /\ comps \in Seq(Comp) /\ Len(level) >= 1
      /\ pos \in 1 .. Len(level) + 1 /\ depth \in [Comp -> Nat]
  BY DEF TypeInv
<1>2. Elems(level) \subseteq Comp /\ Elems(comps) \subseteq Comp /\ Elems(next) \subseteq Comp
  BY <1>1, ElemsAre
<1>3. level[1] \in Elems(level)
  BY <1>1, ElemsAre
<1>4. Passed \subseteq Elems(level)
  BY <1>1 DEF Passed, Elems
<1> QED BY <1>1, <1>2, <1>3, <1>4 DEF Older, Treated, Started, D

(* The component whose turn it is.                                         *)
LEMMA TurnIs ==
  ASSUME TypeInv, LevelInv, pos <= Len(level)
  PROVE  /\ level[pos] \in Elems(level) /\ level[pos] \in Comp /\ depth[level[pos]] = D
         /\ level[pos] \notin Passed /\ level[pos] \notin Older
         /\ level[pos] \notin Treated
<1>1. /\ level \in Seq(Comp) /\ pos \in 1 .. Len(level)
  BY DEF TypeInv
<1>2. level[pos] \in Elems(level) /\ level[pos] \in Comp
  BY <1>1, ElemsAre
<1>3. level[pos] \notin Passed
  BY <1>1 DEF LevelInv, Passed
<1> QED BY <1>2, <1>3 DEF LevelInv, Older, Treated

(* What was treated is there, and is no deeper than the level.             *)
LEMMA TreatedIs ==
  ASSUME TypeInv, LoopInv, LevelInv
  PROVE  /\ Started \subseteq Elems(comps) /\ Indexed \subseteq Elems(comps)
         /\ \A c \in Elems(comps) : depth[c] <= D
         /\ ~Loop => Treated = Older /\ Started = Older /\ Indexed = Older
         /\ Loop => Elems(level) \subseteq Elems(comps)
<1>1. /\ ~Loop => kid = 0
      /\ kid # 0 => pos <= Len(level)
      /\ Loop => Elems(comps) \cap Elems(level) = Elems(level)
  BY DEF LoopInv, LevelInv, Loop
<1>2. kid # 0 => level[pos] \in Elems(level)
  BY <1>1, TurnIs
<1>3. \A c \in Comp : depth[c] \in Nat
  BY DEF TypeInv
<1>4. \A c \in Elems(comps) : depth[c] <= D
  BY <1>3, SetsAre DEF LevelInv, Older
<1> QED BY <1>1, <1>2, <1>4, SetsAre DEF Treated, Started, Indexed

-----------------------------------------------------------------------------
(* Fetching a level.                                                       *)
LEMMA InitKeeps == Init => IInv
<1> SUFFICES ASSUME Init PROVE IInv
  OBVIOUS
<1>1. /\ repo \in Repo /\ phase = "fetch" /\ level = <<Root>> /\ pos = 1 /\ kid = 0 /\ pending = {}
      /\ next = <<>> /\ comps = <<>> /\ byKey = {} /\ Root \in Comp
      /\ \A d \in Data : data[d] = None
      /\ \A c \in Comp : opaque[c] = "no" /\ missing[c] = {} /\ \A d \in Data : saw[c][d] = None
  BY ReposAssumption, RootAssumption DEF Init
<1>2. Elems(level) = {Root} /\ Elems(next) = {} /\ Elems(comps) = {}
  BY <1>1 DEF Elems
<1>3. Older = {} /\ Treated = {} /\ Started = {} /\ Indexed = {} /\ ~Loop
  BY <1>1, <1>2 DEF Older, Treated, Started, Indexed, Loop
<1>4. TypeInv
  BY <1>1 DEF Init, TypeInv, Why, Value
<1>5. LoopInv /\ LevelInv
  BY <1>1, <1>2, <1>3 DEF LoopInv, LevelInv, D
<1>6. ChildInv /\ VisibleInv
  BY <1>1, <1>2, <1>3 DEF ChildInv, VisibleInv
<1>7. TextInv
  BY <1>1 DEF TextInv, Raw
<1> QED BY <1>4, <1>5, <1>6, <1>7 DEF IInv

LEMMA FetchKeeps ==
  ASSUME IInv, NEW c \in Comp, Fetch(c)
  PROVE  IInv'
<1> USE DEF IInv
<1>1. /\ phase = "fetch" /\ c \in pending /\ opaque' = [opaque EXCEPT ![c] = Resolved(c)] /\ pending' = pending \ {c}
      /\ repo' = repo /\ phase' = phase /\ level' = level /\ pos' = pos /\ kid' = kid /\ next' = next
      /\ comps' = comps /\ byKey' = byKey /\ parent' = parent /\ depth' = depth
      /\ sources' = sources /\ data' = data /\ saw' = saw /\ missing' = missing
  BY DEF Fetch, tree, visible
<1>2. /\ Treated' = Treated /\ Started' = Started /\ Indexed' = Indexed /\ Older' = Older /\ Passed' = Passed
      /\ D' = D /\ (Loop' <=> Loop)
  BY <1>1 DEF Treated, Started, Indexed, Older, Passed, D, Loop
<1>3. /\ ~Loop /\ kid = 0 /\ c \in Elems(level) /\ c \notin Elems(comps)
      /\ Started = Treated /\ Treated \subseteq Elems(comps) /\ Indexed = Older /\ Elems(comps) = Older
  BY <1>1, TreatedIs DEF LoopInv, LevelInv, Loop, Older
<1>4. Resolved(c) \in Why \ {"substitution"} /\ (Resolved(c) = "undefined" => repo.source[c] \notin sources)
  BY DEF Resolved, Why
<1>5. opaque'[c] = Resolved(c) /\ \A x \in Comp \ {c} : opaque'[x] = opaque[x]
  BY <1>1 DEF TypeInv
<1>6. TypeInv'
  BY <1>1, <1>4 DEF TypeInv
<1>7. LoopInv' /\ LevelInv'
  BY <1>1, <1>2, <1>3 DEF LoopInv, LevelInv
<1>8. ChildInv'
  BY <1>1, <1>2, <1>3, <1>5, SetsAre DEF ChildInv, Led
<1>9. VisibleInv'
  <2>1. \A x \in Elems(comps) : x \in Comp /\ opaque'[x] = opaque[x] /\ depth[x] < D /\ depth[x] \in Nat
    BY <1>3, <1>5, SetsAre DEF LevelInv, TypeInv
  <2>2. \A w \in Indexed : opaque'[w] \in Good =>
          repo.defines[w] \subseteq sources /\ \A d \in repo.writes[w] : data[d] # None
    BY <1>3, <2>1 DEF VisibleInv
  <2>3. ASSUME opaque'[c] = "undefined", NEW w \in Elems(comps), opaque'[w] \in Good, repo.source[c] \in repo.defines[w]
        PROVE  FALSE
    BY <1>3, <1>4, <1>5, <2>2, <2>3
  <2>4. \A x \in Comp : opaque'[x] = "substitution" => x \in Treated
    BY <1>4, <1>5 DEF VisibleInv
  <2>5. \A x \in Comp : opaque'[x] = "undefined" => x \in Elems(comps) \cup Elems(level)
    BY <1>3, <1>5 DEF VisibleInv
  <2>6. \A x \in Comp, w \in Elems(comps) :
          opaque'[x] = "undefined" /\ opaque'[w] \in Good /\ repo.source[x] \in repo.defines[w] => depth[w] >= depth[x]
    BY <1>5, <2>1, <2>3 DEF VisibleInv
  <2>7. \A x \in Comp, w \in Elems(comps) :
          opaque'[w] \in Good /\ missing[x] \cap repo.writes[w] # {} => depth[w] > depth[x]
    BY <2>1 DEF VisibleInv
  <2> QED BY <1>1, <1>2, <2>2, <2>4, <2>5, <2>6, <2>7 DEF VisibleInv
<1>10. TextInv'
  <2>1. \A x \in Comp : opaque[x] = "substitution" => opaque'[x] = "substitution"
    BY <1>3, <1>5 DEF VisibleInv
  <2>2. \A d \in Data : Raw(data[d]) => data[d].by \in Comp
    BY DEF TypeInv, Value, Raw
  <2>3. \A x \in Comp, d \in Data : Raw(saw[x][d]) => saw[x][d].by \in Comp
    BY DEF TypeInv, Value, Raw
  <2> QED BY <1>1, <1>2, <2>1, <2>2, <2>3 DEF TextInv
<1> QED BY <1>6, <1>7, <1>8, <1>9, <1>10

LEMMA FetchedKeeps ==
  ASSUME IInv, Fetched
  PROVE  IInv'
<1> USE DEF IInv
<1>1. /\ phase = "fetch" /\ phase' = "build" /\ pos' = 1 /\ pending = {} /\ pending' = Charts
      /\ repo' = repo /\ level' = level /\ kid' = kid /\ next' = next /\ opaque' = opaque
      /\ comps' = comps /\ byKey' = byKey /\ parent' = parent /\ depth' = depth
      /\ sources' = sources /\ data' = data /\ saw' = saw /\ missing' = missing
  BY DEF Fetched, tree, visible
<1>2. kid = 0 /\ ~Loop /\ ~Loop' /\ Passed' = {}
  BY <1>1 DEF LoopInv, Loop, Passed
<1>3. /\ Treated' = Treated /\ Started' = Started /\ Indexed' = Indexed /\ Older' = Older /\ D' = D
  BY <1>1, <1>2 DEF Treated, Started, Indexed, Older, D
<1>4. TypeInv'
  BY <1>1 DEF TypeInv
<1>5. LoopInv'
  BY <1>1, <1>2 DEF LoopInv, Charts
<1>6. LevelInv'
  BY <1>1, <1>2, <1>3 DEF LevelInv
<1>7. ChildInv'
  BY <1>1, <1>2, <1>3 DEF ChildInv, Led
<1>8. VisibleInv'
  BY <1>1, <1>3 DEF VisibleInv
<1>9. TextInv'
  BY <1>1, <1>3 DEF TextInv
<1> QED BY <1>4, <1>5, <1>6, <1>7, <1>8, <1>9

-----------------------------------------------------------------------------
(* Building a level.                                                       *)
LEMMA ChartKeeps ==
  ASSUME IInv, NEW c \in Comp, Chart(c)
  PROVE  IInv'
<1> USE DEF IInv
<1>1. /\ phase = "build" /\ c \in pending /\ pending' = pending \ {c}
      /\ opaque' = IF c \in repo.unbuilt THEN [opaque EXCEPT ![c] = "build"] ELSE opaque
      /\ repo' = repo /\ phase' = phase /\ level' = level /\ pos' = pos /\ kid' = kid /\ next' = next
      /\ comps' = comps /\ byKey' = byKey /\ parent' = parent /\ depth' = depth
      /\ sources' = sources /\ data' = data /\ saw' = saw /\ missing' = missing
  BY DEF Chart, tree, visible
<1>2. /\ Treated' = Treated /\ Started' = Started /\ Indexed' = Indexed /\ Older' = Older /\ Passed' = Passed
      /\ D' = D /\ (Loop' <=> Loop)
  BY <1>1 DEF Treated, Started, Indexed, Older, Passed, D, Loop
<1>3. ~Loop /\ kid = 0 /\ c \in Elems(level) /\ Started = Older /\ Treated = Older /\ Indexed = Older
  BY <1>1, TreatedIs DEF LoopInv, Loop
<1>4. /\ \A x \in Comp \ {c} : opaque'[x] = opaque[x]
      /\ opaque'[c] \in {"build", opaque[c]} /\ c \notin Older
  BY <1>1, <1>3, SetsAre DEF TypeInv
<1>5. TypeInv'
  BY <1>1 DEF TypeInv, Why
<1>6. LoopInv' /\ LevelInv'
  BY <1>1, <1>2, <1>3 DEF LoopInv, LevelInv
<1>7. \A x \in Older : x \in Comp /\ x # c
  BY <1>4, SetsAre
<1>8. ChildInv'
  <2>1. \A k \in byKey \ {Root} : parent[k] \in Older
    BY <1>3 DEF ChildInv
  <2> QED BY <1>1, <1>2, <1>3, <1>4, <1>7, <2>1 DEF ChildInv, Led
<1>9. VisibleInv'
  <2>1. \A x \in Comp : /\ opaque'[x] = "undefined" => opaque[x] = "undefined"
                        /\ opaque'[x] = "substitution" => opaque[x] = "substitution"
                        /\ opaque'[x] \in Good => opaque[x] \in Good
    BY <1>4 DEF Good
  <2>2. Elems(comps) \subseteq Comp /\ Indexed \subseteq Comp
    BY <1>3, <1>7, SetsAre
  <2> QED BY <1>1, <1>2, <2>1, <2>2 DEF VisibleInv
<1>10. TextInv'
  <2>1. \A x \in Comp : opaque[x] = "substitution" => opaque'[x] = "substitution"
    BY <1>3, <1>4 DEF VisibleInv
  <2>2. \A d \in Data : Raw(data[d]) => data[d].by \in Comp
    BY DEF TypeInv, Value, Raw
  <2>3. \A x \in Comp, d \in Data : Raw(saw[x][d]) => saw[x][d].by \in Comp
    BY DEF TypeInv, Value, Raw
  <2> QED BY <1>1, <1>2, <2>1, <2>2, <2>3 DEF TextInv
<1> QED BY <1>5, <1>6, <1>8, <1>9, <1>10

LEMMA BuildKeeps ==
  ASSUME IInv, Build
  PROVE  IInv'
<1> USE DEF IInv
<1> DEFINE c == level[pos]
<1>1. /\ phase = "build" /\ pos <= Len(level) /\ comps' = Append(comps, c) /\ pos' = pos + 1
      /\ opaque' = IF c \notin repo.helm /\ opaque[c] = "no" /\ c \in repo.unbuilt
                   THEN [opaque EXCEPT ![c] = "build"] ELSE opaque
      /\ repo' = repo /\ phase' = phase /\ level' = level /\ kid' = kid /\ next' = next /\ pending' = pending
      /\ byKey' = byKey /\ parent' = parent /\ depth' = depth
      /\ sources' = sources /\ data' = data /\ saw' = saw /\ missing' = missing
  BY DEF Build, visible
<1>2. /\ c \in Elems(level) /\ c \in Comp /\ depth[c] = D /\ c \notin Passed /\ c \notin Older
      /\ c \notin Elems(comps)
  BY <1>1, TurnIs DEF LevelInv
<1>3. Elems(comps') = Elems(comps) \cup {c}
  BY <1>1, <1>2, ElemsAre DEF TypeInv
<1>4. Passed' = Passed \cup {c} /\ pos \in 1 .. Len(level)
  <2>1. pos \in 1 .. Len(level) /\ 1 .. pos' - 1 = (1 .. pos - 1) \cup {pos}
    BY <1>1 DEF TypeInv
  <2> QED BY <1>1, <2>1 DEF Passed
<1>5. ~Loop /\ ~Loop' /\ kid = 0 /\ Treated = Older /\ Started = Older /\ Indexed = Older
  BY <1>1, TreatedIs DEF LoopInv, Loop
<1>6. Older' = Older /\ D' = D
  BY <1>1, <1>2, <1>3 DEF Older, D
<1>7. Treated' = Older /\ Started' = Older /\ Indexed' = Older
  BY <1>1, <1>5, <1>6 DEF Treated, Started, Indexed
<1>8. /\ \A x \in Comp \ {c} : opaque'[x] = opaque[x]
      /\ opaque'[c] \in {"build", opaque[c]}
      /\ \A x \in Older : x \in Comp /\ x # c
  BY <1>1, <1>2, SetsAre DEF TypeInv
<1> HIDE DEF c
<1>9. TypeInv'
  BY <1>1, <1>2 DEF TypeInv, Why
<1>10. LoopInv'
  BY <1>1, <1>5 DEF LoopInv
<1>11. LevelInv'
  <2>1. \A i, j \in 1 .. Len(comps') : i < j => comps'[i] # comps'[j] /\ depth[comps'[i]] <= depth[comps'[j]]
    <3>1. /\ Len(comps') = Len(comps) + 1 /\ Len(comps) \in Nat /\ comps'[Len(comps) + 1] = c
          /\ \A i \in 1 .. Len(comps) : comps'[i] = comps[i]
      BY <1>1, <1>2 DEF TypeInv
    <3>2. \A i \in 1 .. Len(comps) : comps[i] \in Elems(comps) /\ comps[i] # c /\ depth[comps[i]] <= depth[c]
      BY <1>2, ElemsAre, TreatedIs DEF TypeInv
    <3>3. ASSUME NEW i \in 1 .. Len(comps'), NEW j \in 1 .. Len(comps'), i < j
          PROVE  comps'[i] # comps'[j] /\ depth[comps'[i]] <= depth[comps'[j]]
      <4>1. i \in 1 .. Len(comps) /\ (j \in 1 .. Len(comps) \/ j = Len(comps) + 1)
        BY <3>1, <3>3
      <4> QED BY <3>1, <3>2, <3>3, <4>1 DEF LevelInv
    <3> QED BY <3>3
  <2>2. Elems(comps') \cap Elems(level) = Passed'
    BY <1>1, <1>2, <1>3, <1>4 DEF LevelInv
  <2>3. Elems(comps') \cup Elems(level) = Elems(comps) \cup Elems(level)
    BY <1>2, <1>3
  <2> QED BY <1>1, <1>6, <2>1, <2>2, <2>3 DEF LevelInv
<1>12. ChildInv'
  <2>1. \A k \in byKey \ {Root} : parent[k] \in Older
    BY <1>5 DEF ChildInv
  <2> QED BY <1>1, <1>5, <1>7, <1>8, <2>1 DEF ChildInv, Led
<1>13. VisibleInv'
  <2>1. \A x \in Comp : /\ opaque'[x] = "undefined" => opaque[x] = "undefined"
                        /\ opaque'[x] = "substitution" => opaque[x] = "substitution"
                        /\ opaque'[x] \in Good => opaque[x] \in Good
    BY <1>8 DEF Good
  <2>2. Elems(comps) \subseteq Comp
    BY SetsAre
  <2>3. \A x \in Elems(comps) \cup Elems(level) : depth[x] <= D
    BY <1>2, TreatedIs DEF LevelInv, TypeInv
  <2>4. \A x \in Comp : missing[x] # {} => depth[x] < D
    BY <1>5 DEF VisibleInv, LevelInv
  <2>5. \A x \in Comp, w \in Elems(comps') :
          opaque'[x] = "undefined" /\ opaque'[w] \in Good /\ repo.source[x] \in repo.defines[w] => depth[w] >= depth[x]
    BY <1>2, <1>3, <2>1, <2>2, <2>3 DEF VisibleInv, TypeInv
  <2>6. \A x \in Comp, w \in Elems(comps') :
          opaque'[w] \in Good /\ missing[x] \cap repo.writes[w] # {} => depth[w] > depth[x]
    <3>1. ASSUME NEW x \in Comp, NEW w \in Elems(comps'), opaque'[w] \in Good, missing[x] \cap repo.writes[w] # {}
          PROVE  depth[w] > depth[x]
      <4>1. CASE w = c
        BY <1>2, <2>4, <3>1, <4>1, SetsAre DEF TypeInv
      <4>2. CASE w \in Elems(comps)
        BY <2>1, <2>2, <3>1, <4>2 DEF VisibleInv
      <4> QED BY <1>3, <3>1, <4>1, <4>2
    <3> QED BY <3>1
  <2>7. \A w \in Indexed' : opaque'[w] \in Good =>
          repo.defines[w] \subseteq sources /\ \A d \in repo.writes[w] : data[d] # None
    BY <1>5, <1>7, <1>8 DEF VisibleInv
  <2>8. \A x \in Comp : /\ opaque'[x] = "undefined" => x \in Elems(comps') \cup Elems(level)
                        /\ opaque'[x] = "substitution" => x \in Treated'
                        /\ missing[x] # {} => x \in Started'
    BY <1>3, <1>5, <1>7, <2>1 DEF VisibleInv
  <2> QED BY <1>1, <2>5, <2>6, <2>7, <2>8 DEF VisibleInv
<1>14. TextInv'
  <2>1. \A x \in Comp : opaque[x] = "substitution" => opaque'[x] = "substitution"
    BY <1>5, <1>8 DEF VisibleInv
  <2>2. \A d \in Data : Raw(data[d]) => data[d].by \in Comp
    BY DEF TypeInv, Value, Raw
  <2>3. \A x \in Comp, d \in Data : Raw(saw[x][d]) => saw[x][d].by \in Comp
    BY DEF TypeInv, Value, Raw
  <2> QED BY <1>1, <1>3, <1>5, <1>7, <2>1, <2>2, <2>3 DEF TextInv
<1> QED BY <1>9, <1>10, <1>11, <1>12, <1>13, <1>14

LEMMA IndexKeeps ==
  ASSUME IInv, Index
  PROVE  IInv'
<1> USE DEF IInv
<1> DEFINE built == {i \in 1 .. Len(level) : opaque[level[i]] = "no"}
           writers(d) == {i \in built : d \in repo.writes[level[i]]}
           Put(d) == CHOOSE i \in built :
                       /\ d \in repo.writes[level[i]]
                       /\ \A j \in built : d \in repo.writes[level[j]] => j <= i
<1>1. /\ phase = "build" /\ pos > Len(level) /\ pending = {} /\ phase' = "substitute" /\ pos' = 1
      /\ sources' = sources \cup UNION {repo.defines[level[i]] : i \in built}
      /\ data' = [d \in Data |->
           IF \E i \in built : d \in repo.writes[level[i]]
           THEN [by |-> level[Put(d)], text |-> Text(level[Put(d)])] ELSE data[d]]
      /\ repo' = repo /\ level' = level /\ kid' = kid /\ next' = next /\ pending' = pending
      /\ comps' = comps /\ byKey' = byKey /\ parent' = parent /\ depth' = depth
      /\ opaque' = opaque /\ saw' = saw /\ missing' = missing
  BY DEF Index, tree
<1>2. /\ ~Loop /\ Loop' /\ kid = 0 /\ Passed' = {} /\ Passed = Elems(level)
      /\ Treated = Older /\ Started = Older /\ Indexed = Older
  <2>1. 1 .. pos - 1 = 1 .. Len(level)
    BY <1>1 DEF TypeInv
  <2>2. Passed = Elems(level)
    BY <2>1 DEF Passed, Elems
  <2>3. ~Loop /\ kid = 0
    BY <1>1 DEF LoopInv, Loop
  <2> QED BY <1>1, <2>2, <2>3, TreatedIs DEF Loop, Passed
<1>3. /\ Older' = Older /\ D' = D /\ Treated' = Treated /\ Started' = Started /\ Indexed' = Elems(comps)
      /\ Elems(level) \subseteq Elems(comps)
  <2>1. Older' = Older /\ D' = D
    BY <1>1 DEF Older, D
  <2>2. Elems(level) \subseteq Elems(comps)
    BY <1>1, <1>2 DEF LevelInv
  <2>3. Treated' = Treated /\ Started' = Started /\ Indexed' = Elems(comps)
    BY <1>1, <1>2, <2>1 DEF Treated, Started, Indexed
  <2> QED BY <2>1, <2>2, <2>3
<1>4. /\ \A i \in built : level[i] \in Comp /\ level[i] \in Elems(level) /\ opaque[level[i]] = "no"
      /\ built \subseteq 1 .. Len(level) /\ Len(level) \in Nat
  BY ElemsAre DEF TypeInv
<1>5. \A d \in Data : \/ data'[d] = data[d] /\ writers(d) = {}
                      \/ \E i \in built : /\ d \in repo.writes[level[i]]
                                          /\ data'[d] = [by |-> level[i], text |-> Text(level[i])]
  <2>1. SUFFICES ASSUME NEW d \in Data
                 PROVE  \/ data'[d] = data[d] /\ writers(d) = {}
                        \/ \E i \in built : /\ d \in repo.writes[level[i]]
                                            /\ data'[d] = [by |-> level[i], text |-> Text(level[i])]
    OBVIOUS
  <2>2. CASE writers(d) = {}
    BY <1>1, <2>2
  <2>3. CASE writers(d) # {}
    <3>1. \E i \in writers(d) : \A j \in writers(d) : j <= i
      <4>1. writers(d) \in SUBSET (1 .. Len(level))
        BY <1>4
      <4> HIDE DEF writers
      <4> QED BY <1>4, <2>3, <4>1, LastIs
    <3>2. Put(d) \in built /\ d \in repo.writes[level[Put(d)]]
      <4>1. \E i \in built : /\ d \in repo.writes[level[i]]
                             /\ \A j \in built : d \in repo.writes[level[j]] => j <= i
        BY <3>1
      <4> QED BY <4>1
    <3>3. data'[d] = [by |-> level[Put(d)], text |-> Text(level[Put(d)])]
      <4>1. \E i \in built : d \in repo.writes[level[i]]
        BY <2>3
      <4> HIDE DEF Put
      <4> QED BY <1>1, <4>1
    <3> HIDE DEF Put, built
    <3> QED BY <3>2, <3>3
  <2> QED BY <2>2, <2>3
<1>6. \A c : Text(c) \in {"raw", "final"}
  BY DEF Text
<1>7. \A d \in Data : data'[d] \in Value /\ (data'[d] = None => data[d] = None /\ writers(d) = {})
  <2>1. SUFFICES ASSUME NEW d \in Data
                 PROVE  data'[d] \in Value /\ (data'[d] = None => data[d] = None /\ writers(d) = {})
    OBVIOUS
  <2>2. CASE data'[d] = data[d] /\ writers(d) = {}
    BY <2>2 DEF TypeInv
  <2>3. CASE \E i \in built : d \in repo.writes[level[i]] /\ data'[d] = [by |-> level[i], text |-> Text(level[i])]
    <3>1. PICK i \in built : data'[d] = [by |-> level[i], text |-> Text(level[i])]
      BY <2>3
    <3>2. data'[d] \in [by : Comp, text : {"raw", "final"}]
      BY <1>4, <1>6, <3>1
    <3> QED BY <3>2, RootAssumption DEF Value
  <2> QED BY <1>5, <2>2, <2>3
<1>8. \A w \in Elems(level) : opaque[w] = "no" => \E i \in built : w = level[i]
  BY DEF Elems
<1> HIDE DEF Put
<1>9. TypeInv'
  <2>1. data' \in [Data -> Value]
    BY <1>1, <1>7
  <2>2. sources' \in SUBSET Src
    <3>1. \A c \in Comp : repo.defines[c] \subseteq Src
      BY DEF TypeInv, Repo, RepoType
    <3> QED BY <1>1, <1>4, <3>1 DEF TypeInv
  <2> QED BY <1>1, <2>1, <2>2 DEF TypeInv
<1>10. LoopInv' /\ LevelInv'
  BY <1>1, <1>2, <1>3 DEF LoopInv, LevelInv, Loop
<1>11. ChildInv'
  BY <1>1, <1>2, <1>3 DEF ChildInv, Led
<1>12. VisibleInv'
  <2>1. ASSUME NEW w \in Elems(comps), opaque[w] \in Good
        PROVE  repo.defines[w] \subseteq sources' /\ \A d \in repo.writes[w] : data'[d] # None
    <3>1. repo.writes[w] \subseteq Data
      BY SetsAre DEF TypeInv, Repo, RepoType
    <3>2. CASE w \in Older
      BY <1>1, <1>2, <1>7, <2>1, <3>1, <3>2 DEF VisibleInv
    <3>3. CASE w \in Elems(level)
      <4>1. opaque[w] = "no"
        BY <1>2, <2>1, <3>3, SetsAre DEF VisibleInv, Good
      <4>2. PICK i \in built : w = level[i]
        BY <1>8, <3>3, <4>1
      <4>3. repo.defines[w] \subseteq sources'
        BY <1>1, <4>2
      <4>4. \A d \in repo.writes[w] : i \in writers(d)
        BY <4>2
      <4> QED BY <1>7, <3>1, <4>3, <4>4
    <3> QED BY <2>1, <3>2, <3>3 DEF Older
  <2> QED BY <1>1, <1>3, <2>1 DEF VisibleInv
<1>13. TextInv'
  <2>1. ASSUME NEW d \in Data, Raw(data'[d])
        PROVE  \/ opaque[data'[d].by] = "substitution"
               \/ /\ d \in repo.writes[data'[d].by] /\ opaque[data'[d].by] = "no"
                  /\ \E j \in 1 .. Len(level) : data'[d].by = level[j] /\ j >= 1
    <3>1. CASE data'[d] = data[d]
      BY <1>1, <2>1, <3>1 DEF TextInv
    <3>2. CASE \E i \in built : d \in repo.writes[level[i]] /\ data'[d] = [by |-> level[i], text |-> Text(level[i])]
      BY <1>4, <3>2
    <3> QED BY <1>5, <3>1, <3>2
  <2>2. \A d \in Data : Raw(data[d])' <=> Raw(data'[d])
    BY DEF Raw
  <2>3. \A x \in Comp, d \in Data : Raw(saw[x][d])' <=> Raw(saw[x][d])
    BY <1>1 DEF Raw
  <2> QED BY <1>1, <1>2, <1>3, <2>1, <2>2, <2>3 DEF TextInv
<1> QED BY <1>9, <1>10, <1>11, <1>12, <1>13

-----------------------------------------------------------------------------
(* Substituting a level: a component that is passed over, one that fails,  *)
(* and one whose render is looked at next.                                 *)
LEMMA SubstituteSteps ==
  ASSUME IInv, Substitute
  PROVE  LET c == level[pos] IN
         /\ phase = "substitute" /\ pos <= Len(level) /\ kid = 0 /\ pos \in 1 .. Len(level)
         /\ repo' = repo /\ phase' = phase /\ level' = level /\ pending' = pending /\ next' = next
         /\ comps' = comps /\ byKey' = byKey /\ parent' = parent /\ depth' = depth
         /\ Older' = Older /\ D' = D /\ Loop /\ Loop' /\ Indexed' = Indexed /\ Indexed = Elems(comps)
         /\ Started = Treated /\ Started' = Treated \cup {c}
         /\ Treated' = (IF kid' = 0 THEN Treated \cup {c} ELSE Treated)
         /\ c \in Elems(comps) /\ c \in Comp /\ c \notin Treated /\ depth[c] = D
<1> USE DEF IInv
<1> DEFINE c == level[pos]
<1>1. /\ phase = "substitute" /\ pos <= Len(level) /\ kid = 0 /\ pos \in 1 .. Len(level)
      /\ repo' = repo /\ phase' = phase /\ level' = level /\ pending' = pending /\ next' = next
      /\ comps' = comps /\ byKey' = byKey /\ parent' = parent /\ depth' = depth
  BY DEF Substitute, TypeInv, tree
<1>2. (kid' = 0 /\ pos' = pos + 1) \/ (kid' = 1 /\ pos' = pos)
  BY <1>1 DEF Substitute
<1>3. Older' = Older /\ D' = D /\ Loop /\ Loop' /\ Indexed' = Indexed /\ Indexed = Elems(comps)
  BY <1>1 DEF Older, D, Loop, Indexed
<1>4. c \in Elems(level) /\ c \in Comp /\ c \notin Treated /\ depth[c] = D
  BY <1>1, TurnIs
<1>5. c \in Elems(comps)
  BY <1>3, <1>4, TreatedIs
<1>6. Started = Treated /\ Treated = Older \cup Passed
  BY <1>1, <1>3 DEF Started, Treated
<1>7. Passed' = IF kid' = 0 THEN Passed \cup {c} ELSE Passed
  <2>1. CASE kid' = 0
    <3>1. 1 .. pos' - 1 = (1 .. pos - 1) \cup {pos}
      BY <1>1, <1>2, <2>1
    <3> QED BY <1>1, <2>1, <3>1 DEF Passed
  <2>2. CASE kid' # 0
    BY <1>1, <1>2, <2>2 DEF Passed
  <2> QED BY <2>1, <2>2
<1>8. Treated' = IF kid' = 0 THEN Treated \cup {c} ELSE Treated
  BY <1>3, <1>6, <1>7 DEF Treated
<1>9. Started' = Treated \cup {c}
  BY <1>1, <1>2, <1>8 DEF Started
<1> QED BY <1>1, <1>3, <1>4, <1>5, <1>6, <1>8, <1>9

(* The invariant of levels does not see it.                                *)
LEMMA LevelStays ==
  ASSUME LevelInv, phase = "substitute",
         phase' = phase /\ level' = level /\ next' = next /\ comps' = comps /\ byKey' = byKey /\ depth' = depth,
         Older' = Older, D' = D
  PROVE  LevelInv'
BY DEF LevelInv

LEMMA SkipKeeps ==
  ASSUME IInv, Substitute, opaque[level[pos]] # "no"
  PROVE  IInv'
<1> USE DEF IInv
<1> DEFINE c == level[pos]
<1>1. /\ pos' = pos + 1 /\ kid' = kid /\ opaque' = opaque /\ sources' = sources /\ data' = data
      /\ saw' = saw /\ missing' = missing
  BY DEF Substitute, visible
<1>2. /\ phase = "substitute" /\ pos <= Len(level) /\ kid = 0 /\ pos \in 1 .. Len(level)
      /\ repo' = repo /\ phase' = phase /\ level' = level /\ pending' = pending /\ next' = next
      /\ comps' = comps /\ byKey' = byKey /\ parent' = parent /\ depth' = depth
      /\ Older' = Older /\ D' = D /\ Loop /\ Loop' /\ Indexed' = Indexed
      /\ Started = Treated /\ Started' = Treated \cup {c} /\ Treated' = Treated \cup {c}
      /\ c \in Comp
  BY <1>1, SubstituteSteps
<1>3. TypeInv' /\ LoopInv' /\ LevelInv'
  BY <1>1, <1>2, LevelStays DEF TypeInv, LoopInv
<1>4. ChildInv'
  BY <1>1, <1>2 DEF ChildInv, Led
<1>5. VisibleInv'
  BY <1>1, <1>2 DEF VisibleInv
<1>6. TextInv'
  <2>1. ASSUME NEW j \in 1 .. Len(level), j >= pos, opaque[level[j]] = "no"
        PROVE  j >= pos'
    BY <1>1, <1>2, <2>1
  <2>2. \A d \in Data : (Raw(data[d])' <=> Raw(data[d])) /\ \A x \in Comp : Raw(saw[x][d])' <=> Raw(saw[x][d])
    BY <1>1 DEF Raw
  <2> HIDE DEF c
  <2> QED BY <1>1, <1>2, <2>1, <2>2 DEF TextInv
<1> QED BY <1>3, <1>4, <1>5, <1>6

(* What a component substitutes with, and what it does not find.           *)
LEMMA ReadIs ==
  ASSUME IInv, Substitute, opaque[level[pos]] = "no"
  PROVE  LET c == level[pos] IN
         /\ \A d \in Data : Raw(saw'[c][d]) =>
              LET w == saw'[c][d].by IN
              w \in Elems(comps) /\ w \in Comp /\ (depth[w] = D \/ opaque[w] = "substitution")
         /\ \A w \in Elems(comps) : opaque[w] \in Good => missing'[c] \cap repo.writes[w] = {}
         /\ \A x \in Comp \ {c} : saw'[x] = saw[x] /\ missing'[x] = missing[x]
         /\ saw' \in [Comp -> [Data -> Value]] /\ missing' \in [Comp -> SUBSET Data]
<1> USE DEF IInv
<1> DEFINE c == level[pos]
<1>1. /\ saw' = [saw EXCEPT ![c] = [d \in Data |-> IF d \in repo.reads[c] THEN data[d] ELSE None]]
      /\ missing' = [missing EXCEPT ![c] = {d \in repo.reads[c] : data[d] = None /\ d \notin repo.externals}]
  BY DEF Substitute
<1>2. /\ phase = "substitute" /\ c \in Comp /\ Indexed = Elems(comps) /\ Loop /\ kid = 0
  BY SubstituteSteps
<1>3. repo.reads[c] \subseteq Data /\ \A w \in Comp : repo.writes[w] \subseteq Data
  BY <1>2 DEF TypeInv, Repo, RepoType
<1>4. ASSUME NEW d \in Data, Raw(data[d])
      PROVE  LET w == data[d].by IN
             w \in Elems(comps) /\ w \in Comp /\ (depth[w] = D \/ opaque[w] = "substitution")
  <2>1. data[d].by \in Comp
    BY <1>4 DEF TypeInv, Value, Raw
  <2>2. CASE opaque[data[d].by] = "substitution"
    BY <2>1, <2>2, SetsAre, TreatedIs DEF VisibleInv
  <2>3. CASE \E j \in 1 .. Len(level) : data[d].by = level[j]
    <3>1. data[d].by \in Elems(level)
      BY <2>3, ElemsAre DEF TypeInv
    <3> QED BY <1>2, <2>1, <3>1, TreatedIs DEF LevelInv
  <2> QED BY <1>4, <2>2, <2>3 DEF TextInv
<1> HIDE DEF c
<1>5. saw' \in [Comp -> [Data -> Value]]
  BY <1>1, <1>2 DEF TypeInv, Value
<1>6. missing' \in [Comp -> SUBSET Data]
  BY <1>1, <1>2, <1>3 DEF TypeInv
<1>7. \A x \in Comp \ {c} : saw'[x] = saw[x] /\ missing'[x] = missing[x]
  BY <1>1 DEF TypeInv
<1>8. \A d \in Data : saw'[c][d] \in {data[d], None}
  BY <1>1, <1>2 DEF TypeInv
<1>9. \A d \in Data : Raw(saw'[c][d]) => saw'[c][d] = data[d]
  BY <1>8 DEF Raw
<1>10. missing'[c] = {d \in repo.reads[c] : data[d] = None /\ d \notin repo.externals}
  BY <1>1, <1>2 DEF TypeInv
<1>11. \A w \in Elems(comps) : opaque[w] \in Good => missing'[c] \cap repo.writes[w] = {}
  BY <1>2, <1>10 DEF VisibleInv
<1> QED BY <1>4, <1>5, <1>6, <1>7, <1>9, <1>11 DEF c

LEMMA FailKeeps ==
  ASSUME IInv, Substitute, opaque[level[pos]] = "no", level[pos] \in repo.unsubst
  PROVE  IInv'
<1> USE DEF IInv
<1> DEFINE c == level[pos]
<1>1. /\ opaque' = [opaque EXCEPT ![c] = "substitution"] /\ pos' = pos + 1 /\ kid' = kid
      /\ sources' = sources /\ data' = data
  BY DEF Substitute, visible
<1>2. /\ phase = "substitute" /\ pos <= Len(level) /\ kid = 0 /\ pos \in 1 .. Len(level)
      /\ repo' = repo /\ phase' = phase /\ level' = level /\ pending' = pending /\ next' = next
      /\ comps' = comps /\ byKey' = byKey /\ parent' = parent /\ depth' = depth
      /\ Older' = Older /\ D' = D /\ Loop /\ Loop' /\ Indexed' = Indexed /\ Indexed = Elems(comps)
      /\ Started = Treated /\ Started' = Treated \cup {c} /\ Treated' = Treated \cup {c}
      /\ c \in Comp /\ c \notin Treated /\ c \in Elems(comps) /\ depth[c] = D
  BY <1>1, SubstituteSteps
<1>3. /\ \A d \in Data : Raw(saw'[c][d]) =>
           LET w == saw'[c][d].by IN
           w \in Elems(comps) /\ w \in Comp /\ (depth[w] = D \/ opaque[w] = "substitution")
      /\ \A w \in Elems(comps) : opaque[w] \in Good => missing'[c] \cap repo.writes[w] = {}
      /\ \A x \in Comp \ {c} : saw'[x] = saw[x] /\ missing'[x] = missing[x]
      /\ saw' \in [Comp -> [Data -> Value]] /\ missing' \in [Comp -> SUBSET Data]
  BY ReadIs
<1>4. /\ opaque'[c] = "substitution" /\ opaque[c] = "no" /\ \A x \in Comp \ {c} : opaque'[x] = opaque[x]
      /\ \A j \in 1 .. Len(level) : level[j] = c => j = pos
  BY <1>1, <1>2 DEF TypeInv, LevelInv
<1>5. /\ Treated \subseteq Comp /\ Elems(comps) \subseteq Comp
      /\ \A x \in Comp : opaque[x] = "substitution" => opaque'[x] = "substitution"
      /\ \A x \in Comp : opaque'[x] \in Good => opaque[x] \in Good
  BY <1>2, <1>4, SetsAre, TreatedIs DEF Good
<1> HIDE DEF c
<1>6. TypeInv'
  <2>1. opaque' \in [Comp -> Why]
    BY <1>1, <1>2 DEF TypeInv, Why
  <2>2. pos' \in 1 .. Len(level) + 1
    BY <1>1, <1>2
  <2> QED BY <1>1, <1>2, <1>3, <2>1, <2>2 DEF TypeInv
<1>7. LoopInv' /\ LevelInv'
  BY <1>1, <1>2, LevelStays DEF LoopInv
<1>8. ChildInv'
  <2>1. \A x \in Treated : opaque'[x] = opaque[x]
    BY <1>2, <1>4, <1>5
  <2>2. \A k \in byKey \ {Root} : parent[k] \in Treated
    BY <1>2 DEF ChildInv
  <2> QED BY <1>1, <1>2, <1>4, <2>1, <2>2 DEF ChildInv, Led
<1>9. VisibleInv'
  <2>1. \A x \in Comp : /\ opaque'[x] = "undefined" => opaque[x] = "undefined"
                        /\ opaque'[x] = "substitution" => x \in Treated'
                        /\ missing'[x] # {} => x \in Started'
    BY <1>2, <1>3, <1>4 DEF VisibleInv
  <2>2. \A x \in Comp, w \in Elems(comps) :
          opaque'[w] \in Good /\ missing'[x] \cap repo.writes[w] # {} => depth[w] > depth[x]
    BY <1>3, <1>5 DEF VisibleInv
  <2> QED BY <1>1, <1>2, <1>5, <2>1, <2>2 DEF VisibleInv
<1>10. TextInv'
  <2>1. ASSUME NEW j \in 1 .. Len(level), j >= pos, level[j] # c
        PROVE  j >= pos'
    <3>1. level[pos] = c
      BY DEF c
    <3> QED BY <1>1, <1>2, <2>1, <3>1
  <2>2. \A d \in Data : (Raw(data[d])' <=> Raw(data[d])) /\ \A x \in Comp : Raw(saw[x][d])' <=> Raw(saw'[x][d])
    BY <1>1 DEF Raw
  <2>3. \A d \in Data : Raw(data[d]) => data[d].by \in Comp
    BY DEF TypeInv, Value, Raw
  <2>4. ASSUME NEW d \in Data, Raw(data[d])
        PROVE  LET w == data[d].by IN
               \/ opaque'[w] = "substitution"
               \/ /\ d \in repo.writes[w] /\ opaque'[w] = "no"
                  /\ \E j \in 1 .. Len(level) : w = level[j] /\ j >= pos'
    BY <1>2, <1>4, <2>1, <2>3, <2>4 DEF TextInv
  <2>5. ASSUME NEW x \in Comp, NEW d \in Data, Raw(saw'[x][d])
        PROVE  LET w == saw'[x][d].by IN
               x \in Started' /\ w \in Elems(comps) /\ (depth[w] = depth[x] \/ opaque'[w] = "substitution")
    <3>1. CASE x = c
      BY <1>2, <1>3, <1>5, <2>5, <3>1
    <3>2. CASE x # c
      BY <1>2, <1>3, <1>5, <2>5, <3>2 DEF TextInv
    <3> QED BY <3>1, <3>2
  <2> QED BY <1>1, <1>2, <2>2, <2>4, <2>5 DEF TextInv
<1> QED BY <1>6, <1>7, <1>8, <1>9, <1>10

LEMMA RenderedKeeps ==
  ASSUME IInv, Substitute, opaque[level[pos]] = "no", level[pos] \notin repo.unsubst
  PROVE  IInv'
<1> USE DEF IInv
<1> DEFINE c == level[pos]
<1>1. /\ opaque' = opaque /\ pos' = pos /\ kid' = 1 /\ sources' = sources \cup repo.defines[c]
      /\ data' = [d \in Data |-> IF d \in repo.writes[c] THEN [by |-> c, text |-> "final"] ELSE data[d]]
  BY DEF Substitute
<1>2. /\ phase = "substitute" /\ pos <= Len(level) /\ kid = 0 /\ pos \in 1 .. Len(level)
      /\ repo' = repo /\ phase' = phase /\ level' = level /\ pending' = pending /\ next' = next
      /\ comps' = comps /\ byKey' = byKey /\ parent' = parent /\ depth' = depth
      /\ Older' = Older /\ D' = D /\ Loop /\ Loop' /\ Indexed' = Indexed /\ Indexed = Elems(comps)
      /\ Started = Treated /\ Started' = Treated \cup {c} /\ Treated' = Treated
      /\ c \in Comp /\ c \notin Treated /\ c \in Elems(comps) /\ depth[c] = D
  BY <1>1, SubstituteSteps
<1>3. /\ \A d \in Data : Raw(saw'[c][d]) =>
           LET w == saw'[c][d].by IN
           w \in Elems(comps) /\ w \in Comp /\ (depth[w] = D \/ opaque[w] = "substitution")
      /\ \A w \in Elems(comps) : opaque[w] \in Good => missing'[c] \cap repo.writes[w] = {}
      /\ \A x \in Comp \ {c} : saw'[x] = saw[x] /\ missing'[x] = missing[x]
      /\ saw' \in [Comp -> [Data -> Value]] /\ missing' \in [Comp -> SUBSET Data]
  BY ReadIs
<1>4. opaque[c] = "no" /\ level[pos] = c
  OBVIOUS
<1> HIDE DEF c
<1>5. \A d \in Data : /\ data'[d] \in Value /\ (data'[d] = None => data[d] = None)
                      /\ Raw(data'[d]) => data'[d] = data[d] /\ d \notin repo.writes[c]
  <2>1. [by |-> c, text |-> "final"] \in [by : Comp, text : {"raw", "final"}]
    BY <1>2
  <2>2. [by |-> c, text |-> "final"] \in Value /\ [by |-> c, text |-> "final"] # None
    BY <2>1, RootAssumption DEF Value
  <2>3. ~Raw([by |-> c, text |-> "final"])
    BY DEF Raw
  <2> QED BY <1>1, <2>2, <2>3 DEF TypeInv
<1>6. TypeInv'
  <2>1. data' \in [Data -> Value]
    BY <1>1, <1>5
  <2>2. sources' \in SUBSET Src
    BY <1>1, <1>2 DEF TypeInv, Repo, RepoType
  <2> QED BY <1>1, <1>2, <1>3, <2>1, <2>2 DEF TypeInv
<1>7. LoopInv' /\ LevelInv'
  BY <1>1, <1>2, <1>4, LevelStays DEF LoopInv
<1>8. ChildInv'
  BY <1>1, <1>2 DEF ChildInv, Led
<1>9. VisibleInv'
  <2>1. \A x \in Comp : missing'[x] # {} => x \in Started'
    BY <1>2, <1>3 DEF VisibleInv
  <2>2. \A x \in Comp, w \in Elems(comps) :
          opaque'[w] \in Good /\ missing'[x] \cap repo.writes[w] # {} => depth[w] > depth[x]
    BY <1>1, <1>3 DEF VisibleInv
  <2>3. \A w \in Comp : repo.writes[w] \subseteq Data
    BY DEF TypeInv, Repo, RepoType
  <2>4. \A w \in Elems(comps) : opaque'[w] \in Good =>
          repo.defines[w] \subseteq sources' /\ \A d \in repo.writes[w] : data'[d] # None
    BY <1>1, <1>2, <1>5, <2>3, SetsAre DEF VisibleInv
  <2> QED BY <1>1, <1>2, <2>1, <2>2, <2>4 DEF VisibleInv
<1>10. TextInv'
  <2>1. \A d \in Data : (Raw(data[d])' <=> Raw(data'[d])) /\ \A x \in Comp : Raw(saw[x][d])' <=> Raw(saw'[x][d])
    BY DEF Raw
  <2>2. ASSUME NEW d \in Data, Raw(data'[d])
        PROVE  LET w == data'[d].by IN
               \/ opaque[w] = "substitution"
               \/ /\ d \in repo.writes[w] /\ opaque[w] = "no"
                  /\ \E j \in 1 .. Len(level) : w = level[j] /\ j > pos
    <3>1. data'[d] = data[d] /\ d \notin repo.writes[c]
      BY <1>5, <2>2
    <3>2. \A j \in 1 .. Len(level) : j >= pos /\ level[j] # c => j > pos
      BY <1>2, <1>4
    <3> QED BY <1>2, <2>2, <3>1, <3>2 DEF TextInv
  <2>3. ASSUME NEW x \in Comp, NEW d \in Data, Raw(saw'[x][d])
        PROVE  LET w == saw'[x][d].by IN
               x \in Started' /\ w \in Elems(comps) /\ (depth[w] = depth[x] \/ opaque[w] = "substitution")
    <3>1. CASE x = c
      BY <1>2, <1>3, <2>3, <3>1
    <3>2. CASE x # c
      BY <1>2, <1>3, <2>3, <3>2 DEF TextInv
    <3> QED BY <3>1, <3>2
  <2> QED BY <1>1, <1>2, <2>1, <2>2, <2>3 DEF TextInv
<1> QED BY <1>6, <1>7, <1>8, <1>9, <1>10

-----------------------------------------------------------------------------
(* Looking at what a component renders.                                    *)
LEMMA DiscoverIs ==
  ASSUME IInv, Discover
  PROVE  LET c == level[pos] IN
         /\ phase = "substitute" /\ kid \in Nat /\ kid # 0 /\ pos \in 1 .. Len(level) /\ Loop
         /\ repo' = repo /\ phase' = phase /\ level' = level /\ pending' = pending /\ opaque' = opaque
         /\ sources' = sources /\ data' = data /\ saw' = saw /\ missing' = missing
         /\ Started = Treated \cup {c} /\ Indexed = Elems(comps) /\ opaque[c] = "no"
         /\ c \in Elems(comps) /\ c \in Comp /\ c \notin Treated /\ depth[c] = D
         /\ repo.yields[c] \in Seq(Comp)
<1> USE DEF IInv
<1> DEFINE c == level[pos]
<1>1. /\ phase = "substitute" /\ kid # 0 /\ pos <= Len(level) /\ opaque[c] = "no" /\ kid \in Nat
      /\ repo' = repo /\ phase' = phase /\ level' = level /\ pending' = pending /\ opaque' = opaque
      /\ sources' = sources /\ data' = data /\ saw' = saw /\ missing' = missing
  BY DEF Discover, LoopInv, TypeInv, visible
<1>2. pos \in 1 .. Len(level)
  BY <1>1 DEF TypeInv
<1>3. c \in Elems(level) /\ c \in Comp /\ c \notin Treated /\ depth[c] = D
  BY <1>1, TurnIs
<1>4. Loop /\ Started = Treated \cup {c} /\ Indexed = Elems(comps)
  BY <1>1 DEF Loop, Started, Indexed
<1>5. c \in Elems(comps)
  BY <1>3, <1>4, TreatedIs
<1>6. repo.yields[c] \in Seq(Comp)
  BY <1>3 DEF TypeInv, Repo, RepoType
<1> QED BY <1>1, <1>2, <1>3, <1>4, <1>5, <1>6

LEMMA LedAll ==
  ASSUME IInv, NEW c \in Comp, depth[c] = D, NEW k \in Comp, k \in byKey \/ k = Root
  PROVE  Led(c, k)
<1> USE DEF IInv
<1>1. CASE k = Root
  BY <1>1 DEF Led
<1>2. CASE k # Root
  <2>1. k \in byKey /\ k \in Elems(comps) \cup Elems(level) \cup Elems(next)
    BY <1>2 DEF LevelInv
  <2>2. D \in Nat /\ depth[k] \in Nat
    BY SetsAre DEF TypeInv
  <2>3. depth[k] <= D + 1
    BY <2>1, <2>2, TreatedIs DEF LevelInv
  <2> QED BY <2>1, <2>3 DEF Led
<1> QED BY <1>1, <1>2

LEMMA LeaveKeeps ==
  ASSUME IInv, Discover, kid > Len(repo.yields[level[pos]])
  PROVE  IInv'
<1> USE DEF IInv
<1> DEFINE c == level[pos]
<1>1. /\ phase = "substitute" /\ kid \in Nat /\ kid # 0 /\ pos \in 1 .. Len(level) /\ Loop
      /\ repo' = repo /\ phase' = phase /\ level' = level /\ pending' = pending /\ opaque' = opaque
      /\ sources' = sources /\ data' = data /\ saw' = saw /\ missing' = missing
      /\ Started = Treated \cup {c} /\ Indexed = Elems(comps) /\ opaque[c] = "no"
      /\ c \in Elems(comps) /\ c \in Comp /\ c \notin Treated /\ depth[c] = D
      /\ repo.yields[c] \in Seq(Comp)
  BY DiscoverIs
<1>2. /\ kid' = 0 /\ pos' = pos + 1 /\ next' = next
      /\ comps' = comps /\ byKey' = byKey /\ parent' = parent /\ depth' = depth
  <2>1. Len(repo.yields[c]) \in Nat
    BY <1>1
  <2> QED BY <1>1, <2>1 DEF Discover, tree
<1>3. Older' = Older /\ D' = D /\ Loop' /\ Indexed' = Indexed
  BY <1>1, <1>2 DEF Older, D, Loop, Indexed
<1>4. Treated' = Treated \cup {c} /\ Started' = Started
  <2>1. 1 .. pos' - 1 = (1 .. pos - 1) \cup {pos}
    BY <1>1, <1>2
  <2>2. Passed' = Passed \cup {c}
    BY <1>1, <2>1 DEF Passed
  <2>3. Treated' = Treated \cup {c}
    BY <1>1, <1>3, <2>2 DEF Treated
  <2> QED BY <1>1, <1>2, <2>3 DEF Started
<1>5. TypeInv' /\ LoopInv' /\ LevelInv'
  BY <1>1, <1>2, <1>3, LevelStays DEF TypeInv, LoopInv
<1>6. ChildInv'
  <2>1. \A k \in Elems(repo.yields[c]) : Led(c, k)
    <3>1. \A i \in 1 .. Len(repo.yields[c]) : i < kid
      BY <1>1
    <3>2. \A i \in 1 .. Len(repo.yields[c]) : Led(c, repo.yields[c][i])
      BY <1>1, <3>1 DEF ChildInv
    <3> QED BY <3>2 DEF Elems
  <2> HIDE DEF c
  <2> QED BY <1>1, <1>2, <1>3, <1>4, <2>1 DEF ChildInv, Led
<1>7. VisibleInv'
  BY <1>1, <1>2, <1>3, <1>4 DEF VisibleInv
<1>8. TextInv'
  <2>1. \A j \in 1 .. Len(level) : j > pos => j >= pos'
    BY <1>1, <1>2
  <2>2. \A d \in Data : (Raw(data[d])' <=> Raw(data[d])) /\ \A x \in Comp : Raw(saw[x][d])' <=> Raw(saw[x][d])
    BY <1>1 DEF Raw
  <2> HIDE DEF c
  <2> QED BY <1>1, <1>2, <1>3, <1>4, <2>1, <2>2 DEF TextInv
<1> QED BY <1>5, <1>6, <1>7, <1>8

LEMMA KnownKeeps ==
  ASSUME IInv, Discover, kid <= Len(repo.yields[level[pos]]), Known(level[pos], repo.yields[level[pos]][kid])
  PROVE  IInv'
<1> USE DEF IInv
<1> DEFINE c == level[pos]
           k == repo.yields[c][kid]
<1>1. /\ phase = "substitute" /\ kid \in Nat /\ kid # 0 /\ pos \in 1 .. Len(level) /\ Loop
      /\ repo' = repo /\ phase' = phase /\ level' = level /\ pending' = pending /\ opaque' = opaque
      /\ sources' = sources /\ data' = data /\ saw' = saw /\ missing' = missing
      /\ Started = Treated \cup {c} /\ Indexed = Elems(comps) /\ opaque[c] = "no"
      /\ c \in Elems(comps) /\ c \in Comp /\ c \notin Treated /\ depth[c] = D
      /\ repo.yields[c] \in Seq(Comp)
  BY DiscoverIs
<1>2. /\ kid' = kid + 1 /\ pos' = pos /\ next' = next
      /\ comps' = comps /\ byKey' = byKey /\ parent' = parent /\ depth' = depth
  <2>1. Len(repo.yields[c]) \in Nat
    BY <1>1
  <2> QED BY <1>1, <2>1 DEF Discover, tree
<1>3. /\ Older' = Older /\ D' = D /\ Loop' /\ Indexed' = Indexed /\ kid' \in Nat /\ kid' # 0
      /\ Treated' = Treated /\ Started' = Started
  <2>1. Older' = Older /\ D' = D /\ Loop' /\ Indexed' = Indexed /\ kid' \in Nat /\ kid' # 0 /\ Passed' = Passed
    BY <1>1, <1>2 DEF Older, D, Loop, Indexed, Passed
  <2>2. Treated' = Treated
    BY <1>1, <2>1 DEF Treated
  <2> QED BY <1>1, <1>2, <2>1, <2>2 DEF Started
<1>4. TypeInv' /\ LoopInv' /\ LevelInv'
  BY <1>1, <1>2, <1>3, LevelStays DEF TypeInv, LoopInv
<1>5. Led(c, k)
  <2>1. k \in Comp
    BY <1>1
  <2> QED BY <1>1, <2>1, LedAll DEF Known
<1>6. ChildInv'
  <2>1. \A i \in 1 .. Len(repo.yields[c]) : i < kid' => Led(c, repo.yields[c][i])
    <3>1. \A i \in 1 .. Len(repo.yields[c]) : i < kid' => i < kid \/ i = kid
      BY <1>1, <1>2
    <3> QED BY <1>1, <1>5, <3>1 DEF ChildInv
  <2>2. \A x, y : Led(x, y)' <=> Led(x, y)
    BY <1>2 DEF Led
  <2> HIDE DEF c, k
  <2>3. level'[pos'] = c
    BY <1>1, <1>2 DEF c
  <2> QED BY <1>1, <1>2, <1>3, <2>1, <2>2, <2>3 DEF ChildInv
<1>7. VisibleInv'
  BY <1>1, <1>2, <1>3 DEF VisibleInv
<1>8. TextInv'
  <2>1. \A d \in Data : (Raw(data[d])' <=> Raw(data[d])) /\ \A x \in Comp : Raw(saw[x][d])' <=> Raw(saw[x][d])
    BY <1>1 DEF Raw
  <2> HIDE DEF c, k
  <2> QED BY <1>1, <1>2, <1>3, <2>1 DEF TextInv
<1> QED BY <1>4, <1>6, <1>7, <1>8

(* A key that nobody has led to yet is of the next level.                  *)
LEMMA NewIs ==
  ASSUME IInv, Discover, kid <= Len(repo.yields[level[pos]]), ~Known(level[pos], repo.yields[level[pos]][kid])
  PROVE  LET c == level[pos]
             k == repo.yields[c][kid]
         IN /\ kid' = kid + 1 /\ pos' = pos /\ comps' = comps /\ next' = Append(next, k) /\ byKey' = byKey \cup {k}
            /\ parent' = [parent EXCEPT ![k] = c] /\ depth' = [depth EXCEPT ![k] = D + 1]
            /\ k \in Comp /\ k \notin byKey /\ k # Root /\ kid \in 1 .. Len(repo.yields[c])
            /\ k \notin Elems(comps) /\ k \notin Elems(level) /\ k \notin Elems(next)
            /\ Elems(next') = Elems(next) \cup {k}
<1> USE DEF IInv
<1> DEFINE c == level[pos]
           k == repo.yields[c][kid]
<1>1. /\ kid \in Nat /\ kid # 0 /\ c \in Comp /\ depth[c] = D /\ repo.yields[c] \in Seq(Comp)
  BY DiscoverIs
<1>2. kid \in 1 .. Len(repo.yields[c]) /\ ~(kid > Len(repo.yields[c]))
  BY <1>1
<1>3. k \in Comp
  BY <1>1, <1>2
<1>4. k \notin byKey /\ ~(c = Root /\ k = Root)
  BY DEF Known
<1>5. k # Root
  <2>1. c # Root => k # Root
    BY <1>1, <1>2 DEF TypeInv, Repo
  <2> QED BY <1>4, <2>1
<1>6. k \notin Elems(comps) /\ k \notin Elems(level) /\ k \notin Elems(next)
  BY <1>4, <1>5 DEF LevelInv
<1>7. /\ kid' = kid + 1 /\ pos' = pos /\ comps' = comps /\ next' = Append(next, k) /\ byKey' = byKey \cup {k}
      /\ parent' = [parent EXCEPT ![k] = c] /\ depth' = [depth EXCEPT ![k] = depth[c] + 1]
  BY <1>2 DEF Discover
<1>8. Elems(next') = Elems(next) \cup {k}
  <2> HIDE DEF c, k
  <2> QED BY <1>3, <1>7, ElemsAre DEF TypeInv
<1> QED BY <1>1, <1>2, <1>3, <1>4, <1>5, <1>6, <1>7, <1>8

LEMMA NewKeeps ==
  ASSUME IInv, Discover, kid <= Len(repo.yields[level[pos]]), ~Known(level[pos], repo.yields[level[pos]][kid])
  PROVE  IInv'
<1> USE DEF IInv
<1> DEFINE c == level[pos]
           k == repo.yields[c][kid]
<1>1. /\ phase = "substitute" /\ kid \in Nat /\ kid # 0 /\ pos \in 1 .. Len(level) /\ Loop
      /\ repo' = repo /\ phase' = phase /\ level' = level /\ pending' = pending /\ opaque' = opaque
      /\ sources' = sources /\ data' = data /\ saw' = saw /\ missing' = missing
      /\ Started = Treated \cup {c} /\ Indexed = Elems(comps) /\ opaque[c] = "no"
      /\ c \in Elems(comps) /\ c \in Comp /\ c \notin Treated /\ depth[c] = D
      /\ repo.yields[c] \in Seq(Comp)
  BY DiscoverIs
<1>2. /\ kid' = kid + 1 /\ pos' = pos /\ comps' = comps /\ next' = Append(next, k) /\ byKey' = byKey \cup {k}
      /\ parent' = [parent EXCEPT ![k] = c] /\ depth' = [depth EXCEPT ![k] = D + 1]
      /\ k \in Comp /\ k \notin byKey /\ k # Root /\ kid \in 1 .. Len(repo.yields[c])
      /\ k \notin Elems(comps) /\ k \notin Elems(level) /\ k \notin Elems(next)
      /\ Elems(next') = Elems(next) \cup {k}
  BY NewIs
<1>3. k \in Elems(repo.yields[c]) /\ level[pos] = c
  BY <1>2 DEF Elems
<1>4. \A i \in 1 .. Len(repo.yields[c]) : i < kid' => i < kid \/ repo.yields[c][i] = k
  BY <1>1, <1>2
<1> HIDE DEF c, k
<1>5. /\ depth'[k] = D + 1 /\ parent'[k] = c /\ \A x \in Comp \ {k} : depth'[x] = depth[x] /\ parent'[x] = parent[x]
      /\ D \in Nat /\ Elems(comps) \subseteq Comp \ {k} /\ Elems(level) \subseteq Comp \ {k}
      /\ Elems(next) \subseteq Comp \ {k} /\ Started \subseteq Elems(comps) /\ Treated \subseteq Started
  BY <1>2, SetsAre, TreatedIs DEF TypeInv
<1>6. /\ D' = D /\ Older' = Older /\ Loop' /\ Indexed' = Indexed /\ Passed' = Passed /\ kid' \in Nat /\ kid' # 0
  <2>1. level[1] \in Elems(level)
    BY SetsAre
  <2>2. D' = D
    BY <1>1, <1>5, <2>1 DEF D
  <2> QED BY <1>1, <1>2, <2>2 DEF Older, Loop, Indexed, Passed
<1>7. Treated' = Treated /\ Started' = Started
  <2>1. Treated' = Treated
    BY <1>1, <1>6 DEF Treated
  <2> QED BY <1>1, <1>2, <1>6, <2>1 DEF Started
<1>8. TypeInv'
  <2>1. next' \in Seq(Comp)
    BY <1>2 DEF TypeInv
  <2>2. parent' \in [Comp -> Comp \cup {None}]
    BY <1>1, <1>2 DEF TypeInv
  <2>3. depth' \in [Comp -> Nat]
    <3>1. D + 1 \in Nat /\ depth \in [Comp -> Nat]
      BY <1>5 DEF TypeInv
    <3> QED BY <1>2, <3>1
  <2> QED BY <1>1, <1>2, <1>6, <2>1, <2>2, <2>3 DEF TypeInv
<1>9. LoopInv'
  BY <1>1, <1>2, <1>3, <1>6 DEF LoopInv
<1>10. LevelInv'
  <2>1. \A i, j \in 1 .. Len(next') : next'[i] = next'[j] => i = j
    <3>1. /\ Len(next') = Len(next) + 1 /\ Len(next) \in Nat /\ next'[Len(next) + 1] = k
          /\ \A i \in 1 .. Len(next) : next'[i] = next[i]
      BY <1>2 DEF TypeInv
    <3>2. \A i \in 1 .. Len(next) : next[i] # k
      BY <1>2 DEF Elems
    <3>3. ASSUME NEW i \in 1 .. Len(next'), NEW j \in 1 .. Len(next'), next'[i] = next'[j]
          PROVE  i = j
      <4>1. (i \in 1 .. Len(next) \/ i = Len(next) + 1) /\ (j \in 1 .. Len(next) \/ j = Len(next) + 1)
        BY <3>1, <3>3
      <4> QED BY <3>1, <3>2, <3>3, <4>1 DEF LevelInv
    <3> QED BY <3>3
  <2>2. \A i \in 1 .. Len(comps) : comps[i] \in Comp \ {k}
    BY <1>5 DEF Elems
  <2>3. \A i, j \in 1 .. Len(comps) : i < j => comps[i] # comps[j] /\ depth'[comps[i]] <= depth'[comps[j]]
    BY <1>5, <2>2 DEF LevelInv
  <2>4. /\ \A x \in Elems(level) : depth'[x] = D
        /\ \A x \in Elems(next') : depth'[x] = D + 1
        /\ \A x \in Older : depth'[x] < D
    BY <1>2, <1>5, SetsAre DEF LevelInv
  <2>5. Root \in byKey' <=> phase = "done"
    BY <1>2 DEF LevelInv
  <2>6. byKey' \ {Root} = (Elems(comps) \cup Elems(level) \cup Elems(next')) \ {Root}
    BY <1>2 DEF LevelInv
  <2>7. Elems(next') \cap (Elems(comps) \cup Elems(level)) = {} /\ Root \notin Elems(next')
    BY <1>2 DEF LevelInv
  <2> QED BY <1>1, <1>2, <1>6, <2>1, <2>3, <2>4, <2>5, <2>6, <2>7 DEF LevelInv
<1>11. ChildInv'
  <2> DEFINE LedNow(x, y) == y = Root \/ (y \in byKey' /\ depth'[y] <= depth'[x] + 1)
  <2>1. ASSUME NEW x \in Elems(comps), NEW y, Led(x, y)
        PROVE  LedNow(x, y)
    <3>1. y # Root => y \in byKey /\ y \in Comp \ {k}
      BY <1>2, <2>1 DEF Led, TypeInv
    <3> QED BY <1>2, <1>5, <2>1, <3>1 DEF Led
  <2>2. \A x \in Treated' : opaque'[x] = "no" => \A y \in Elems(repo'.yields[x]) : LedNow(x, y)
    BY <1>1, <1>5, <1>7, <2>1 DEF ChildInv
  <2>3. LedNow(c, k)
    BY <1>1, <1>2, <1>5, <1>6
  <2>4. \A i \in 1 .. Len(repo.yields[c]) : i < kid' => LedNow(c, repo.yields[c][i])
    BY <1>1, <1>3, <1>4, <2>1, <2>3 DEF ChildInv
  <2>5. \A y \in byKey \ {Root} : y \in Comp \ {k} /\ parent[y] \in Started /\ parent[y] \in Comp \ {k}
    BY <1>2, <1>5 DEF ChildInv, TypeInv
  <2>6. \A y \in byKey' \ {Root} :
          /\ parent'[y] \in Started' /\ opaque'[parent'[y]] = "no"
          /\ y \in Elems(repo'.yields[parent'[y]]) /\ depth'[y] = depth'[parent'[y]] + 1
    <3>1. parent'[k] \in Started /\ opaque[parent'[k]] = "no" /\ k \in Elems(repo.yields[parent'[k]])
          /\ depth'[k] = depth'[parent'[k]] + 1
      BY <1>1, <1>3, <1>5
    <3>2. \A y \in byKey \ {Root} :
            /\ parent'[y] \in Started /\ opaque[parent'[y]] = "no"
            /\ y \in Elems(repo.yields[parent'[y]]) /\ depth'[y] = depth'[parent'[y]] + 1
      BY <1>5, <2>5 DEF ChildInv
    <3> QED BY <1>1, <1>2, <1>7, <3>1, <3>2
  <2>7. level'[pos'] = c
    BY <1>1, <1>2, <1>3
  <2>8. \A x, y : Led(x, y)' <=> LedNow(x, y)
    BY DEF Led
  <2> HIDE DEF LedNow
  <2> QED BY <1>1, <2>2, <2>4, <2>6, <2>7, <2>8 DEF ChildInv
<1>12. VisibleInv'
  <2>1. \A x \in Comp : (opaque[x] = "undefined" => depth'[x] = depth[x]) /\ (missing[x] # {} => depth'[x] = depth[x])
    BY <1>2, <1>5 DEF VisibleInv
  <2>2. \A w \in Elems(comps) : depth'[w] = depth[w]
    BY <1>5
  <2>3. \A x \in Comp, w \in Elems(comps) :
          opaque[x] = "undefined" /\ opaque[w] \in Good /\ repo.source[x] \in repo.defines[w] => depth'[w] >= depth'[x]
    BY <2>1, <2>2 DEF VisibleInv
  <2>4. \A x \in Comp, w \in Elems(comps) :
          opaque[w] \in Good /\ missing[x] \cap repo.writes[w] # {} => depth'[w] > depth'[x]
    BY <2>1, <2>2 DEF VisibleInv
  <2> QED BY <1>1, <1>2, <1>6, <1>7, <2>3, <2>4 DEF VisibleInv
<1>13. TextInv'
  <2>1. \A d \in Data : (Raw(data[d])' <=> Raw(data[d])) /\ \A x \in Comp : Raw(saw[x][d])' <=> Raw(saw[x][d])
    BY <1>1 DEF Raw
  <2>2. ASSUME NEW x \in Comp, NEW d \in Data, Raw(saw[x][d])
        PROVE  LET w == saw[x][d].by IN
               /\ x \in Started /\ w \in Elems(comps)
               /\ depth'[w] = depth'[x] \/ opaque[w] = "substitution"
    BY <1>5, <2>2 DEF TextInv
  <2>3. \A d \in Data : Raw(data[d]) =>
          LET w == data[d].by IN
          \/ opaque[w] = "substitution"
          \/ /\ d \in repo.writes[w] /\ opaque[w] = "no"
             /\ \E j \in 1 .. Len(level) : w = level[j] /\ j > pos
    BY <1>1 DEF TextInv
  <2> QED BY <1>1, <1>2, <1>6, <1>7, <2>1, <2>2, <2>3 DEF TextInv
<1> QED BY <1>8, <1>9, <1>10, <1>11, <1>12, <1>13

-----------------------------------------------------------------------------
(* Leaving a level.                                                        *)
LEMMA LevelIsOver ==
  ASSUME IInv, Loop, pos > Len(level)
  PROVE  /\ kid = 0 /\ Passed = Elems(level) /\ Elems(level) \subseteq Elems(comps)
         /\ Treated = Elems(comps) /\ Started = Elems(comps) /\ Indexed = Elems(comps)
         /\ \A d \in Data : Raw(data[d]) => opaque[data[d].by] = "substitution"
<1> USE DEF IInv
<1>1. kid = 0 /\ Len(level) \in Nat /\ pos = Len(level) + 1
  BY DEF LoopInv, TypeInv
<1>2. Passed = Elems(level) /\ \A j \in 1 .. Len(level) : ~(j >= pos)
  BY <1>1 DEF Passed, Elems
<1>3. Elems(level) \subseteq Elems(comps)
  BY TreatedIs
<1>4. Treated = Elems(comps) /\ Started = Elems(comps) /\ Indexed = Elems(comps)
  BY <1>1, <1>2, <1>3 DEF Treated, Started, Indexed, Older
<1>5. \A d \in Data : Raw(data[d]) => opaque[data[d].by] = "substitution"
  BY <1>1, <1>2 DEF TextInv
<1> QED BY <1>1, <1>2, <1>3, <1>4, <1>5

LEMMA DoneKeeps ==
  ASSUME IInv, Descend, next = <<>>
  PROVE  IInv'
<1> USE DEF IInv
<1>1. /\ phase = "substitute" /\ pos > Len(level) /\ phase' = "done" /\ byKey' = byKey \cup {Root}
      /\ repo' = repo /\ level' = level /\ pos' = pos /\ kid' = kid /\ pending' = pending /\ next' = next
      /\ comps' = comps /\ parent' = parent /\ depth' = depth /\ opaque' = opaque
      /\ sources' = sources /\ data' = data /\ saw' = saw /\ missing' = missing
  BY DEF Descend, visible
<1>2. Loop /\ Loop' /\ Older' = Older /\ Passed' = Passed /\ D' = D /\ Indexed' = Indexed
  BY <1>1 DEF Loop, Older, Passed, D, Indexed
<1>3. Treated' = Treated /\ Started' = Started
  <2>1. Treated' = Treated
    BY <1>1, <1>2 DEF Treated
  <2> QED BY <1>1, <2>1 DEF Started
<1>4. /\ kid = 0 /\ \A d \in Data : Raw(data[d]) => opaque[data[d].by] = "substitution"
  BY <1>1, <1>2, LevelIsOver
<1>5. TypeInv' /\ LoopInv'
  BY <1>1, <1>2, <1>4, RootAssumption DEF TypeInv, LoopInv
<1>6. LevelInv'
  BY <1>1, <1>2 DEF LevelInv
<1>7. ChildInv'
  BY <1>1, <1>3, <1>4 DEF ChildInv, Led
<1>8. VisibleInv'
  BY <1>1, <1>2, <1>3 DEF VisibleInv
<1>9. TextInv'
  <2>1. \A d \in Data : (Raw(data[d])' <=> Raw(data[d])) /\ \A x \in Comp : Raw(saw[x][d])' <=> Raw(saw[x][d])
    BY <1>1 DEF Raw
  <2> QED BY <1>1, <1>2, <1>3, <1>4, <2>1 DEF TextInv
<1> QED BY <1>5, <1>6, <1>7, <1>8, <1>9

LEMMA NextLevelKeeps ==
  ASSUME IInv, Descend, next # <<>>
  PROVE  IInv'
<1> USE DEF IInv
<1>1. /\ phase = "substitute" /\ pos > Len(level) /\ phase' = "fetch" /\ level' = next /\ next' = <<>> /\ pos' = 1
      /\ pending' \subseteq Elems(next) /\ repo' = repo /\ kid' = kid /\ byKey' = byKey
      /\ comps' = comps /\ parent' = parent /\ depth' = depth /\ opaque' = opaque
      /\ sources' = sources /\ data' = data /\ saw' = saw /\ missing' = missing
  BY DEF Descend, visible
<1>2. Loop /\ ~Loop'
  BY <1>1 DEF Loop
<1>3. /\ kid = 0 /\ Elems(level) \subseteq Elems(comps)
      /\ Treated = Elems(comps) /\ Started = Elems(comps) /\ Indexed = Elems(comps)
      /\ \A d \in Data : Raw(data[d]) => opaque[data[d].by] = "substitution"
  BY <1>1, <1>2, LevelIsOver
<1>4. Len(next) >= 1 /\ next \in Seq(Comp) /\ next[1] \in Elems(next)
  <2>1. next \in Seq(Comp) /\ Len(next) \in Nat /\ Len(next) # 0
    BY EmptySeq DEF TypeInv
  <2> QED BY <2>1, ElemsAre
<1>5. Elems(next) \cap Elems(comps) = {} /\ D \in Nat /\ \A x \in Elems(next) : depth[x] = D + 1
  BY SetsAre DEF LevelInv
<1>6. D' = D + 1 /\ Older' = Elems(comps)
  BY <1>1, <1>4, <1>5 DEF D, Older
<1>7. Treated' = Elems(comps) /\ Started' = Elems(comps) /\ Indexed' = Elems(comps)
  BY <1>1, <1>2, <1>3, <1>6 DEF Treated, Started, Indexed
<1>8. TypeInv'
  BY <1>1, <1>4 DEF TypeInv
<1>9. LoopInv'
  BY <1>1, <1>2, <1>3 DEF LoopInv
<1>10. LevelInv'
  <2>1. Elems(next') = {} /\ Elems(level') = Elems(next) /\ Len(next') = 0
    BY <1>1 DEF Elems
  <2>2. \A x \in Elems(comps) : depth[x] < D + 1
    BY <1>5, SetsAre, TreatedIs DEF TypeInv
  <2>3. Root \in Elems(comps)
    BY <1>3 DEF LevelInv
  <2>4. byKey \ {Root} = (Elems(comps) \cup Elems(next)) \ {Root} /\ Root \notin byKey
    BY <1>1, <1>3 DEF LevelInv
  <2>5. \A i, j \in 1 .. Len(next') : next'[i] = next'[j] => i = j
    BY <2>1
  <2>6. \A i, j \in 1 .. Len(level') : level'[i] = level'[j] => i = j
    BY <1>1 DEF LevelInv
  <2>7. \A i, j \in 1 .. Len(comps') : i < j => comps'[i] # comps'[j] /\ depth'[comps'[i]] <= depth'[comps'[j]]
    BY <1>1 DEF LevelInv
  <2>8. Elems(comps') \cap Elems(level') = {} /\ Elems(next') \cap (Elems(comps') \cup Elems(level')) = {}
    BY <1>1, <1>5, <2>1
  <2>9. /\ \A x \in Elems(level') : depth'[x] = D'
        /\ \A x \in Elems(next') : depth'[x] = D' + 1
        /\ \A x \in Older' : depth'[x] < D'
    BY <1>1, <1>5, <1>6, <2>1, <2>2
  <2>10. /\ Root \in Elems(comps') \cup Elems(level') /\ Root \notin Elems(next')
         /\ byKey' \ {Root} = (Elems(comps') \cup Elems(level') \cup Elems(next')) \ {Root}
    BY <1>1, <2>1, <2>3, <2>4
  <2> QED BY <1>1, <2>4, <2>5, <2>6, <2>7, <2>8, <2>9, <2>10 DEF LevelInv
<1>11. ChildInv'
  BY <1>1, <1>3, <1>7 DEF ChildInv, Led
<1>12. VisibleInv'
  BY <1>1, <1>3, <1>7 DEF VisibleInv
<1>13. TextInv'
  <2>1. \A d \in Data : (Raw(data[d])' <=> Raw(data[d])) /\ \A x \in Comp : Raw(saw[x][d])' <=> Raw(saw[x][d])
    BY <1>1 DEF Raw
  <2> QED BY <1>1, <1>3, <1>7, <2>1 DEF TextInv
<1> QED BY <1>8, <1>9, <1>10, <1>11, <1>12, <1>13

LEMMA StutterKeeps ==
  ASSUME IInv, UNCHANGED vars
  PROVE  IInv'
<1> USE DEF IInv
<1>1. /\ repo' = repo /\ phase' = phase /\ level' = level /\ pos' = pos /\ kid' = kid /\ pending' = pending
      /\ next' = next /\ comps' = comps /\ byKey' = byKey /\ parent' = parent /\ depth' = depth
      /\ opaque' = opaque /\ sources' = sources /\ data' = data /\ saw' = saw /\ missing' = missing
  BY DEF vars, tree, visible
<1>2. Older' = Older /\ Passed' = Passed /\ D' = D /\ (Loop' <=> Loop)
  BY <1>1 DEF Older, Passed, D, Loop
<1>3. Treated' = Treated /\ Indexed' = Indexed
  BY <1>1, <1>2 DEF Treated, Indexed
<1>4. Started' = Started
  BY <1>1, <1>3 DEF Started
<1>5. TypeInv' /\ LoopInv'
  BY <1>1, <1>2 DEF TypeInv, LoopInv
<1>6. LevelInv'
  BY <1>1, <1>2 DEF LevelInv
<1>7. ChildInv'
  BY <1>1, <1>3, <1>4 DEF ChildInv, Led
<1>8. VisibleInv'
  BY <1>1, <1>3, <1>4 DEF VisibleInv
<1>9. TextInv'
  BY <1>1, <1>4 DEF TextInv, Raw
<1> QED BY <1>5, <1>6, <1>7, <1>8, <1>9

-----------------------------------------------------------------------------
(* The invariant holds, whatever the repository and however the goroutines *)
(* of a level are scheduled.                                               *)
THEOREM TreeIsKept == Spec => []IInv
<1>1. ASSUME IInv, [Next]_vars
      PROVE  IInv'
  <2>1. ASSUME NEW c \in Comp, Fetch(c) \/ Chart(c) PROVE IInv'
    BY <1>1, <2>1, FetchKeeps, ChartKeeps
  <2>2. CASE Fetched \/ Build \/ Index
    BY <1>1, <2>2, FetchedKeeps, BuildKeeps, IndexKeeps
  <2>3. CASE Substitute
    BY <1>1, <2>3, SkipKeeps, FailKeeps, RenderedKeeps
  <2>4. CASE Discover
    <3>1. kid > Len(repo.yields[level[pos]]) \/ kid <= Len(repo.yields[level[pos]])
      BY <2>4 DEF Discover
    <3> QED BY <1>1, <2>4, <3>1, LeaveKeeps, KnownKeeps, NewKeeps
  <2>5. CASE Descend
    BY <1>1, <2>5, DoneKeeps, NextLevelKeeps
  <2>6. CASE UNCHANGED vars
    BY <1>1, <2>6, StutterKeeps
  <2> QED BY <1>1, <2>1, <2>2, <2>3, <2>4, <2>5, <2>6 DEF Next
<1> QED BY <1>1, InitKeeps, PTL DEF Spec

(* The tree holds what the entrypoint leads to, each key once, shallowest  *)
(* first, and a key belongs to a shallowest component that renders it, for *)
(* every repository: cycles, diamonds and failed renderings included.      *)
THEOREM LevelsCorrect == Spec => []LevelsAreDistances
<1>1. ASSUME IInv PROVE LevelsAreDistances
  <2> SUFFICES ASSUME phase = "done"
               PROVE  /\ Elems(comps) = {Root} \cup UNION {Elems(repo.yields[c]) : c \in Rendered}
                      /\ byKey = Elems(comps)
                      /\ \A i, j \in 1 .. Len(comps) : i < j =>
                           comps[i] # comps[j] /\ depth[comps[i]] <= depth[comps[j]]
                      /\ \A k \in Elems(comps) \ {Root} :
                           /\ parent[k] \in Rendered /\ k \in Elems(repo.yields[parent[k]])
                           /\ depth[k] = depth[parent[k]] + 1
                           /\ \A c \in Rendered : k \in Elems(repo.yields[c]) => depth[parent[k]] <= depth[c]
    BY DEF LevelsAreDistances
  <2>1. Loop /\ pos > Len(level) /\ Elems(next) = {}
    BY <1>1 DEF IInv, LoopInv, Loop, Elems
  <2>2. Elems(level) \subseteq Elems(comps) /\ Treated = Elems(comps) /\ Started = Elems(comps)
    BY <1>1, <2>1, LevelIsOver
  <2>3. byKey = Elems(comps) /\ Root \in Elems(comps)
    BY <1>1, <2>1, <2>2 DEF IInv, LevelInv
  <2>4. \A c \in Rendered : \A k \in Elems(repo.yields[c]) : Led(c, k)
    BY <1>1, <2>2 DEF IInv, ChildInv, Rendered
  <2>5. \A k \in Elems(comps) \ {Root} :
          /\ parent[k] \in Rendered /\ k \in Elems(repo.yields[parent[k]])
          /\ depth[k] = depth[parent[k]] + 1
    BY <1>1, <2>2, <2>3 DEF IInv, ChildInv, Rendered
  <2>6. \A c \in Elems(comps) : depth[c] \in Nat
    BY <1>1, SetsAre DEF IInv, TypeInv
  <2>7. ASSUME NEW k \in Elems(comps) \ {Root}, NEW c \in Rendered, k \in Elems(repo.yields[c])
        PROVE  depth[parent[k]] <= depth[c]
    <3>1. depth[k] <= depth[c] + 1
      BY <2>4, <2>7 DEF Led
    <3> QED BY <2>5, <2>6, <3>1 DEF Rendered
  <2>8. \A c \in Rendered : Elems(repo.yields[c]) \subseteq Elems(comps)
    BY <2>3, <2>4 DEF Led
  <2>9. Elems(comps) = {Root} \cup UNION {Elems(repo.yields[c]) : c \in Rendered}
    BY <2>3, <2>5, <2>8
  <2>10. \A i, j \in 1 .. Len(comps) : i < j => comps[i] # comps[j] /\ depth[comps[i]] <= depth[comps[j]]
    BY <1>1 DEF IInv, LevelInv
  <2> QED BY <2>3, <2>5, <2>7, <2>9, <2>10
<1> QED BY <1>1, TreeIsKept, PTL

(* A source that was not found, and data that was missing, is rendered by  *)
(* no component of an earlier level.                                       *)
THEOREM VisibleCorrect == Spec => []EarlierLevelsAreVisible
<1>1. ASSUME IInv PROVE EarlierLevelsAreVisible
  <2>1. Elems(comps) \subseteq Comp
    BY <1>1, SetsAre DEF IInv
  <2> QED BY <1>1, <2>1 DEF IInv, VisibleInv, EarlierLevelsAreVisible, Built, Good
<1> QED BY <1>1, TreeIsKept, PTL

(* What a component substitutes with has been substituted itself, unless   *)
(* it is of the component's own level, or its substitution failed.         *)
THEOREM FinalCorrect == Spec => []EarlierLevelsAreFinal
<1>1. ASSUME IInv PROVE EarlierLevelsAreFinal
  BY <1>1 DEF IInv, TextInv, EarlierLevelsAreFinal, Raw
<1> QED BY <1>1, TreeIsKept, PTL

-----------------------------------------------------------------------------
(* Rendering comes to an end, since a key has one place in the tree: every *)
(* step but those of a new level gets on with this one, and a new level    *)
(* leaves fewer keys to be met.  Without that, a cycle of components would *)
(* be rendered for ever.                                                   *)
Unmet  == Comp \ (Elems(comps) \cup Elems(level))
Phases == CASE phase = "fetch" -> 3 [] phase = "build" -> 2 [] phase = "substitute" -> 1 [] phase = "done" -> 0
Turns  == Cardinality(pending) + (Len(level) + 1 - pos)
Kids   == IF pos <= Len(level) THEN Len(repo.yields[level[pos]]) + 1 - kid ELSE 0

(* What is left to do, the first entry counting most.                      *)
Ahead  == <<Cardinality(Unmet), Phases, Turns, Kids>>
Less(m, n) == \E i \in 1 .. 4 : m[i] < n[i] /\ \A j \in 1 .. i - 1 : m[j] = n[j]

Numbers == Nat \X Nat \X Nat \X Nat

Progress == Ahead \in Numbers /\ Less(Ahead', Ahead)
RenderingRunsOut == [][Progress]_vars

KidInv == kid # 0 => kid <= Len(repo.yields[level[pos]]) + 1

LEMMA LessIs ==
  ASSUME NEW a, NEW b, NEW c, NEW d, NEW p, NEW q, NEW r, NEW s,
         \/ p < a
         \/ p = a /\ q < b
         \/ p = a /\ q = b /\ r < c
         \/ p = a /\ q = b /\ r = c /\ s < d
  PROVE  Less(<<p, q, r, s>>, <<a, b, c, d>>)
<1> DEFINE m == <<p, q, r, s>>
           n == <<a, b, c, d>>
<1>1. CASE p < a
  <2>1. 1 \in 1 .. 4 /\ m[1] < n[1] /\ \A j \in 1 .. 1 - 1 : m[j] = n[j]
    BY <1>1
  <2> QED BY <2>1 DEF Less
<1>2. CASE p = a /\ q < b
  <2>1. 2 \in 1 .. 4 /\ m[2] < n[2] /\ \A j \in 1 .. 2 - 1 : m[j] = n[j]
    BY <1>2
  <2> QED BY <2>1 DEF Less
<1>3. CASE p = a /\ q = b /\ r < c
  <2>1. 3 \in 1 .. 4 /\ m[3] < n[3] /\ \A j \in 1 .. 3 - 1 : m[j] = n[j]
    BY <1>3
  <2> QED BY <2>1 DEF Less
<1>4. CASE p = a /\ q = b /\ r = c /\ s < d
  <2>1. 4 \in 1 .. 4 /\ m[4] < n[4] /\ \A j \in 1 .. 4 - 1 : m[j] = n[j]
    BY <1>4
  <2> QED BY <2>1 DEF Less
<1> QED BY <1>1, <1>2, <1>3, <1>4

LEMMA YieldsAre ==
  ASSUME IInv, pos <= Len(level)
  PROVE  pos \in Nat /\ Len(repo.yields[level[pos]]) \in Nat
<1>1. /\ repo.yields \in [Comp -> Seq(Comp)] /\ level[pos] \in Comp /\ pos \in Nat
  BY TurnIs DEF IInv, TypeInv, Repo, RepoType
<1>2. repo.yields[level[pos]] \in Seq(Comp)
  BY <1>1
<1> QED BY <1>1, <1>2

LEMMA KidStep ==
  ASSUME IInv, KidInv, [Next]_vars
  PROVE  KidInv'
<1>1. ~(phase = "substitute") => kid = 0
  BY DEF IInv, LoopInv
<1>2. CASE Substitute
  <2>1. (kid' = 0 \/ kid' = 1) /\ repo' = repo /\ level' = level
    BY <1>2 DEF Substitute
  <2>2. Len(repo.yields[level[pos]]) \in Nat /\ (kid' = 1 => pos' = pos)
    BY <1>2, YieldsAre DEF Substitute
  <2> QED BY <2>1, <2>2 DEF KidInv
<1>3. CASE Discover
  <2>1. /\ repo' = repo /\ level' = level /\ kid \in Nat /\ Len(repo.yields[level[pos]]) \in Nat
        /\ kid' = 0 \/ (pos' = pos /\ kid <= Len(repo.yields[level[pos]]) /\ kid' = kid + 1)
    BY <1>3, DiscoverIs DEF Discover
  <2> QED BY <2>1 DEF KidInv
<1>4. CASE Descend \/ Fetched \/ Build \/ Index \/ \E c \in Comp : Fetch(c) \/ Chart(c)
  <2>1. kid' = kid
    BY <1>4 DEF Descend, Fetched, Build, Index, Fetch, Chart
  <2>2. CASE ~Descend
    <3>1. phase # "substitute"
      BY <1>4, <2>2 DEF Fetched, Build, Index, Fetch, Chart
    <3> QED BY <1>1, <2>1, <3>1 DEF KidInv
  <2>3. CASE Descend
    <3>1. kid = 0
      BY <2>3, LevelIsOver DEF Descend, Loop
    <3> QED BY <2>1, <3>1 DEF KidInv
  <2> QED BY <2>2, <2>3
<1>5. CASE UNCHANGED vars
  BY <1>5 DEF vars, KidInv
<1> QED BY <1>2, <1>3, <1>4, <1>5 DEF Next

LEMMA AheadIs ==
  ASSUME IInv, KidInv, IsFiniteSet(Comp)
  PROVE  /\ Cardinality(Unmet) \in Nat /\ Phases \in Nat /\ Cardinality(pending) \in Nat /\ Len(level) \in Nat
         /\ Len(level) + 1 - pos \in Nat /\ Kids \in Nat
         /\ IsFiniteSet(Unmet) /\ IsFiniteSet(pending)
<1>1. /\ level \in Seq(Comp) /\ pos \in 1 .. Len(level) + 1 /\ kid \in Nat /\ pending \subseteq Comp
      /\ phase \in {"fetch", "build", "substitute", "done"}
  BY SetsAre DEF IInv, TypeInv, LoopInv
<1>2. IsFiniteSet(Unmet) /\ Cardinality(Unmet) \in Nat /\ IsFiniteSet(pending) /\ Cardinality(pending) \in Nat
  BY <1>1, FS_Subset, FS_CardinalityType DEF Unmet
<1>3. Phases \in Nat
  BY <1>1 DEF Phases
<1>4. pos <= Len(level) => Len(repo.yields[level[pos]]) \in Nat
  BY <1>1 DEF IInv, TypeInv, Repo, RepoType
<1>5. Kids \in Nat
  <2>1. pos <= Len(level) => kid <= Len(repo.yields[level[pos]]) + 1
    BY <1>1, <1>4 DEF KidInv
  <2> QED BY <1>1, <1>4, <2>1 DEF Kids
<1> QED BY <1>1, <1>2, <1>3, <1>5

LEMMA AheadFalls ==
  ASSUME IInv, KidInv, IInv', KidInv', IsFiniteSet(Comp), Next
  PROVE  \/ Cardinality(Unmet') < Cardinality(Unmet)
         \/ Unmet' = Unmet /\ Phases' < Phases
         \/ Unmet' = Unmet /\ Phases' = Phases /\ Turns' < Turns
         \/ Unmet' = Unmet /\ Phases' = Phases /\ Turns' = Turns /\ Kids' < Kids
<1>1. ASSUME NEW c \in Comp, Fetch(c) \/ Chart(c)
      PROVE  Unmet' = Unmet /\ Phases' = Phases /\ Turns' < Turns
  <2>1. /\ phase' = phase /\ level' = level /\ comps' = comps /\ pos' = pos /\ c \in pending /\ pending' = pending \ {c}
    BY <1>1 DEF Fetch, Chart, tree
  <2>2. Cardinality(pending') = Cardinality(pending) - 1 /\ Cardinality(pending) \in Nat
    BY <2>1, AheadIs, FS_RemoveElement
  <2>3. Len(level) + 1 - pos \in Nat
    BY AheadIs
  <2> QED BY <2>1, <2>2, <2>3 DEF Unmet, Phases, Turns
<1>2. CASE Fetched \/ Index
  <2>1. /\ level' = level /\ comps' = comps
        /\ \/ phase = "fetch" /\ phase' = "build"
           \/ phase = "build" /\ phase' = "substitute"
    BY <1>2 DEF Fetched, Index, tree
  <2> QED BY <2>1 DEF Unmet, Phases
<1>3. CASE Build
  <2>1. /\ phase' = phase /\ level' = level /\ comps' = Append(comps, level[pos]) /\ pos' = pos + 1
        /\ pending' = pending /\ pos <= Len(level)
    BY <1>3 DEF Build
  <2>2. level[pos] \in Elems(level) /\ level[pos] \in Comp
    BY <2>1, TurnIs DEF IInv
  <2>3. Elems(comps') = Elems(comps) \cup {level[pos]}
    BY <2>1, <2>2, ElemsAre DEF IInv, TypeInv
  <2>4. /\ Cardinality(pending) \in Nat /\ Len(level) \in Nat /\ pos \in Nat
    BY <2>1, AheadIs, YieldsAre
  <2>5. Turns' < Turns
    BY <2>1, <2>4 DEF Turns
  <2> QED BY <2>1, <2>2, <2>3, <2>5 DEF Unmet, Phases
<1>4. CASE Substitute
  <2>1. /\ phase' = phase /\ level' = level /\ comps' = comps /\ pending' = pending /\ repo' = repo
        /\ pos \in 1 .. Len(level) /\ kid = 0
    BY <1>4, SubstituteSteps
  <2>2. (kid' = 0 /\ pos' = pos + 1) \/ (kid' = 1 /\ pos' = pos)
    BY <1>4, <2>1 DEF Substitute
  <2>3. /\ Cardinality(pending) \in Nat /\ Len(level) \in Nat /\ Len(repo.yields[level[pos]]) \in Nat
    BY <2>1, AheadIs, YieldsAre
  <2>4. CASE pos' = pos + 1
    <3>1. Turns' < Turns
      BY <2>1, <2>3, <2>4 DEF Turns
    <3> QED BY <2>1, <3>1 DEF Unmet, Phases
  <2>5. CASE kid' = 1 /\ pos' = pos
    <3> DEFINE n == Len(repo.yields[level[pos]])
    <3>0. n \in Nat /\ Kids = n + 1 - kid /\ Kids' = n + 1 - (1)
      BY <2>1, <2>3, <2>5 DEF Kids
    <3> HIDE DEF n
    <3>1. Kids' < Kids
      BY <2>1, <3>0
    <3> QED BY <2>1, <2>5, <3>1 DEF Unmet, Phases, Turns
  <2> QED BY <2>2, <2>4, <2>5
<1>5. CASE Discover
  <2>1. /\ phase' = phase /\ level' = level /\ pending' = pending /\ repo' = repo
        /\ pos \in 1 .. Len(level) /\ kid \in Nat /\ Len(repo.yields[level[pos]]) \in Nat
    BY <1>5, DiscoverIs
  <2>2. comps' = comps /\ (pos' = pos + 1 \/ (kid' = kid + 1 /\ pos' = pos))
    BY <1>5 DEF Discover, tree
  <2>3. Cardinality(pending) \in Nat /\ Len(level) \in Nat
    BY AheadIs
  <2>4. CASE pos' = pos + 1
    <3>1. Turns' < Turns
      BY <2>1, <2>3, <2>4 DEF Turns
    <3> QED BY <2>1, <2>2, <3>1 DEF Unmet, Phases
  <2>5. CASE kid' = kid + 1 /\ pos' = pos
    <3> DEFINE n == Len(repo.yields[level[pos]])
    <3>0. n \in Nat /\ Kids = n + 1 - kid /\ Kids' = n + 1 - (kid + 1)
      BY <2>1, <2>3, <2>5 DEF Kids
    <3> HIDE DEF n
    <3>1. Kids' < Kids
      BY <2>1, <3>0
    <3> QED BY <2>1, <2>2, <2>5, <3>1 DEF Unmet, Phases, Turns
  <2> QED BY <2>2, <2>4, <2>5
<1>6. CASE Descend /\ next = <<>>
  <2>1. phase = "substitute" /\ phase' = "done" /\ level' = level /\ comps' = comps
    BY <1>6 DEF Descend
  <2> QED BY <2>1 DEF Unmet, Phases
<1>7. CASE Descend /\ next # <<>>
  <2>1. phase = "substitute" /\ pos > Len(level) /\ level' = next /\ comps' = comps
    BY <1>7 DEF Descend
  <2>2. Elems(level) \subseteq Elems(comps) /\ Elems(next) \cap (Elems(comps) \cup Elems(level)) = {}
    BY <2>1, LevelIsOver DEF IInv, LevelInv, Loop
  <2>3. PICK k \in Elems(next) : k \in Comp
    BY <1>7, ElemsAre, SetsAre DEF IInv, TypeInv
  <2>4. k \in Unmet /\ Unmet' \subseteq Unmet \ {k}
    BY <2>1, <2>2, <2>3 DEF Unmet
  <2>5. /\ IsFiniteSet(Unmet \ {k}) /\ Cardinality(Unmet \ {k}) = Cardinality(Unmet) - 1
        /\ Cardinality(Unmet) \in Nat
    BY <2>4, AheadIs, FS_RemoveElement
  <2>6. Cardinality(Unmet') <= Cardinality(Unmet \ {k}) /\ Cardinality(Unmet') \in Nat
    BY <2>4, <2>5, FS_Subset, FS_CardinalityType
  <2> QED BY <2>5, <2>6
<1> QED BY <1>1, <1>2, <1>3, <1>4, <1>5, <1>6, <1>7 DEF Next

(* Rendering ends for every repository of finitely many components,        *)
(* whatever renders whatever.                                              *)
THEOREM EndCorrect == IsFiniteSet(Comp) => (Spec => RenderingRunsOut)
<1> SUFFICES ASSUME IsFiniteSet(Comp) PROVE Spec => RenderingRunsOut
  OBVIOUS
<1>1. Init => KidInv
  BY DEF Init, KidInv
<1>2. IInv /\ KidInv /\ [Next]_vars => KidInv'
  BY KidStep
<1>3. ASSUME IInv, KidInv, IInv', KidInv', Next
      PROVE  Progress
  <2>1. Turns \in Nat
    BY <1>3, AheadIs DEF Turns
  <2>2. Ahead \in Numbers
    BY <1>3, <2>1, AheadIs DEF Ahead, Numbers
  <2>3. \/ Cardinality(Unmet') < Cardinality(Unmet)
        \/ Cardinality(Unmet') = Cardinality(Unmet) /\ Phases' < Phases
        \/ Cardinality(Unmet') = Cardinality(Unmet) /\ Phases' = Phases /\ Turns' < Turns
        \/ Cardinality(Unmet') = Cardinality(Unmet) /\ Phases' = Phases /\ Turns' = Turns /\ Kids' < Kids
    BY <1>3, AheadFalls
  <2>4. Less(<<Cardinality(Unmet'), Phases', Turns', Kids'>>, <<Cardinality(Unmet), Phases, Turns, Kids>>)
    BY <2>3, LessIs
  <2> QED BY <2>2, <2>4 DEF Ahead, Progress
<1>4. IInv /\ KidInv /\ IInv' /\ KidInv' /\ [Next]_vars =>
        [Progress]_vars
  BY <1>3
<1>5. Spec => [][Progress]_vars
  BY <1>1, <1>2, <1>4, TreeIsKept, PTL DEF Spec
<1> QED BY <1>5 DEF RenderingRunsOut
=============================================================================
