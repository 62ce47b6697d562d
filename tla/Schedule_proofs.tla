--------------------------- MODULE Schedule_proofs ---------------------------
(***************************************************************************)
(* What topo() and Solve() compute, for every multigraph.                  *)
(***************************************************************************)
EXTENDS Schedule, FiniteSetTheorems, WellFoundedInduction, TLAPS

Index == 1 .. Len(order)

Queued(n)   == \E k \in Index : order[k] = n
Popped(n)   == \E k \in 1 .. head : order[k] = n
Followed(e) == e \notin scan /\ Popped(g.from[e])
Waiting(n)  == {e \in In(n) : ~Followed(e)}

(* The bookkeeping of topo(): an in-degree counts the in-edges not yet     *)
(* followed, a node is queued once and when that count is zero, and so     *)
(* every in-edge of a queued node comes from an earlier place.             *)
TopoInv ==
  /\ pc = "seed" => unseeded # {} /\ head = 0 /\ scan = {}
  /\ pc # "seed" => unseeded = {}
  /\ scan # {} => head >= 1
  /\ \A e \in scan : g.from[e] = order[head]
  /\ \A n \in Node : indeg[n] = Cardinality(Waiting(n))
  /\ \A n \in Node : Queued(n) <=> n \notin unseeded /\ indeg[n] = 0
  /\ \A j, k \in Index : order[j] = order[k] => j = k
  /\ \A k \in Index : \A e \in Edge : g.to[e] = order[k] =>
       \E j \in 1 .. (k - 1) : order[j] = g.from[e]

(* How topo() ended.                                                       *)
VerdictInv ==
  /\ pc \notin {"seed", "topo"} => scan = {} /\ head = Len(order)
  /\ pc \in {"forward", "backward", "solved"} => Len(order) = Cardinality(Node)
  /\ pc = "cyclic" => Len(order) # Cardinality(Node)
  /\ pc = "forward" => pos \in 1 .. Len(order) + 1
  /\ pc = "backward" => pos \in 0 .. Len(order)

LEMMA SetEmpty ==
  ASSUME NEW S, IsFiniteSet(S)
  PROVE  Cardinality(S) = 0 <=> S = {}
BY FS_EmptySet

LEMMA WaitingFinite ==
  ASSUME NEW n
  PROVE  /\ IsFiniteSet(Waiting(n))
         /\ Cardinality(Waiting(n)) \in Nat
         /\ Cardinality(Waiting(n)) = 0 <=> Waiting(n) = {}
<1>1. Waiting(n) \in SUBSET Edge
  BY DEF Waiting, In
<1>2. IsFiniteSet(Waiting(n))
  BY <1>1, EdgeAssumption, FS_Subset
<1>3. QED
  BY <1>2, FS_CardinalityType, FS_EmptySet

(* Every set of positions has a first one.                                 *)
LEMMA FirstPosition ==
  ASSUME NEW K \in SUBSET Nat, K # {}
  PROVE  \E k \in K : \A j \in K : ~(j < k)
<1>1. PICK k \in K : \A j \in K : <<j, k>> \notin OpToRel(<, Nat)
  BY NatLessThanWellFounded, WFMin
<1>2. \A j \in K : j < k => <<j, k>> \in OpToRel(<, Nat)
  BY DEF OpToRel
<1>3. QED
  BY <1>1, <1>2

-----------------------------------------------------------------------------
LEMMA InitTopo == Init => TypeOK /\ TopoInv /\ VerdictInv
<1> SUFFICES ASSUME Init PROVE TypeOK /\ TopoInv /\ VerdictInv
  OBVIOUS
<1>1. g \in Graph
  BY GraphsAssumption DEF Init
<1>2. \A n \in Node : Waiting(n) = In(n)
  BY DEF Init, Waiting, Followed, Popped, In
<1>3. \A n \in Node : Cardinality(In(n)) \in Nat
  BY <1>2, WaitingFinite
<1>4. TypeOK
  BY <1>1, <1>3, NodeAssumption, EdgeAssumption DEF Init, TypeOK
<1>5. TopoInv
  BY <1>2, NodeAssumption DEF Init, TopoInv, Queued, Index
<1>6. VerdictInv
  BY DEF Init, VerdictInv
<1>7. QED
  BY <1>4, <1>5, <1>6

(* What the actions of Solve leave alone.                                  *)
LEMMA TopoFrame ==
  ASSUME TopoInv, UNCHANGED <<g, topoVars>>, pc = "seed" <=> pc' = "seed"
  PROVE  TopoInv'
<1>1. \A n : Waiting(n)' = Waiting(n)
  BY DEF Waiting, Followed, Popped, In, topoVars
<1>2. \A n : Queued(n)' <=> Queued(n)
  BY DEF Queued, Index, topoVars
<1>3. \A n : In(n)' = In(n)
  BY DEF In
<1>4. Index' = Index
  BY DEF Index, topoVars
<1>5. QED
  BY <1>1, <1>2, <1>3, <1>4 DEF TopoInv, topoVars

(* What Append does to the queue, without the sequence operators.          *)
Extended(n) ==
  /\ Len(order) \in Nat /\ Len(order) + 1 \notin Index
  /\ Index \subseteq Nat /\ Index' = Index \cup {Len(order) + 1}
  /\ order'[Len(order) + 1] = n
  /\ \A k \in Index : order'[k] = order[k]

LEMMA AppendExtends ==
  ASSUME TypeOK, NEW n \in Node, order' = Append(order, n)
  PROVE  Extended(n)
BY DEF TypeOK, Index, Extended

(* Queueing a node that is not queued, after every node that points at it. *)
LEMMA Enqueue ==
  ASSUME TopoInv, NEW n \in Node, Extended(n), g' = g,
         ~Queued(n), \A e \in In(n) : \E j \in Index : order[j] = g.from[e]
  PROVE  /\ \A m \in Node : Queued(m)' <=> Queued(m) \/ m = n
         /\ \A j, k \in Index' : order'[j] = order'[k] => j = k
         /\ \A k \in Index' : \A e \in Edge : g'.to[e] = order'[k] =>
              \E j \in 1 .. (k - 1) : order'[j] = g'.from[e]
<1>1. /\ Len(order) \in Nat /\ Len(order) + 1 \notin Index
      /\ Index' = Index \cup {Len(order) + 1}
      /\ order'[Len(order) + 1] = n
      /\ \A k \in Index : order'[k] = order[k]
  BY DEF Extended
<1>2. \A m : In(m)' = In(m)
  BY DEF In
<1>3. \A m \in Node : Queued(m)' <=> Queued(m) \/ m = n
  BY <1>1 DEF Queued
<1>4. \A j \in Index : order[j] # n
  BY DEF Queued
<1>5. \A j, k \in Index : order[j] = order[k] => j = k
  BY DEF TopoInv
<1>6. \A j, k \in Index' : order'[j] = order'[k] => j = k
  BY <1>1, <1>4, <1>5
<1>7. ASSUME NEW k \in Index', NEW e \in Edge, g.to[e] = order'[k]
      PROVE  \E j \in 1 .. (k - 1) : order'[j] = g'.from[e]
  <2>1. CASE k \in Index
    <3>1. g.to[e] = order[k]
      BY <1>1, <1>7, <2>1
    <3>2. PICK j \in 1 .. (k - 1) : order[j] = g.from[e]
      BY <2>1, <3>1 DEF TopoInv
    <3>3. j \in Index
      BY <1>1, <2>1 DEF Index
    <3>4. QED
      BY <1>1, <3>2, <3>3
  <2>2. CASE k = Len(order) + 1
    <3>1. PICK j \in Index : order[j] = g.from[e]
      BY <1>1, <1>7, <2>2 DEF In
    <3>2. j \in 1 .. (k - 1)
      BY <1>1, <2>2 DEF Index
    <3>3. QED
      BY <1>1, <3>1, <3>2
  <2>3. QED
    BY <1>1, <2>1, <2>2
<1>8. QED
  BY <1>1, <1>3, <1>6, <1>7

LEMMA SeedTopo ==
  ASSUME TypeOK, TopoInv, NEW n \in Node, Seed(n)
  PROVE  TopoInv'
<1>1. /\ pc = "seed" /\ n \in unseeded /\ unseeded' = unseeded \ {n}
      /\ head = 0 /\ scan = {}
      /\ g' = g /\ indeg' = indeg /\ head' = head /\ scan' = scan
      /\ pc' \in {"seed", "topo"} /\ (pc' = "topo" <=> unseeded' = {})
  BY DEF Seed, TopoInv
<1>2. \A m : In(m)' = In(m) /\ Waiting(m)' = Waiting(m)
  BY <1>1 DEF Waiting, Followed, Popped, In
<1>3. ~Queued(n)
  BY <1>1 DEF TopoInv
<1>4. /\ pc' = "seed" => unseeded' # {} /\ head' = 0 /\ scan' = {}
      /\ pc' # "seed" => unseeded' = {}
      /\ scan' # {} => head' >= 1
      /\ \A e \in scan' : g'.from[e] = order'[head']
      /\ \A m \in Node : indeg'[m] = Cardinality(Waiting(m)')
  BY <1>1, <1>2 DEF TopoInv
<1>5. CASE indeg[n] = 0
  <2>1. order' = Append(order, n)
    BY <1>5 DEF Seed
  <2>2. Waiting(n) = {}
    BY <1>5, WaitingFinite DEF TopoInv
  <2>3. In(n) = {}
    BY <1>1, <2>2 DEF Waiting, Followed, Popped
  <2>4. /\ \A m \in Node : Queued(m)' <=> Queued(m) \/ m = n
        /\ \A j, k \in Index' : order'[j] = order'[k] => j = k
        /\ \A k \in Index' : \A e \in Edge : g'.to[e] = order'[k] =>
             \E j \in 1 .. (k - 1) : order'[j] = g'.from[e]
    BY <1>1, <1>3, <2>1, <2>3, AppendExtends, Enqueue
  <2>5. \A m \in Node : Queued(m)' <=> m \notin unseeded' /\ indeg'[m] = 0
    BY <1>1, <1>5, <2>4 DEF TopoInv
  <2>6. QED
    BY <1>4, <2>4, <2>5 DEF TopoInv
<1>6. CASE indeg[n] # 0
  <2>1. order' = order /\ Index' = Index
    BY <1>6 DEF Seed, Index
  <2>2. \A m \in Node : Queued(m)' <=> m \notin unseeded' /\ indeg'[m] = 0
    BY <1>1, <1>6, <2>1 DEF Queued, TopoInv
  <2>3. QED
    BY <1>1, <1>2, <1>4, <2>1, <2>2 DEF TopoInv
<1>7. QED
  BY <1>5, <1>6

LEMMA PopTopo ==
  ASSUME TypeOK, TopoInv, Pop
  PROVE  TopoInv'
<1> USE DEF Pop
<1> DEFINE v == order[head + 1]
<1>1. /\ head \in Nat /\ Len(order) \in Nat /\ order \in Seq(Node)
      /\ head + 1 \in Index /\ v \in Node
      /\ 1 .. head' = (1 .. head) \cup {head + 1}
  BY SMTT(60) DEF TypeOK, Index
<1>2. \A m : In(m)' = In(m)
  BY DEF In
<1>3. Index' = Index /\ \A m : Queued(m)' <=> Queued(m)
  BY DEF Index, Queued
<1>4. \A m \in Node : Popped(m)' <=> Popped(m) \/ m = v
  BY <1>1 DEF Popped
<1>5. ~Popped(v)
  BY <1>1 DEF Popped, TopoInv, Index
<1>6. \A e \in Edge : Followed(e)' <=> Followed(e)
  BY <1>1, <1>4, <1>5 DEF Followed, Out, TypeOK, Graph
<1>7. \A m : Waiting(m)' = Waiting(m)
  BY <1>2, <1>6 DEF Waiting, In
<1>8. \A e \in scan' : g'.from[e] = order'[head']
  BY DEF Out
<1>9. head' >= 1
  BY <1>1
<1>10. QED
  BY <1>2, <1>3, <1>7, <1>8, <1>9 DEF TopoInv

LEMMA FollowTopo ==
  ASSUME TypeOK, TopoInv, NEW e \in Edge, Follow(e)
  PROVE  TopoInv'
<1> DEFINE n == g.to[e]
<1>1. /\ pc = "topo" /\ pc' = pc /\ e \in scan /\ scan' = scan \ {e}
      /\ g' = g /\ unseeded' = unseeded /\ unseeded = {} /\ head' = head
      /\ indeg' = [indeg EXCEPT ![n] = indeg[n] - 1]
      /\ n \in Node /\ g.from[e] \in Node
  BY DEF Follow, TopoInv, TypeOK, Graph
<1>2. \A m : In(m)' = In(m)
  BY <1>1 DEF In
<1>3. /\ head \in Nat /\ head >= 1 /\ head <= Len(order) /\ Len(order) \in Nat
      /\ order \in Seq(Node) /\ head \in Index
  BY <1>1 DEF TopoInv, TypeOK, Index
<1>4. \A k \in Index : order'[k] = order[k]
  BY <1>1, <1>3 DEF Follow, Index
<1>5. \A m : Popped(m)' <=> Popped(m)
  BY <1>1, <1>3, <1>4 DEF Popped, Index
<1>6. Popped(g.from[e])
  BY <1>1, <1>3 DEF TopoInv, Popped
<1>7. \A f \in Edge : Followed(f)' <=> Followed(f) \/ f = e
  BY <1>1, <1>5, <1>6 DEF Followed
<1>8. \A m \in Node : Waiting(m)' = IF m = n THEN Waiting(n) \ {e} ELSE Waiting(m)
  BY <1>1, <1>2, <1>7 DEF Waiting, In
<1>9. e \in Waiting(n)
  BY <1>1 DEF Waiting, Followed, In
<1>10. /\ indeg[n] = Cardinality(Waiting(n)) /\ indeg[n] \in Nat \ {0}
       /\ Cardinality(Waiting(n) \ {e}) = indeg[n] - 1
       /\ IsFiniteSet(Waiting(n) \ {e})
  <2>1. IsFiniteSet(Waiting(n)) /\ Cardinality(Waiting(n)) \in Nat
    BY WaitingFinite
  <2>2. Cardinality(Waiting(n)) # 0
    BY <1>9, <2>1, SetEmpty
  <2>3. /\ IsFiniteSet(Waiting(n) \ {e})
        /\ Cardinality(Waiting(n) \ {e}) = Cardinality(Waiting(n)) - 1
    BY <1>9, <2>1, FS_RemoveElement
  <2>4. indeg[n] = Cardinality(Waiting(n))
    BY <1>1 DEF TopoInv
  <2>5. QED
    BY <2>1, <2>2, <2>3, <2>4
<1>11. /\ \A m \in Node : indeg'[m] = IF m = n THEN indeg[n] - 1 ELSE indeg[m]
       /\ \A m \in Node : indeg'[m] = Cardinality(Waiting(m)')
  <2>1. \A m \in Node : indeg'[m] = IF m = n THEN indeg[n] - 1 ELSE indeg[m]
    BY <1>1 DEF TypeOK
  <2>2. \A m \in Node : indeg[m] = Cardinality(Waiting(m))
    BY DEF TopoInv
  <2>3. QED
    BY <2>1, <2>2, <1>8, <1>10
<1>12. ~Queued(n)
  BY <1>1, <1>10 DEF TopoInv
<1>13. /\ scan' # {} => head' >= 1
       /\ \A f \in scan' : g'.from[f] = order'[head']
  BY <1>1, <1>3, <1>4 DEF TopoInv
<1>14. CASE indeg[n] = 1
  <2>1. order' = Append(order, n)
    BY <1>14 DEF Follow
  <2>2. Waiting(n)' = {}
    BY <1>1, <1>8, <1>10, <1>14, SetEmpty
  <2>3. \A f \in In(n) : Popped(g.from[f])
    BY <1>1, <1>2, <1>5, <2>2 DEF Waiting, Followed
  <2>4. \A f \in In(n) : \E j \in Index : order[j] = g.from[f]
    BY <1>3, <2>3 DEF Popped, Index
  <2>5. /\ \A m \in Node : Queued(m)' <=> Queued(m) \/ m = n
        /\ \A j, k \in Index' : order'[j] = order'[k] => j = k
        /\ \A k \in Index' : \A f \in Edge : g'.to[f] = order'[k] =>
             \E j \in 1 .. (k - 1) : order'[j] = g'.from[f]
    BY <1>1, <1>12, <2>1, <2>4, AppendExtends, Enqueue
  <2>6. \A m \in Node : Queued(m)' <=> m \notin unseeded' /\ indeg'[m] = 0
    BY <1>1, <1>11, <1>14, <2>5 DEF TopoInv
  <2>7. QED
    BY <1>1, <1>11, <1>13, <2>5, <2>6 DEF TopoInv
<1>15. CASE indeg[n] # 1
  <2>1. order' = order /\ Index' = Index
    BY <1>15 DEF Follow, Index
  <2>3. \A m \in Node : Queued(m)' <=> Queued(m)
    BY <2>1 DEF Queued
  <2>2. \A m \in Node : Queued(m)' <=> m \notin unseeded' /\ indeg'[m] = 0
    BY <1>1, <1>10, <1>11, <1>12, <1>15, <2>3 DEF TopoInv
  <2>4. QED
    BY <1>1, <1>2, <1>11, <1>13, <2>1, <2>2 DEF TopoInv
<1>16. QED
  BY <1>14, <1>15

-----------------------------------------------------------------------------
(* The types.  In-degrees stay natural because an edge is followed once.   *)
LEMMA TypeStep ==
  ASSUME TypeOK, TopoInv, VerdictInv, [Next]_vars
  PROVE  TypeOK'
<1>1. ASSUME NEW n \in Node, Seed(n) PROVE TypeOK'
  BY <1>1 DEF Seed, TypeOK, solveVars
<1>2. CASE Pop
  BY <1>2 DEF Pop, TypeOK, Out, solveVars
<1>3. ASSUME NEW e \in Edge, Follow(e) PROVE TypeOK'
  <2>1. /\ g' = g /\ pc' = pc /\ unseeded' = unseeded /\ head' = head
        /\ scan' = scan \ {e} /\ UNCHANGED solveVars
        /\ indeg' = [indeg EXCEPT ![g.to[e]] = indeg[g.to[e]] - 1]
        /\ order' = order \/ order' = Append(order, g.to[e])
    BY <1>3 DEF Follow
  <2>2. g.to[e] \in Node
    BY DEF TypeOK, Graph
  <2>3. indeg[g.to[e]] = Cardinality(Waiting(g.to[e]))
    BY <2>2 DEF TopoInv
  <2>4. e \in Waiting(g.to[e])
    BY <1>3 DEF Follow, Waiting, Followed, In
  <2>5. indeg[g.to[e]] - 1 \in Nat
    BY <2>3, <2>4, WaitingFinite
  <2>6. order' \in Seq(Node) /\ head' \in 0 .. Len(order')
    <3>1. order \in Seq(Node) /\ head \in 0 .. Len(order) /\ Len(order) \in Nat
      BY DEF TypeOK
    <3>2. /\ Append(order, g.to[e]) \in Seq(Node)
          /\ Len(Append(order, g.to[e])) = Len(order) + 1
      BY <2>2, <3>1
    <3>3. QED
      BY <2>1, <3>1, <3>2
  <2>7. indeg' \in [Node -> Nat]
    BY <2>1, <2>5 DEF TypeOK
  <2>8. QED
    BY <2>1, <2>6, <2>7 DEF TypeOK, solveVars
<1>4. CASE Sorted
  BY <1>4 DEF Sorted, TypeOK, topoVars
<1>5. CASE Relax
  <2>1. /\ pos \in Nat /\ pos >= 1 /\ pos <= Len(order)
        /\ order[pos] \in Node
    BY <1>5 DEF Relax, TypeOK, VerdictInv
  <2>2. \A e \in Edge : Arrival(e) \in Nat
    BY DEF TypeOK, Graph, Arrival
  <2>3. earliest' \in [Node -> Nat] /\ pred' \in [Node -> Edge \cup {NoEdge}]
    <3>1. earliest \in [Node -> Nat] /\ pred \in [Node -> Edge \cup {NoEdge}]
      BY DEF TypeOK
    <3>2. \/ UNCHANGED <<earliest, pred>>
          \/ \E e \in Edge : /\ earliest' = [earliest EXCEPT ![order[pos]] = Arrival(e)]
                              /\ pred' = [pred EXCEPT ![order[pos]] = e]
      BY <1>5 DEF Relax, In
    <3>3. QED
      BY <2>2, <3>1, <3>2
  <2>4. makespan' \in Nat /\ end' \in Node \cup {NoNode}
    <3>1. earliest'[order[pos]] \in Nat
      BY <2>1, <2>3
    <3>2. \/ makespan' = earliest'[order[pos]] /\ end' = order[pos]
          \/ UNCHANGED <<makespan, end>>
      BY <1>5 DEF Relax
    <3>3. QED
      BY <2>1, <3>1, <3>2 DEF TypeOK
  <2>5. QED
    BY <1>5, <2>3, <2>4 DEF Relax, TypeOK, topoVars
<1>6. CASE TurnBack
  BY <1>6 DEF TurnBack, TypeOK, topoVars
<1>7. CASE PullBack
  <2>1. \A e \in Edge : Deadline(e) \in Int
    BY DEF TypeOK, Graph, Deadline
  <2>2. PICK t \in {makespan} \cup {Deadline(e) : e \in Out(order[pos])} :
          latest' = [latest EXCEPT ![order[pos]] = t]
    BY <1>7 DEF PullBack
  <2>3. latest' \in [Node -> Int]
    <3>1. t \in Int
      BY <2>1 DEF TypeOK, Out
    <3>2. QED
      BY <2>2, <3>1 DEF TypeOK
  <2>4. /\ UNCHANGED <<g, pc, topoVars, earliest, pred, makespan, end>>
        /\ pos' \in Nat
    BY <1>7 DEF PullBack, TypeOK
  <2>5. QED
    BY <2>3, <2>4 DEF TypeOK, topoVars
<1>8. CASE Solved
  BY <1>8 DEF Solved, TypeOK, topoVars, solveVars
<1>9. CASE UNCHANGED vars
  BY <1>9 DEF vars, TypeOK, topoVars, solveVars
<1>10. QED
  BY <1>1, <1>2, <1>3, <1>4, <1>5, <1>6, <1>7, <1>8, <1>9 DEF Next

LEMMA TopoStep ==
  ASSUME TypeOK, TopoInv, VerdictInv, [Next]_vars
  PROVE  TopoInv'
<1>1. ASSUME NEW n \in Node, Seed(n) PROVE TopoInv'
  BY <1>1, SeedTopo
<1>2. CASE Pop
  BY <1>2, PopTopo
<1>3. ASSUME NEW e \in Edge, Follow(e) PROVE TopoInv'
  BY <1>3, FollowTopo
<1>4. CASE Sorted
  BY <1>4, TopoFrame DEF Sorted
<1>5. CASE Relax
  BY <1>5, TopoFrame DEF Relax
<1>6. CASE TurnBack
  BY <1>6, TopoFrame DEF TurnBack
<1>7. CASE PullBack
  BY <1>7, TopoFrame DEF PullBack
<1>8. CASE Solved
  BY <1>8, TopoFrame DEF Solved
<1>9. CASE UNCHANGED vars
  BY <1>9, TopoFrame DEF vars
<1>10. QED
  BY <1>1, <1>2, <1>3, <1>4, <1>5, <1>6, <1>7, <1>8, <1>9 DEF Next

LEMMA VerdictStep ==
  ASSUME TypeOK, TopoInv, VerdictInv, [Next]_vars
  PROVE  VerdictInv'
<1> USE DEF VerdictInv, topoVars, solveVars
<1>1. ASSUME NEW n \in Node, Seed(n) PROVE VerdictInv'
  BY <1>1 DEF Seed
<1>2. CASE Pop
  BY <1>2 DEF Pop
<1>3. ASSUME NEW e \in Edge, Follow(e) PROVE VerdictInv'
  BY <1>3 DEF Follow
<1>4. CASE Sorted
  BY <1>4 DEF Sorted, TypeOK
<1>5. CASE Relax
  BY <1>5 DEF Relax, TypeOK
<1>6. CASE TurnBack
  BY <1>6 DEF TurnBack, TypeOK
<1>7. CASE PullBack
  BY <1>7 DEF PullBack, TypeOK
<1>8. CASE Solved
  BY <1>8 DEF Solved
<1>9. CASE UNCHANGED vars
  BY <1>9 DEF vars
<1>10. QED
  BY <1>1, <1>2, <1>3, <1>4, <1>5, <1>6, <1>7, <1>8, <1>9 DEF Next

(* Every state of a run has the types the module declares; the in-degree   *)
(* counters of topo() never go negative and its queue holds each node at   *)
(* most once.                                                              *)
THEOREM TypeCorrect == Spec => [](TypeOK /\ TopoInv /\ VerdictInv)
<1>1. Init => TypeOK /\ TopoInv /\ VerdictInv
  BY InitTopo
<1>2. TypeOK /\ TopoInv /\ VerdictInv /\ [Next]_vars
        => (TypeOK /\ TopoInv /\ VerdictInv)'
  BY TypeStep, TopoStep, VerdictStep
<1>3. QED
  BY <1>1, <1>2, PTL DEF Spec

-----------------------------------------------------------------------------
(* Pigeonhole: the queue of a finished topo() holds every node exactly     *)
(* when it is as long as the graph has nodes.                              *)
LEMMA FullQueue ==
  ASSUME TypeOK, TopoInv
  PROVE  Len(order) = Cardinality(Node) <=> \A n \in Node : Queued(n)
<1>1. /\ Len(order) \in Nat /\ order \in [Index -> Node]
      /\ \A j, k \in Index : order[j] = order[k] => j = k
  BY DEF TypeOK, TopoInv, Index
<1>2. order \in Injection(Index, Node)
  BY <1>1 DEF Injection, IsInjective
<1>3. IsFiniteSet(Index) /\ Cardinality(Index) = Len(order)
  BY <1>1, FS_Interval DEF Index
<1>4. Cardinality(Index) = Cardinality(Node) <=> order \in Surjection(Index, Node)
  BY <1>2, NodeAssumption, FS_Injection
<1>5. order \in Surjection(Index, Node) <=> \A n \in Node : Queued(n)
  BY <1>1 DEF Surjection, Queued
<1>6. QED
  BY <1>3, <1>4, <1>5

(* What topo() leaves unordered waits for itself.                          *)
LEMMA StuckIsCyclic ==
  ASSUME TypeOK, TopoInv, VerdictInv, pc = "cyclic"
  PROVE  Cyclic(g)
<1> DEFINE S == {n \in Node : ~Queued(n)}
<1>1. S # {}
  BY FullQueue DEF VerdictInv
<1>2. ASSUME NEW n \in S PROVE \E e \in In(n) : g.from[e] \in S
  <2>1. indeg[n] # 0
    BY DEF TopoInv
  <2>2. PICK e \in Waiting(n) : TRUE
    BY <2>1, WaitingFinite DEF TopoInv
  <2>3. e \in In(n) /\ e \in Edge /\ ~Popped(g.from[e])
    BY <2>2 DEF Waiting, Followed, In, VerdictInv
  <2>4. g.from[e] \in Node
    BY <2>3 DEF TypeOK, Graph
  <2>5. ~Queued(g.from[e])
    BY <2>3 DEF Queued, Popped, Index, VerdictInv
  <2>6. QED
    BY <2>3, <2>4, <2>5
<1>3. S \in SUBSET Node
  OBVIOUS
<1>4. Blocked(g, S)
  BY <1>1, <1>2 DEF Blocked, In
<1>5. QED
  BY <1>3, <1>4 DEF Cyclic

(* A graph topo() ordered has no set of events that wait for each other:   *)
(* the one queued first would wait for an earlier one.                     *)
LEMMA OrderedIsAcyclic ==
  ASSUME TypeOK, TopoInv, \A n \in Node : Queued(n)
  PROVE  ~Cyclic(g)
<1> SUFFICES ASSUME NEW S \in SUBSET Node, Blocked(g, S) PROVE FALSE
  BY DEF Cyclic
<1> DEFINE K == {k \in Index : order[k] \in S}
<1>1. K \in SUBSET Nat /\ K # {}
  BY DEF Blocked, Queued, Index
<1>2. PICK k \in K : \A j \in K : ~(j < k)
  BY <1>1, FirstPosition
<1>3. PICK e \in In(order[k]) : g.from[e] \in S
  BY <1>2 DEF Blocked, In
<1>4. PICK j \in 1 .. (k - 1) : order[j] = g.from[e]
  BY <1>2, <1>3 DEF TopoInv, In
<1>5. j \in K /\ j < k
  <2>1. k \in Index /\ Len(order) \in Nat
    BY DEF TypeOK
  <2>2. QED
    BY <1>3, <1>4, <2>1 DEF Index
<1>6. QED
  BY <1>2, <1>5

(* topo() fails on the graphs with a cycle and on no others.               *)
THEOREM VerdictCorrect == Spec => []VerdictIsCycle
<1>1. TypeOK /\ TopoInv /\ VerdictInv => VerdictIsCycle
  <2> SUFFICES ASSUME TypeOK, TopoInv, VerdictInv PROVE VerdictIsCycle
    OBVIOUS
  <2>1. pc \in {"forward", "backward", "solved"} => \A n \in Node : Queued(n)
    BY FullQueue DEF VerdictInv
  <2>2. QED
    BY <2>1, StuckIsCyclic, OrderedIsAcyclic DEF VerdictIsCycle
<1>2. QED
  BY <1>1, TypeCorrect, PTL

-----------------------------------------------------------------------------
LEMMA OrderFacts ==
  ASSUME TypeOK, TopoInv, \A n \in Node : Queued(n)
  PROVE  \A e \in Edge : \A j, k \in Index :
           order[j] = g.from[e] /\ order[k] = g.to[e] => j < k
<1> SUFFICES ASSUME NEW e \in Edge, NEW j \in Index, NEW k \in Index,
                    order[j] = g.from[e], order[k] = g.to[e]
             PROVE  j < k
  OBVIOUS
<1>1. PICK i \in 1 .. (k - 1) : order[i] = g.from[e]
  BY DEF TopoInv
<1>2. Len(order) \in Nat
  BY DEF TypeOK
<1>3. i \in Index /\ i < k
  BY <1>1, <1>2 DEF Index
<1>4. i = j
  BY <1>1, <1>3 DEF TopoInv
<1>5. QED
  BY <1>3, <1>4

(* Solve() visits every event once, after everything it waits for.         *)
THEOREM OrderCorrect == Spec => []OrderIsTopological
<1>1. TypeOK /\ TopoInv /\ VerdictInv => OrderIsTopological
  <2> SUFFICES ASSUME TypeOK, TopoInv, VerdictInv,
                      pc \in {"forward", "backward", "solved"}
               PROVE  OrderIsTopological
    BY DEF OrderIsTopological
  <2>1. \A n \in Node : Queued(n)
    BY FullQueue DEF VerdictInv
  <2>2. \A e \in Edge : \A j, k \in 1 .. Len(order) :
          order[j] = g.from[e] /\ order[k] = g.to[e] => j < k
    BY <2>1, OrderFacts DEF Index
  <2>3. \A j, k \in 1 .. Len(order) : order[j] = order[k] => j = k
    BY DEF TopoInv, Index
  <2>4. \A n \in Node : \E k \in 1 .. Len(order) : order[k] = n
    BY <2>1 DEF Queued, Index
  <2>5. QED
    BY <2>2, <2>3, <2>4 DEF OrderIsTopological
<1>2. QED
  BY <1>1, TypeCorrect, PTL

-----------------------------------------------------------------------------
(* The forward pass.  An event behind the loop is settled: its time is its *)
(* latest arrival, and nothing later in the order can move it.             *)
Settled(n) ==
  /\ \A e \in In(n) : Arrival(e) <= earliest[n]
  /\ IF pred[n] = NoEdge
     THEN In(n) = {} /\ earliest[n] = 0
     ELSE pred[n] \in In(n) /\ earliest[n] = Arrival(pred[n])
  /\ earliest[n] <= makespan

Passed(k) ==
  CASE pc = "forward" -> k < pos
    [] pc \in {"backward", "solved"} -> TRUE
    [] OTHER -> FALSE

ForwardInv ==
  /\ \A k \in Index : Passed(k) => Settled(order[k])
  /\ \A n \in Node : (~\E k \in Index : order[k] = n /\ Passed(k)) =>
       earliest[n] = 0 /\ pred[n] = NoEdge
  /\ end = NoNode => makespan = 0 /\ \A k \in Index : ~Passed(k)
  /\ end # NoNode => earliest[end] = makespan /\ \E k \in Index : order[k] = end /\ Passed(k)

(* The backward pass.  An event behind the loop has its deadline, and the  *)
(* deadline leaves it time.                                                *)
Pulled(k) ==
  CASE pc = "backward" -> k > pos
    [] pc = "solved" -> TRUE
    [] OTHER -> FALSE

Bounded(n) ==
  /\ earliest[n] <= latest[n] /\ latest[n] <= makespan
  /\ \A e \in Out(n) : latest[n] <= Deadline(e)

BackwardInv == \A k \in Index : Pulled(k) => Bounded(order[k])

SolveInv == ForwardInv /\ BackwardInv

(* While topo() runs, the times are untouched.                             *)
LEMMA ForwardIdle ==
  ASSUME TypeOK, ForwardInv, pc \in {"seed", "topo"},
         UNCHANGED <<g, earliest, pred, makespan, end>>,
         \/ pc' \in {"seed", "topo", "cyclic"}
         \/ pc' = "forward" /\ pos' = 1
  PROVE  ForwardInv'
<1>1. \A k : ~Passed(k)
  BY DEF Passed
<1>2. \A k \in Nat \ {0} : ~Passed(k)'
  BY DEF Passed
<1>3. Index' \subseteq Nat \ {0}
  BY DEF Index
<1>4. /\ \A n \in Node : earliest'[n] = 0 /\ pred'[n] = NoEdge
      /\ end' = NoNode /\ makespan' = 0
  BY <1>1 DEF ForwardInv
<1>5. QED
  BY <1>2, <1>3, <1>4 DEF ForwardInv

(* Once every event is settled, the backward pass leaves them so.          *)
LEMMA ForwardKept ==
  ASSUME ForwardInv, UNCHANGED <<g, topoVars, earliest, pred, makespan, end>>,
         \A k \in Index : Passed(k)' <=> Passed(k)
  PROVE  ForwardInv'
<1>1. Index' = Index /\ order' = order
  BY DEF Index, topoVars
<1>2. \A n : Settled(n)' <=> Settled(n)
  BY DEF Settled, In, Arrival
<1>3. QED
  BY <1>1, <1>2 DEF ForwardInv

LEMMA RelaxForward ==
  ASSUME TypeOK, TopoInv, VerdictInv, ForwardInv, Relax
  PROVE  ForwardInv'
<1>0. PICK v \in Node : v = order[pos]
  BY DEF Relax, TypeOK, VerdictInv
<1>1. /\ pc = "forward" /\ pc' = "forward" /\ pos' = pos + 1 /\ g' = g /\ order' = order
      /\ pos \in Nat /\ pos \in Index /\ Index' = Index /\ Index \subseteq Nat
      /\ order[pos] = v
  BY <1>0 DEF Relax, TypeOK, VerdictInv, topoVars, Index
<1>2. \A k \in Index : (Passed(k) <=> k < pos) /\ (Passed(k)' <=> Passed(k) \/ k = pos)
  BY <1>1 DEF Passed
<1>3. \A k \in Index : order[k] = v => k = pos
  BY <1>1 DEF TopoInv
<1>4. \A n \in Node : n # v => earliest'[n] = earliest[n] /\ pred'[n] = pred[n]
  BY <1>1 DEF Relax, TypeOK
<1>5. \A k \in Index : k <= pos => \A e \in In(order[k]) : g.from[e] \in Node /\ g.from[e] # v
  <2> SUFFICES ASSUME NEW k \in Index, k <= pos, NEW e \in In(order[k])
               PROVE  g.from[e] \in Node /\ g.from[e] # v
    OBVIOUS
  <2>1. PICK j \in 1 .. (k - 1) : order[j] = g.from[e]
    BY DEF TopoInv, In
  <2>2. j \in Index /\ j # pos
    <3>1. k \in Nat /\ k <= Len(order) /\ Len(order) \in Nat
      BY DEF Index, TypeOK
    <3>2. QED
      BY <1>1, <2>1, <3>1 DEF Index
  <2>3. g.from[e] \in Node
    BY DEF In, TypeOK, Graph
  <2>4. QED
    BY <1>3, <2>1, <2>2, <2>3
<1>6. \A k \in Index : k <= pos => \A e \in In(order[k]) : Arrival(e)' = Arrival(e)
  BY <1>1, <1>4, <1>5 DEF Arrival
<1>7. /\ makespan \in Nat /\ makespan' \in Nat /\ \A n \in Node : earliest[n] \in Nat
      /\ v \notin {NoNode} /\ NoNode \notin Node /\ NoEdge \notin Edge
  BY <1>1, TypeStep, NodeAssumption, EdgeAssumption DEF TypeOK, Next
<1>8. earliest'[v] \in Nat
  BY <1>1, TypeStep DEF TypeOK, Next
<1>9. \/ /\ end = NoNode \/ earliest'[v] > makespan
         /\ makespan' = earliest'[v] /\ end' = v
      \/ /\ end # NoNode /\ earliest'[v] <= makespan
         /\ makespan' = makespan /\ end' = end
  BY <1>1, <1>7, <1>8 DEF Relax
<1>10. makespan <= makespan' /\ earliest'[v] <= makespan'
  BY <1>7, <1>8, <1>9 DEF ForwardInv
<1>11. ASSUME NEW k \in Index, k < pos PROVE Settled(order[k])'
  <2>1. order[k] # v /\ order[k] \in Node
    <3>1. order[k] \in Node
      BY DEF Index, TypeOK
    <3>2. QED
      BY <1>1, <1>3, <1>11, <3>1
  <2>2. Settled(order[k])
    BY <1>2, <1>11 DEF ForwardInv
  <2>3. \A e \in In(order[k]) : Arrival(e)' = Arrival(e)
    BY <1>1, <1>6, <1>11
  <2>4. earliest'[order[k]] = earliest[order[k]] /\ pred'[order[k]] = pred[order[k]]
    BY <1>4, <2>1
  <2>5. In(order[k])' = In(order[k])
    BY <1>1 DEF In
  <2>6. earliest'[order[k]] <= makespan'
    BY <1>7, <1>10, <2>1, <2>2, <2>4 DEF Settled
  <2>7. QED
    BY <1>1, <2>2, <2>3, <2>4, <2>5, <2>6 DEF Settled
<1>12. Settled(v)'
  <2>1. In(v)' = In(v) /\ \A e \in In(v) : Arrival(e)' = Arrival(e)
    BY <1>1, <1>6 DEF In
  <2>2. CASE In(v) = {} /\ UNCHANGED <<earliest, pred>>
    <3>1. earliest[v] = 0 /\ pred[v] = NoEdge
      BY <1>1, <1>2, <1>3 DEF ForwardInv
    <3>2. QED
      BY <1>1, <1>10, <2>1, <2>2, <3>1 DEF Settled
  <2>3. ASSUME NEW e \in In(v), \A f \in In(v) : Arrival(f) <= Arrival(e),
               earliest' = [earliest EXCEPT ![v] = Arrival(e)],
               pred' = [pred EXCEPT ![v] = e]
        PROVE  Settled(v)'
    <3>1. earliest'[v] = Arrival(e) /\ pred'[v] = e
      BY <1>1, <2>3 DEF TypeOK
    <3>2. e # NoEdge
      BY <1>7 DEF In
    <3>3. QED
      BY <1>1, <1>10, <2>1, <2>3, <3>1, <3>2 DEF Settled
  <2>4. QED
    BY <1>1, <2>2, <2>3 DEF Relax
<1>13. \A k \in Index' : Passed(k)' => Settled(order[k])'
  <2> SUFFICES ASSUME NEW k \in Index, Passed(k)' PROVE Settled(order[k])'
    BY <1>1
  <2>1. CASE k < pos
    BY <1>11, <2>1
  <2>2. CASE k = pos
    <3>1. order'[k'] = v /\ k' = k
      BY <1>1, <2>2
    <3>2. QED
      BY <1>1, <1>12, <2>2, <3>1 DEF Settled, In
  <2>3. QED
    BY <1>2, <2>1, <2>2
<1>14. ASSUME NEW n \in Node, ~\E k \in Index : order[k] = n /\ Passed(k)'
       PROVE  earliest'[n] = 0 /\ pred'[n] = NoEdge
  <2>1. n # v /\ ~\E k \in Index : order[k] = n /\ Passed(k)
    BY <1>1, <1>2, <1>14
  <2>2. QED
    BY <1>4, <2>1 DEF ForwardInv
<1>15. /\ end' # NoNode /\ earliest'[end'] = makespan'
       /\ \E k \in Index : order[k] = end' /\ Passed(k)'
  <2>1. CASE end' = v /\ makespan' = earliest'[v]
    BY <1>1, <1>2, <1>7, <2>1
  <2>2. CASE end # NoNode /\ makespan' = makespan /\ end' = end
    <3>1. PICK k \in Index : order[k] = end /\ Passed(k)
      BY <2>2 DEF ForwardInv
    <3>2. end # v /\ end \in Node
      BY <1>1, <1>2, <1>3, <2>2, <3>1 DEF TypeOK
    <3>3. earliest'[end] = earliest[end]
      BY <1>4, <3>2
    <3>4. QED
      BY <1>1, <1>2, <2>2, <3>1, <3>3 DEF ForwardInv
  <2>3. QED
    BY <1>9, <2>1, <2>2
<1>16. QED
  BY <1>1, <1>13, <1>14, <1>15 DEF ForwardInv

LEMMA ForwardStep ==
  ASSUME TypeOK, TopoInv, VerdictInv, ForwardInv, [Next]_vars
  PROVE  ForwardInv'
<1> USE DEF solveVars
<1>1. ASSUME NEW n \in Node, Seed(n) PROVE ForwardInv'
  BY <1>1, ForwardIdle DEF Seed
<1>2. CASE Pop
  BY <1>2, ForwardIdle DEF Pop
<1>3. ASSUME NEW e \in Edge, Follow(e) PROVE ForwardInv'
  BY <1>3, ForwardIdle DEF Follow
<1>4. CASE Sorted
  BY <1>4, ForwardIdle DEF Sorted
<1>5. CASE Relax
  BY <1>5, RelaxForward
<1>6. CASE TurnBack
  <2>1. \A k \in Index : Passed(k)' <=> Passed(k)
    BY <1>6 DEF TurnBack, Passed, Index, TypeOK
  <2>2. QED
    BY <1>6, <2>1, ForwardKept DEF TurnBack
<1>7. CASE PullBack
  <2>1. \A k \in Index : Passed(k)' <=> Passed(k)
    BY <1>7 DEF PullBack, Passed
  <2>2. QED
    BY <1>7, <2>1, ForwardKept DEF PullBack
<1>8. CASE Solved
  <2>1. \A k \in Index : Passed(k)' <=> Passed(k)
    BY <1>8 DEF Solved, Passed
  <2>2. QED
    BY <1>8, <2>1, ForwardKept DEF Solved
<1>9. CASE UNCHANGED vars
  <2>1. \A k \in Index : Passed(k)' <=> Passed(k)
    BY <1>9 DEF vars, Passed
  <2>2. QED
    BY <1>9, <2>1, ForwardKept DEF vars
<1>10. QED
  BY <1>1, <1>2, <1>3, <1>4, <1>5, <1>6, <1>7, <1>8, <1>9 DEF Next

LEMMA PullBackward ==
  ASSUME TypeOK, TopoInv, VerdictInv, ForwardInv, BackwardInv, PullBack
  PROVE  BackwardInv'
<1>0. PICK v \in Node : v = order[pos]
  BY DEF PullBack, TypeOK, VerdictInv
<1>1. /\ pc = "backward" /\ pc' = "backward" /\ pos' = pos - 1 /\ g' = g /\ order' = order
      /\ earliest' = earliest /\ makespan' = makespan
      /\ pos \in Nat /\ pos \in Index /\ Index' = Index /\ Index \subseteq Nat
      /\ order[pos] = v
  BY <1>0 DEF PullBack, TypeOK, VerdictInv, topoVars, Index
<1>2. \A k \in Index : (Pulled(k) <=> k > pos) /\ (Pulled(k)' <=> Pulled(k) \/ k = pos)
  BY <1>1 DEF Pulled
<1>3. PICK t \in {makespan} \cup {Deadline(e) : e \in Out(v)} :
        /\ t <= makespan /\ \A e \in Out(v) : t <= Deadline(e)
        /\ latest' = [latest EXCEPT ![v] = t]
  <2> DEFINE limits == {makespan} \cup {Deadline(e) : e \in Out(v)}
  <2>1. PICK t \in limits :
          /\ \A u \in limits : t <= u
          /\ latest' = [latest EXCEPT ![v] = t]
    BY <1>1 DEF PullBack
  <2>2. makespan \in limits /\ \A e \in Out(v) : Deadline(e) \in limits
    OBVIOUS
  <2>3. t <= makespan /\ \A e \in Out(v) : t <= Deadline(e)
    BY <2>1, <2>2
  <2>4. QED
    BY <2>1, <2>3
<1>4. /\ latest'[v] = t
      /\ \A n \in Node : n # v => latest'[n] = latest[n]
  BY <1>3 DEF TypeOK
<1>5. \A n \in Node : Queued(n)
  BY <1>1, FullQueue DEF VerdictInv
<1>6. \A k \in Index : order[k] \in Node /\ Settled(order[k])
  <2>1. \A k : Passed(k)
    BY <1>1 DEF Passed
  <2>2. \A k \in Index : order[k] \in Node
    BY DEF Index, TypeOK
  <2>3. QED
    BY <2>1, <2>2 DEF ForwardInv
<1>7. ASSUME NEW k \in Index, k >= pos, NEW e \in Out(order[k])
      PROVE  \E j \in Index : /\ order[j] = g.to[e] /\ j > pos /\ g.to[e] # v
                              /\ g.to[e] \in Node
  <2>1. e \in Edge /\ g.from[e] = order[k] /\ g.to[e] \in Node
    BY DEF Out, TypeOK, Graph
  <2>2. PICK j \in Index : order[j] = g.to[e]
    BY <1>5, <2>1 DEF Queued
  <2>3. k < j
    BY <1>5, <2>1, <2>2, OrderFacts
  <2>4. j > pos
    BY <1>1, <1>7, <2>3
  <2>5. g.to[e] # v
    BY <1>1, <2>2, <2>4 DEF TopoInv
  <2>6. QED
    BY <2>1, <2>2, <2>4, <2>5
<1>8. ASSUME NEW k \in Index, k >= pos, NEW e \in Out(order[k])
      PROVE  Deadline(e)' = Deadline(e)
  BY <1>1, <1>4, <1>7, <1>8 DEF Deadline
<1>9. ASSUME NEW k \in Index, k > pos PROVE Bounded(order[k])'
  <2>1. PICK n \in Node : n = order[k]
    BY <1>6
  <2>2. n # v
    BY <1>1, <1>9, <2>1 DEF TopoInv
  <2>3. Bounded(n)
    BY <1>2, <1>9, <2>1 DEF BackwardInv
  <2>4. Out(n)' = Out(n) /\ \A e \in Out(n) : Deadline(e)' = Deadline(e)
    BY <1>1, <1>8, <1>9, <2>1 DEF Out
  <2>5. Bounded(n)'
    BY <1>1, <1>4, <2>2, <2>3, <2>4 DEF Bounded
  <2>6. QED
    BY <1>1, <2>1, <2>5 DEF Bounded, Out
<1>10. Bounded(v)'
  <2>1. earliest[v] <= makespan
    BY <1>1, <1>6 DEF Settled
  <2>2. ASSUME NEW e \in Out(v) PROVE earliest[v] <= Deadline(e)
    <3>1. PICK j \in Index : order[j] = g.to[e] /\ j > pos /\ g.to[e] \in Node
      <4>1. pos >= pos /\ e \in Out(order[pos])
        BY <1>1
      <4>2. QED
        BY <1>1, <1>7, <4>1
    <3>2. earliest[g.to[e]] <= latest[g.to[e]]
      BY <1>2, <3>1 DEF BackwardInv, Bounded
    <3>3. Arrival(e) <= earliest[g.to[e]]
      BY <1>6, <3>1 DEF Settled, In, Out
    <3>4. g.from[e] = v /\ e \in Edge
      BY DEF Out
    <3>5. /\ earliest[v] \in Nat /\ earliest[g.to[e]] \in Nat
          /\ latest[g.to[e]] \in Int /\ g.weight[e] \in Nat
      BY <3>1, <3>4 DEF TypeOK, Graph
    <3>6. QED
      BY <3>2, <3>3, <3>4, <3>5 DEF Arrival, Deadline
  <2>3. earliest[v] <= t
    BY <1>3, <2>1, <2>2
  <2>4. Out(v)' = Out(v) /\ \A e \in Out(v) : Deadline(e)' = Deadline(e)
    BY <1>1, <1>8 DEF Out
  <2>5. QED
    BY <1>1, <1>3, <1>4, <2>3, <2>4 DEF Bounded
<1>11. ASSUME NEW k \in Index, Pulled(k)' PROVE Bounded(order[k])'
  <2>1. CASE k > pos
    BY <1>9, <2>1
  <2>2. CASE k = pos
    BY <1>1, <1>10, <2>2 DEF Bounded, Out
  <2>3. QED
    BY <1>2, <1>11, <2>1, <2>2
<1>12. QED
  BY <1>1, <1>11 DEF BackwardInv

(* Before the backward pass there is nothing to keep.                      *)
LEMMA BackwardIdle ==
  ASSUME TypeOK, \A k \in Index' : ~Pulled(k)'
  PROVE  BackwardInv'
BY DEF BackwardInv

LEMMA BackwardKept ==
  ASSUME BackwardInv, UNCHANGED <<g, topoVars, earliest, latest, makespan>>,
         \A k \in Index : Pulled(k)' <=> Pulled(k)
  PROVE  BackwardInv'
<1>1. Index' = Index /\ order' = order
  BY DEF Index, topoVars
<1>2. \A n : Bounded(n)' <=> Bounded(n)
  BY DEF Bounded, Out, Deadline
<1>3. QED
  BY <1>1, <1>2 DEF BackwardInv

LEMMA BackwardStep ==
  ASSUME TypeOK, TopoInv, VerdictInv, ForwardInv, BackwardInv, [Next]_vars
  PROVE  BackwardInv'
<1>1. ASSUME NEW n \in Node, Seed(n) PROVE BackwardInv'
  BY <1>1, BackwardIdle DEF Seed, Pulled
<1>2. CASE Pop
  BY <1>2, BackwardIdle DEF Pop, Pulled
<1>3. ASSUME NEW e \in Edge, Follow(e) PROVE BackwardInv'
  BY <1>3, BackwardIdle DEF Follow, Pulled
<1>4. CASE Sorted
  BY <1>4, BackwardIdle DEF Sorted, Pulled
<1>5. CASE Relax
  BY <1>5, BackwardIdle DEF Relax, Pulled
<1>6. CASE TurnBack
  <2>1. \A k \in Index' : ~(k > pos')
    BY <1>6 DEF TurnBack, Index, TypeOK, topoVars
  <2>2. QED
    BY <1>6, <2>1, BackwardIdle DEF TurnBack, Pulled
<1>7. CASE PullBack
  BY <1>7, PullBackward
<1>8. CASE Solved
  <2>1. \A k \in Index : Pulled(k)' <=> Pulled(k)
    BY <1>8 DEF Solved, Pulled, Index
  <2>2. QED
    BY <1>8, <2>1, BackwardKept DEF Solved, solveVars
<1>9. CASE UNCHANGED vars
  <2>1. \A k \in Index : Pulled(k)' <=> Pulled(k)
    BY <1>9 DEF vars, solveVars, Pulled
  <2>2. QED
    BY <1>9, <2>1, BackwardKept DEF vars, solveVars
<1>10. QED
  BY <1>1, <1>2, <1>3, <1>4, <1>5, <1>6, <1>7, <1>8, <1>9 DEF Next

(* What the two passes of Solve() have established holds at every step.    *)
THEOREM SolveInvariant ==
  Spec => [](TypeOK /\ TopoInv /\ VerdictInv /\ SolveInv)
<1> DEFINE Inv == TypeOK /\ TopoInv /\ VerdictInv /\ SolveInv
<1>1. Init => Inv
  <2> SUFFICES ASSUME Init PROVE SolveInv
    BY InitTopo
  <2>1. \A k : ~Passed(k) /\ ~Pulled(k)
    BY DEF Init, Passed, Pulled
  <2>2. QED
    BY <2>1 DEF Init, SolveInv, ForwardInv, BackwardInv
<1>2. Inv /\ [Next]_vars => Inv'
  BY TypeStep, TopoStep, VerdictStep, ForwardStep, BackwardStep DEF SolveInv
<1>3. QED
  BY <1>1, <1>2, PTL DEF Spec

(* Solve() returns the least solution of the max-plus equation: every      *)
(* event's earliest time is its latest arrival, attained over Pred.        *)
THEOREM EarliestCorrect == Spec => []EarliestSolves
<1>1. TypeOK /\ TopoInv /\ VerdictInv /\ SolveInv => EarliestSolves
  <2> SUFFICES ASSUME TypeOK, TopoInv, VerdictInv, SolveInv,
                      pc \in {"backward", "solved"}
               PROVE  EarliestSolves
    BY DEF EarliestSolves
  <2>1. \A n \in Node : Queued(n)
    BY FullQueue DEF VerdictInv
  <2>2. \A k : Passed(k)
    BY DEF Passed
  <2>3. \A n \in Node : Settled(n)
    BY <2>1, <2>2 DEF SolveInv, ForwardInv, Queued
  <2>4. \A e \in Edge : Arrival(e) <= earliest[g.to[e]]
    BY <2>3 DEF Settled, In, TypeOK, Graph
  <2>5. end \in Node /\ earliest[end] = makespan
    BY <2>1, <2>2, NodeAssumption DEF SolveInv, ForwardInv, Queued, TypeOK
  <2>6. \A n \in Node :
          /\ earliest[n] <= makespan
          /\ IF pred[n] = NoEdge
             THEN In(n) = {} /\ earliest[n] = 0
             ELSE g.to[pred[n]] = n /\ earliest[n] = Arrival(pred[n])
    BY <2>3 DEF Settled, In
  <2>7. QED
    BY <2>4, <2>5, <2>6 DEF EarliestSolves
<1>2. QED
  BY <1>1, SolveInvariant, PTL

LEMMA AllBounded ==
  ASSUME TypeOK, TopoInv, VerdictInv, SolveInv, pc = "solved"
  PROVE  \A n \in Node : Bounded(n) /\ Settled(n)
<1>1. \A n \in Node : Queued(n)
  BY FullQueue DEF VerdictInv
<1>2. \A k : Pulled(k) /\ Passed(k)
  BY DEF Pulled, Passed
<1>3. QED
  BY <1>1, <1>2 DEF SolveInv, ForwardInv, BackwardInv, Queued

(* No event is due before it can happen.                                   *)
THEOREM SlackCorrect == Spec => []SlackIsNatural
<1>1. TypeOK /\ TopoInv /\ VerdictInv /\ SolveInv => SlackIsNatural
  BY AllBounded DEF SlackIsNatural, Bounded, TypeOK
<1>2. QED
  BY <1>1, SolveInvariant, PTL

(* Every event on the reported critical path is critical.                  *)
THEOREM CriticalCorrect == Spec => []CriticalPathHasNoSlack
<1>1. ASSUME TypeOK, TopoInv, VerdictInv, SolveInv, pc = "solved"
      PROVE  CriticalPathHasNoSlack
  <2>1. \A n \in Node : Bounded(n) /\ Settled(n)
    BY <1>1, AllBounded
  <2>2. end \in Node /\ earliest[end] = makespan
    <3>1. PICK n \in Node : TRUE
      BY NodeAssumption
    <3>2. \A m \in Node : Queued(m)
      BY <1>1, FullQueue DEF VerdictInv
    <3>3. \E k \in Index : Passed(k)
      BY <1>1, <3>1, <3>2 DEF Queued, Passed
    <3>4. QED
      BY <1>1, <3>3 DEF SolveInv, ForwardInv, TypeOK
  <2>3. latest[end] = earliest[end]
    BY <1>1, <2>1, <2>2 DEF Bounded, TypeOK
  <2>4. ASSUME NEW n \in Node, pred[n] # NoEdge, latest[n] = earliest[n]
        PROVE  latest[g.from[pred[n]]] = earliest[g.from[pred[n]]]
    <3> DEFINE e == pred[n]
               m == g.from[e]
    <3>1. /\ e \in Edge /\ g.to[e] = n /\ m \in Node /\ e \in Out(m)
          /\ earliest[n] = Arrival(e)
      BY <1>1, <2>1, <2>4 DEF Settled, In, Out, TypeOK, Graph
    <3>2. latest[m] <= Deadline(e) /\ earliest[m] <= latest[m]
      BY <2>1, <3>1 DEF Bounded
    <3>3. /\ earliest[m] \in Nat /\ latest[m] \in Int /\ g.weight[e] \in Nat
          /\ latest[n] = earliest[m] + g.weight[e]
          /\ Deadline(e) = latest[n] - g.weight[e]
      BY <1>1, <2>4, <3>1 DEF Arrival, Deadline, TypeOK, Graph
    <3>4. QED
      BY <3>2, <3>3
  <2>5. QED
    BY <2>3, <2>4 DEF CriticalPathHasNoSlack
<1>2. TypeOK /\ TopoInv /\ VerdictInv /\ SolveInv => CriticalPathHasNoSlack
  BY <1>1 DEF CriticalPathHasNoSlack
<1>3. QED
  BY <1>2, SolveInvariant, PTL

-----------------------------------------------------------------------------
(* Solve() comes to an end: no step lacks what it needs, and each leaves   *)
(* fewer to do than it found.                                              *)
Nodes      == Cardinality(Node)
Edges      == Cardinality(Edge)
Unfollowed == {e \in Edge : ~Followed(e)}

StepsLeft ==
  CASE pc = "seed"     -> Cardinality(unseeded) + Nodes + Edges + (2 * Nodes + 4)
    [] pc = "topo"     -> (Nodes - head) + Cardinality(Unfollowed) + (2 * Nodes + 4)
    [] pc = "forward"  -> (Nodes + 1 - pos) + (Nodes + 3)
    [] pc = "backward" -> pos + 1
    [] OTHER           -> 0

(* The work is linear in the graph: 4 |V| + |E| + 4 steps, whether or not  *)
(* it has a cycle.                                                         *)
WorkIsLinear ==
  [][/\ StepsLeft \in 1 .. 4 * Nodes + Edges + 4
     /\ StepsLeft' \in Nat /\ StepsLeft' < StepsLeft]_vars

LEMMA Sizes ==
  /\ Nodes \in Nat /\ Edges \in Nat
  /\ \A S \in SUBSET Node : IsFiniteSet(S) /\ Cardinality(S) \in Nat /\ Cardinality(S) <= Nodes
  /\ \A S \in SUBSET Edge : IsFiniteSet(S) /\ Cardinality(S) \in Nat /\ Cardinality(S) <= Edges
BY NodeAssumption, EdgeAssumption, FS_Subset, FS_CardinalityType DEF Nodes, Edges

LEMMA QueueFits ==
  ASSUME TypeOK, TopoInv
  PROVE  Len(order) \in Nat /\ Len(order) <= Nodes
<1>1. /\ Len(order) \in Nat /\ order \in [Index -> Node]
      /\ \A j, k \in Index : order[j] = order[k] => j = k
  BY DEF TypeOK, TopoInv, Index
<1>2. order \in Injection(Index, Node)
  BY <1>1 DEF Injection, IsInjective
<1>3. Cardinality(Index) = Len(order) /\ Cardinality(Index) <= Cardinality(Node)
  BY <1>1, <1>2, NodeAssumption, FS_Interval, FS_Injection DEF Index
<1> QED BY <1>1, <1>3 DEF Nodes

(* Popping a node leaves all edges unfollowed that were, following one     *)
(* all but that one.                                                       *)
LEMMA PopLeaves == ASSUME TypeOK, TopoInv, Pop PROVE Unfollowed' = Unfollowed
<1>1. /\ g' = g /\ order' = order /\ head' = head + 1 /\ head \in Nat /\ scan = {}
      /\ scan' = Out(order[head + 1])
  BY DEF Pop, TypeOK
<1>2. ASSUME NEW e \in Edge PROVE Followed(e)' <=> Followed(e)
  <2>1. Popped(g.from[e])' <=> Popped(g.from[e]) \/ order[head + 1] = g.from[e]
    BY <1>1 DEF Popped
  <2>2. e \in scan' <=> order[head + 1] = g.from[e]
    BY <1>1 DEF Out
  <2>3. order[head + 1] = g.from[e] => ~Popped(g.from[e])
    <3>1. head + 1 \in Index /\ 1 .. head \subseteq Index /\ head + 1 \notin 1 .. head
      BY <1>1 DEF Index, Pop, TypeOK
    <3> QED BY <3>1 DEF Popped, TopoInv
  <2> QED BY <1>1, <2>1, <2>2, <2>3 DEF Followed
<1> QED BY <1>2 DEF Unfollowed

LEMMA FollowLeaves ==
  ASSUME TypeOK, TopoInv, NEW e \in Edge, Follow(e)
  PROVE  e \in Unfollowed /\ Unfollowed' = Unfollowed \ {e}
<1>1. g' = g /\ head' = head /\ e \in scan /\ scan' = scan \ {e}
  BY DEF Follow
<1>2. g.from[e] = order[head] /\ head \in 1 .. Len(order) /\ Len(order) \in Nat
  BY <1>1 DEF TopoInv, TypeOK
<1>3. \A k \in 1 .. head : order'[k] = order[k]
  BY <1>2 DEF Follow, TypeOK, Graph
<1>4. \A n : Popped(n)' <=> Popped(n)
  BY <1>1, <1>3 DEF Popped
<1>5. Popped(g.from[e])
  BY <1>2 DEF Popped
<1> QED BY <1>1, <1>4, <1>5 DEF Unfollowed, Followed

LEMMA StepsFall ==
  ASSUME TypeOK, TopoInv, VerdictInv, Next
  PROVE  StepsLeft \in 1 .. 4 * Nodes + Edges + 4 /\ StepsLeft' \in Nat /\ StepsLeft' < StepsLeft
<1> DEFINE Falls == /\ StepsLeft \in 1 .. 4 * Nodes + Edges + 4
                    /\ StepsLeft' \in Nat /\ StepsLeft' < StepsLeft
<1>0. /\ Len(order) \in Nat /\ Len(order) <= Nodes /\ head \in 0 .. Len(order)
      /\ unseeded \in SUBSET Node /\ Unfollowed \in SUBSET Edge /\ pos \in Nat
      /\ Nodes \in Nat /\ Edges \in Nat
  BY QueueFits, Sizes DEF TypeOK, Unfollowed
<1>1. ASSUME NEW n \in Node, Seed(n) PROVE Falls
  <2>1. /\ Cardinality(unseeded) \in Nat /\ Cardinality(unseeded) <= Nodes
        /\ Cardinality(unseeded') = Cardinality(unseeded) - 1
    BY <1>0, <1>1, Sizes, FS_RemoveElement DEF Seed
  <2>2. /\ pc = "seed" /\ head' = head /\ head = 0
        /\ pc' = "seed" \/ (pc' = "topo" /\ unseeded' = {})
    BY <1>1 DEF Seed, TopoInv
  <2>3. Cardinality(Unfollowed') \in Nat /\ Cardinality(Unfollowed') <= Edges
    BY Sizes DEF Unfollowed
  <2>4. StepsLeft = Cardinality(unseeded) + Nodes + Edges + (2 * Nodes + 4)
    BY <2>2 DEF StepsLeft
  <2>5. CASE pc' = "seed"
    <3>1. StepsLeft' = Cardinality(unseeded') + Nodes + Edges + (2 * Nodes + 4)
      BY <2>5 DEF StepsLeft
    <3> QED BY <1>0, <2>1, <2>4, <3>1
  <2>6. CASE pc' = "topo" /\ unseeded' = {}
    <3>1. StepsLeft' = (Nodes - 0) + Cardinality(Unfollowed') + (2 * Nodes + 4)
      BY <2>2, <2>6 DEF StepsLeft
    <3>2. Cardinality(unseeded) = 1
      BY <2>1, <2>6, FS_EmptySet
    <3> QED BY <1>0, <2>1, <2>3, <2>4, <3>1, <3>2
  <2> QED BY <2>2, <2>5, <2>6
<1>2. CASE Pop
  <2>1. pc = "topo" /\ pc' = pc /\ head' = head + 1 /\ head < Len(order)
    BY <1>2 DEF Pop
  <2>2. Cardinality(Unfollowed) \in Nat /\ Cardinality(Unfollowed) <= Edges /\ Unfollowed' = Unfollowed
    BY <1>0, <1>2, Sizes, PopLeaves
  <2>3. /\ StepsLeft = (Nodes - head) + Cardinality(Unfollowed) + (2 * Nodes + 4)
        /\ StepsLeft' = (Nodes - (head + 1)) + Cardinality(Unfollowed) + (2 * Nodes + 4)
    BY <2>1, <2>2 DEF StepsLeft
  <2> QED BY <1>0, <2>1, <2>2, <2>3
<1>3. ASSUME NEW e \in Edge, Follow(e) PROVE Falls
  <2>1. pc = "topo" /\ pc' = pc /\ head' = head
    BY <1>3 DEF Follow
  <2>2. /\ Cardinality(Unfollowed) \in Nat /\ Cardinality(Unfollowed) <= Edges
        /\ Cardinality(Unfollowed') = Cardinality(Unfollowed) - 1 /\ Cardinality(Unfollowed') \in Nat
    BY <1>0, <1>3, Sizes, FollowLeaves, FS_RemoveElement
  <2>3. /\ StepsLeft = (Nodes - head) + Cardinality(Unfollowed) + (2 * Nodes + 4)
        /\ StepsLeft' = (Nodes - head) + Cardinality(Unfollowed') + (2 * Nodes + 4)
    BY <2>1 DEF StepsLeft
  <2>4. Nodes - head \in Nat /\ Nodes - head <= Nodes
    BY <1>0
  <2>5. StepsLeft \in 1 .. 4 * Nodes + Edges + 4
    BY <1>0, <2>2, <2>3, <2>4
  <2>6. StepsLeft' \in Nat /\ StepsLeft' < StepsLeft
    BY <1>0, <2>2, <2>3, <2>4
  <2> QED BY <2>5, <2>6
<1>4. CASE Sorted
  <2>1. pc = "topo" /\ pc' \in {"forward", "cyclic"} /\ pos' = 1
    BY <1>4 DEF Sorted
  <2>2. Cardinality(Unfollowed) \in Nat /\ Cardinality(Unfollowed) <= Edges
    BY <1>0, Sizes
  <2>3. StepsLeft = (Nodes - head) + Cardinality(Unfollowed) + (2 * Nodes + 4)
    BY <2>1 DEF StepsLeft
  <2>4. StepsLeft' = 0 \/ StepsLeft' = (Nodes + 1 - 1) + (Nodes + 3)
    BY <2>1 DEF StepsLeft
  <2>5. StepsLeft' \in Nat /\ StepsLeft' <= 2 * Nodes + 3
    BY <1>0, <2>4
  <2>6. Nodes - head \in Nat /\ Nodes - head <= Nodes
    BY <1>0
  <2> QED BY <1>0, <2>2, <2>3, <2>5, <2>6
<1>5. CASE Relax
  <2>1. pc = "forward" /\ pc' = pc /\ pos <= Len(order) /\ pos' = pos + 1 /\ pos >= 1
    BY <1>5 DEF Relax, VerdictInv
  <2>2. /\ StepsLeft = (Nodes + 1 - pos) + (Nodes + 3)
        /\ StepsLeft' = (Nodes + 1 - (pos + 1)) + (Nodes + 3)
    BY <2>1 DEF StepsLeft
  <2> QED BY <1>0, <2>1, <2>2
<1>6. CASE TurnBack
  <2>1. pc = "forward" /\ pc' = "backward" /\ pos = Len(order) + 1 /\ pos' = Len(order)
    BY <1>0, <1>6 DEF TurnBack, VerdictInv
  <2>2. StepsLeft = (Nodes + 1 - pos) + (Nodes + 3) /\ StepsLeft' = pos' + 1
    BY <2>1 DEF StepsLeft
  <2> QED BY <1>0, <2>1, <2>2
<1>7. CASE PullBack \/ Solved
  <2>1. /\ pc = "backward" /\ pos <= Len(order)
        /\ (pc' = pc /\ pos >= 1 /\ pos' = pos - 1) \/ pc' = "solved"
    BY <1>0, <1>7 DEF PullBack, Solved, VerdictInv
  <2>2. StepsLeft = pos + 1 /\ (StepsLeft' = pos \/ StepsLeft' = 0)
    BY <1>0, <2>1 DEF StepsLeft
  <2> QED BY <1>0, <2>1, <2>2
<1> QED BY <1>1, <1>2, <1>3, <1>4, <1>5, <1>6, <1>7 DEF Next

(* topo() and Solve() end, for every graph and every order of its edges.   *)
THEOREM WorkCorrect == Spec => WorkIsLinear
<1>1. TypeOK /\ TopoInv /\ VerdictInv /\ [Next]_vars =>
        [/\ StepsLeft \in 1 .. 4 * Nodes + Edges + 4
         /\ StepsLeft' \in Nat /\ StepsLeft' < StepsLeft]_vars
  BY StepsFall
<1>2. Spec => [][/\ StepsLeft \in 1 .. 4 * Nodes + Edges + 4
                 /\ StepsLeft' \in Nat /\ StepsLeft' < StepsLeft]_vars
  BY <1>1, TypeCorrect, PTL DEF Spec
<1> QED BY <1>2 DEF WorkIsLinear

(* A finite set of numbers that is not empty has a largest one: otherwise  *)
(* a smallest set without would have an element without which it has one.  *)
LEMMA LargestIn ==
  ASSUME NEW S, IsFiniteSet(S), S # {}, NEW v, \A x \in S : v[x] \in Int
  PROVE  \E x \in S : \A y \in S : v[y] <= v[x]
<1> DEFINE Has(s) == \E x \in s : \A y \in s : v[y] <= v[x]
           T == {s \in SUBSET S : s # {} /\ ~Has(s)}
<1>1. ASSUME T # {} PROVE FALSE
  <2>1. IsWellFoundedOn(StrictSubsetOrdering(S), SUBSET S)
    BY FS_StrictSubsetOrderingWellFounded, FS_FiniteSubsetsOfFinite
  <2>2. PICK s \in T : \A t \in T : <<t, s>> \notin StrictSubsetOrdering(S)
    <3> HIDE DEF Has
    <3>1. T \subseteq SUBSET S
      OBVIOUS
    <3> HIDE DEF T
    <3> QED BY <1>1, <2>1, <3>1, WFMin
  <2>3. PICK x \in s : TRUE
    OBVIOUS
  <2> DEFINE t == s \ {x}
  <2>4. t \in SUBSET S /\ <<t, s>> \in StrictSubsetOrdering(S)
    BY <2>3 DEF StrictSubsetOrdering
  <2>5. t = {} \/ Has(t)
    <3> HIDE DEF Has
    <3> QED BY <2>2, <2>4
  <2>6. CASE t = {}
    <3>1. s = {x} /\ v[x] \in Int
      BY <2>3, <2>6
    <3>2. Has(s)
      BY <3>1
    <3> QED BY <3>2
  <2>7. CASE Has(t)
    <3>1. PICK z \in t : \A y \in t : v[y] <= v[z]
      BY <2>7
    <3>2. \A y \in s : v[y] \in Int /\ (y = x \/ v[y] <= v[z])
      BY <3>1
    <3>3. z \in s /\ v[z] \in Int /\ v[x] \in Int
      BY <2>3, <3>1
    <3>4. CASE v[x] <= v[z]
      <4>1. \A y \in s : v[y] <= v[z]
        BY <3>2, <3>4
      <4> QED BY <3>3, <4>1
    <3>5. CASE v[z] <= v[x]
      <4>1. \A y \in s : v[y] <= v[x]
        BY <3>2, <3>3, <3>5
      <4> QED BY <2>3, <4>1
    <3> QED BY <3>3, <3>4, <3>5
  <2> QED BY <2>5, <2>6, <2>7
<1>2. S \notin T
  BY <1>1
<1> QED BY <1>2

(* Until it has solved or refused the graph, Solve() has a next step: the  *)
(* queue has an edge to follow or a head or is done, and among the         *)
(* arrivals of an event, and the deadlines, there is an extreme one.       *)
HasNext ==
  \/ pc \in {"cyclic", "solved"}
  \/ pc = "seed" /\ unseeded # {}
  \/ pc = "topo" /\ (scan # {} \/ head < Len(order) \/ head = Len(order))
  \/ /\ pc = "forward"
     /\ \/ pos > Len(order) \/ In(order[pos]) = {}
        \/ \E e \in In(order[pos]) : \A f \in In(order[pos]) : Arrival(f) <= Arrival(e)
  \/ /\ pc = "backward"
     /\ \/ pos = 0
        \/ LET limits == {makespan} \cup {Deadline(e) : e \in Out(order[pos])}
           IN  \E t \in limits : \A u \in limits : t <= u

(* They end with an order and its times, or with a cycle, and not before.  *)
THEOREM NextCorrect == Spec => []HasNext
<1>1. TypeOK /\ TopoInv /\ VerdictInv => HasNext
  <2> SUFFICES ASSUME TypeOK, TopoInv, VerdictInv PROVE HasNext
    OBVIOUS
  <2>1. CASE pc = "seed"
    BY <2>1 DEF TopoInv, HasNext
  <2>2. CASE pc = "topo"
    <3>1. head \in 0 .. Len(order) /\ Len(order) \in Nat
      BY DEF TypeOK
    <3> QED BY <2>2, <3>1 DEF HasNext
  <2>3. CASE pc = "forward"
    <3> DEFINE I == In(order[pos])
               arrivals == [e \in I |-> Arrival(e)]
    <3>1. I \in SUBSET Edge /\ IsFiniteSet(I)
      BY Sizes DEF In
    <3>2. \A e \in I : arrivals[e] \in Int
      BY <3>1 DEF TypeOK, Graph, Arrival
    <3>3. ASSUME I # {} PROVE \E e \in I : \A f \in I : Arrival(f) <= Arrival(e)
      <4>1. PICK e \in I : \A f \in I : arrivals[f] <= arrivals[e]
        <5> HIDE DEF I, arrivals
        <5> QED BY <3>1, <3>2, <3>3, LargestIn
      <4> QED BY <4>1
    <3> QED BY <2>3, <3>3 DEF HasNext
  <2>4. CASE pc = "backward"
    <3> DEFINE O == Out(order[pos])
               limits == {makespan} \cup {Deadline(e) : e \in O}
               back == [t \in limits |-> 0 - t]
    <3>1. O \in SUBSET Edge /\ IsFiniteSet(O)
      BY Sizes DEF Out
    <3>2. IsFiniteSet(limits) /\ makespan \in limits
      <4> DEFINE deadline == [e \in O |-> Deadline(e)]
                 deadlines == {Deadline(e) : e \in O}
      <4>1. IsFiniteSet(deadlines)
        <5> HIDE DEF O
        <5>1. deadline \in Surjection(O, deadlines)
          BY DEF Surjection
        <5> HIDE DEF deadline, deadlines
        <5> QED BY <3>1, <5>1, FS_Surjection
      <4> QED BY <4>1, FS_Singleton, FS_Union
    <3>3. \A t \in limits : t \in Int
      BY <3>1 DEF TypeOK, Graph, Deadline
    <3>4. PICK t \in limits : \A u \in limits : back[u] <= back[t]
      <4> HIDE DEF limits
      <4>1. \A u \in limits : back[u] \in Int
        BY <3>3
      <4> HIDE DEF back
      <4> QED BY <3>2, <4>1, LargestIn
    <3>5. \A u \in limits : t <= u
      <4> HIDE DEF limits
      <4> QED BY <3>3, <3>4
    <3> QED BY <2>4, <3>5 DEF HasNext
  <2> QED BY <2>1, <2>2, <2>3, <2>4 DEF HasNext, TypeOK
<1> QED BY <1>1, TypeCorrect, PTL
=============================================================================
