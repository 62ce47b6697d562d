------------------------------ MODULE Schedule ------------------------------
(***************************************************************************)
(* The timed event graph of pkg/graph/graph.go: topo() orders the events   *)
(* (Kahn), Solve() relaxes them forwards into earliest times and backwards *)
(* into latest times.  The program is sequential; each loop body is one    *)
(* action, and the order in which the code ranges over adjacency lists and *)
(* over the insertion order of nodes is left open, because no property     *)
(* here tells two such orders apart.                                       *)
(*                                                                         *)
(* A graph is a multigraph: edges have an identity, so two edges may join  *)
(* the same events (a dependsOn and an import between the same two).       *)
(***************************************************************************)
EXTENDS Integers, Sequences, FiniteSets

CONSTANTS
  Node,    \* event names: start(K) and ready(K) of every component
  Edge,    \* edge identities
  NoNode,  \* the empty string: Schedule.End before the first node
  NoEdge,  \* a nil *Edge: Schedule.Pred of a node without in-edges
  Graphs   \* the graphs the analysis may be given

Graph == [from : [Edge -> Node], to : [Edge -> Node], weight : [Edge -> Nat]]

ASSUME NodeAssumption == IsFiniteSet(Node) /\ Node # {} /\ NoNode \notin Node
ASSUME EdgeAssumption == IsFiniteSet(Edge) /\ NoEdge \notin Edge
ASSUME GraphsAssumption == Graphs \subseteq Graph

VARIABLES
  g,         \* the graph; never changes
  pc,        \* which loop is running
  indeg,     \* topo: in-degree not yet accounted for
  unseeded,  \* topo: nodes the seeding loop has not looked at
  order,     \* topo: every node ever queued, in queue order
  head,      \* topo: order[1..head] is out, the rest is queue
  scan,      \* topo: edges of the node just popped, still to follow
  pos,       \* Solve: position of the forward or the backward loop
  earliest, latest, pred, makespan, end

topoVars  == <<indeg, unseeded, order, head, scan>>
solveVars == <<pos, earliest, latest, pred, makespan, end>>
vars      == <<g, pc, topoVars, solveVars>>

In(n)  == {e \in Edge : g.to[e] = n}
Out(n) == {e \in Edge : g.from[e] = n}

-----------------------------------------------------------------------------
Init ==
  /\ g \in Graphs
  /\ pc = "seed"
  /\ indeg = [n \in Node |-> Cardinality(In(n))]
  /\ unseeded = Node
  /\ order = <<>> /\ head = 0 /\ scan = {}
  /\ pos = 0
  /\ earliest = [n \in Node |-> 0] /\ latest = [n \in Node |-> 0]
  /\ pred = [n \in Node |-> NoEdge]
  /\ makespan = 0 /\ end = NoNode

(* The faults: what each loop would be with a plausible slip in it.  No    *)
(* specification uses them; each is a version of the action or operator of *)
(* the same name below that some property must reject.                     *)
FaultFollow(e) ==      \* queues a target one edge too early
  /\ pc = "topo" /\ e \in scan
  /\ scan' = scan \ {e}
  /\ indeg' = [indeg EXCEPT ![g.to[e]] = @ - 1]
  /\ order' = IF indeg[g.to[e]] <= 2 THEN Append(order, g.to[e]) ELSE order
  /\ UNCHANGED <<g, pc, unseeded, head, solveVars>>

FaultSorted ==         \* compares with the number of nodes ever seeded
  /\ pc = "topo" /\ scan = {} /\ head = Len(order)
  /\ pc' = IF head > 0 THEN "forward" ELSE "cyclic"
  /\ pos' = 1
  /\ UNCHANGED <<g, topoVars, earliest, latest, pred, makespan, end>>

FaultRelax ==          \* keeps whichever arrival comes first
  /\ pc = "forward" /\ pos <= Len(order)
  /\ LET v == order[pos] IN
       /\ \/ In(v) = {} /\ UNCHANGED <<earliest, pred>>
          \/ \E e \in In(v) :
               /\ earliest' = [earliest EXCEPT ![v] = earliest[g.from[e]] + g.weight[e]]
               /\ pred' = [pred EXCEPT ![v] = e]
       /\ IF end = NoNode \/ earliest'[v] > makespan
          THEN makespan' = earliest'[v] /\ end' = v
          ELSE UNCHANGED <<makespan, end>>
  /\ pos' = pos + 1
  /\ UNCHANGED <<g, pc, topoVars, latest>>

FaultTurnBack ==       \* the backward loop starts one short
  /\ pc = "forward" /\ pos > Len(order)
  /\ pc' = "backward" /\ pos' = Len(order) - 1
  /\ UNCHANGED <<g, topoVars, earliest, latest, pred, makespan, end>>

FaultDeadline(e) == latest[g.to[e]]   \* forgets the delay on the edge

FaultSolved ==         \* the backward loop stops before position 1
  /\ pc = "backward" /\ pos = -1
  /\ pc' = "solved"
  /\ UNCHANGED <<g, topoVars, solveVars>>

-----------------------------------------------------------------------------
(* The seeding loop: a node nothing points at is queued.                   *)
Seed(n) ==
  /\ pc = "seed" /\ n \in unseeded
  /\ unseeded' = unseeded \ {n}
  /\ order' = IF indeg[n] = 0 THEN Append(order, n) ELSE order
  /\ pc' = IF unseeded' = {} THEN "topo" ELSE "seed"
  /\ UNCHANGED <<g, indeg, head, scan, solveVars>>

(* The head of the queue moves to the output; its out-edges are followed.  *)
Pop ==
  /\ pc = "topo" /\ scan = {} /\ head < Len(order)
  /\ head' = head + 1
  /\ scan' = Out(order[head + 1])
  /\ UNCHANGED <<g, pc, indeg, unseeded, order, solveVars>>

(* Following an edge lowers the in-degree of its target; at zero the       *)
(* target is queued.                                                       *)
Follow(e) ==
  /\ pc = "topo" /\ e \in scan
  /\ scan' = scan \ {e}
  /\ indeg' = [indeg EXCEPT ![g.to[e]] = @ - 1]
  /\ order' = IF indeg[g.to[e]] = 1 THEN Append(order, g.to[e]) ELSE order
  /\ UNCHANGED <<g, pc, unseeded, head, solveVars>>

(* An empty queue ends topo: the graph has a schedule when every node came *)
(* out of it.                                                              *)
Sorted ==
  /\ pc = "topo" /\ scan = {} /\ head = Len(order)
  /\ pc' = IF head = Cardinality(Node) THEN "forward" ELSE "cyclic"
  /\ pos' = 1
  /\ UNCHANGED <<g, topoVars, earliest, latest, pred, makespan, end>>

(* One node of the forward pass.  The inner loop over g.in[v] leaves the   *)
(* largest arrival in Earliest[v] and an edge that attains it in Pred[v];  *)
(* a node without in-edges stays at 0 with no predecessor.                 *)
Arrival(e) == earliest[g.from[e]] + g.weight[e]

Relax ==
  /\ pc = "forward" /\ pos <= Len(order)
  /\ LET v == order[pos] IN
       /\ \/ /\ In(v) = {}
             /\ UNCHANGED <<earliest, pred>>
          \/ \E e \in In(v) :
               /\ \A f \in In(v) : Arrival(f) <= Arrival(e)
               /\ earliest' = [earliest EXCEPT ![v] = Arrival(e)]
               /\ pred' = [pred EXCEPT ![v] = e]
       /\ IF end = NoNode \/ earliest'[v] > makespan
          THEN makespan' = earliest'[v] /\ end' = v
          ELSE UNCHANGED <<makespan, end>>
  /\ pos' = pos + 1
  /\ UNCHANGED <<g, pc, topoVars, latest>>

TurnBack ==
  /\ pc = "forward" /\ pos > Len(order)
  /\ pc' = "backward" /\ pos' = Len(order)
  /\ UNCHANGED <<g, topoVars, earliest, latest, pred, makespan, end>>

(* One node of the backward pass: the latest time that moves neither the   *)
(* makespan nor any successor.                                             *)
Deadline(e) == latest[g.to[e]] - g.weight[e]

PullBack ==
  /\ pc = "backward" /\ pos >= 1
  /\ LET v == order[pos]
         limits == {makespan} \cup {Deadline(e) : e \in Out(v)}
     IN  \E t \in limits :
           /\ \A u \in limits : t <= u
           /\ latest' = [latest EXCEPT ![v] = t]
  /\ pos' = pos - 1
  /\ UNCHANGED <<g, pc, topoVars, earliest, pred, makespan, end>>

Solved ==
  /\ pc = "backward" /\ pos = 0
  /\ pc' = "solved"
  /\ UNCHANGED <<g, topoVars, solveVars>>

Next ==
  \/ \E n \in Node : Seed(n)
  \/ Pop
  \/ \E e \in Edge : Follow(e)
  \/ Sorted
  \/ Relax
  \/ TurnBack
  \/ PullBack
  \/ Solved

Spec == Init /\ [][Next]_vars

(* The program is sequential: while a loop has work, it goes on.           *)
FairSpec == Spec /\ WF_vars(Next)

-----------------------------------------------------------------------------
TypeOK ==
  /\ g \in Graph
  /\ pc \in {"seed", "topo", "cyclic", "forward", "backward", "solved"}
  /\ indeg \in [Node -> Nat]
  /\ unseeded \in SUBSET Node
  /\ order \in Seq(Node)
  /\ head \in 0 .. Len(order)
  /\ scan \in SUBSET Edge
  /\ pos \in Nat
  /\ earliest \in [Node -> Nat]
  /\ latest \in [Node -> Int]
  /\ pred \in [Node -> Edge \cup {NoEdge}]
  /\ makespan \in Nat
  /\ end \in Node \cup {NoNode}

(* A set of events none of which can be first: each waits for another one  *)
(* of the set.  In a finite graph this is exactly a cycle.                 *)
Blocked(h, S) ==
  /\ S # {}
  /\ \A n \in S : \E e \in Edge : h.to[e] = n /\ h.from[e] \in S

Cyclic(h) == \E S \in SUBSET Node : Blocked(h, S)

(* topo() reports a failure exactly for the graphs that have a cycle: what *)
(* it could not order waits for itself, and a graph it did order holds no  *)
(* such set.  timingRules relies on this to call an unsolvable graph       *)
(* "cyclic (FL-G002)".                                                     *)
VerdictIsCycle ==
  /\ pc = "cyclic" => Cyclic(g)
  /\ pc \in {"forward", "backward", "solved"} => ~Cyclic(g)

(* The order Solve runs over holds every event once, and no event before   *)
(* one it waits for.                                                       *)
OrderIsTopological ==
  pc \in {"forward", "backward", "solved"} =>
    /\ \A n \in Node : \E k \in 1 .. Len(order) : order[k] = n
    /\ \A j, k \in 1 .. Len(order) : order[j] = order[k] => j = k
    /\ \A e \in Edge : \A j, k \in 1 .. Len(order) :
         order[j] = g.from[e] /\ order[k] = g.to[e] => j < k

(* Earliest is the solution of x = A (x) x (+) b: no event is before an    *)
(* arrival, and each is at one of them, the one Pred names (or at 0, with  *)
(* no arrivals).  The makespan is the largest, and End attains it.         *)
EarliestSolves ==
  pc \in {"backward", "solved"} =>
    /\ \A e \in Edge : Arrival(e) <= earliest[g.to[e]]
    /\ \A n \in Node :
         IF pred[n] = NoEdge
         THEN In(n) = {} /\ earliest[n] = 0
         ELSE g.to[pred[n]] = n /\ earliest[n] = Arrival(pred[n])
    /\ \A n \in Node : earliest[n] <= makespan
    /\ end \in Node /\ earliest[end] = makespan

(* An event can never be due before it can happen.                         *)
SlackIsNatural ==
  pc = "solved" => \A n \in Node : latest[n] - earliest[n] \in Nat

(* CriticalPath() walks Pred back from End: End has no slack, and an event *)
(* without slack hands that on to its binding predecessor, so every event  *)
(* the report calls critical is.                                           *)
CriticalPathHasNoSlack ==
  pc = "solved" =>
    /\ latest[end] = earliest[end]
    /\ \A n \in Node :
         pred[n] # NoEdge /\ latest[n] = earliest[n] =>
           latest[g.from[pred[n]]] = earliest[g.from[pred[n]]]

(* Solve returns.                                                          *)
Terminates == <>(pc \in {"cyclic", "solved"})
=============================================================================
