----------------------------- MODULE MCSchedule -----------------------------
(***************************************************************************)
(* Schedule on every multigraph of a few nodes and edges.  Edge identities *)
(* are interchangeable, so a graph is given once, its edges sorted; self   *)
(* loops and parallel edges are included.                                  *)
(***************************************************************************)
EXTENDS Schedule, FiniteSetsExt

CONSTANT Weights

MCNode == 1 .. 3
MCNode4 == 1 .. 4
MCEdge == 1 .. 3
MCEdge4 == 1 .. 4

Code(h, e) == (h.from[e] * 10 + h.to[e]) * 10 + h.weight[e]

MCGraphs ==
  {h \in [from : [Edge -> Node], to : [Edge -> Node], weight : [Edge -> Weights]] :
     \A e, f \in Edge : e < f => Code(h, e) <= Code(h, f)}

(* Cyclic is stated over sets of events, for the proofs; the documentation *)
(* means that some event reaches itself.  The two agree on every graph     *)
(* here (Warshall's closure is the reference).                             *)
Closure(h) ==
  LET C[N \in SUBSET Node] ==
        IF N = {} THEN [m, n \in Node |-> \E e \in Edge : h.from[e] = m /\ h.to[e] = n]
        ELSE LET u == CHOOSE u \in N : TRUE
                 Cu == C[N \ {u}]
             IN  [m, n \in Node |-> Cu[m, n] \/ (Cu[m, u] /\ Cu[u, n])]
  IN  C[Node]

ASSUME CyclicIsSelfReachable ==
  \A h \in MCGraphs : Cyclic(h) <=> \E n \in Node : Closure(h)[n, n]
=============================================================================
