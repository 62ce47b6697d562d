---------------------------- MODULE MCRenderTree ----------------------------
(***************************************************************************)
(* RenderTree on small repositories: many ways in which a few components   *)
(* can lead to each other, with charts and failures; and, over fewer       *)
(* shapes, many places where a source or a ConfigMap can be.               *)
(***************************************************************************)
EXTENDS RenderTree, TLC

CONSTANTS root, a, b, z, s, d

MCComp == {root, a, b, z}

Yields ==
  {(root :> y0) @@ (a :> y1) @@ (b :> y2) @@ (z :> y3) :
     y0 \in {<<a, b>>, <<b, a>>, <<root, a>>}, y1 \in {<<>>, <<z>>, <<z, b>>, <<a, b>>},
     y2 \in {<<>>, <<z>>, <<a>>}, y3 \in {<<>>, <<b>>, <<a, z>>}}

FewYields ==
  {(root :> y0) @@ (a :> y1) @@ (b :> y2) @@ (z :> <<>>) :
     y0 \in {<<a, b>>, <<root, b, a>>}, y1 \in {<<>>, <<z, z>>}, y2 \in {<<>>, <<z>>}}

Only(v, S) == [x \in Comp |-> IF x \in S THEN {v} ELSE {}]
From(S)    == [x \in Comp |-> IF x \in S THEN s ELSE Here]

(* Who leads to whom, and what fails; the root defines the source.         *)
Shapes ==
  {[helm |-> h, source |-> From(h \cup {a}), yields |-> y, defines |-> Only(s, {root}),
    writes |-> Only(d, {}), reads |-> Only(d, {}), templated |-> u, externals |-> {},
    gone |-> off, unbuilt |-> f, unsubst |-> u, resolver |-> TRUE] :
     h \in {{}, {b}, {b, z}}, y \in Yields, off \in {{}, {s}}, f \in {{}, {a}, {b}}, u \in {{}, {a}}}

(* Who defines, writes and reads what; b needs the source.                 *)
Places ==
  {[helm |-> h, source |-> From(h \cup {b}), yields |-> y, defines |-> Only(s, def),
    writes |-> Only(d, w), reads |-> Only(d, rd), templated |-> rd \cup t, externals |-> {},
    gone |-> {}, unbuilt |-> {}, unsubst |-> u, resolver |-> TRUE] :
     h \in {{}, {z}}, y \in FewYields, def \in {{}, {root}, {a}, {z}}, w \in {{}, {a}, {b}, {a, z}},
     rd \in {{}, {b}, {z}, {root, a}}, t \in {{}, {a}}, u \in {{}, {a}}}

(* What the command line and the configuration change.                     *)
Settings ==
  {[r EXCEPT !.externals = x, !.resolver = on] :
     r \in {q \in Places : q.unsubst = {} /\ q.helm = {} /\ q.defines[root] # {}},
     x \in {{d}, {}}, on \in {TRUE, FALSE}}

MCRepos == {r \in Shapes \cup Places \cup Settings :
              /\ r.unsubst \subseteq r.templated /\ r.templated \cap r.helm = {}
              /\ root \in r.templated => r.yields[root][1] = root}
=============================================================================
