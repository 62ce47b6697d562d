----------------------------- MODULE MCResolver -----------------------------
(***************************************************************************)
(* Resolver with one run of concurrent calls, and with three runs, one     *)
(* after the other, of which two may be killed.                            *)
(***************************************************************************)
EXTENDS Resolver, TLC

CONSTANTS c1, c2, c3, k1, k2, s1, s2, r1, r2, r3, h1

(* One run: two calls for a floating artifact, one for a pinned one in the *)
(* same registry.                                                          *)
OneRunOf  == [c \in {c1, c2, c3} |-> r1]
OneKeyOf  == (c1 :> k1) @@ (c2 :> k1) @@ (c3 :> k2)
OneSlotOf == (k1 :> s1) @@ (k2 :> s2)
OneHostOf == [s \in {s1, s2} |-> h1]

(* Three runs over one cache, of a pinned ref.                             *)
RunsRunOf  == (c1 :> r1) @@ (c2 :> r2) @@ (c3 :> r3)
RunsKeyOf  == [c \in {c1, c2, c3} |-> k1]
RunsSlotOf == (k1 :> s1)
RunsHostOf == (s1 :> NoHost)
=============================================================================
