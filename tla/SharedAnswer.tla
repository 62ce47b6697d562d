---------------------------- MODULE SharedAnswer ----------------------------
(***************************************************************************)
(* What the Resolver promises its callers, without a word on how: within   *)
(* one run there is one answer per key, it never changes, and every call   *)
(* returns the answer of its key.                                          *)
(***************************************************************************)
CONSTANTS Call, Key, KeyOf, Answer, None

(* KeyOf is a function from Call to Key, and None is not an answer.        *)

VARIABLES
  answer,    \* what is known of each key
  returned   \* what each call returned

Init ==
  /\ answer = [k \in Key |-> None]
  /\ returned = [c \in Call |-> None]

(* An answer is found on behalf of a call, which returns it at once.       *)
Decide(c, a) ==
  /\ answer[KeyOf[c]] = None /\ returned[c] = None
  /\ answer' = [answer EXCEPT ![KeyOf[c]] = a]
  /\ returned' = [returned EXCEPT ![c] = a]

Return(c) ==
  /\ returned[c] = None /\ answer[KeyOf[c]] # None
  /\ returned' = [returned EXCEPT ![c] = answer[KeyOf[c]]]
  /\ UNCHANGED answer

Next == \E c \in Call : Return(c) \/ \E a \in Answer : Decide(c, a)

Spec == Init /\ [][Next]_<<answer, returned>>
=============================================================================
