---------------------------- MODULE MCSmsPipeline ----------------------------
(***************************************************************************)
(* Instances of SmsPipeline for TLC.  The number belongs to team t1, whose *)
(* members are both users, each with one linked chat; t2 starts empty.     *)
(***************************************************************************)
EXTENDS SmsPipeline, TLC

CONSTANTS u1, u2, c1, c2, t1, t2

MCMembers == [t \in Teams |-> IF t = t1 THEN Users ELSE {}]
MCLinks   == [c \in Chats |-> IF c = c1 THEN u1 ELSE u2]
MCTeam    == t1

\* Requests are interchangeable, and so are the two users together with their
\* chats: InitMembers and InitLinks are unchanged when both are swapped.
Swap == (u1 :> u2) @@ (u2 :> u1) @@ (c1 :> c2) @@ (c2 :> c1)
MCSymmetry ==
  Permutations(Hooks) \cup {Swap} \cup {p @@ Swap : p \in Permutations(Hooks)}
=============================================================================
