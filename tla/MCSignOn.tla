---- MODULE MCSignOn ----
(***************************************************************************)
(* Instance of SignOn for TLC: everything is a set of model values.  Two   *)
(* Mini Apps on top of one another's states are too many, so the run is    *)
(* the union of two parts: either only one of them is ever opened, and one *)
(* reset, deletion or 403 happens; or both are, nothing else happens, and  *)
(* all sign-ins are of one user.                                           *)
(***************************************************************************)
EXTENDS SignOn, TLC

Unopened(d) ==
  /\ page[d] = "loading" /\ at[Form(d)] = "idle" /\ at[Fetch(d)] = "idle"
  /\ session[d] = NoSession /\ ticket[d] = NoToken /\ d \notin marked \cup heard
  /\ \A u \in Users : <<d, u>> \notin proved
Absent(u) ==
  /\ \A c \in Channels : who[c] # u
  /\ \A d \in Chats : <<d, u>> \notin proved

Parts ==
  \/ resets + blocks <= 1 /\ \E d \in Opened : Unopened(d)
  \/ resets + blocks = 0 /\ \E u \in Users : Absent(u)

Interchangeable ==
  Permutations(Opened) \cup Permutations(Users)
    \cup Permutations(Sessions) \cup Permutations(Tokens)
====
