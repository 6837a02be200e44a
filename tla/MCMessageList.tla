---- MODULE MCMessageList ----
(* Instance of MessageList for TLC: phones and teams are model values.     *)
EXTENDS MessageList, TLC

Interchangeable == Permutations(Phones) \cup Permutations(Teams)
====
