---- MODULE MCSessions ----
(* Instance of Sessions for TLC: everything is a set of model values.      *)
EXTENDS Sessions, TLC

Interchangeable == Permutations(Requests) \cup Permutations(Tokens) \cup Permutations(Setups)
====
