--------------------------- MODULE MCTeamRosterTx ---------------------------
(***************************************************************************)
(* TeamRosterTx for TLC: users, teams and slots are interchangeable.       *)
(***************************************************************************)
EXTENDS TeamRosterTx

MCSymmetry == Permutations(Users) \cup Permutations(Teams) \cup Permutations(Slots)
=============================================================================
