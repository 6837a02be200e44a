-------------------------- MODULE MCRosterSessions --------------------------
(***************************************************************************)
(* RosterSessions for TLC: users and teams are interchangeable.            *)
(***************************************************************************)
EXTENDS RosterSessions, TLC

MCSymmetry == Permutations(Users) \cup Permutations(Teams)
=============================================================================
