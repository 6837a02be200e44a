----------------------------- MODULE TeamRoster -----------------------------
(***************************************************************************)
(* Users, teams, leaders and memberships as the administrator's requests   *)
(* change them (AdminService, TeamsService): one action per request.       *)
(* Requests follow one another here; their transactions overlap in         *)
(* TeamRosterTx, and RosterSessions has the sessions that they revoke.     *)
(*                                                                         *)
(* The schema's defences (the leader trigger, the unique and foreign keys, *)
(* the role/team CHECK) are left out on purpose: the invariants below      *)
(* imply them, so the services alone keep what the schema defends.  The    *)
(* administrator's own account (no team, never touched) is left out too.   *)
(***************************************************************************)
EXTENDS Naturals, FiniteSets

CONSTANTS
  Users, Teams,      \* ids that accounts and teams may get
  NoUser, NoTeam     \* SQL NULL

ASSUME SentinelAssumption == NoUser \notin Users /\ NoTeam \notin Teams

VARIABLES
  teams, leader,     \* rows of teams; teams.leader_user_id
  home, role,        \* users.team_id, NoTeam for no such account; users.role
  memberships        \* rows of user_teams

vars == <<teams, leader, home, role, memberships>>

Role     == {"group_member", "group_leader"}
Accounts == {u \in Users : home[u] # NoTeam}

HomeMembers(t) == {u \in Users : home[u] = t}

\* the teams a user sees and gets SMS of (build_scope)
TeamsOf(u) == {t \in Teams : <<u, t>> \in memberships} \cup ({home[u]} \ {NoTeam})

Init ==
  /\ teams = {} /\ leader = [t \in Teams |-> NoUser]
  /\ home = [u \in Users |-> NoTeam]
  /\ role = [u \in Users |-> "group_member"]
  /\ memberships = {}

-----------------------------------------------------------------------------
(* TeamsService *)

CreateTeam(t) ==
  /\ t \notin teams
  /\ teams' = teams \cup {t}
  /\ UNCHANGED <<leader, home, role, memberships>>

\* a team may go when nobody is at home in it
Disbandable(t) == leader[t] = NoUser /\ HomeMembers(t) = {}

\* Extra members lose the team with it (ON DELETE CASCADE).
DeleteTeam(t) ==
  /\ t \in teams /\ Disbandable(t)
  /\ teams' = teams \ {t}
  /\ memberships' = {m \in memberships : m[2] # t}
  /\ UNCHANGED <<leader, home, role>>

\* Mutant: the previous leader keeps the role.
PromoteOnly(u, v) == [role EXCEPT ![u] = "group_leader"]

\* the roles once u leads in place of v
Promote(u, v) ==
  [w \in Users |-> CASE w = u                -> "group_leader"
                     [] w # u /\ w = v       -> "group_member"
                     [] OTHER                -> role[w]]

MayLead(u, t) == t \in teams /\ u \in Accounts /\ home[u] = t

SetLeader(t, u) ==
  /\ MayLead(u, t)
  /\ role' = Promote(u, leader[t])
  /\ leader' = [leader EXCEPT ![t] = u]
  /\ UNCHANGED <<teams, home, memberships>>

-----------------------------------------------------------------------------
(* AdminService *)

\* set_leader_if_absent: the first at home in a team leads it
BecomesLeader(t) == leader[t] = NoUser

RoleIn(t) == IF BecomesLeader(t) THEN "group_leader" ELSE "group_member"

CreateUser(u, t, extras) ==
  /\ u \notin Accounts /\ t \in teams /\ extras \subseteq teams
  /\ home' = [home EXCEPT ![u] = t]
  /\ role' = [role EXCEPT ![u] = RoleIn(t)]
  /\ leader' = IF BecomesLeader(t) THEN [leader EXCEPT ![t] = u] ELSE leader
  /\ memberships' = memberships \cup ({u} \X ({t} \cup extras))
  /\ UNCHANGED teams

\* Mutant: a leader may always leave.
MayLeaveAlways(u) == TRUE

\* Mutant: extra members count as well (count_in_team).
MayLeaveMembers(u) ==
  role[u] = "group_leader" =>
    {v \in Users : <<v, home[u]>> \in memberships} \subseteq {u}

\* a leader stays as long as others are at home in the team
MayLeave(u) == role[u] = "group_leader" => HomeMembers(home[u]) \subseteq {u}

\* the leaders once u has left the team that he leads
LeftBy(u) ==
  IF role[u] = "group_leader" THEN [leader EXCEPT ![home[u]] = NoUser] ELSE leader

\* ON DELETE CASCADE takes the memberships.
DeleteUser(u) ==
  /\ u \in Accounts /\ MayLeave(u)
  /\ leader' = LeftBy(u)
  /\ home' = [home EXCEPT ![u] = NoTeam]
  /\ role' = [role EXCEPT ![u] = "group_member"]
  /\ memberships' = {m \in memberships : m[1] # u}
  /\ UNCHANGED teams

\* Mutant: the membership of the old team is the one that stays.
MovedKeepingOld(u, t) == memberships

\* user_teams once the home of u is t
Moved(u, t) == (memberships \ {<<u, home[u]>>}) \cup {<<u, t>>}

MayMove(u, t) == u \in Accounts /\ t \in teams /\ t # home[u] /\ MayLeave(u)

MoveTeam(u, t) ==
  /\ MayMove(u, t)
  /\ home' = [home EXCEPT ![u] = t]
  /\ role' = [role EXCEPT ![u] = RoleIn(t)]
  /\ leader' = IF BecomesLeader(t) THEN [LeftBy(u) EXCEPT ![t] = u] ELSE LeftBy(u)
  /\ memberships' = Moved(u, t)
  /\ UNCHANGED teams

MayJoin(u, t) == u \in Accounts /\ t \in teams /\ <<u, t>> \notin memberships

AddMembership(u, t) ==
  /\ MayJoin(u, t)
  /\ memberships' = memberships \cup {<<u, t>>}
  /\ UNCHANGED <<teams, leader, home, role>>

\* the home membership goes only with a move
MayQuit(u, t) == u \in Accounts /\ t # home[u] /\ <<u, t>> \in memberships

RemoveMembership(u, t) ==
  /\ MayQuit(u, t)
  /\ memberships' = memberships \ {<<u, t>>}
  /\ UNCHANGED <<teams, leader, home, role>>

-----------------------------------------------------------------------------
Next ==
  \/ \E t \in Teams : CreateTeam(t) \/ DeleteTeam(t)
  \/ \E u \in Users, t \in Teams :
       \/ SetLeader(t, u) \/ MoveTeam(u, t)
       \/ AddMembership(u, t) \/ RemoveMembership(u, t)
       \/ \E extras \in SUBSET Teams : CreateUser(u, t, extras)
  \/ \E u \in Users : DeleteUser(u)

Spec == Init /\ [][Next]_vars
-----------------------------------------------------------------------------
(* Properties *)

\* The tables keep to their types.
TypeOK ==
  /\ teams \subseteq Teams
  /\ leader \in [Teams -> Users \cup {NoUser}]
  /\ home \in [Users -> Teams \cup {NoTeam}]
  /\ role \in [Users -> Role]
  /\ memberships \subseteq Users \X Teams

\* The role in users, the leader in teams and the home team agree, after any
\* sequence of requests: who has the role leads exactly the team he is at home
\* in, and a team's leader is at home in it.
LeadersAgree ==
  /\ \A u \in Accounts : role[u] = "group_leader" <=> leader[home[u]] = u
  /\ \A t \in Teams : leader[t] # NoUser => home[leader[t]] = t

\* A team with anyone at home in it has a leader (docs/05: a team with members
\* always has a leader).
TeamsLed == \A t \in Teams : HomeMembers(t) # {} => leader[t] # NoUser

\* The home team is mirrored in user_teams, from which SMS are addressed, and
\* no membership outlives its user or its team.
HomeMirrored ==
  /\ \A u \in Accounts : <<u, home[u]>> \in memberships
  /\ \A m \in memberships : m[1] \in Accounts /\ m[2] \in teams

\* ADR-0003, 7: no team is stuck.  Either it may be deleted, or someone at home
\* in it may leave; extra members never stand in the way.
NeverStuck ==
  \A t \in teams : Disbandable(t) \/ \E u \in HomeMembers(t) : MayLeave(u)
=============================================================================
