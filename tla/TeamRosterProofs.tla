-------------------------- MODULE TeamRosterProofs --------------------------
(***************************************************************************)
(* The invariants of TeamRoster for any sets of users and teams, finite or *)
(* not.  None of them is inductive alone: that a team keeps a leader rests *)
(* on roles and leaders agreeing (the guard MayLeave reads the role), that *)
(* sessions stay true rests on a leader being at home in his team.         *)
(***************************************************************************)
EXTENDS RosterSessions, TLAPS

IInv == TypeOK /\ LeadersAgree /\ TeamsLed /\ HomeMirrored

-----------------------------------------------------------------------------
(* One lemma for each request                                              *)

\* A new team is empty and has no leader.
LEMMA CreateTeamStep ==
  ASSUME IInv, NEW t \in Teams, CreateTeam(t)
  PROVE  IInv'
<1>1. TypeOK'
  BY DEF IInv, CreateTeam, TypeOK
<1>2. LeadersAgree'
  BY DEF IInv, CreateTeam, LeadersAgree, Accounts
<1>3. TeamsLed'
  BY DEF IInv, CreateTeam, TeamsLed, HomeMembers
<1>4. HomeMirrored'
  BY DEF IInv, CreateTeam, HomeMirrored, Accounts
<1>5. QED
  BY <1>1, <1>2, <1>3, <1>4 DEF IInv

\* Nobody is at home in a team that goes; its memberships go with it.
LEMMA DeleteTeamStep ==
  ASSUME IInv, NEW t \in Teams, DeleteTeam(t)
  PROVE  IInv'
<1>1. TypeOK'
  BY DEF IInv, DeleteTeam, TypeOK
<1>2. LeadersAgree'
  BY DEF IInv, DeleteTeam, LeadersAgree, Accounts
<1>3. TeamsLed'
  BY DEF IInv, DeleteTeam, TeamsLed, HomeMembers
<1>4. HomeMirrored'
  BY DEF IInv, DeleteTeam, Disbandable, HomeMembers, HomeMirrored, Accounts
<1>5. QED
  BY <1>1, <1>2, <1>3, <1>4 DEF IInv

\* The leader who steps down is at home in the same team (LeadersAgree).
LEMMA SetLeaderStep ==
  ASSUME IInv, NEW t \in Teams, NEW u \in Users, SetLeader(t, u)
  PROVE  IInv'
<1>1. TypeOK'
  BY DEF IInv, SetLeader, MayLead, Promote, Role, TypeOK
<1>2. LeadersAgree'
  BY DEF IInv, SetLeader, MayLead, Promote, TypeOK, TeamsLed, HomeMembers, LeadersAgree, Accounts
<1>3. TeamsLed'
  BY SentinelAssumption DEF IInv, SetLeader, MayLead, TeamsLed, HomeMembers
<1>4. HomeMirrored'
  BY DEF IInv, SetLeader, MayLead, HomeMirrored, Accounts
<1>5. QED
  BY <1>1, <1>2, <1>3, <1>4 DEF IInv

\* A new user has no session yet, and leads only a team that has no leader.
LEMMA CreateUserStep ==
  ASSUME IInv, NEW u \in Users, NEW t \in Teams, NEW extras \in SUBSET Teams, CreateUser(u, t, extras)
  PROVE  IInv'
<1>1. TypeOK'
  BY DEF IInv, CreateUser, RoleIn, Role, TypeOK
<1>2. LeadersAgree'
  BY SentinelAssumption DEF IInv, CreateUser, BecomesLeader, RoleIn, TypeOK, LeadersAgree, Accounts
<1>3. TeamsLed'
  BY SentinelAssumption DEF IInv, CreateUser, BecomesLeader, TypeOK, TeamsLed, HomeMembers
<1>4. HomeMirrored'
  BY SentinelAssumption DEF IInv, CreateUser, TypeOK, HomeMirrored, Accounts
<1>5. QED
  BY <1>1, <1>2, <1>3, <1>4 DEF IInv

\* A leader who goes leaves an empty team behind (MayLeave).
LEMMA DeleteUserStep ==
  ASSUME IInv, NEW u \in Users, DeleteUser(u)
  PROVE  IInv'
<1>1. TypeOK'
  BY DEF IInv, DeleteUser, LeftBy, Role, TypeOK
<1>2. LeadersAgree'
  BY DEF IInv, DeleteUser, MayLeave, LeftBy, TypeOK, HomeMembers, LeadersAgree, Accounts
<1>3. TeamsLed'
  BY SentinelAssumption DEF IInv, DeleteUser, MayLeave, LeftBy, TypeOK, TeamsLed, HomeMembers
<1>4. HomeMirrored'
  BY DEF IInv, DeleteUser, TypeOK, HomeMirrored, Accounts
<1>5. QED
  BY <1>1, <1>2, <1>3, <1>4 DEF IInv

\* As for a leader who goes, and then for a user who comes.
LEMMA MoveTeamStep ==
  ASSUME IInv, NEW u \in Users, NEW t \in Teams, MoveTeam(u, t)
  PROVE  IInv'
<1>1. TypeOK'
  BY DEF IInv, MoveTeam, MayMove, LeftBy, RoleIn, Moved, Role, Accounts, TypeOK
<1>2. LeadersAgree'
  BY DEF IInv, MoveTeam, MayMove, MayLeave, LeftBy, BecomesLeader, RoleIn, TypeOK, TeamsLed, HomeMembers,
    LeadersAgree, Accounts
<1>3. TeamsLed'
  BY SentinelAssumption DEF IInv, MoveTeam, MayMove, MayLeave, LeftBy, BecomesLeader, TypeOK, TeamsLed, HomeMembers
<1>4. HomeMirrored'
  BY SentinelAssumption DEF IInv, MoveTeam, MayMove, Moved, TypeOK, HomeMirrored, Accounts
<1>5. QED
  BY <1>1, <1>2, <1>3, <1>4 DEF IInv

LEMMA AddMembershipStep ==
  ASSUME IInv, NEW u \in Users, NEW t \in Teams, AddMembership(u, t)
  PROVE  IInv'
<1>1. TypeOK'
  BY DEF IInv, AddMembership, MayJoin, TypeOK
<1>2. LeadersAgree'
  BY DEF IInv, AddMembership, MayJoin, LeadersAgree, Accounts
<1>3. TeamsLed'
  BY DEF IInv, AddMembership, MayJoin, TeamsLed, HomeMembers
<1>4. HomeMirrored'
  BY DEF IInv, AddMembership, MayJoin, HomeMirrored, Accounts
<1>5. QED
  BY <1>1, <1>2, <1>3, <1>4 DEF IInv

\* The home membership cannot be removed.
LEMMA RemoveMembershipStep ==
  ASSUME IInv, NEW u \in Users, NEW t \in Teams, RemoveMembership(u, t)
  PROVE  IInv'
<1>1. TypeOK'
  BY DEF IInv, RemoveMembership, MayQuit, TypeOK
<1>2. LeadersAgree'
  BY DEF IInv, RemoveMembership, MayQuit, LeadersAgree, Accounts
<1>3. TeamsLed'
  BY DEF IInv, RemoveMembership, MayQuit, TeamsLed, HomeMembers
<1>4. HomeMirrored'
  BY DEF IInv, RemoveMembership, MayQuit, HomeMirrored, Accounts
<1>5. QED
  BY <1>1, <1>2, <1>3, <1>4 DEF IInv

-----------------------------------------------------------------------------
(* The theorems                                                            *)

LEMMA InductiveInit == Init => IInv
  BY SentinelAssumption
  DEF Init, IInv, TypeOK, Role, Accounts, HomeMembers, LeadersAgree, TeamsLed, HomeMirrored

LEMMA InductiveStep == IInv /\ [Next]_vars => IInv'
<1> SUFFICES ASSUME IInv, [Next]_vars PROVE IInv'
  OBVIOUS
<1>1. CASE UNCHANGED vars
  BY <1>1 DEF vars, IInv, TypeOK, LeadersAgree, TeamsLed, HomeMirrored, Accounts, HomeMembers
<1>2. ASSUME NEW t \in Teams, CreateTeam(t) \/ DeleteTeam(t) PROVE IInv'
  BY <1>2, CreateTeamStep, DeleteTeamStep
<1>3. ASSUME NEW u \in Users, NEW t \in Teams, SetLeader(t, u) \/ MoveTeam(u, t) PROVE IInv'
  BY <1>3, SetLeaderStep, MoveTeamStep
<1>4. ASSUME NEW u \in Users, NEW t \in Teams, AddMembership(u, t) \/ RemoveMembership(u, t)
      PROVE  IInv'
  BY <1>4, AddMembershipStep, RemoveMembershipStep
<1>5. ASSUME NEW u \in Users, NEW t \in Teams, NEW extras \in SUBSET Teams,
             CreateUser(u, t, extras)
      PROVE  IInv'
  BY <1>5, CreateUserStep
<1>6. ASSUME NEW u \in Users, DeleteUser(u) PROVE IInv'
  BY <1>6, DeleteUserStep
<1>7. QED
  BY <1>1, <1>2, <1>3, <1>4, <1>5, <1>6 DEF Next

THEOREM Inductive == Spec => []IInv
  BY InductiveInit, InductiveStep, PTL DEF Spec

\* The tables stay well typed.
THEOREM TypeCorrect == Spec => []TypeOK
<1>1. IInv => TypeOK
  BY DEF IInv
<1>2. QED
  BY <1>1, Inductive, PTL

\* After any requests, who has the leader's role leads his home team and only
\* that one; the services keep it without the leader trigger.
THEOREM LeadersAlwaysAgree == Spec => []LeadersAgree
<1>1. IInv => LeadersAgree
  BY DEF IInv
<1>2. QED
  BY <1>1, Inductive, PTL

\* A team with anyone at home in it never lacks a leader.
THEOREM TeamsAlwaysLed == Spec => []TeamsLed
<1>1. IInv => TeamsLed
  BY DEF IInv
<1>2. QED
  BY <1>1, Inductive, PTL

\* user_teams always has everybody's home team, and only users and teams that
\* exist.
THEOREM HomesMirrored == Spec => []HomeMirrored
<1>1. IInv => HomeMirrored
  BY DEF IInv
<1>2. QED
  BY <1>1, Inductive, PTL

\* Every team can be emptied and then deleted: while someone is at home in it,
\* either an ordinary member may leave or the leader is the last one.
LEMMA SomeoneMayLeave == IInv => NeverStuck
<1> SUFFICES ASSUME IInv, NEW t \in teams,
                    ~(\E u \in HomeMembers(t) : MayLeave(u))
             PROVE  Disbandable(t)
  BY DEF NeverStuck
<1> t \in Teams
  BY DEF IInv, TypeOK
<1>1. \A u \in HomeMembers(t) : role[u] = "group_leader"
  BY DEF MayLeave
<1>2. \A u \in HomeMembers(t) : leader[t] = u
  BY <1>1, SentinelAssumption DEF IInv, LeadersAgree, HomeMembers, Accounts
<1>3. \A u \in HomeMembers(t) : HomeMembers(home[u]) \subseteq {u}
  BY <1>2 DEF HomeMembers
<1>4. HomeMembers(t) = {}
  BY <1>3 DEF MayLeave
<1>5. leader[t] = NoUser
  BY <1>4 DEF IInv, LeadersAgree, TypeOK, HomeMembers
<1>6. QED
  BY <1>4, <1>5 DEF Disbandable

\* ADR-0003: no team is ever stuck between "leaders may not leave" and "only
\* empty teams may be deleted".
THEOREM TeamsNeverStuck == Spec => []NeverStuck
  BY SomeoneMayLeave, Inductive, PTL

-----------------------------------------------------------------------------
(* The sessions.  A request changes the role, the home and the teams only   *)
(* of users whose sessions it has revoked; whatever is stored of them while *)
(* it is open, or is held across its COMMIT, is marked.                     *)

\* what is about to be stored is true as well
HeldCurrent ==
  \A s \in held : s.raced \/ (s.team = home[s.user] /\ s.role = role[s.user])

\* while a request is open, its users have only sessions stored since
RevokedWhileOpen ==
  open # NoRequest => \A s \in sessions : s.user \in Affected(open) => s.raced

SInv ==
  /\ IInv /\ SessionsTypeOK
  /\ SessionsCurrent /\ HeldCurrent /\ RevokedWhileOpen

\* A request that revokes commits as TeamRoster describes it.
LEMMA ChangesStep ==
  ASSUME NEW r \in Request, Changes(r)
  PROVE  Next
<1>1. r.op = "delete_team" => r.team \in Teams
  BY DEF Request
<1>2. r.op = "delete_user" => r.user \in Users
  BY DEF Request
<1>3. r.op \in {"set_leader", "move", "add_membership", "remove_membership"} =>
        r.user \in Users /\ r.team \in Teams
  BY DEF Request
<1>4. QED
  BY <1>1, <1>2, <1>3 DEF Changes, Next

\* Every step of RosterSessions is a step of TeamRoster or leaves the tables alone.
LEMMA RosterStep == SessionsTypeOK /\ [SessionsNext]_sessionVars => [Next]_vars
<1> SUFFICES ASSUME SessionsTypeOK, [SessionsNext]_sessionVars PROVE [Next]_vars
  OBVIOUS
<1>1. CASE Commit
  <2>1. open \in Request
    BY <1>1 DEF Commit, SessionsTypeOK
  <2>2. QED
    BY <1>1, <2>1, ChangesStep DEF Commit
<1>2. CASE Creates
  BY <1>2 DEF Creates, Next
<1>3. CASE \/ \E r \in Request : Revoke(r)
           \/ Rollback
           \/ \E u \in Users : ReadsUser(u)
           \/ \E s \in sessions : ReadsSession(s) \/ SessionEnds(s)
           \/ \E s \in held : Stores(s) \/ GivesUp(s)
  BY <1>3 DEF Revoke, Rollback, ReadsUser, ReadsSession, Holds, SessionEnds, Stores, GivesUp
<1>4. QED
  BY <1>1, <1>2, <1>3 DEF SessionsNext, sessionVars

\* A request leaves the role, the home and the teams of everybody else alone.
LEMMA OthersUnchanged ==
  ASSUME IInv, NEW r \in Request, Changes(r), NEW u \in Users, u \notin Affected(r)
  PROVE  home'[u] = home[u] /\ role'[u] = role[u] /\ TeamsOf(u)' = TeamsOf(u)
<1>1. CASE r.op = "delete_team" /\ DeleteTeam(r.team)
  BY <1>1 DEF Affected, Members, DeleteTeam, TeamsOf
<1>2. CASE r.op = "delete_user" /\ DeleteUser(r.user)
  BY <1>2 DEF Affected, DeleteUser, TeamsOf, IInv, TypeOK
<1>3. CASE r.op = "set_leader" /\ SetLeader(r.team, r.user)
  BY <1>3 DEF Affected, SetLeader, Promote, TeamsOf, IInv, TypeOK
<1>4. CASE r.op = "move" /\ MoveTeam(r.user, r.team)
  BY <1>4 DEF Affected, MoveTeam, Moved, TeamsOf, IInv, TypeOK
<1>5. CASE r.op = "add_membership" /\ AddMembership(r.user, r.team)
  BY <1>5 DEF Affected, AddMembership, TeamsOf
<1>6. CASE r.op = "remove_membership" /\ RemoveMembership(r.user, r.team)
  BY <1>6 DEF Affected, RemoveMembership, TeamsOf
<1>7. QED
  BY <1>1, <1>2, <1>3, <1>4, <1>5, <1>6 DEF Changes

\* A new user has no session yet but such as an earlier deletion overtook.
LEMMA NewcomerUnchanged ==
  ASSUME IInv, NEW v \in Users, NEW t \in Teams, NEW extras \in SUBSET Teams,
         CreateUser(v, t, extras), NEW u \in Users, home[u] \in Teams
  PROVE  home'[u] = home[u] /\ role'[u] = role[u] /\ TeamsOf(u)' = TeamsOf(u)
<1>1. u # v
  BY SentinelAssumption DEF CreateUser, Accounts
<1>2. QED
  BY <1>1 DEF CreateUser, TeamsOf, IInv, TypeOK

\* What a step that keeps the tables and the request must keep of the sessions.
LEMMA RedisStep ==
  ASSUME SInv, UNCHANGED <<vars, open>>,
         sessions' \subseteq Session, held' \subseteq Session,
         \A s \in sessions' : \/ s.raced \/ s \in sessions
                              \/ s \in held /\ ~Overlaps(s.user),
         \A s \in held' : s \in held \/ s \in sessions \/
                            (s.team = home[s.user] /\ s.role = role[s.user])
  PROVE  SInv'
<1>1. IInv'
  BY InductiveStep DEF SInv
<1>2. SessionsTypeOK'
  BY <1>1 DEF SInv, SessionsTypeOK, IInv
<1>3. SessionsCurrent'
  BY DEF SInv, SessionsCurrent, HeldCurrent, vars
<1>4. HeldCurrent'
  BY DEF SInv, SessionsCurrent, HeldCurrent, vars
<1>5. RevokedWhileOpen'
  BY DEF SInv, RevokedWhileOpen, Overlaps, Affected, Members, vars
<1>6. QED
  BY <1>1, <1>2, <1>3, <1>4, <1>5 DEF SInv

LEMMA SInvInit == SessionsInit => SInv
<1> SUFFICES ASSUME SessionsInit PROVE SInv
  OBVIOUS
<1>1. IInv
  BY InductiveInit DEF SessionsInit
<1>2. QED
  BY <1>1
  DEF SessionsInit, SInv, IInv, SessionsTypeOK, SessionsCurrent, HeldCurrent, RevokedWhileOpen

\* The sessions of a request's users are gone from the revocation on.
LEMMA RevokeStep ==
  ASSUME SInv, NEW r \in Request, Revoke(r)
  PROVE  SInv'
<1>1. IInv'
  BY InductiveStep DEF SInv, Revoke
<1>2. SessionsTypeOK'
  BY <1>1 DEF SInv, SessionsTypeOK, IInv, Revoke
<1>3. SessionsCurrent' /\ HeldCurrent'
  BY DEF SInv, SessionsCurrent, HeldCurrent, Revoke, vars
<1>4. RevokedWhileOpen'
  BY DEF RevokedWhileOpen, Revoke, Affected, Members, vars
<1>5. QED
  BY <1>1, <1>2, <1>3, <1>4 DEF SInv

\* Only users without an unmarked session get a new role, home or team.
LEMMA CommitStep ==
  ASSUME SInv, Commit
  PROVE  SInv'
<1> open \in Request
  BY DEF SInv, SessionsTypeOK, Commit
<1>1. IInv'
  BY ChangesStep, InductiveStep DEF SInv, Commit
<1>2. SessionsTypeOK'
  <2>1. held' \subseteq Session
    BY DEF SInv, SessionsTypeOK, Session, Commit, Overlaps
  <2>2. QED
    BY <1>1, <2>1 DEF SInv, SessionsTypeOK, IInv, Commit
<1>3. SessionsCurrent'
  <2> SUFFICES ASSUME NEW s \in sessions, ~s.raced
               PROVE  s.team = home'[s.user] /\ s.role = role'[s.user]
    BY DEF SessionsCurrent, Commit
  <2>1. s.user \in Users /\ s.user \notin Affected(open)
    BY DEF SInv, SessionsTypeOK, Session, RevokedWhileOpen, Commit
  <2>2. home'[s.user] = home[s.user] /\ role'[s.user] = role[s.user]
    BY <2>1, OthersUnchanged DEF SInv, Commit
  <2>3. QED
    BY <2>2 DEF SInv, SessionsCurrent
<1>4. HeldCurrent'
  <2> SUFFICES ASSUME NEW s \in held, ~s.raced, ~Overlaps(s.user)
               PROVE  s.team = home'[s.user] /\ s.role = role'[s.user]
    BY DEF SInv, SessionsTypeOK, Session, HeldCurrent, Commit
  <2>1. s.user \in Users /\ s.user \notin Affected(open)
    BY DEF SInv, SessionsTypeOK, Session, Overlaps, Commit
  <2>2. home'[s.user] = home[s.user] /\ role'[s.user] = role[s.user]
    BY <2>1, OthersUnchanged DEF SInv, Commit
  <2>3. QED
    BY <2>2 DEF SInv, HeldCurrent
<1>5. RevokedWhileOpen'
  BY DEF RevokedWhileOpen, Commit
<1>6. QED
  BY <1>1, <1>2, <1>3, <1>4, <1>5 DEF SInv

\* A new team concerns nobody, a new user has only marked sessions.
LEMMA CreatesStep ==
  ASSUME SInv, Creates
  PROVE  SInv'
<1>1. IInv'
  BY InductiveStep DEF SInv, Creates, Next
<1>2. SessionsTypeOK'
  BY <1>1 DEF SInv, SessionsTypeOK, IInv, Creates, redis
<1>3. ASSUME NEW s \in Session, s.team = home[s.user], s.role = role[s.user]
      PROVE  s.team = home'[s.user] /\ s.role = role'[s.user]
  <2>1. s.user \in Users /\ home[s.user] \in Teams
    BY <1>3 DEF Session
  <2>2. CASE \E t \in Teams : CreateTeam(t)
    BY <1>3, <2>2 DEF CreateTeam
  <2>3. CASE \E t \in Teams, v \in Users, extras \in SUBSET Teams : CreateUser(v, t, extras)
    BY <1>3, <2>1, <2>3, NewcomerUnchanged DEF SInv
  <2>4. QED
    BY <2>2, <2>3 DEF Creates
<1>4. SessionsCurrent' /\ HeldCurrent'
  BY <1>3 DEF SInv, SessionsTypeOK, SessionsCurrent, HeldCurrent, Creates, redis
<1>5. RevokedWhileOpen'
  BY DEF RevokedWhileOpen, Creates, redis
<1>6. QED
  BY <1>1, <1>2, <1>4, <1>5 DEF SInv

\* What is stored while a request of the user is open is marked.
LEMMA StoresStep ==
  ASSUME SInv, NEW s \in held, Stores(s)
  PROVE  SInv'
<1> DEFINE stored == [s EXCEPT !.raced = s.raced \/ Overlaps(s.user)]
<1>1. s \in Session /\ stored \in Session
  BY DEF SInv, SessionsTypeOK, Session, Overlaps
<1>2. stored.raced \/ (stored = s /\ ~Overlaps(s.user))
  <2>1. stored.raced = (s.raced \/ Overlaps(s.user))
    BY <1>1 DEF Session
  <2>2. CASE s.raced \/ Overlaps(s.user)
    BY <2>1, <2>2
  <2>3. CASE ~s.raced /\ ~Overlaps(s.user)
    <3>1. s = [user |-> s.user, role |-> s.role, team |-> s.team, raced |-> s.raced]
      BY <1>1 DEF Session
    <3>2. s.raced = FALSE /\ (s.raced \/ Overlaps(s.user)) = FALSE
      BY <1>1, <2>3 DEF Session
    <3>3. QED
      BY <2>3, <3>1, <3>2
  <2>4. QED
    BY <2>2, <2>3
<1>3. sessions' = sessions \cup {stored} /\ held' = held \ {s}
  BY DEF Stores
<1> HIDE DEF stored
<1>4. sessions' \subseteq Session /\ held' \subseteq Session
  BY <1>1, <1>3 DEF SInv, SessionsTypeOK
<1>5. \A z \in sessions' : z.raced \/ z \in sessions \/ (z \in held /\ ~Overlaps(z.user))
  BY <1>2, <1>3
<1>6. QED
  BY <1>3, <1>4, <1>5, RedisStep DEF Stores

LEMMA ReadsUserStep ==
  ASSUME SInv, NEW u \in Users, ReadsUser(u)
  PROVE  SInv'
<1> DEFINE read == [user |-> u, role |-> role[u], team |-> home[u], raced |-> FALSE]
<1>1. read \in Session
  BY DEF ReadsUser, SInv, SessionsTypeOK, TypeOK, Session, Accounts
<1>2. held' = held \cup {read} /\ UNCHANGED <<vars, sessions, open>>
  BY DEF ReadsUser, Holds
<1>3. read.team = home[read.user] /\ read.role = role[read.user]
  OBVIOUS
<1> HIDE DEF read
<1>4. QED
  BY <1>1, <1>2, <1>3, RedisStep DEF SInv, SessionsTypeOK

LEMMA SInvStep == SInv /\ [SessionsNext]_sessionVars => SInv'
<1> SUFFICES ASSUME SInv, [SessionsNext]_sessionVars PROVE SInv'
  OBVIOUS
<1>1. CASE UNCHANGED sessionVars
  BY <1>1, RedisStep DEF sessionVars, redis, SInv, SessionsTypeOK
<1>2. ASSUME NEW r \in Request, Revoke(r) PROVE SInv'
  BY <1>2, RevokeStep
<1>3. CASE Commit
  BY <1>3, CommitStep
<1>4. CASE Creates
  BY <1>4, CreatesStep
<1>5. CASE Rollback
  <2>1. IInv'
    BY <1>5, InductiveStep DEF SInv, Rollback
  <2>2. QED
    BY <1>5, <2>1
    DEF Rollback, SInv, IInv, SessionsTypeOK, SessionsCurrent, HeldCurrent, RevokedWhileOpen, vars
<1>6. ASSUME NEW u \in Users, ReadsUser(u) PROVE SInv'
  BY <1>6, ReadsUserStep
<1>7. ASSUME NEW s \in sessions, ReadsSession(s) \/ SessionEnds(s) PROVE SInv'
  BY <1>7, RedisStep DEF ReadsSession, Holds, SessionEnds, SInv, SessionsTypeOK
<1>8. ASSUME NEW s \in held, Stores(s) PROVE SInv'
  BY <1>8, StoresStep
<1>9. ASSUME NEW s \in held, GivesUp(s) PROVE SInv'
  BY <1>9, RedisStep DEF GivesUp, SInv, SessionsTypeOK
<1>10. QED
  BY <1>1, <1>2, <1>3, <1>4, <1>5, <1>6, <1>7, <1>8, <1>9 DEF SessionsNext

\* The invariant of sessions, of what is about to be stored and of the open request.
THEOREM SessionsInductive == SessionsSpec => []SInv
  BY SInvInit, SInvStep, PTL DEF SessionsSpec

\* With its revocations in Redis before each COMMIT the system still behaves as
\* TeamRoster says, so all that is proved of the tables holds of it.
THEOREM RosterImplemented == SessionsSpec => Spec
<1>1. SessionsInit => Init
  BY DEF SessionsInit
<1>2. SInv /\ [SessionsNext]_sessionVars => [Next]_vars
  BY RosterStep DEF SInv
<1>3. QED
  BY <1>1, <1>2, SessionsInductive, PTL DEF SessionsSpec, Spec

\* The sessions keep to their types: no sign-in stores a user without a team.
THEOREM SessionsTypeCorrect == SessionsSpec => []SessionsTypeOK
<1>1. SInv => SessionsTypeOK
  BY DEF SInv
<1>2. QED
  BY <1>1, SessionsInductive, PTL

\* A session never outlives the role and the home team that it caches, whatever
\* commits or rolls back after its revocation; only what overlaps the request of an
\* administrator between its revocation and its COMMIT may.
THEOREM SessionsStayCurrent == SessionsSpec => []SessionsCurrent
<1>1. SInv => SessionsCurrent
  BY DEF SInv
<1>2. QED
  BY <1>1, SessionsInductive, PTL

\* Whoever has gained or lost a team has no session from before it.
LEMMA ScopeStep ==
  ASSUME SInv, [SessionsNext]_sessionVars, NEW u \in Users, TeamsOf(u)' # TeamsOf(u),
         NEW s \in sessions', s.user = u
  PROVE  s.raced
<1>1. CASE Commit
  <2>1. open \in Request /\ s \in sessions
    BY <1>1 DEF SInv, SessionsTypeOK, Commit
  <2>2. u \in Affected(open)
    BY <1>1, <2>1, OthersUnchanged DEF SInv, Commit
  <2>3. QED
    BY <1>1, <2>1, <2>2 DEF SInv, RevokedWhileOpen, Commit
<1>2. CASE Creates
  <2>1. s \in sessions /\ s \in Session
    BY <1>2 DEF Creates, redis, SInv, SessionsTypeOK
  <2>2. home[u] \notin Teams
    BY <1>2, NewcomerUnchanged DEF Creates, CreateTeam, TeamsOf, SInv
  <2>3. QED
    BY <2>1, <2>2 DEF SInv, SessionsCurrent, Session
<1>3. CASE UNCHANGED vars
  BY <1>3 DEF vars, TeamsOf
<1>4. QED
  BY <1>1, <1>2, <1>3
  DEF SessionsNext, sessionVars, Revoke, Rollback, ReadsUser, ReadsSession, Holds,
      SessionEnds, Stores, GivesUp

\* No session lives through a change of its user's teams, whoever's request it was
\* and whether the team goes with it, unless it was stored in the overlap.
THEOREM ScopeChangesRevoke == SessionsSpec => ScopeChangeRevokes
<1>1. SInv /\ [SessionsNext]_sessionVars =>
        [\A u \in Users : TeamsOf(u)' # TeamsOf(u) =>
           \A s \in sessions' : s.user = u => s.raced]_sessionVars
  BY ScopeStep
<1>2. QED
  BY <1>1, SessionsInductive, PTL DEF SessionsSpec, ScopeChangeRevokes
=============================================================================
