--------------------------- MODULE RosterSessions ---------------------------
(***************************************************************************)
(* The sessions that the administrator's requests revoke.  SessionData     *)
(* caches the role and the home team of its user, so a request that        *)
(* changes them, or the teams a user belongs to, calls revoke_all_for_user *)
(* from inside its transaction: the sessions are gone from Redis before    *)
(* the router commits, and stay gone when it rolls back.  Meanwhile the    *)
(* tables are still the old ones for everybody else, so a user may sign in *)
(* with them, and a request of his may store again the session it had      *)
(* read (SessionStore.touch).  `raced` marks what was stored so.           *)
(*                                                                         *)
(* The requests of TeamRoster follow one another, each in two steps when   *)
(* it revokes: up to its last revocation, and its COMMIT.                  *)
(***************************************************************************)
EXTENDS TeamRoster

CONSTANTS
  NoRequest,         \* no request has revoked and not yet committed
  MaxSessions,       \* bound: sessions in Redis that the tables tell apart
  MaxHeld            \* bound: sessions about to be stored

VARIABLES
  sessions,          \* sessions in Redis, as SessionData caches them
  held,              \* what sign-ins have read of users, and touches of Redis
  open               \* the request between its revocation and its COMMIT

redis       == <<sessions, held, open>>
sessionVars == <<vars, redis>>

Session == [user: Users, role: Role, team: Teams, raced: BOOLEAN]

Request ==
  [op: {"delete_team"}, user: {NoUser}, team: Teams]
    \cup [op: {"delete_user"}, user: Users, team: {NoTeam}]
    \cup [op: {"set_leader", "move", "add_membership", "remove_membership"}, user: Users, team: Teams]

ASSUME RequestAssumption == NoRequest \notin Request

Members(t) == {u \in Users : <<u, t>> \in memberships}

\* Mutant: the leader who steps down keeps his sessions.
AffectedLeader(r) == IF r.op = "delete_team" THEN Members(r.team) ELSE {r.user}

\* Mutant: an extra membership is given or taken without a revocation.
AffectedHome(r) ==
  CASE r.op = "delete_team"                            -> Members(r.team)
    [] r.op = "set_leader"                             -> {r.user, leader[r.team]}
    [] r.op \in {"add_membership", "remove_membership"} -> {}
    [] OTHER                                           -> {r.user}

\* whose sessions the request revokes
Affected(r) ==
  CASE r.op = "delete_team" -> Members(r.team)
    [] r.op = "set_leader"  -> {r.user, leader[r.team]}
    [] OTHER                -> {r.user}

SessionsInit == Init /\ sessions = {} /\ held = {} /\ open = NoRequest

-----------------------------------------------------------------------------
(* The administrator's requests *)

Allowed(r) ==
  \/ r.op = "delete_team" /\ r.team \in teams /\ Disbandable(r.team)
  \/ r.op = "delete_user" /\ r.user \in Accounts /\ MayLeave(r.user)
  \/ r.op = "set_leader" /\ MayLead(r.user, r.team)
  \/ r.op = "move" /\ MayMove(r.user, r.team)
  \/ r.op = "add_membership" /\ MayJoin(r.user, r.team)
  \/ r.op = "remove_membership" /\ MayQuit(r.user, r.team)

\* up to revoke_all_for_user, which no rollback undoes
Revoke(r) ==
  /\ open = NoRequest /\ Allowed(r)
  /\ open' = r
  /\ sessions' = {s \in sessions : s.user \notin Affected(r)}
  /\ UNCHANGED <<vars, held>>

Changes(r) ==
  \/ r.op = "delete_team" /\ DeleteTeam(r.team)
  \/ r.op = "delete_user" /\ DeleteUser(r.user)
  \/ r.op = "set_leader" /\ SetLeader(r.team, r.user)
  \/ r.op = "move" /\ MoveTeam(r.user, r.team)
  \/ r.op = "add_membership" /\ AddMembership(r.user, r.team)
  \/ r.op = "remove_membership" /\ RemoveMembership(r.user, r.team)

\* a session of u that is written while a request that concerns u is open
Overlaps(u) == open # NoRequest /\ u \in Affected(open)

Commit ==
  /\ open # NoRequest /\ Changes(open)
  /\ held' = {[s EXCEPT !.raced = s.raced \/ Overlaps(s.user)] : s \in held}
  /\ open' = NoRequest
  /\ UNCHANGED sessions

Rollback ==
  /\ open # NoRequest
  /\ open' = NoRequest
  /\ UNCHANGED <<vars, sessions, held>>

\* the requests that revoke nothing
Creates ==
  /\ open = NoRequest
  /\ \E t \in Teams :
       \/ CreateTeam(t)
       \/ \E u \in Users, extras \in SUBSET Teams : CreateUser(u, t, extras)
  /\ UNCHANGED redis

-----------------------------------------------------------------------------
(* The users' requests *)

Holds(s) ==
  /\ Cardinality(held \cup {s}) <= MaxHeld
  /\ held' = held \cup {s}
  /\ UNCHANGED <<vars, sessions, open>>

\* Mutant: a row that is gone is read like any other.
ReadsAnyUser(u) == Holds([user |-> u, role |-> role[u], team |-> home[u], raced |-> FALSE])

\* a sign-in, by password or from Telegram, reads the row of its user
ReadsUser(u) ==
  u \in Accounts /\ Holds([user |-> u, role |-> role[u], team |-> home[u], raced |-> FALSE])

\* SessionMiddleware of any page: get, before touch
ReadsSession(s) == s \in sessions /\ Holds(s)

\* SessionStore.create, or touch, whatever has become of the user and the session
\* meanwhile
Stores(s) ==
  /\ s \in held
  /\ held' = held \ {s}
  /\ sessions' = sessions \cup {[s EXCEPT !.raced = s.raced \/ Overlaps(s.user)]}
  /\ Cardinality(sessions') <= MaxSessions
  /\ UNCHANGED <<vars, open>>

\* a wrong password, an initData that is refused, a request that dies
GivesUp(s) ==
  /\ s \in held
  /\ held' = held \ {s}
  /\ UNCHANGED <<vars, sessions, open>>

\* a logout, or a session that expires
SessionEnds(s) ==
  /\ s \in sessions
  /\ sessions' = sessions \ {s}
  /\ UNCHANGED <<vars, held, open>>

-----------------------------------------------------------------------------
SessionsNext ==
  \/ \E r \in Request : Revoke(r)
  \/ Commit \/ Rollback \/ Creates
  \/ \E u \in Users : ReadsUser(u)
  \/ \E s \in sessions : ReadsSession(s) \/ SessionEnds(s)
  \/ \E s \in held : Stores(s) \/ GivesUp(s)

SessionsSpec == SessionsInit /\ [][SessionsNext]_sessionVars
-----------------------------------------------------------------------------
(* Properties *)

\* The tables, the sessions and the open request keep to their types: what is
\* cached always names a team, so the user was there when it was read.
SessionsTypeOK ==
  /\ TypeOK
  /\ sessions \subseteq Session /\ held \subseteq Session
  /\ open \in Request \cup {NoRequest}

\* A session has the role and the home team that its user has now, whatever
\* requests have committed or rolled back since he signed in; a session stored
\* from what was read before a COMMIT and across it, or between the revocation and
\* the COMMIT, is excepted.
SessionsCurrent ==
  \A s \in sessions : s.raced \/ (s.team = home[s.user] /\ s.role = role[s.user])

\* ADR-0012: no session lives through a change of the teams that its user sees,
\* excepted the same overlap.
ScopeChangeRevokes ==
  [][\A u \in Users : TeamsOf(u)' # TeamsOf(u) =>
       \A s \in sessions' : s.user = u => s.raced]_sessionVars
=============================================================================
