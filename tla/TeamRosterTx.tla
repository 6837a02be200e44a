---------------------------- MODULE TeamRosterTx ----------------------------
(***************************************************************************)
(* The administrator's requests of TeamRoster as the database runs them:   *)
(* each is a transaction of single statements under READ COMMITTED, first  *)
(* the SELECTs that its guards and decisions rest on, then the writes.     *)
(* Several overlap (two browser tabs).  PostgreSQL is modelled by its row  *)
(* locks, its immediate constraints and, at COMMIT, the deferred foreign   *)
(* key and the leader trigger.  Sessions are left to RosterSessions.       *)
(***************************************************************************)
EXTENDS SequencesExt

CONSTANTS
  Users, Teams, NoUser, NoTeam,
  Slots,     \* transactions that may overlap
  NoTx,
  Apart      \* TRUE: requests that overlap concern different users and teams

ASSUME SentinelAssumption == NoUser \notin Users /\ NoTeam \notin Teams
ASSUME ApartAssumption == Apart \in BOOLEAN

VARIABLES
  db,        \* the committed tables
  tx         \* the transaction of each slot

vars == <<db, tx>>

Leader == "group_leader"
Member == "group_member"

Ops == {"create_user", "delete_user", "move_team", "add_membership",
        "remove_membership", "create_team", "delete_team", "set_leader"}

Tables ==
  [teams: SUBSET Teams, leader: [Teams -> Users \cup {NoUser}],
   home: [Users -> Teams \cup {NoTeam}], role: [Users -> {Leader, Member}],
   memberships: SUBSET (Users \X Teams)]

Accounts(d)       == {u \in Users : d.home[u] # NoTeam}
HomeMembers(d, t) == {u \in Users : d.home[u] = t}

Init ==
  /\ db = [teams |-> {}, leader |-> [t \in Teams |-> NoUser],
           home |-> [u \in Users |-> NoTeam], role |-> [u \in Users |-> Member],
           memberships |-> {}]
  /\ tx = [x \in Slots |-> NoTx]

-----------------------------------------------------------------------------
(* Statements: the writes of the repositories *)

Statement ==
  [do: {"insert_team", "delete_team", "lead", "insert_user", "delete_user", "rehome",
        "set_role", "add_member", "remove_member"},
   user: Users \cup {NoUser}, team: Teams \cup {NoTeam}, role: {Leader, Member}]

Stmt(do, u, t, r) == [do |-> do, user |-> u, team |-> t, role |-> r]

InsertTeam(t)      == Stmt("insert_team", NoUser, t, Member)
DropTeam(t)        == Stmt("delete_team", NoUser, t, Member)
Lead(t, u)         == Stmt("lead", u, t, Member)
InsertUser(u, t)   == Stmt("insert_user", u, t, Member)
DropUser(u)        == Stmt("delete_user", u, NoTeam, Member)
Rehome(u, t)       == Stmt("rehome", u, t, Member)
SetRole(u, r)      == Stmt("set_role", u, NoTeam, r)
AddMember(u, t)    == Stmt("add_member", u, t, Member)
RemoveMember(u, t) == Stmt("remove_member", u, t, Member)

\* what a statement does to the tables, ON DELETE CASCADE included
Apply(d, s) ==
  CASE s.do = "insert_team"   -> [d EXCEPT !.teams = @ \cup {s.team}]
    [] s.do = "delete_team"   -> [d EXCEPT !.teams = @ \ {s.team}, !.leader[s.team] = NoUser,
                                    !.memberships = {m \in @ : m[2] # s.team}]
    [] s.do = "lead"          -> [d EXCEPT !.leader[s.team] = s.user]
    [] s.do \in {"insert_user", "rehome"} ->
         [d EXCEPT !.home[s.user] = s.team, !.role[s.user] = Member]
    [] s.do = "delete_user"   -> [d EXCEPT !.home[s.user] = NoTeam, !.role[s.user] = Member,
                                    !.memberships = {m \in @ : m[1] # s.user}]
    [] s.do = "set_role"      -> [d EXCEPT !.role[s.user] = s.role]
    [] s.do = "add_member"    -> [d EXCEPT !.memberships = @ \cup {<<s.user, s.team>>}]
    [] s.do = "remove_member" -> [d EXCEPT !.memberships = @ \ {<<s.user, s.team>>}]

\* whether there is a row to write (ON CONFLICT DO NOTHING for a membership)
Hits(d, s) ==
  CASE s.do \in {"insert_team", "insert_user"}              -> TRUE
    [] s.do \in {"delete_team", "lead"}                     -> s.team \in d.teams
    [] s.do \in {"delete_user", "rehome", "set_role"}       -> s.user \in Accounts(d)
    [] s.do = "add_member"    -> <<s.user, s.team>> \notin d.memberships
    [] s.do = "remove_member" -> <<s.user, s.team>> \in d.memberships

\* The constraints tested with the statement: unique keys, foreign keys, and the
\* CHECK of role and team when SET NULL would leave a user without a home.  (A name
\* that is taken is one of the reasons for Rollback.)
Violates(d, s) ==
  CASE s.do = "delete_team" -> HomeMembers(d, s.team) # {}
    [] s.do = "delete_user" -> \E t \in d.teams : d.leader[t] = s.user
    [] s.do = "lead"        -> /\ s.user # NoUser
                               /\ \/ s.user \notin Accounts(d)
                                  \/ \E t \in d.teams \ {s.team} : d.leader[t] = s.user
    [] s.do = "add_member"  -> s.user \notin Accounts(d) \/ s.team \notin d.teams
    [] OTHER                -> FALSE

Lock(row, mode) == [row |-> row, mode |-> mode]

\* FOR KEY SHARE on the rows a foreign key refers to, NO KEY UPDATE on updated
\* rows, an exclusive lock on deleted ones and on unique keys
Locks(d, s) ==
  LET user == <<"user", s.user>>
      team == <<"team", s.team>>
      lost(M) == {Lock(<<"member", m[1], m[2]>>, "exclusive") : m \in M}
  IN CASE s.do \in {"insert_team", "insert_user"} -> {}
       [] s.do = "delete_team" -> {Lock(team, "exclusive")}
                                    \cup lost({m \in d.memberships : m[2] = s.team})
       [] s.do = "lead" -> {Lock(team, "update")} \cup
            IF s.user = NoUser THEN {}
            ELSE {Lock(user, "share"), Lock(<<"leads", s.user>>, "exclusive")}
       [] s.do = "delete_user" -> {Lock(user, "exclusive")}
                                    \cup lost({m \in d.memberships : m[1] = s.user})
       [] s.do \in {"rehome", "set_role"} -> {Lock(user, "update")}
       [] s.do = "add_member" -> {Lock(user, "share"), Lock(team, "share")}
                                   \cup lost({<<s.user, s.team>>})
       [] s.do = "remove_member" -> lost({<<s.user, s.team>>})

Conflict(a, b) ==
  /\ a.row = b.row
  /\ "exclusive" \in {a.mode, b.mode} \/ (a.mode = "update" /\ b.mode = "update")

Free(x, L) ==
  \A y \in Slots \ {x} :
    tx[y] # NoTx => \A a \in L, b \in tx[y].held : ~Conflict(a, b)

-----------------------------------------------------------------------------
(* Requests: what each service reads, and what it then writes *)

Request == [op: Ops, user: Users \cup {NoUser}, team: Teams \cup {NoTeam},
            extra: Teams \cup {NoTeam}]

\* its parameters; at most one of extra_team_ids
Requests ==
  {r \in Request :
     /\ r.user = NoUser <=> r.op \in {"create_team", "delete_team"}
     /\ r.team = NoTeam <=> r.op = "delete_user"
     /\ r.extra # NoTeam => r.op = "create_user" /\ r.extra # r.team}

Reads(op) ==
  CASE op = "create_user"       -> <<"team">>
    [] op = "delete_user"       -> <<"user", "count">>
    [] op = "move_team"         -> <<"user", "team", "count">>
    [] op = "add_membership"    -> <<"user", "team">>
    [] op = "remove_membership" -> <<"user">>
    [] op = "create_team"       -> <<>>
    [] op = "delete_team"       -> <<"team", "count">>
    [] op = "set_leader"        -> <<"team", "user">>

\* the early returns and errors after a read
Refused(t, read) ==
  CASE read = "user" ->
         \/ t.req.user \notin Accounts(db)
         \/ t.req.op = "set_leader" /\ db.home[t.req.user] # t.req.team
         \/ t.req.op = "remove_membership" /\ db.home[t.req.user] = t.req.team
    [] read = "team" ->
         \/ ({t.req.team, t.req.extra} \ {NoTeam}) \ db.teams # {}
         \/ t.req.op = "move_team" /\ t.was.home = t.req.team
    [] read = "count" ->
         IF t.req.op = "delete_team"
         THEN t.leader # NoUser \/ HomeMembers(db, t.req.team) # {}
         ELSE ~(HomeMembers(db, t.was.home) \subseteq {t.req.user})

\* the reads after this one: only a leader's departure asks, in the end, who else
\* is at home
Following(t, read) ==
  LET rest == Tail(t.reads)
  IN IF read = "user" /\ db.role[t.req.user] # Leader /\ rest # <<>> /\ Last(rest) = "count"
     THEN Front(rest)
     ELSE rest

When(b, s) == IF b THEN s ELSE <<>>

\* Mutant: the role that set_leader_if_absent returns is not stored.
JoinsLeadOnly(t) == When(t.leader = NoUser, <<Lead(t.req.team, t.req.user)>>)

\* Mutant: it is stored under a name that ck_users_role does not know.
JoinsMisnamed(t) ==
  When(t.leader = NoUser, <<Lead(t.req.team, t.req.user), SetRole(t.req.user, "leader")>>)

\* set_leader_if_absent
Joins(t) ==
  When(t.leader = NoUser, <<Lead(t.req.team, t.req.user), SetRole(t.req.user, Leader)>>)

\* the last one at home in a team stops leading it
Leaves(t) == When(t.was.role = Leader, <<Lead(t.was.home, NoUser)>>)

\* The writes, in their order.  They rest on what was read: was, the user's
\* home and role, and leader, the team's (from the session's identity map).
Plan(t) ==
  LET u == t.req.user
      team == t.req.team
  IN CASE t.req.op = "create_team"       -> <<InsertTeam(team)>>
       [] t.req.op = "delete_team"       -> <<DropTeam(team)>>
       [] t.req.op = "add_membership"    -> <<AddMember(u, team)>>
       [] t.req.op = "remove_membership" -> <<RemoveMember(u, team)>>
       [] t.req.op = "create_user" ->
            <<InsertUser(u, team), AddMember(u, team)>>
              \o When(t.req.extra # NoTeam, <<AddMember(u, t.req.extra)>>) \o Joins(t)
       [] t.req.op = "delete_user" -> Leaves(t) \o <<DropUser(u)>>
       [] t.req.op = "move_team" ->
            Leaves(t) \o <<Rehome(u, team), RemoveMember(u, t.was.home), AddMember(u, team)>>
              \o Joins(t)
       [] t.req.op = "set_leader" ->
            When(t.leader \notin {NoUser, u}, <<SetRole(t.leader, Member)>>)
              \o <<SetRole(u, Leader), Lead(team, u)>>

Unread == [home |-> NoTeam, role |-> Member]

\* After the last read the writes are settled, whatever others commit meanwhile.
Planned(t) ==
  IF t.reads # <<>> THEN t
  ELSE [t EXCEPT !.todo = Plan(t), !.was = Unread, !.leader = NoUser]

\* the tables as a transaction sees them: what is committed, and its own writes
View(t) == FoldLeft(Apply, db, t.done)

-----------------------------------------------------------------------------
(* The steps of a transaction *)

\* the users and teams a request concerns
Footprint(r) ==
  ({r.user, r.team, r.extra} \cup {db.home[u] : u \in {r.user} \cap Users})
    \ {NoUser, NoTeam}

\* the ids that transactions refer to, besides those in the tables
InUse == UNION {LET t == tx[y] IN
                  {t.req.user, t.req.team, t.req.extra, t.was.home, t.leader}
                    \cup UNION {{s.user, s.team} : s \in ToSet(t.todo)}
                : y \in {z \in Slots : tx[z] # NoTx}}

\* Sequences never repeat an id; one that nothing refers to is as good as new.
FreshId(r) ==
  /\ r.op = "create_user" => r.user \notin Accounts(db) \cup InUse
  /\ r.op = "create_team" => r.team \notin db.teams \cup InUse

Begin(x, r) ==
  /\ tx[x] = NoTx /\ FreshId(r)
  /\ Apart => \A y \in Slots : tx[y] # NoTx => Footprint(r) \cap Footprint(tx[y].req) = {}
  /\ tx' = [tx EXCEPT ![x] =
       Planned([req |-> r, reads |-> Reads(r.op), was |-> Unread, leader |-> NoUser,
                todo |-> <<>>, done |-> <<>>, held |-> {}])]
  /\ UNCHANGED db

End(x) == tx' = [tx EXCEPT ![x] = NoTx]

Read(x) ==
  /\ tx[x] # NoTx /\ tx[x].reads # <<>>
  /\ LET t == tx[x]
         read == Head(t.reads)
     IN IF Refused(t, read) THEN End(x)
        ELSE tx' = [tx EXCEPT ![x] = Planned(
               [t EXCEPT !.reads = Following(t, read),
                         !.was = IF read = "user"
                                 THEN [home |-> db.home[t.req.user], role |-> db.role[t.req.user]]
                                 ELSE @,
                         !.leader = IF read = "team" THEN db.leader[t.req.team] ELSE @])]
  /\ UNCHANGED db

Writing(x) == tx[x] # NoTx /\ tx[x].reads = <<>>

\* One statement, once no other transaction locks its rows.  A membership that
\* is there already, or not there, is an error for the membership requests.
Write(x) ==
  /\ Writing(x) /\ tx[x].todo # <<>>
  /\ LET t == tx[x]
         s == Head(t.todo)
         d == View(t)
     IN IF Hits(d, s)
        THEN /\ Free(x, Locks(d, s))
             /\ IF Violates(d, s) THEN End(x)
                ELSE tx' = [tx EXCEPT ![x] =
                       [t EXCEPT !.todo = Tail(@), !.done = Append(@, s),
                                 !.held = @ \cup Locks(d, s)]]
        ELSE IF t.req.op \in {"add_membership", "remove_membership"} THEN End(x)
             ELSE tx' = [tx EXCEPT ![x].todo = Tail(@)]
  /\ UNCHANGED db

\* trg_users_team_leader_consistency: rows that this transaction made leaders
TriggerHolds(d, t) ==
  \A i \in DOMAIN t.done :
    t.done[i].do = "set_role" /\ t.done[i].role = Leader =>
      LET u == t.done[i].user IN d.home[u] # NoTeam /\ d.leader[d.home[u]] = u

\* Mutant: users.team_id refers to no table.
NewHomesUnchecked(t) == {}

\* the teams that fk_users_team_id, deferred, looks up
NewHomes(t) ==
  {t.done[i].team : i \in {k \in DOMAIN t.done : t.done[k].do \in {"insert_user", "rehome"}}}

Commit(x) ==
  /\ Writing(x) /\ tx[x].todo = <<>>
  /\ LET t == tx[x]
         d == View(t)
     IN /\ Free(x, {Lock(<<"team", h>>, "share") : h \in NewHomes(t)})
        /\ db' = IF NewHomes(t) \subseteq d.teams /\ TriggerHolds(d, t) THEN d ELSE db
  /\ End(x)

\* A deadlock's victim, a lost connection, a process that dies: rolled back.
Rollback(x) ==
  /\ tx[x] # NoTx
  /\ End(x)
  /\ UNCHANGED db

Next ==
  \E x \in Slots :
    \/ \E r \in Requests : Begin(x, r)
    \/ Read(x) \/ Write(x) \/ Commit(x) \/ Rollback(x)

Spec == Init /\ [][Next]_vars
-----------------------------------------------------------------------------
(* Properties *)

\* The tables keep to their types and roles, and a transaction to its request.
TypeOK ==
  /\ db \in Tables
  /\ \A x \in Slots : tx[x] # NoTx =>
       /\ tx[x].req \in Requests
       /\ tx[x].was \in [home: Teams \cup {NoTeam}, role: {Leader, Member}]
       /\ tx[x].leader \in Users \cup {NoUser}
       /\ ToSet(tx[x].todo \o tx[x].done) \subseteq Statement

Roster == INSTANCE TeamRoster WITH
  teams <- db.teams, leader <- db.leader, home <- db.home, role <- db.role,
  memberships <- db.memberships

\* Requests that overlap, but concern different users and teams (Apart), act like
\* the single steps of TeamRoster, one after the other, although each reads first,
\* without locks, and writes later.
ImplementsRoster == Roster!Spec

\* What the leader trigger is for (docs/04): whoever has the leader's role is
\* the leader of his home team.
LeaderRoleBacked ==
  \A u \in Accounts(db) : db.role[u] = Leader => db.leader[db.home[u]] = u

\* What the keys save even when requests race: homes, leaders and memberships
\* refer to rows that exist, and nobody leads two teams.
NothingDangles ==
  /\ \A u \in Accounts(db) : db.home[u] \in db.teams
  /\ \A t \in db.teams : db.leader[t] # NoUser => db.leader[t] \in Accounts(db)
  /\ \A m \in db.memberships : m[1] \in Accounts(db) /\ m[2] \in db.teams
  /\ \A t1, t2 \in db.teams :
       t1 # t2 /\ db.leader[t1] # NoUser => db.leader[t1] # db.leader[t2]
=============================================================================
