# Verification of the SMS aggregator

TLA+ specifications of the SMS aggregator (FastAPI, PostgreSQL, Redis, Twilio, Telegram), the TLC configurations
that check them on small instances, and TLAPS proofs of what matters for every instance. Paths such as
`services.py:187` are relative to the application's sources (`app/application/services.py` and so on).

## 1. The system

One process (gunicorn with one asyncio worker) serves HTTP and runs a background task. Every `await` is a point where
any other coroutine may run; PostgreSQL transactions are READ COMMITTED and take no explicit locks; Redis commands are
single steps. Twilio posts inbound SMS (and posts again when it gets no 2xx), Telegram receives them.

| Part | State | Operations | Hard parts | What makes it correct |
|---|---|---|---|---|
| SMS pipeline (`services.py`, `routers/webhooks.py`) | `inbound_sms`, `deliveries` | save and fan out an SMS, send, record the outcome | overlapping posts of one SID, crash in the fan-out, team or user deleted under it | one row per chat, a 200 means all recipients have a row, only entitled chats |
| Retry worker (`workers.py`) | the batch in memory | fetch open rows, re-check the link, send, record | works on rows a webhook still works on; head-of-line blocking | every row is worked off, attempts are bounded |
| Users (`admin_service.py`) | `users`, `user_teams` | create, move, delete, reset, memberships | read-then-write over many statements | role, home team, leader and `user_teams` agree |
| Teams (`teams_service.py`) | `teams` | create, rename, delete, set leader, first member leads | the same, with a deferred trigger and foreign keys | a team with home members has exactly one leader, at home in it |
| Sessions (`sessions.py`) | Redis keys per session, a set per user | create, get, touch, revoke, revoke all | several Redis commands per operation, requests that use what is being revoked | a revoked session stays revoked, the set finds every session |
| Login (`auth_service.py`) | failure counter, lockout, setup sessions | look up, log in, set the password, log out | Redis and the database in one operation, a reset meanwhile | guesses are bounded, a reset ends the old password |
| Telegram SSO and links (`telegram_sso_service.py`) | `telegram_links`, pending tokens | link, re-bind, heal, unlink, sign in | count then insert; a 403 marks a link dead later; resets between the steps | a link and a session come from a password entered in that chat, live links stay near the cap |
| Sticky logout (`cookies.py`, `tg.js`) | a cookie | log out, suppress auto sign-in | answers in flight | no sign-in after a logout without a click |
| Numbers (`numbers.py`, `admin_numbers.py`, `twilio_sync_service.py`) | `phone_numbers` | create, label, assign, delete, sync | check and write in two transactions | a sync loses no number and overwrites no assignment; a member edits what is his |
| Messages (`messages_service.py`, `cursor.py`, `messages.js`) | none; in the browser, the rows shown and the cursor | keyset pages in the scope of a user | inserts, late commits and moved numbers between pages, lost answers | no message skipped or shown twice, none out of reach |
| Rate limit (`rate_limit.py`) | counters in Redis | consume | | not modelled (section 5) |
| Stateless parts | none | signatures, initData, CSRF, method override, templates | | not modelled (section 5) |

How they meet: the pipeline reads what the administrative and SSO services write (`user_teams`, `telegram_links`,
`phone_numbers`, `teams`) and writes one thing back, the death of a link after a 403. The webhook and the worker share
only `deliveries`. The administrative services revoke sessions in Redis inside their database transactions, before the
router commits: what may happen between the two is the subject of `RosterSessions` for changes of roles, teams and
memberships, and of `Sessions` and `SignOn` for resets and deletions.

## 2. Modules

| Module | What it is |
|---|---|
| `SmsPipeline` | webhook requests, retry worker, failures, and what the other services do to the tables they read |
| `Outbox` | the abstract promise of the `deliveries` table, which `SmsPipeline` implements |
| `MCSmsPipeline` | instance for TLC: two users with a chat each, in team `t1`; an empty team `t2` |
| `SmsPipelineProofs` | its inductive invariant and theorems |
| `OutboxProofs` | that `SmsPipeline` implements `Outbox` |
| `CopiesProofs` | how many copies of an SMS a chat can get |
| `TeamRoster` | users, teams, leaders and memberships; one action per administrative request |
| `RosterSessions` | the sessions that these requests revoke, before they commit or roll back; extends `TeamRoster` |
| `MCRosterSessions` | instance for TLC: three users, three teams |
| `TeamRosterProofs` | inductive invariants and theorems of both |
| `TeamRosterTx` | the same requests as transactions, statement by statement; implements `TeamRoster` |
| `MCTeamRosterTx` | instance for TLC: two or three users, two or three teams, two transactions |
| `TeamRosterTxProofs` | its inductive invariant and theorems on types and keys |
| `Sessions` | sign-in, lockout, set-up, logout and revocation for one account, Redis command by command |
| `MCSessions` | instance for TLC: two requests, two session tokens, one set-up token |
| `SessionsProofs` | its inductive invariant and theorems |
| `SignOn` | Telegram links, the Mini App's sign-in and sticky logout, resets, 403s |
| `MCSignOn` | instance for TLC: two users, two chats with a Mini App and one without |
| `SignOnProofs` | its inductive invariant and theorems |
| `Numbers` | `phone_numbers`: the members' and administrators' requests, the Twilio sync, the scope of a request |
| `MessageList` | the list of SMS, page by page, on top of `Numbers` |
| `MCMessageList` | instance for TLC: two phones, two teams, a member and an administrator, three SMS |
| `MessageListProofs` | inductive invariant and theorems of both |

`SmsPipeline` changes the roster in its own, freer way (anyone may be deleted at any time), so it does not depend on
`TeamRoster`; what the two share are the tables `users`, `teams` and `user_teams`. `Sessions`, `SignOn` and `Numbers`
likewise hold only as much of the roster as their code reads. `MessageList` extends `Numbers`: who may see an SMS is
decided by where its number is now.

### SmsPipeline against the code

Each database transaction, and each call of Telegram, is one action; between two of them any actor may step.

| Variable | Code |
|---|---|
| `users`, `teams`, `members`, `numberTeam`, `links`, `live` | `users`, `teams`, `user_teams`, `phone_numbers.team_id`, `telegram_links` (owner; `dead_at IS NULL`) |
| `sms`, `rows`, `nextId` | `inbound_sms.team_id` per SID, `deliveries` by primary key and its sequence |
| `pc`, `req`, `job`, `outcome`, `batch` | the coroutines' locals: `handle_incoming_sms`, `_deliver`, `deliver_sms_to_recipient`, `retry_pending_deliveries` |
| `copies`, `promised`, `purged`, `routed`, `entitled` | history the properties speak of; no action reads it |
| `posts`, `faults`, `churn` | counters that bound the instance |

| Action | Transaction or call |
|---|---|
| `HookArrive` | first part of the transaction at `services.py:109`: `find_by_sid`, the number's team |
| `HookInsert` | INSERT into `inbound_sms` and commit, or IntegrityError (SID taken; team deleted) |
| `HookReread` | the second look after an IntegrityError, else HTTP 500 |
| `HookSnapshot` | the recipients, once; a message of no team, or with no recipient, is answered |
| `HookReserve` | `try_reserve` of one recipient, in any order: skipped, reserved, or a foreign key error |
| `Send`, `Mark` | `send_message` and the commit of its outcome |
| `HookAnswer` | the 200 |
| `WorkerScan`, `WorkerCheck`, `WorkerSleep` | `pending(...)`, the link check of one row, the end of the batch |
| `Crash`, `Abort` | the process dies and is restarted; one coroutine gets an unexpected exception |
| `AddMembership` ... `DeleteTeam` | one committed change of the roster by another service |

`HookArrive` and `HookInsert` split the first transaction in two because another request may commit between its SELECT
and its INSERT. The mark_* updates have no condition on the status, and neither has `SetStatus`. A `Mark` on a row that
went with its user changes nothing, as the UPDATE does.

Left out: posts without a MessageSid (saved anew each time), bodies of more than one Telegram message, audit entries,
the checks that protect users and teams from deletion (here anyone may be deleted, which is more than the code allows).

### TeamRoster against the code

One action is one request that succeeds; a refused one changes nothing. `teams` and `leader` are the rows of `teams` and
their `leader_user_id`; `home` and `role` are `users.team_id` and `users.role` (`NoTeam`: no such account);
`memberships` is `user_teams`.

| Action | Code |
|---|---|
| `CreateTeam`, `DeleteTeam`, `SetLeader` | `TeamsService.create`, `delete` (with the cascade into `user_teams`), `set_leader` |
| `CreateUser`, `DeleteUser` | `AdminService.create_user` (home and extra memberships, `set_leader_if_absent`), `delete_user` |
| `MoveTeam` | `AdminService.update_user` with a `team_id` (`_move_team`) |
| `AddMembership`, `RemoveMembership` | the services of the same names |

The trigger, the unique and foreign keys and the CHECK of role and team are absent: the invariants imply them, so that
the services alone keep what the schema defends. A deleted user's id may come back in the model, which is harmless
(nothing of him is left).

### RosterSessions against the code

The services call `revoke_all_for_user` inside `async with db.begin()` of the router: the sessions are gone from Redis
at once, the tables change for everybody else with the COMMIT, and an exception in between rolls back the tables only.
A request that revokes therefore takes two steps, and the users' requests run at any moment.

| Variable | Code |
|---|---|
| `sessions` | what `SessionData` caches, for every `session:{token}`; two sessions with the same content are one |
| `held` | what a coroutine has read and not stored yet: the user's row in a sign-in, the session in a `touch` |
| `open` | the administrator's request that has revoked and not committed |

| Action | Code |
|---|---|
| `Revoke` | a request of `TeamRoster` up to its last `revoke_all_for_user`; its guards are that request's |
| `Commit`, `Rollback` | the end of `db.begin()`: the action of `TeamRoster` with the same name, or nothing |
| `Creates` | `CreateTeam`, `CreateUser`, which revoke nothing |
| `ReadsUser`, `ReadsSession` | a sign-in reads its user; the middleware's `get` |
| `Stores` | `SessionStore.create` or `touch`, whether or not the user or the session is still there |
| `GivesUp`, `SessionEnds` | a sign-in that fails; a logout or an expiry |

The field `raced` of a session is history: it was stored while a request that revokes its user's sessions was open, or
had been read before the COMMIT of one and was stored after it. A sign-in that updates the user's row waits for a transaction
that has updated the same row; a sign-in from Telegram (`telegram_auth`) commits its own update before it stores the
session, and the revocation may precede the row's update, so `Stores` never waits. `revoke_all_for_user` of one user is
one step here; its single commands are in `Sessions`. Administrative requests follow one another: for requests that
overlap each other see `TeamRosterTx`, which has no sessions. That a membership added while a team is being deleted is
not in the list of members whose sessions `delete` revokes is therefore not covered.

### TeamRosterTx against the code

`db` is what is committed, `tx[x]` the transaction of slot `x`: its request, the reads still to come, what it has read
(`was`, `leader`), the writes still to come and done, and the row locks it holds.

| Definition | Code |
|---|---|
| `Begin`, `Commit` | `async with db.begin()` in `routers/admin.py` |
| `Read`, `Reads`, `Following`, `Refused` | the SELECTs of a service in their order, and its early returns |
| `Plan`, `Joins`, `Leaves` | its writes in their order; `Joins` is `set_leader_if_absent`, which decides on the copy of the team in the session's identity map, not on a new read |
| `InsertTeam` ... `RemoveMember`, `Apply` | the writes of the repositories, with ON DELETE CASCADE |
| `Hits` | UPDATE and DELETE without a row, ON CONFLICT DO NOTHING |
| `Violates` | constraints checked at once: `fk_teams_leader_user_id` (RESTRICT), `uq_teams_leader_user_id`, the keys of `user_teams`, and SET NULL against `ck_users_role_team_invariant` |
| `NewHomes`, `TriggerHolds` | what is deferred to COMMIT: `fk_users_team_id` and the leader trigger |
| `Locks`, `Conflict`, `Free` | row locks: FOR KEY SHARE for a foreign key, NO KEY UPDATE, FOR UPDATE for a DELETE, waiting on a unique key |
| `Rollback` | an error of any other kind (a taken name, a deadlock's victim, a lost connection, a crash) |

PostgreSQL itself is external to the sources and modelled as its documentation describes READ COMMITTED. Left out:
sessions and audit entries; of several extra teams in `create_user` one is kept. Ids come from sequences: a new one is
one that neither the tables nor a transaction refer to.

### Sessions against the code

One account; accounts share none of this state. A step is one Redis command (the DELs of a pipeline together) or one SQL
statement.

| Variable | Code |
|---|---|
| `account`, `draft`, `holder` | the committed row of `users`, the row as an open transaction leaves it, whose transaction has locked it |
| `keys`, `index`, `setups` | `session:{token}`, `user_sessions:{id}`, `setup_session:{token}` |
| `past` | tokens beyond `SESSION_ABSOLUTE_TTL_SECONDS` |
| `given` | tokens whose cookie has left the server |
| `pc`, `kind`, `tok`, `seen`, `batch` | the handlers' locals: step, operation, token, the password read, the result of SMEMBERS or the set-up token |
| `resets`, `era`, `revoked`, `raced` | history; `raced` collects tokens a request was using while another one revoked them |

| Action | Code |
|---|---|
| `LookupForLogin`, `Login`, `Offer` | the two steps of the form, `AuthService.login` up to its first write; a set-up session |
| `RecordFailure`, `RecordSuccess` | the UPDATEs of the counter; the rehash of the password just verified |
| `StoreSession`, `IndexSession`, `Commit` | `SessionStore.create` and the end of the transaction, in this order |
| `SetupGet` ... `SetupRevoke` | `complete_set_password` |
| `OpenPage`, `Touch`, `CurrentUser` | the middleware's `get` and `touch`; `current_user` |
| `Logout`, `RevokeGet`, `RevokeDel`, `RevokeSrem` | `POST /logout`, `SessionStore.revoke` |
| `Reset`, `ResetPassword`, `Smembers`, `DelKeys`, `DelIndex`, `DeleteUser` | `reset_password`, `delete_user`, `revoke_all_for_user` |
| `SessionExpires` ... `LockoutLapses`, `Abort` | lifetimes; an exception or the end of the process |

A password is known by when it was chosen and by whose token: only equality and age matter. `get` of a session past its
absolute lifetime calls `revoke`, which calls `get` again; neither deletes anything before the key expires or Python's
recursion limit raises, and both leave the request without a session and the state unchanged (`Get`, `RevokeGet`).
The code draws a token in `create`; the model reserves it when the request begins, which nothing observes.

### SignOn against the code

A chat is a Telegram account with the WebView of its Mini App: one set of cookies, one page, at most one form and one
fetch under way. Two such requests per chat are what the race of a logout with an automatic sign-in needs.

| Variable | Code |
|---|---|
| `users`, `linked`, `dead` | ids of `users`; `telegram_links` by `telegram_user_id`; `dead_at` |
| `owner`, `pending` | the user of `session:{token}`; `tg_pending:{token}` |
| `session`, `ticket`, `marked` | cookies `sms_session`, `sms_tg_pending`, `sms_logged_out` |
| `page`, `heard` | the page shown; whether its script still waits for the fetch's answer |
| `at`, `who`, `sess`, `tick`, `had` | a request: step, user, the cookies it carries or has obtained |
| `resetting`, `blocked`, `sending` | a reset or deletion under way; chats that block the bot; 403s not recorded yet |
| `proved`, `spoilt`, `gone`, `crossed`, `since`, `stale`, `unchecked` | history the properties speak of |

| Action | Code |
|---|---|
| `Load`, `PostInitData`, `ClickSignIn` | `tg.js`: the automatic sign-in unless the marker is set, and the button that clears it |
| `SubmitPassword` ... `Open` | `login_password_submit`; `Open` is `record_login_success` and `SessionStore.create`, also for the Mini App |
| `Resolve`, `LinkedUser`, `CreatePending` | `telegram_auth`: a live session heals, the marker refuses, a link signs in, else a pending token |
| `ConsumePending`, `FindLink`, `CountLinks`, `Upsert` | `TelegramSSOService._link`; at `insert` the links have been counted, at `upsert` the chat is re-bound or healed without a count |
| `FormAnswer`, `FetchAnswer` | the answers with their cookies; one that the page no longer waits for sets none |
| `RevokeSessions`, `RevokeLinks` | `reset_password` and `delete_user`: sessions first, links with the commit |
| `Send`, `MarkDead` | `deliver_sms_to_recipient` meeting a 403, and the transaction that records it |

`Open` waits while a reset holds the user's row (`record_login_success` updates it); a deletion locks it only with its
last statement, so `Open` may slip in. The middleware's read of the session and `telegram_auth`'s look at the link are one
step (`Resolve`): the two reads of the code lie in one request with nothing written between them.

### Numbers and MessageList against the code

Every request of `Numbers` is `Begin` (`current_scope`), a transaction that checks and one that writes:

| Action | Code |
|---|---|
| `CheckCreate`, `Insert` | `create_number`; the unique index and the foreign key answer what the check has missed |
| `FindNumber`, `SetLabel`, `DeleteNumber` | `update_number`, `delete_number` |
| `FindAssigned`, `SetTeam` | `assign_number_team` |
| `ListAccount`, `TwilioFails`, `BulkUpsert` | `sync_twilio_numbers_to_pool`: the listing in a thread, the insert that leaves known numbers alone |
| `DeleteTeam`, `ChangeTeams` | the roster under the requests; whoever is affected is signed out between two pages, but for a session stored before the COMMIT |
| `Receive` | `SmsRepository.create` and its commit; ids and times in any order |
| `OpenList`, `VisibleNumbers`, `ListInbound`, `ShowPage`, `ClickMore`, `LosePage` | the list of `messages_service.py` and `messages.js` |

`within`, `reach`, `due` and `owed` are history: what a request's user has been able to reach since it began, what a
synchronisation owes to the pool, what a list owes to its reader. `Watch` and `Relist` maintain them in every step. The
two reads of `CheckCreate` (team, number) are one step, for neither is trusted: the write asks the constraints again. A
cursor is the SMS it encodes. Ids of rows are used again only when no request means them, as a sequence never repeats one.

## 3. Runs

| Run | Question | Answer |
|---|---|---|
| `sms_delivery` | A request that is posted again, the worker, Telegram errors, one crash or exception: are copies and attempts bounded, and is everything worked off? | `SentWasDelivered`, `AttemptsBounded`, `CopiesAccounted` hold; `RowsSettle`, `RequestsEnd` hold under `FairSpec` |
| `sms_roster` | Two overlapping requests for one SID and the worker while the roster changes under them: who gets an SMS, and is what a 200 promises kept? | `TypeOK`, `WebhooksExclusive`, `PromiseKept`, `OnlyEntitledChats` hold; `SmsPipeline` implements `Outbox` |
| `sms_duplicate` | Is every SMS delivered at most once per chat, as ADR-0005 says? | No: see below |
| `roster` | Do roles, leaders, homes and memberships agree after any sequence of requests, and sessions with them, though they are revoked before the COMMIT? | `SessionsTypeOK`, `LeadersAgree`, `TeamsLed`, `HomeMirrored`, `NeverStuck`, `SessionsCurrent` and `ScopeChangeRevokes` hold |
| `roster_tx` | Do transactions on different users and teams behave like those requests when they overlap? | `TeamRosterTx` implements `TeamRoster` |
| `roster_keys` | What survives when they concern the same users and teams? | `TypeOK`, `NothingDangles` hold |
| `roster_race` | Does the leader trigger keep its promise then? | No: see below |
| `sessions` | Two requests of any kind on one account, with a crash: do logouts, resets, deletions and the lockout keep what they promise? | `TypeOK`, `RevocationsHold`, `SessionsIndexed`, `ResetSticks`, `GuessesBounded` hold |
| `sessions_race` | Is no session from before a reset left once everything is quiet? | No: see below |
| `lockout_lapse` | Does a lockout that runs out reset the counter, as docs/08 and docs/04 say? | No: see below |
| `links` | Two Mini Apps with a form and a fetch each, a linked chat besides, a reset or deletion, a 403: where do links and sessions come from, does a logout stick, and by how much can the cap be exceeded? | `TypeOK`, `LinksProven`, `SessionsProven`, `StickyLogout`, `LinksBounded`, `DeadForAReason` hold |
| `inbox` | Two requests on the numbers, or a list read in pages, while everything changes: is nothing lost, taken away, skipped, repeated or shown to the wrong team? | `TypeOK`, `SyncComplete`, `OnlyReachable`, `PagesRight`, `AssignmentsKept` hold |

### The SMS pipeline

**Bounds.** One SID: SMS of different SIDs share no row and only queue for the worker. Two posts of it in two slots
(`sms_roster`) are the shortest overlap; in `sms_delivery` one slot serves both, the second post being Twilio's retry.
Two recipients make an order of fan-out and a partly finished one. `MaxAttempts = 2` in `sms_delivery` lets a row fail,
be fetched again and be overshot by the request that is still sending; `sms_roster` uses 1, for attempts play no part in
it. `BatchLimit = 1` with two rows is the case in which the worker leaves rows behind. One fault (`sms_delivery`) or one
roster change (`sms_roster`), at any moment: the properties compare a state before with a state after it. Both at once,
and faults with overlapping posts, are covered by the proofs of the safety properties, which lift every bound.

**Symmetry** (`sms_roster` only): the request slots, and the two users together with their chats; `InitMembers` and
`InitLinks` are unchanged when both are swapped at once.

**Deadlock** is not checked: an idle system with no post left stops, and so it should.

**Fairness** is weak and only on the steps of a request under way and of the worker: every await returns (the Telegram
client has a timeout of 30 s, the database driver raises), the event loop serves every ready task, and
`delivery_retry_loop` catches every exception of an iteration. Posts, failures and roster changes need not happen.

**The finding.** ADR-0005 (Decision 4) says that each chat gets at most one copy, and docs/03-architecture.md that both
paths, webhook and worker, "are idempotent and create no duplicates". The code commits the row as `pending` and then
sends. A worker that scans in between fetches that row, as it should after a crash, but nothing tells the two cases
apart: both send. `AtMostOneCopy` fails in `sms_duplicate` with no failure at all. What does hold is
`CopiesAccounted`: never more copies than recorded attempts, sends not committed yet, and two per failure.

### The roster

**Bounds.** `roster`: three teams let a user move between two and be an extra member of a third; with three users a team
can have a leader, another home member and an extra member. One session in Redis and one about to be stored suffice:
what becomes of a session depends on the tables and on the request that is open, never on another session, and the
properties speak of each session alone. `roster_tx`: three teams and three
users, so that a move (two teams) overlaps with a request on the third. `roster_keys`: two users and two teams; its
property compares pairs of rows, and two transactions suffice for a lost check. `roster_race`: the shortest race.
All these runs treat users, teams and slots as interchangeable: nothing in the modules distinguishes them. Deadlock is
checked; two transactions that wait for each other are resolved by `Rollback`, as PostgreSQL does.

**Apart.** In `roster_tx` two overlapping requests concern different users and teams (`Footprint`); without this the
services do not refine `TeamRoster`, because each reads first and writes later with no `FOR UPDATE`. With `Apart = FALSE`
only the keys are left, and they suffice for `NothingDangles`: no reference to a missing row, no one leading two teams.

**The finding.** docs/04-data-model.md says that the trigger guarantees, for every `group_leader`, a team that he leads.
Two requests that each add the first member to the same team both read `leader_user_id IS NULL`; the second waits for
the first one's row lock on `teams`, then overwrites the leader. At each COMMIT the trigger looks at that transaction's
own user and is content; it does not fire when `teams` is updated. `LeaderRoleBacked` fails in `roster_race`: the first
user keeps the role of a leader without being one. Other requests that race in the same way: `set_leader` with a
move of the candidate, `remove_membership` with a move to that team.

### Sessions

**Bounds.** Two requests are the shortest overlap of a user of a session with its revocation, and every property compares
one token with one revocation. Two tokens: one from before a reset, one from after it. `Threshold = 2` tells one failure
from two; one lockout that runs out lets every request guess again. One reset or deletion, one crash. `lockout_lapse` needs
neither: one request and one lockout that runs out.
Requests, tokens and set-up tokens are interchangeable. The proofs lift all of these bounds.

**The exception.** `raced` names the tokens that were being used, or created, while another request revoked them:
`touch` writes back a session it has read before, `revoke_all_for_user` deletes a set it has read before, a sign-in
rehashes a password it has read before. `RevocationsHold`, `SessionsIndexed` and `ResetSticks` say that nothing else can
bring a revoked session or an old password back.

**Guesses.** The lockout is tested before the password is verified and the failure is counted after it, so that requests
that guess at the same time overshoot the threshold together. `GuessesBounded` says by how much: by one failure for each
of them, and as many again for each lockout that runs out.

**The finding on lockouts.** docs/08-security.md:46 says that success or the expiry of the lockout resets
`failed_login_attempts`, and docs/04-data-model.md:142 the same. The code resets it only on success (and on an
administrator's reset): after an expiry the counter still stands at the threshold, and the next wrong password locks the
account again at once. `LapseResetsCounter` fails in `lockout_lapse`. `GuessesBounded` holds of the code as it is and
would hold with the documented reset.

**The finding on resets.** docs/08-security.md:117 says that the administrator's reset revokes all sessions. The reset
revokes in Redis before its transaction commits; a sign-in that verified the old password in between stores its session after
that. `ResetEndsSessions` fails in `sessions_race`: with nothing under way any more a session from before the reset is
usable. The same holds of `touch` during the revocation.

### Telegram links

**Bounds.** Two chats may open the Mini App, with a form and a fetch each and two requests under way; a third only holds
a link, which is what the cap (`MaxLinks = 1`) and a re-binding need. Two session tokens (the old one and the next), one
pending token. The run is the union of two parts (`Parts` in `MCSignOn`): either one Mini App is ever opened, and there
is one reset, deletion or blocking; or both are, for one user and without those. The first has every race of one chat's
requests with each other and with an administrator, the second the sign-ins that count the same user's links at the same
time: there the cap is exceeded by one, which `LinksBounded` permits, and never by two. Session and pending tokens nobody
holds are forgotten (`Forget`), so that they can stand for new ones. The proofs lift all bounds and have no parts.

**The exceptions.** Each is a race of the code that the property names and no more: `spoilt`, a request for a user that
overlaps a reset of that user (a heal reads the session first and links later); `stale`, a link made while an earlier
403 of the chat was being recorded; `crossed`, a fetch that was sent before the logout was answered, and so without the
marker, and whose answer comes after it. ADR-0011 calls its double protection robust to races ("устойчива к гонкам"),
which this one contradicts: the server refuses only what carries the marker, and this fetch does not. `StickyLogout` says
that everything else is stopped. `LinksBounded` leaves out only `unchecked` links, which the code does not count at all:
a chat that is re-bound to another user, or a dead link that is revived.

### Numbers and messages

**Bounds.** Two phones and two teams let a number move to another team or be taken by another request; three ids allow a
row to be deleted and added again; two requests overlap. Three SMS, two instants and pages of one: a tie in time, an SMS
before and one after the cursor. One change of teams, memberships or assignments while a list is read. To keep the
instance finite in time, TLC reads one list at a time and the requests of `Numbers` run before SMS arrive; while a list
is read the assignments change by `Moved`, which is any such request's effect. The number of requests that run at once
is not limited in the proofs, but this separation is part of the specification.

**What a list owes** (`owed`): the SMS there when it was opened that its reader could see at every moment since. An SMS
whose number left his teams in between is not owed, and neither is any SMS of a list whose reader's memberships changed;
if he can go on reading all the same (his session was stored before the COMMIT), the order of the pages is still right.

**Deadlock** is not checked in these three: with the bounds used up nothing more needs to happen. **Fairness** is not
assumed: all their properties are safety properties.

## 4. Proofs

### SmsPipeline

`SmsPipelineProofs` proves, for all constants that satisfy the three assumptions of `SmsPipeline` (distinct sentinels,
bounds in Nat, well-typed initial tables; no finiteness of users, chats, teams or requests):

| Theorem | Property |
|---|---|
| `TypeCorrect` | `TypeOK` |
| `Exclusive` | `WebhooksExclusive` |
| `SentIsDelivered` | `SentWasDelivered` |
| `PromiseIsKept` | `PromiseKept` |
| `EntitledOnly` | `OnlyEntitledChats` |
| `AttemptsAreBounded` | `AttemptsBounded` |

All six follow from one inductive invariant `IInv` (theorem `Inductive`), since none is inductive alone:

- `Shape`: which locals an actor holds at which label, e.g. a request that delivers has a job of its own SID. Without
  it `Mark` could write to any row.
- `JobsKnown`: a job, also one in the worker's batch, names a row id below `nextId`, and while the row exists its SID
  and chat. Ids are never reused, so a stale job cannot hit another row.
- `SentInv`: an actor that is about to record `ok` has delivered; with `JobsKnown` this gives `SentWasDelivered`.
- `PromiseInv`: a request in its fan-out has covered every recipient of its snapshot that is not on the list any more,
  by a row or by a row lost with its user. When the list is empty, that is the promise.
- `Routing` and `EntitledInv`: an SMS keeps the team it was saved for until that team is deleted, and whoever is on a
  request's list, in a row or in a job was entitled through that team.
- `AttemptsInv`: attempts, plus one if a request holds the row, plus one if the worker holds it, never exceed
  `MaxAttempts + 1`. The worker takes only rows below `MaxAttempts`, and a request only a row it has just inserted; a
  row still in the batch is accounted for like one in hand.

The proof has one lemma per part and, in each, one step per action. Two more theorems rest on `IInv`:

| Theorem | Property |
|---|---|
| `OutboxProofs!PipelineIsOutbox` | `ImplementsOutbox` |
| `CopiesProofs!CopiesAreAccounted` | `CopiesAccounted` |

- The refinement. The mapping picks a pair's row with CHOOSE; one row per pair (`WebhooksExclusive`) makes it *the* row,
  and the proof speaks of what the table shows of a pair (`Shows`) from there on. `HookReserve` is `Reserve`, `Send` is
  `Transmit` of a pair that `JobsKnown` says is reserved, `Mark` is `Record` (`SentInv` gives its guard) or, if the row
  went with its user, a stutter, `DeleteUser` is `Discard`, and everything else changes nothing that `Outbox` sees.
- The copies. `CopiesInv` adds to `IInv` that a copy was sent only for a reserved pair, that the row of a job is there
  or was purged, and the sum itself, with the senders in flight as two shares of 0 or 1: a request's and the worker's.
  A commit moves a share to the attempts; a failure may drop both, which is why it counts for two.

The liveness properties are only model-checked (fairness is out of the prover's reach).

### TeamRoster and RosterSessions

`TeamRosterProofs` proves every property of the run `roster` for any sets of users and teams, finite or not, and any
bounds; the only assumptions are that `NoUser` and `NoTeam` are no ids and `NoRequest` is no request.

| Theorem | Specification | Property |
|---|---|---|
| `TypeCorrect` | `Spec` (`TeamRoster`) | `TypeOK` |
| `LeadersAlwaysAgree` | `Spec` | `LeadersAgree` |
| `TeamsAlwaysLed` | `Spec` | `TeamsLed` |
| `HomesMirrored` | `Spec` | `HomeMirrored` |
| `TeamsNeverStuck` | `Spec` | `NeverStuck` |
| `RosterImplemented` | `SessionsSpec` (`RosterSessions`) | `Spec`, so that all of the above hold of it |
| `SessionsTypeCorrect` | `SessionsSpec` | `SessionsTypeOK` |
| `SessionsStayCurrent` | `SessionsSpec` | `SessionsCurrent` |
| `ScopeChangesRevoke` | `SessionsSpec` | `ScopeChangeRevokes` |

Of the tables the conjunction of `TypeOK`, `LeadersAgree`, `TeamsLed` and `HomeMirrored` is inductive (`Inductive`); only
together are they. The guard of a leader's departure reads the role (`MayLeave`), the leader it clears is found through
the home team (`LeftBy`): that no team with members is left without a leader needs `LeadersAgree`. There is one lemma per
request with one step per conjunct. `NeverStuck` follows from `LeadersAgree`: if everyone at home in a team is a leader
who may not leave, each of them is the team's leader, hence they are one, hence he may leave.

Of the sessions the invariant `SInv` (theorem `SessionsInductive`) adds that what a coroutine is about to store is as
true as what is stored (`HeldCurrent`), and that while a request is open its users have only sessions stored since
(`RevokedWhileOpen`). Why no revocation is missing is `OthersUnchanged`: a COMMIT changes role, home and teams only of
users whose sessions its request has revoked. That `set_leader` revokes two users' sessions is enough only because the
previous leader is at home in that team, and that `delete` revokes those of `user_teams` because everybody's home is
mirrored there. `ScopeChangeRevokes` uses the invariant also for a new user, who has no session yet.

### TeamRosterTx

`TeamRosterTxProofs` proves what the run `roster_keys` checks, for any sets of users, teams and slots and with or
without `Apart`; again the only assumption is that the sentinels are no ids (and that `Apart` is a Boolean).

| Theorem | Property |
|---|---|
| `TypeCorrect` | `TypeOK` |
| `ReferencesHold` | `NothingDangles` |

`NothingDangles` speaks of the committed tables, but what a COMMIT makes of them was decided statement by statement, on
tables that others have changed since. The inductive invariant `IInv` (theorem `Invariance`; TLC has checked it on the
instance of `roster_keys`) therefore says of every open transaction (`TxOK`):

- `Known`: what its reads have established, as far as the writes rest on it.
- `Shape`: its statements, those to come and those done, do not contradict each other, e.g. nothing is done to a team
  but its deletion, and no membership is both added and removed. For a move this needs that the new team is not the old
  one, which `_move_team` checks.
- `Secured`: it holds the locks for what its statements refer to, and no two transactions hold conflicting ones.
- `Keys`: the tables as it sees them satisfy the keys, but for the homes (`Homes`) that the deferred foreign key has
  still to look up.

The tables as a transaction sees them are a fold (`FoldLeft`) of its statements over what is committed. `Stages` unrolls
it, by an induction over a set of naturals (`Least`, from the library's theorem on well-founded relations), and `FoldSince`
says what all stages after some statement have in common. From it `HomeRows`, `TeamRows`, `LeaderRows` and `MemberRows`
tell, for each kind of row, what a sequence of `Shape` makes of it in terms of the *set* of its statements. The heart is
`Merge`: if one transaction commits while another has written, then folding the second one's statements over the new
tables still gives tables with the keys. Of each reference it asks which of the two wrote either end; every bad
combination is a pair of statements that `Compatible` excludes, and `LocksKeepApart` derives `Compatible` from the locks.
The one case the statements' own locks do not cover, a new home in a team that the other one deletes, is covered by the
lock with which COMMIT looks the home up.

Only model-checked: that `TeamRosterTx` with `Apart` implements `TeamRoster`. Row by row it would take the exact outcome
of each of the eight plans, where the lemmas above give bounds on it.

### Sessions

`SessionsProofs` proves, for any sets of tokens and set-up tokens, any finite set of requests and any bounds:

| Theorem | Property |
|---|---|
| `TypeCorrect` | `TypeOK` |
| `RevocationsStay` | `RevocationsHold` |
| `SessionsFound` | `SessionsIndexed` |
| `ResetsStick` | `ResetSticks` |
| `GuessesAreBounded` | `GuessesBounded` |

The inductive invariant adds to the types: `Shape` (which token and batch a request holds at which label), `Noted`
(every overlap there is has been noted in `raced`), `EraInv` (a token outside `raced` that a request is about to store
belongs to the present era, and one that is stored is in the set or about to be), `LockInv` (who holds the row, and what
the open draft may contain), `PasswordInv` (a password about to be written, or in a draft, is from the present era), and
`CounterInv` (the counter is at the threshold exactly when a lockout was set). `ResetSticks` is not inductive alone,
because the draft of an open transaction becomes the row.
`GuessInv` serves `GuessesBounded`: while a lockout is on, the wrong passwords counted and those verified but not yet
counted (`Failing`) stay together below the bound, and none is verified anew; when it runs out, each request may hold one
again. Only this needs the requests to be finite (`RequestsFinite`: one process holds finitely many).

### Telegram links

`SignOnProofs` proves every property of the run `links` for any users, tokens and bounds; that `Chats` is finite is used
for the cap only.

| Theorem | Property |
|---|---|
| `TypeCorrect` | `TypeOK` |
| `LinksAreProven` | `LinksProven` |
| `SessionsAreProven` | `SessionsProven` |
| `LogoutSticks` | `StickyLogout` |
| `LinksStayBounded` | `LinksBounded` |
| `DeathsExplained` | `DeadForAReason` |

- `ProvenInv` extends `LinksProven` and `SessionsProven` to requests under way and to the sessions they carry: `Upsert`
  links whoever the request has found three steps before. A session that lives while its user is being reset is one a
  race has made: `Open` waits for a reset, but not for a deletion, and then `Noted` has recorded the overlap.
- `StickyInv`: a chat that has signed out holds the marker and no session, and a fetch its page still waits for carries
  that marker. Without the second half an old fetch could sign in again.
- `CapInv` counts with the links made after a count those that are about to be (`Counted`: requests that have counted
  and not yet inserted). Whoever counts sees fewer than `MaxLinks` links, whatever else is on its way, and only opened
  chats can be on their way; so the sum stays below `MaxLinks` plus the number of Mini Apps, and an insertion only moves
  its chat from one side to the other.
- `DeathInv` covers the 403s that are not recorded yet.

### Numbers and messages

`MessageListProofs` proves, for any sets of phones, teams, members and instants and any number of requests:

| Theorem | Property |
|---|---|
| `NumbersTypeCorrect` | `NumbersTypeOK`, the part of `TypeOK` about the numbers |
| `TypeCorrect` | `TypeOK` |
| `PagesAreRight` | `PagesRight` |
| `SyncsComplete` | `SyncComplete` |
| `ReachRespected` | `OnlyReachable` |
| `AssignmentsAreKept` | `AssignmentsKept` |

First come lemmas on what each step does to the requests (`BeginEffect` and so on), then one lemma per part of the
invariant: `ScopeInv` (a scope in use was the user's since the request began), `ReachInv` (that carries it to the
numbers of a page and to the page), `DueInv` (only a synchronisation owes anything, first its own batch, then phones
that have rows), `PageInv` (the list on the screen).

`PageInv` says where the list stands: what is shown is sorted and ends at the cursor (`ShownOK`), the page on its way
comes after the cursor, and what is owed is shown, or on its way, or comes after both (`OwedOK`). The order of a page is
given by `Place`, the number of its rows before a row, so that `InOrder` is defined outright; that the places of a finite
set are exactly `1..n` is a lemma proved with the library's theorems on cardinality.

## 5. Not modelled

- **Rate limit** (`rate_limit.py`): one counter of a fixed window, INCR and EXPIRE NX in one pipeline. A model would
  restate these two commands.
- **Signatures and initData**: pure cryptographic checks of one request. **CSRF and the method override**: stateless.
- **Normalisation of numbers** (`domain/services.py`): a regular expression on characters; phones in the modules are
  numbers after it.
- **Audit log**: rows that no code reads. **Labels, display and team names, plain listings**: displayed and nothing else.
- **Malformed cursors and limits** (400) and posts without a MessageSid: the first change nothing, the second are saved
  and fanned out each time by the same steps.
- **`seed_admin`, one-off scripts, deployment, configuration**: run once, by hand or at start-up, against an idle
  database. `mark_link_dead`, `link_session_add` and `revoke_one`: nothing calls them.
- **The marker's lifetime of 30 days**: the model's chat never waits that long. That `location.replace` cancels a form
  under way: here the form is answered first.
- **Templates and the rest of the scripts**: no state that outlives a page.

Only model-checked: the liveness properties `RowsSettle` and `RequestsEnd` (fairness is out of the prover's reach) and
`ImplementsRoster` (section 4).
