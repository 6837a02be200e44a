----------------------------- MODULE SmsPipeline -----------------------------
(***************************************************************************)
(* The SMS pipeline: the Twilio webhook that saves an inbound SMS and fans *)
(* it out to the Telegram chats of a team (handle_incoming_sms), and the   *)
(* background worker that re-sends unfinished deliveries                   *)
(* (delivery_retry_loop, retry_pending_deliveries).  They are coroutines   *)
(* of one process that share PostgreSQL; every database transaction is one *)
(* action, and between two of them any other coroutine may run.            *)
(*                                                                         *)
(* One phone number is modelled: SMS of different numbers share only the   *)
(* deliveries table and the worker.  A body never exceeds one Telegram     *)
(* message here (Twilio stops at 1600 characters, _split_message at 3500). *)
(***************************************************************************)
EXTENDS Naturals, FiniteSets

CONSTANTS
  Sids,          \* Twilio MessageSids, one inbound SMS each
  Users, Chats,  \* user accounts; Telegram accounts (= private chats)
  Teams,
  Hooks,         \* slots for concurrent webhook requests
  Worker,        \* the delivery_retry_loop task
  NoTeam, NoUser, Unsaved, NoRequest, NoJob,   \* SQL NULLs and absent rows
  InitMembers, InitLinks, InitTeam,   \* user_teams, telegram_links, the number
  MaxAttempts,   \* DELIVERY_MAX_ATTEMPTS
  BatchLimit,    \* rows the worker fetches at once (100 in the code)
  MaxPosts,      \* bound: webhook posts of one SID (Twilio retries)
  MaxFaults,     \* bound: crashes and failed requests
  MaxChurn       \* bound: administrative changes

ASSUME SentinelAssumption ==
  /\ NoTeam \notin Teams /\ Unsaved \notin Teams /\ Unsaved # NoTeam
  /\ NoUser \notin Users
  /\ Worker \notin Hooks

ASSUME BoundAssumption ==
  /\ MaxAttempts \in Nat \ {0} /\ BatchLimit \in Nat \ {0}
  /\ MaxPosts \in Nat /\ MaxFaults \in Nat /\ MaxChurn \in Nat

ASSUME InitAssumption ==
  /\ InitMembers \in [Teams -> SUBSET Users]
  /\ InitLinks \in [Chats -> Users \cup {NoUser}]
  /\ InitTeam \in Teams \cup {NoTeam}

VARIABLES
  \* accounts, teams and links, written by the admin and SSO services
  users, teams, members, numberTeam, links, live,
  \* inbound_sms.team_id per SID; deliveries by primary key; its sequence
  sms, rows, nextId,
  \* the coroutines
  pc, req, job, outcome, batch,
  \* history: what the chats received, what a 200 promised, rows lost with
  \* their user, the team an SMS was saved for, who was entitled to it since
  copies, promised, purged, routed, entitled,
  \* bounds
  posts, faults, churn

roster  == <<users, teams, members, numberTeam, links, live>>
store   == <<sms, rows, nextId>>
procs   == <<pc, req, job, outcome, batch>>
history == <<copies, promised, purged, routed, entitled>>
bounds  == <<posts, faults, churn>>
vars    == <<roster, store, procs, history, bounds>>

Actors    == Hooks \cup {Worker}
Recipient == Users \X Chats
Status    == {"pending", "failed", "sent", "dead"}
Outcomes  == {"ok", "lost", "error", "forbidden", "unlinked"}
Row       == [sid: Sids, chat: Chats, user: Users, status: Status, attempts: Nat]
Job       == [id: Nat, sid: Sids, chat: Chats]
Request   == [sid: Sids, team: Teams \cup {NoTeam},
              todo: SUBSET Recipient, audience: SUBSET Recipient]

-----------------------------------------------------------------------------
(* The tables *)

\* recipients_for_team: members of the team with a live link
Recipients(mem, lnk, alive, t) ==
  {r \in Recipient : r[1] \in mem[t] /\ lnk[r[2]] = r[1] /\ r[2] \in alive}

\* Mutant: only a delivery already sent counts as a conflict.
HasSentRow(s, c) ==
  \E i \in DOMAIN rows :
    rows[i].sid = s /\ rows[i].chat = c /\ rows[i].status = "sent"

\* the unique index deliveries_sms_chat_uq
HasRow(s, c) == \E i \in DOMAIN rows : rows[i].sid = s /\ rows[i].chat = c

\* Mutant: one attempt too many.
OpenOneMore(i) ==
  rows[i].status \in {"pending", "failed"} /\ rows[i].attempts <= MaxAttempts

\* Mutant: the worker overlooks rows that a crashed request left pending.
OpenFailedOnly(i) == rows[i].status = "failed" /\ rows[i].attempts < MaxAttempts

\* rows the worker still has to work on
Open(i) == rows[i].status \in {"pending", "failed"} /\ rows[i].attempts < MaxAttempts

\* DeliveryRepository.pending: open rows, oldest first, at most BatchLimit
Fetched ==
  LET open == {i \in DOMAIN rows : Open(i)}
  IN  {i \in open : Cardinality({k \in open : k < i}) < BatchLimit}

JobOf(i) == [id |-> i, sid |-> rows[i].sid, chat |-> rows[i].chat]

Insert(i, row) ==
  rows' = [k \in DOMAIN rows \cup {i} |-> IF k = i THEN row ELSE rows[k]]

\* Mutant: only a success counts as an attempt.
SetStatusCountingSent(i, status) ==
  rows' = [k \in DOMAIN rows |->
             IF k = i
             THEN [rows[k] EXCEPT !.status = status,
                                  !.attempts = IF status = "sent" THEN @ + 1 ELSE @]
             ELSE rows[k]]

\* mark_sent, mark_failed, mark_dead: UPDATE ... WHERE id, whatever the status
SetStatus(i, status) ==
  rows' = [k \in DOMAIN rows |->
             IF k = i THEN [rows[k] EXCEPT !.status = status, !.attempts = @ + 1]
                      ELSE rows[k]]

Init ==
  /\ users = Users /\ teams = Teams /\ members = InitMembers
  /\ numberTeam = InitTeam /\ links = InitLinks
  /\ live = {c \in Chats : InitLinks[c] # NoUser}
  /\ sms = [s \in Sids |-> Unsaved]
  /\ rows = [i \in {} |-> NoJob] /\ nextId = 1
  /\ pc = [a \in Actors |-> "idle"]
  /\ req = [h \in Hooks |-> NoRequest]
  /\ job = [a \in Actors |-> NoJob]
  /\ outcome = [a \in Actors |-> "ok"]
  /\ batch = {}
  /\ copies = [p \in Sids \X Chats |-> 0]
  /\ promised = {} /\ purged = {}
  /\ routed = [s \in Sids |-> Unsaved]
  /\ entitled = [s \in Sids |-> {}]
  /\ posts = [s \in Sids |-> 0] /\ faults = 0 /\ churn = 0

-----------------------------------------------------------------------------
(* handle_incoming_sms *)

\* the team of a saved SMS, or else of the number it was sent to
TeamOf(s) == IF sms[s] = Unsaved THEN numberTeam ELSE sms[s]

\* Twilio posts the SMS (again).  find_by_sid: a known SID goes on to the
\* fan-out with the team it was saved for; a new one takes the number's team.
HookArrive(h, s) ==
  /\ pc[h] = "idle" /\ posts[s] < MaxPosts
  /\ posts' = [posts EXCEPT ![s] = @ + 1]
  /\ pc' = [pc EXCEPT ![h] = IF sms[s] = Unsaved THEN "insert" ELSE "snapshot"]
  /\ req' = [req EXCEPT ![h] =
               [sid |-> s, team |-> TeamOf(s), todo |-> {}, audience |-> {}]]
  /\ UNCHANGED <<roster, store, job, outcome, batch, history, faults, churn>>

\* INSERT INTO inbound_sms.  IntegrityError: the SID is taken by now, or the
\* team the number had has been deleted since.
HookInsert(h) ==
  LET s == req[h].sid
      t == req[h].team
      conflict == sms[s] # Unsaved \/ t \notin teams \cup {NoTeam}
  IN /\ pc[h] = "insert"
     /\ pc' = [pc EXCEPT ![h] = IF conflict THEN "reread" ELSE "snapshot"]
     /\ sms' = IF conflict THEN sms ELSE [sms EXCEPT ![s] = t]
     /\ routed' = IF conflict THEN routed ELSE [routed EXCEPT ![s] = t]
     /\ entitled' = IF conflict \/ t = NoTeam THEN entitled
                    ELSE [entitled EXCEPT ![s] = @ \cup Recipients(members, links, live, t)]
     /\ UNCHANGED <<roster, rows, nextId, req, job, outcome, batch,
                    copies, promised, purged, bounds>>

Stop(h) ==
  /\ pc' = [pc EXCEPT ![h] = "idle"]
  /\ req' = [req EXCEPT ![h] = NoRequest]

\* After an IntegrityError: find_by_sid in a transaction of its own; the error
\* is re-raised (HTTP 500) when the SMS is still not there.
HookReread(h) ==
  /\ pc[h] = "reread"
  /\ \/ /\ sms[req[h].sid] # Unsaved
        /\ pc' = [pc EXCEPT ![h] = "snapshot"]
        /\ req' = [req EXCEPT ![h].team = sms[req[h].sid]]
     \/ /\ sms[req[h].sid] = Unsaved
        /\ Stop(h)
  /\ UNCHANGED <<roster, store, job, outcome, batch, history, bounds>>

\* Mutant: every linked user is a recipient, whatever his teams.
HookSnapshotEveryone(h) ==
  LET found == {r \in Recipient : links[r[2]] = r[1] /\ r[2] \in live}
  IN /\ pc[h] = "snapshot"
     /\ IF found = {}
        THEN Stop(h)
        ELSE /\ pc' = [pc EXCEPT ![h] = "fanout"]
             /\ req' = [req EXCEPT ![h].todo = found, ![h].audience = found]
     /\ UNCHANGED <<roster, store, job, outcome, batch, history, bounds>>

\* An SMS of no team is answered at once; otherwise the recipients are read
\* once, and the fan-out works through that snapshot.
HookSnapshot(h) ==
  LET t == req[h].team
      found == IF t = NoTeam THEN {} ELSE Recipients(members, links, live, t)
  IN /\ pc[h] = "snapshot"
     /\ IF found = {}
        THEN Stop(h)
        ELSE /\ pc' = [pc EXCEPT ![h] = "fanout"]
             /\ req' = [req EXCEPT ![h].todo = found, ![h].audience = found]
     /\ UNCHANGED <<roster, store, job, outcome, batch, history, bounds>>

\* Mutant: a recipient that is skipped is not taken off the list.
SkipReservedStuck(h, r) ==
  /\ HasRow(req[h].sid, r[2])
  /\ UNCHANGED <<rows, nextId, pc, req, job>>

\* try_reserve for the next recipient (the query has no ORDER BY): a row that
\* exists is skipped, the user's foreign key aborts the request (HTTP 500).
SkipReserved(h, r) ==
  /\ HasRow(req[h].sid, r[2])
  /\ req' = [req EXCEPT ![h].todo = @ \ {r}]
  /\ UNCHANGED <<rows, nextId, pc, job>>

UserGone(h, r) ==
  /\ ~HasRow(req[h].sid, r[2]) /\ r[1] \notin users
  /\ Stop(h)
  /\ UNCHANGED <<rows, nextId, job>>

Reserve(h, r) ==
  /\ ~HasRow(req[h].sid, r[2]) /\ r[1] \in users
  /\ Insert(nextId, [sid |-> req[h].sid, chat |-> r[2], user |-> r[1],
                     status |-> "pending", attempts |-> 0])
  /\ nextId' = nextId + 1
  /\ job' = [job EXCEPT ![h] = [id |-> nextId, sid |-> req[h].sid, chat |-> r[2]]]
  /\ req' = [req EXCEPT ![h].todo = @ \ {r}]
  /\ pc' = [pc EXCEPT ![h] = "send"]

HookReserve(h) ==
  /\ pc[h] = "fanout"
  /\ \E r \in req[h].todo : SkipReserved(h, r) \/ UserGone(h, r) \/ Reserve(h, r)
  /\ UNCHANGED <<roster, sms, outcome, batch, history, bounds>>

\* Mutant: answers before the fan-out is through.
HookAnswerEarly(h) ==
  /\ pc[h] = "fanout"
  /\ promised' = promised \cup {<<req[h].sid, r[2]>> : r \in req[h].audience}
  /\ Stop(h)
  /\ UNCHANGED <<roster, store, job, outcome, batch,
                 copies, purged, routed, entitled, bounds>>

\* The fan-out is through: HTTP 200.
HookAnswer(h) ==
  /\ pc[h] = "fanout" /\ req[h].todo = {}
  /\ promised' = promised \cup {<<req[h].sid, r[2]>> : r \in req[h].audience}
  /\ Stop(h)
  /\ UNCHANGED <<roster, store, job, outcome, batch,
                 copies, purged, routed, entitled, bounds>>

-----------------------------------------------------------------------------
(* deliver_sms_to_recipient, used by the webhook and by the worker *)

\* sendMessage.  "lost": Telegram delivered, its answer did not arrive; a
\* missing bot token is recorded like any other "error".
Send(a) ==
  /\ pc[a] = "send"
  /\ \E o \in {"ok", "lost", "error", "forbidden"} :
       /\ outcome' = [outcome EXCEPT ![a] = o]
       /\ copies' = IF o \in {"ok", "lost"}
                    THEN [copies EXCEPT ![<<job[a].sid, job[a].chat>>] = @ + 1]
                    ELSE copies
  /\ pc' = [pc EXCEPT ![a] = "mark"]
  /\ UNCHANGED <<roster, store, req, job, batch,
                 promised, purged, routed, entitled, bounds>>

\* Mutants: the outcome is stored as it is; an error counts as sent; an
\* unlinked chat counts as sent.
StatusForRaw(o) == o

StatusForErrorSent(o) ==
  CASE o \in {"ok", "error"}          -> "sent"
    [] o = "lost"                      -> "failed"
    [] o \in {"forbidden", "unlinked"} -> "dead"

StatusForUnlinkedSent(o) ==
  CASE o \in {"ok", "unlinked"}       -> "sent"
    [] o \in {"lost", "error"}         -> "failed"
    [] o = "forbidden"                 -> "dead"

StatusFor(o) ==
  CASE o = "ok"                        -> "sent"
    [] o \in {"lost", "error"}         -> "failed"
    [] o \in {"forbidden", "unlinked"} -> "dead"

\* The outcome is committed; a 403 kills the link in the same transaction,
\* whoever owns the chat by now.
Mark(a) ==
  /\ pc[a] = "mark"
  /\ SetStatus(job[a].id, StatusFor(outcome[a]))
  /\ live' = IF outcome[a] = "forbidden" THEN live \ {job[a].chat} ELSE live
  /\ pc' = [pc EXCEPT ![a] = IF a = Worker THEN "batch" ELSE "fanout"]
  /\ job' = [job EXCEPT ![a] = NoJob]
  /\ outcome' = [outcome EXCEPT ![a] = "ok"]
  /\ UNCHANGED <<users, teams, members, numberTeam, links, sms, nextId, req, batch,
                 history, bounds>>

-----------------------------------------------------------------------------
(* delivery_retry_loop *)

WorkerScan ==
  /\ pc[Worker] = "idle" /\ Fetched # {}
  /\ batch' = {JobOf(i) : i \in Fetched}
  /\ pc' = [pc EXCEPT ![Worker] = "batch"]
  /\ UNCHANGED <<roster, store, req, job, outcome, history, bounds>>

\* The next row of the batch, as it was fetched: its status is not looked at
\* again, only whether the chat is linked (to any user).  The row's SMS cannot
\* be missing: nothing deletes inbound_sms, so that branch is left out.
WorkerCheck ==
  /\ pc[Worker] = "batch"
  /\ \E j \in batch :
       /\ \A k \in batch : j.id <= k.id
       /\ batch' = batch \ {j}
       /\ job' = [job EXCEPT ![Worker] = j]
       /\ IF j.chat \in live
          THEN pc' = [pc EXCEPT ![Worker] = "send"] /\ UNCHANGED outcome
          ELSE /\ pc' = [pc EXCEPT ![Worker] = "mark"]
               /\ outcome' = [outcome EXCEPT ![Worker] = "unlinked"]
  /\ UNCHANGED <<roster, store, req, history, bounds>>

WorkerSleep ==
  /\ pc[Worker] = "batch" /\ batch = {}
  /\ pc' = [pc EXCEPT ![Worker] = "idle"]
  /\ UNCHANGED <<roster, store, req, job, outcome, batch, history, bounds>>

-----------------------------------------------------------------------------
(* Failures *)

\* The process dies with every request and the batch; it is restarted.
Crash ==
  /\ faults < MaxFaults /\ \E a \in Actors : pc[a] # "idle"
  /\ faults' = faults + 1
  /\ pc' = [a \in Actors |-> "idle"]
  /\ req' = [h \in Hooks |-> NoRequest]
  /\ job' = [a \in Actors |-> NoJob]
  /\ outcome' = [a \in Actors |-> "ok"]
  /\ batch' = {}
  /\ UNCHANGED <<roster, store, history, posts, churn>>

\* An unexpected exception (the database is unreachable): the request ends
\* with HTTP 500, the worker logs it and gives up the batch.
Abort(a) ==
  /\ faults < MaxFaults /\ pc[a] # "idle"
  /\ faults' = faults + 1
  /\ pc' = [pc EXCEPT ![a] = "idle"]
  /\ req' = IF a = Worker THEN req ELSE [req EXCEPT ![a] = NoRequest]
  /\ job' = [job EXCEPT ![a] = NoJob]
  /\ outcome' = [outcome EXCEPT ![a] = "ok"]
  /\ batch' = IF a = Worker THEN {} ELSE batch
  /\ UNCHANGED <<roster, store, history, posts, churn>>

-----------------------------------------------------------------------------
(* What the admin and SSO services do to the tables the pipeline reads.    *)

Churn == churn < MaxChurn /\ churn' = churn + 1

\* who may receive each saved SMS after a change of the roster
Entitle ==
  entitled' = [s \in Sids |->
    IF routed[s] \in Teams
    THEN entitled[s] \cup Recipients(members', links', live', routed[s])
    ELSE entitled[s]]

AddMembership(u, t) ==
  /\ Churn /\ u \in users /\ t \in teams /\ u \notin members[t]
  /\ members' = [members EXCEPT ![t] = @ \cup {u}]
  /\ UNCHANGED <<users, teams, numberTeam, links, live>>
  /\ Entitle
  /\ UNCHANGED <<store, procs, copies, promised, purged, routed, posts, faults>>

RemoveMembership(u, t) ==
  /\ Churn /\ u \in members[t]
  /\ members' = [members EXCEPT ![t] = @ \ {u}]
  /\ UNCHANGED <<users, teams, numberTeam, links, live>>
  /\ UNCHANGED <<store, procs, history, posts, faults>>

\* DELETE FROM users cascades to memberships, links and deliveries
DeleteUser(u) ==
  LET lost == {i \in DOMAIN rows : rows[i].user = u}
      chats == {c \in Chats : links[c] = u}
  IN /\ Churn /\ u \in users
     /\ users' = users \ {u}
     /\ members' = [t \in Teams |-> members[t] \ {u}]
     /\ links' = [c \in Chats |-> IF c \in chats THEN NoUser ELSE links[c]]
     /\ live' = live \ chats
     /\ rows' = [i \in DOMAIN rows \ lost |-> rows[i]]
     /\ purged' = purged \cup {<<rows[i].sid, rows[i].chat>> : i \in lost}
     /\ UNCHANGED <<teams, numberTeam, sms, nextId, procs,
                    copies, promised, routed, entitled, posts, faults>>

\* upsert: a new link, a re-bound one, or a dead one healed
Link(c, u) ==
  /\ Churn /\ u \in users /\ (links[c] # u \/ c \notin live)
  /\ links' = [links EXCEPT ![c] = u]
  /\ live' = live \cup {c}
  /\ UNCHANGED <<users, teams, members, numberTeam>>
  /\ Entitle
  /\ UNCHANGED <<store, procs, copies, promised, purged, routed, posts, faults>>

Unlink(c) ==
  /\ Churn /\ links[c] # NoUser
  /\ links' = [links EXCEPT ![c] = NoUser]
  /\ live' = live \ {c}
  /\ UNCHANGED <<users, teams, members, numberTeam>>
  /\ UNCHANGED <<store, procs, history, posts, faults>>

AssignNumber(t) ==
  /\ Churn /\ t # numberTeam /\ t \in teams \cup {NoTeam}
  /\ numberTeam' = t
  /\ UNCHANGED <<users, teams, members, links, live>>
  /\ UNCHANGED <<store, procs, history, posts, faults>>

\* ON DELETE CASCADE for user_teams, SET NULL for the number and its SMS.
\* Which teams delete_team refuses (a leader, home members) is not looked at:
\* every team may go.
DeleteTeam(t) ==
  /\ Churn /\ t \in teams
  /\ teams' = teams \ {t}
  /\ members' = [members EXCEPT ![t] = {}]
  /\ numberTeam' = IF numberTeam = t THEN NoTeam ELSE numberTeam
  /\ sms' = [s \in Sids |-> IF sms[s] = t THEN NoTeam ELSE sms[s]]
  /\ UNCHANGED <<users, links, live, rows, nextId, procs, history, posts, faults>>

-----------------------------------------------------------------------------
HookStep(h) ==
  \/ HookInsert(h) \/ HookReread(h) \/ HookSnapshot(h)
  \/ HookReserve(h) \/ HookAnswer(h) \/ Send(h) \/ Mark(h)

WorkerStep ==
  WorkerScan \/ WorkerCheck \/ WorkerSleep \/ Send(Worker) \/ Mark(Worker)

RosterChange ==
  \/ \E u \in Users, t \in Teams : AddMembership(u, t) \/ RemoveMembership(u, t)
  \/ \E u \in Users : DeleteUser(u)
  \/ \E c \in Chats : Unlink(c) \/ \E u \in Users : Link(c, u)
  \/ \E t \in Teams : DeleteTeam(t)
  \/ \E t \in Teams \cup {NoTeam} : AssignNumber(t)

Next ==
  \/ \E h \in Hooks, s \in Sids : HookArrive(h, s)
  \/ \E h \in Hooks : HookStep(h)
  \/ WorkerStep
  \/ Crash
  \/ \E a \in Actors : Abort(a)
  \/ RosterChange

Spec == Init /\ [][Next]_vars

\* Every await of a request and of the worker returns (Telegram calls time out
\* after 30 s), and the worker's loop runs for ever; nothing else is fair.
Fairness == WF_vars(WorkerStep) /\ \A h \in Hooks : WF_vars(HookStep(h))

FairSpec == Spec /\ Fairness
-----------------------------------------------------------------------------
(* Properties *)

TypeOK ==
  /\ users \subseteq Users /\ teams \subseteq Teams
  /\ members \in [Teams -> SUBSET Users]
  /\ numberTeam \in Teams \cup {NoTeam}
  /\ links \in [Chats -> Users \cup {NoUser}] /\ live \subseteq Chats
  /\ sms \in [Sids -> Teams \cup {NoTeam, Unsaved}]
  /\ nextId \in Nat \ {0}
  /\ DOMAIN rows \subseteq 1..(nextId - 1)
  /\ rows \in [DOMAIN rows -> Row]
  /\ pc \in [Actors -> {"idle", "insert", "reread", "snapshot", "fanout",
                        "batch", "send", "mark"}]
  /\ req \in [Hooks -> Request \cup {NoRequest}]
  /\ job \in [Actors -> Job \cup {NoJob}]
  /\ outcome \in [Actors -> Outcomes]
  /\ batch \subseteq Job
  /\ copies \in [Sids \X Chats -> Nat]
  /\ promised \subseteq Sids \X Chats /\ purged \subseteq Sids \X Chats
  /\ routed \in [Sids -> Teams \cup {NoTeam, Unsaved}]
  /\ entitled \in [Sids -> SUBSET Recipient]
  /\ posts \in [Sids -> Nat] /\ faults \in Nat /\ churn \in Nat

Delivering(a) == pc[a] \in {"send", "mark"}

\* However many times Twilio posts an SMS, and however the requests overlap,
\* no two of them work on the same chat: the row that try_reserve inserts
\* belongs to one request, and a chat has one row per SMS.
WebhooksExclusive ==
  /\ \A i, k \in DOMAIN rows :
       rows[i].sid = rows[k].sid /\ rows[i].chat = rows[k].chat => i = k
  /\ \A g, h \in Hooks :
       g # h /\ Delivering(g) /\ Delivering(h) => job[g].id # job[h].id

\* A delivery is recorded as sent only if its chat has received the SMS,
\* whichever of the webhook and the worker commits its outcome last.
SentWasDelivered ==
  \A i \in DOMAIN rows :
    rows[i].status = "sent" => copies[<<rows[i].sid, rows[i].chat>>] > 0

\* A 200 to Twilio means that every recipient of the request's snapshot has a
\* delivery row, so that the worker takes over what is unfinished; the only
\* rows that go are those of deleted users.
PromiseKept ==
  \A p \in promised : HasRow(p[1], p[2]) \/ p \in purged

\* An SMS reaches only chats that were linked to a member of the team it was
\* saved for at some moment since: never those of the team the number moved
\* to, nor of a user who joins a team the SMS was not saved for.
OnlyEntitledChats ==
  \A s \in Sids, c \in Chats :
    copies[<<s, c>>] > 0 => \E u \in Users : <<u, c>> \in entitled[s]

\* DELIVERY_MAX_ATTEMPTS is overshot by at most the one attempt of the request
\* that reserved the row and was still sending when the worker gave up.
AttemptsBounded ==
  \A i \in DOMAIN rows : rows[i].attempts <= MaxAttempts + 1

\* Duplicates are bounded: a chat has received at most one copy per attempt on
\* record, per send whose outcome is not committed yet, and per sender (the
\* webhook and the worker) that a failure stopped before it could commit.
CopiesAccounted ==
  \A i \in DOMAIN rows :
    LET p == <<rows[i].sid, rows[i].chat>>
        inFlight == {a \in Actors : pc[a] = "mark" /\ job[a].id = i}
    IN p \notin purged =>
         copies[p] <= rows[i].attempts + Cardinality(inFlight) + 2 * faults

\* ADR-0005, Decision 4: every chat receives at most one copy of an SMS.
AtMostOneCopy == \A p \in Sids \X Chats : copies[p] <= 1

\* What the deliveries table shows of the pipeline, as a transactional outbox.
StatusOf(p) ==
  IF HasRow(p[1], p[2])
  THEN rows[CHOOSE i \in DOMAIN rows : rows[i].sid = p[1] /\ rows[i].chat = p[2]].status
  ELSE "absent"

Ledger == INSTANCE Outbox WITH
  Messages <- Sids,
  status   <- [p \in Sids \X Chats |-> StatusOf(p)],
  reserved <- {p \in Sids \X Chats : HasRow(p[1], p[2])} \cup purged

\* The pipeline implements the outbox: only reserved deliveries are sent, a
\* delivery is never un-reserved, and "sent" is recorded after a copy arrived.
ImplementsOutbox == Ledger!Spec

\* Every delivery row is worked off: in the end each is sent, dead or has used
\* up its attempts, also those a crashed request left pending.
RowsSettle ==
  <>[](\A i \in DOMAIN rows :
         rows[i].status \in {"sent", "dead"} \/ rows[i].attempts >= MaxAttempts)

\* Every webhook request is answered (or dies with the process).
RequestsEnd == \A h \in Hooks : pc[h] # "idle" ~> pc[h] = "idle"
=============================================================================
