-------------------------- MODULE SmsPipelineProofs --------------------------
(***************************************************************************)
(* Proofs about SmsPipeline for every number of SMS, users, chats, teams   *)
(* and concurrent requests, and for every bound.                           *)
(***************************************************************************)
EXTENDS SmsPipeline, TLAPS

-----------------------------------------------------------------------------
(* The inductive invariant, in parts.                                      *)

Reserved(p) == HasRow(p[1], p[2]) \/ p \in purged

FanningOut(h) == pc[h] \in {"fanout", "send", "mark"}

\* A busy request has its data, a delivering actor its job.
Shape ==
  /\ \A h \in Hooks : pc[h] # "batch" /\ (pc[h] # "idle" => req[h] \in Request)
  /\ pc[Worker] \in {"idle", "batch", "send", "mark"}
  /\ \A a \in Actors : Delivering(a) => job[a] \in Job

\* A job refers to a row that was inserted, and still describes it if the row
\* has not been deleted with its user.
Known(j) ==
  /\ j.id \in 1..(nextId - 1)
  /\ j.id \in DOMAIN rows => rows[j.id].sid = j.sid /\ rows[j.id].chat = j.chat
  /\ Reserved(<<j.sid, j.chat>>)

JobsKnown ==
  /\ \A a \in Actors : Delivering(a) => Known(job[a])
  /\ \A j \in batch : Known(j)

SentInv ==
  /\ SentWasDelivered
  /\ \A a \in Actors :
       pc[a] = "mark" /\ outcome[a] = "ok" => copies[<<job[a].sid, job[a].chat>>] > 0

\* What a fan-out has worked through is reserved.
PromiseInv ==
  /\ PromiseKept
  /\ \A h \in Hooks : FanningOut(h) =>
       \A r \in req[h].audience :
         r \in req[h].todo \/ Reserved(<<req[h].sid, r[2]>>)

\* The recipients of a request come from the team its SMS was saved for.
Routing ==
  /\ \A s \in Sids : sms[s] \in Teams => routed[s] = sms[s]
  /\ \A s \in Sids : sms[s] = Unsaved => routed[s] = Unsaved
  /\ \A s \in Sids : routed[s] \in Teams =>
       Recipients(members, links, live, routed[s]) \subseteq entitled[s]
  /\ \A h \in Hooks :
       pc[h] = "snapshot" /\ req[h].team \in Teams =>
         routed[req[h].sid] = req[h].team

EntitledInv ==
  /\ \A h \in Hooks : FanningOut(h) =>
       req[h].todo \subseteq req[h].audience /\ req[h].audience \subseteq entitled[req[h].sid]
  /\ \A i \in DOMAIN rows : <<rows[i].user, rows[i].chat>> \in entitled[rows[i].sid]
  /\ \A p \in purged : \E u \in Users : <<u, p[2]>> \in entitled[p[1]]
  /\ OnlyEntitledChats

\* Who still has an attempt to record on row i.
HookHolds(i)   == \E h \in Hooks : Delivering(h) /\ job[h].id = i
WorkerHolds(i) == (Delivering(Worker) /\ job[Worker].id = i) \/ \E j \in batch : j.id = i

AttemptsInv ==
  /\ \A i \in DOMAIN rows :
       rows[i].attempts + (IF HookHolds(i) THEN 1 ELSE 0)
                        + (IF WorkerHolds(i) THEN 1 ELSE 0) <= MaxAttempts + 1
  /\ \A j, k \in batch : j.id = k.id => j = k
  /\ Delivering(Worker) => \A j \in batch : j.id # job[Worker].id
  /\ pc[Worker] = "idle" => batch = {}

IInv ==
  TypeOK /\ Shape /\ JobsKnown /\ WebhooksExclusive /\ SentInv /\ PromiseInv
  /\ Routing /\ EntitledInv /\ AttemptsInv

-----------------------------------------------------------------------------
(* Records and their updates.                                              *)

\* mark_* on a row; a request's next recipient; a request's team after the re-read.
LEMMA RowUpdate ==
  ASSUME NEW r \in Row, NEW st \in Status
  PROVE  LET n == [r EXCEPT !.status = st, !.attempts = @ + 1]
         IN  /\ n \in Row /\ n.sid = r.sid /\ n.chat = r.chat /\ n.user = r.user
             /\ n.status = st /\ n.attempts = r.attempts + 1
<1>1. r.attempts + 1 \in Nat
  BY DEF Row
<1>2. [r EXCEPT !.status = st] \in Row
  BY DEF Row
<1>3. QED
  BY <1>1 DEF Row

LEMMA RequestTodo ==
  ASSUME NEW r \in Request, NEW x
  PROVE  LET n == [r EXCEPT !.todo = @ \ {x}]
         IN  /\ n \in Request /\ n.sid = r.sid /\ n.team = r.team
             /\ n.audience = r.audience /\ n.todo = r.todo \ {x}
  BY DEF Request

LEMMA RequestTeam ==
  ASSUME NEW r \in Request, NEW t \in Teams \cup {NoTeam}
  PROVE  LET n == [r EXCEPT !.team = t]
         IN  /\ n \in Request /\ n.sid = r.sid /\ n.team = t
             /\ n.audience = r.audience /\ n.todo = r.todo
  BY DEF Request

LEMMA StatusForOutcome ==
  ASSUME NEW o \in Outcomes
  PROVE  StatusFor(o) \in Status /\ (StatusFor(o) = "sent" <=> o = "ok")
  BY DEF StatusFor, Outcomes, Status

-----------------------------------------------------------------------------
(* Type correctness.                                                       *)

LEMMA TypeInit == Init => TypeOK /\ Shape
  BY SentinelAssumption, BoundAssumption, InitAssumption
     DEF Init, TypeOK, Shape, Delivering, Actors, Outcomes, Request, Recipient

LEMMA TypeStep == TypeOK /\ Shape /\ [Next]_vars => TypeOK' /\ Shape'
<1> SUFFICES ASSUME TypeOK, Shape, [Next]_vars PROVE TypeOK' /\ Shape'
  OBVIOUS
<1> USE DEF TypeOK, Shape, Delivering, roster, store, procs, history, bounds, Stop
<1>1. ASSUME NEW h \in Hooks, NEW s \in Sids, HookArrive(h, s) PROVE TypeOK' /\ Shape'
  <2> DEFINE new == [sid |-> s, team |-> TeamOf(s), todo |-> {}, audience |-> {}]
  <2>1. new \in Request
    BY DEF TeamOf, Request
  <2>2. /\ req' = [req EXCEPT ![h] = new]
        /\ posts' = [posts EXCEPT ![s] = posts[s] + 1]
        /\ pc' = [pc EXCEPT ![h] = IF sms[s] = Unsaved THEN "insert" ELSE "snapshot"]
        /\ UNCHANGED <<roster, store, job, outcome, batch, history, faults, churn>>
    BY <1>1 DEF HookArrive
  <2> HIDE DEF new
  <2>3. QED
    BY <2>1, <2>2, SentinelAssumption DEF Actors
<1>2. ASSUME NEW h \in Hooks, HookInsert(h) PROVE TypeOK' /\ Shape'
  BY <1>2 DEF HookInsert, Recipients, Request, Actors
<1>3. ASSUME NEW h \in Hooks, HookReread(h) PROVE TypeOK' /\ Shape'
  <2>1. CASE sms[req[h].sid] = Unsaved
    BY <1>3, <2>1 DEF HookReread, Actors
  <2>2. CASE sms[req[h].sid] # Unsaved
    <3>1. req[h] \in Request
      BY <1>3 DEF HookReread
    <3>2. [req[h] EXCEPT !.team = sms[req[h].sid]] \in Request
      BY <3>1, <2>2 DEF Request
    <3>3. req' = [req EXCEPT ![h] = [req[h] EXCEPT !.team = sms[req[h].sid]]]
      BY <1>3, <2>2 DEF HookReread
    <3>4. QED
      BY <1>3, <2>2, <3>2, <3>3 DEF HookReread, Actors
  <2>3. QED
    BY <2>1, <2>2
<1>4. ASSUME NEW h \in Hooks, HookSnapshot(h) PROVE TypeOK' /\ Shape'
  BY <1>4 DEF HookSnapshot, Recipients, Request, Actors
<1>5. ASSUME NEW h \in Hooks, HookReserve(h) PROVE TypeOK' /\ Shape'
  <2>1. PICK r \in req[h].todo : SkipReserved(h, r) \/ UserGone(h, r) \/ Reserve(h, r)
    BY <1>5 DEF HookReserve
  <2>2. r \in Recipient /\ req[h] \in Request /\ pc[h] = "fanout"
    BY <1>5, <2>1 DEF HookReserve, Request
  <2>3. CASE SkipReserved(h, r)
    BY <1>5, <2>2, <2>3 DEF HookReserve, SkipReserved, Request, Actors
  <2>4. CASE UserGone(h, r)
    BY <1>5, <2>2, <2>4 DEF HookReserve, UserGone, Request, Actors
  <2>5. CASE Reserve(h, r)
    <3> DEFINE row == [sid |-> req[h].sid, chat |-> r[2], user |-> r[1],
                       status |-> "pending", attempts |-> 0]
               new == [id |-> nextId, sid |-> req[h].sid, chat |-> r[2]]
               rest == [req[h] EXCEPT !.todo = @ \ {r}]
    <3>1. row \in Row /\ new \in Job /\ rest \in Request
      BY <2>2, RequestTodo DEF Row, Job, Status, Request, Recipient
    <3>2. /\ nextId' = nextId + 1
          /\ rows' = [k \in DOMAIN rows \cup {nextId} |-> IF k = nextId THEN row ELSE rows[k]]
          /\ job' = [job EXCEPT ![h] = new]
          /\ req' = [req EXCEPT ![h] = rest]
          /\ pc' = [pc EXCEPT ![h] = "send"]
          /\ UNCHANGED <<roster, sms, outcome, batch, history, bounds>>
      BY <1>5, <2>5 DEF HookReserve, Reserve, Insert
    <3> HIDE DEF row, new, rest
    <3>3. rows' \in [DOMAIN rows' -> Row] /\ DOMAIN rows' \subseteq 1..(nextId' - 1)
      BY <3>1, <3>2
    <3>4. QED
      BY <3>1, <3>2, <3>3, SentinelAssumption DEF Actors
  <2>6. QED
    BY <2>1, <2>3, <2>4, <2>5
<1>6. ASSUME NEW h \in Hooks, HookAnswer(h) PROVE TypeOK' /\ Shape'
  BY <1>6 DEF HookAnswer, Recipient, Request, Actors
<1>7. ASSUME NEW a \in Actors, Send(a) PROVE TypeOK' /\ Shape'
  BY <1>7 DEF Send, Actors, Outcomes, Job
<1>8. ASSUME NEW a \in Actors, Mark(a) PROVE TypeOK' /\ Shape'
  <2>1. StatusFor(outcome[a]) \in Status
    BY StatusForOutcome
  <2>2. rows' \in [DOMAIN rows -> Row] /\ DOMAIN rows' = DOMAIN rows
    BY <1>8, <2>1, RowUpdate DEF Mark, SetStatus
  <2>3. QED
    BY <1>8, <2>2, SentinelAssumption DEF Mark, Actors, Outcomes
<1>9. CASE WorkerScan
  <2>1. \A i \in Fetched : JobOf(i) \in Job
    BY DEF Fetched, JobOf, Job, Row
  <2>2. batch' \subseteq Job
    BY <1>9, <2>1 DEF WorkerScan
  <2>3. QED
    BY <1>9, <2>2, SentinelAssumption DEF WorkerScan, Actors
<1>10. CASE WorkerCheck
  BY <1>10 DEF WorkerCheck, Actors, Outcomes
<1>11. CASE WorkerSleep
  BY <1>11 DEF WorkerSleep, Actors
<1>12. CASE Crash
  BY <1>12 DEF Crash, Actors, Outcomes
<1>13. ASSUME NEW a \in Actors, Abort(a) PROVE TypeOK' /\ Shape'
  BY <1>13, SentinelAssumption DEF Abort, Actors, Outcomes
<1>14. ASSUME NEW u \in Users, NEW t \in Teams, AddMembership(u, t) PROVE TypeOK' /\ Shape'
  BY <1>14 DEF AddMembership, Churn, Entitle, Recipients
<1>15. ASSUME NEW u \in Users, NEW t \in Teams, RemoveMembership(u, t) PROVE TypeOK' /\ Shape'
  BY <1>15 DEF RemoveMembership, Churn
<1>16. ASSUME NEW u \in Users, DeleteUser(u) PROVE TypeOK' /\ Shape'
  BY <1>16 DEF DeleteUser, Churn, Row
<1>17. ASSUME NEW c \in Chats, Unlink(c) PROVE TypeOK' /\ Shape'
  BY <1>17 DEF Unlink, Churn
<1>18. ASSUME NEW c \in Chats, NEW u \in Users, Link(c, u) PROVE TypeOK' /\ Shape'
  BY <1>18 DEF Link, Churn, Entitle, Recipients
<1>19. ASSUME NEW t \in Teams, DeleteTeam(t) PROVE TypeOK' /\ Shape'
  BY <1>19 DEF DeleteTeam, Churn
<1>20. ASSUME NEW t \in Teams \cup {NoTeam}, AssignNumber(t) PROVE TypeOK' /\ Shape'
  BY <1>20 DEF AssignNumber, Churn
<1>21. CASE UNCHANGED vars
  BY <1>21 DEF vars
<1>22. QED
  BY <1>1, <1>2, <1>3, <1>4, <1>5, <1>6, <1>7, <1>8, <1>9, <1>10, <1>11, <1>12, <1>13,
     <1>14, <1>15, <1>16, <1>17, <1>18, <1>19, <1>20, <1>21
     DEF Next, HookStep, WorkerStep, RosterChange, Actors

\* Every reachable state is well-typed, and a busy request or worker holds the
\* data its next step reads (SmsPipeline!TypeOK).
THEOREM TypeCorrect == Spec => []TypeOK
<1>1. Spec => [](TypeOK /\ Shape)
  BY TypeInit, TypeStep, PTL DEF Spec
<1>2. QED
  BY <1>1, PTL

-----------------------------------------------------------------------------
(* What a step leaves alone.                                               *)

\* The administrative changes touch neither a coroutine nor the sequence.
LEMMA RosterFrame ==
  RosterChange => UNCHANGED <<pc, req, job, outcome, batch, nextId,
                              copies, promised, routed, posts, faults>>
  BY DEF RosterChange, AddMembership, RemoveMembership, DeleteUser, Link, Unlink,
         AssignNumber, DeleteTeam, store, procs, history

\* A crash or a failed request stops coroutines and writes nothing.
LEMMA FailureFrame ==
  ASSUME TypeOK, Crash \/ \E a \in Actors : Abort(a)
  PROVE  /\ UNCHANGED <<roster, store, history>>
         /\ \A a \in Actors :
              \/ pc'[a] = "idle"
              \/ pc'[a] = pc[a] /\ job'[a] = job[a] /\ outcome'[a] = outcome[a]
         /\ \A h \in Hooks : pc'[h] = "idle" \/ req'[h] = req[h]
         /\ batch' \subseteq batch
         /\ pc'[Worker] = "idle" /\ pc[Worker] # "idle" => batch' = {}
         /\ pc[Worker] = "idle" => pc'[Worker] = "idle"
<1> USE DEF roster, store, history
<1>1. CASE Crash
  BY <1>1, SentinelAssumption DEF Crash, Actors, TypeOK
<1>2. ASSUME NEW a \in Actors, Abort(a), a # Worker
      PROVE  /\ pc'[a] = "idle" /\ batch' = batch /\ a \in Hooks
             /\ \A b \in Actors : b # a =>
                  pc'[b] = pc[b] /\ job'[b] = job[b] /\ outcome'[b] = outcome[b]
             /\ \A h \in Hooks : h # a => req'[h] = req[h]
             /\ UNCHANGED <<roster, store, history>>
  BY <1>2 DEF Abort, TypeOK, Actors
<1>3. CASE Abort(Worker)
  BY <1>3, SentinelAssumption DEF Abort, TypeOK, Actors
<1>4. QED
  BY <1>1, <1>2, <1>3, SentinelAssumption DEF Actors

\* The database only grows, except for rows that go with their user.
LEMMA StoreStep ==
  ASSUME TypeOK, Shape, [Next]_vars
  PROVE  /\ nextId' \in {nextId, nextId + 1}
         /\ \A i \in DOMAIN rows' : i \in DOMAIN rows =>
              /\ rows'[i].sid = rows[i].sid /\ rows'[i].chat = rows[i].chat
              /\ rows'[i].user = rows[i].user
         /\ \A i \in DOMAIN rows' : i \notin DOMAIN rows => i = nextId /\ nextId' = nextId + 1
         /\ \A i \in DOMAIN rows : i \notin DOMAIN rows' =>
              <<rows[i].sid, rows[i].chat>> \in purged'
         /\ purged \subseteq purged'
         /\ \A p \in Sids \X Chats : copies'[p] >= copies[p]
         /\ \A s \in Sids : entitled[s] \subseteq entitled'[s]
<1> USE DEF TypeOK, roster, store, procs, history, bounds, Stop
<1> DEFINE Evolve ==
         /\ nextId' \in {nextId, nextId + 1}
         /\ \A i \in DOMAIN rows' : i \in DOMAIN rows =>
              /\ rows'[i].sid = rows[i].sid /\ rows'[i].chat = rows[i].chat
              /\ rows'[i].user = rows[i].user
         /\ \A i \in DOMAIN rows' : i \notin DOMAIN rows => i = nextId /\ nextId' = nextId + 1
         /\ \A i \in DOMAIN rows : i \notin DOMAIN rows' =>
              <<rows[i].sid, rows[i].chat>> \in purged'
         /\ purged \subseteq purged'
         /\ \A p \in Sids \X Chats : copies'[p] >= copies[p]
         /\ \A s \in Sids : entitled[s] \subseteq entitled'[s]
<1>1. ASSUME NEW h \in Hooks, NEW s \in Sids, HookArrive(h, s) PROVE Evolve
  BY <1>1 DEF HookArrive
<1>2. ASSUME NEW h \in Hooks, HookInsert(h) PROVE Evolve
  BY <1>2 DEF HookInsert
<1>3. ASSUME NEW h \in Hooks, HookReread(h) \/ HookSnapshot(h) \/ HookAnswer(h) PROVE Evolve
  BY <1>3 DEF HookReread, HookSnapshot, HookAnswer
<1>4. ASSUME NEW h \in Hooks, HookReserve(h) PROVE Evolve
  <2>1. /\ UNCHANGED <<copies, purged, entitled>>
        /\ \/ UNCHANGED <<rows, nextId>>
           \/ \E row : Insert(nextId, row) /\ nextId' = nextId + 1
    BY <1>4 DEF HookReserve, SkipReserved, UserGone, Reserve
  <2>2. QED
    BY <2>1 DEF Insert
<1>5. ASSUME NEW a \in Actors, Send(a) PROVE Evolve
  <2>1. UNCHANGED <<rows, nextId, purged, entitled>>
    BY <1>5 DEF Send
  <2>2. copies' = copies
        \/ copies' = [copies EXCEPT ![<<job[a].sid, job[a].chat>>] = @ + 1]
    BY <1>5 DEF Send
  <2>3. \A p \in Sids \X Chats : copies'[p] = copies[p] \/ copies'[p] = copies[p] + 1
    BY <2>2
  <2>4. \A p \in Sids \X Chats : copies[p] \in Nat /\ copies'[p] >= copies[p]
    BY <2>3
  <2>5. QED
    BY <2>1, <2>4
<1>6. ASSUME NEW a \in Actors, Mark(a) PROVE Evolve
  <2>1. UNCHANGED <<nextId, copies, purged, entitled>>
    BY <1>6 DEF Mark
  <2>2. StatusFor(outcome[a]) \in Status
    BY StatusForOutcome
  <2>3. DOMAIN rows' = DOMAIN rows /\ \A i \in DOMAIN rows :
          /\ rows'[i].sid = rows[i].sid /\ rows'[i].chat = rows[i].chat
          /\ rows'[i].user = rows[i].user
    BY <1>6, <2>2, RowUpdate DEF Mark, SetStatus
  <2>4. QED
    BY <2>1, <2>3
<1>7. CASE WorkerScan \/ WorkerCheck \/ WorkerSleep \/ UNCHANGED vars
  BY <1>7 DEF WorkerScan, WorkerCheck, WorkerSleep, vars
<1>8. CASE Crash \/ \E a \in Actors : Abort(a)
  BY <1>8, FailureFrame
<1>9. CASE RosterChange
  <2>1. ASSUME NEW u \in Users, DeleteUser(u) PROVE Evolve
    BY <2>1 DEF DeleteUser
  <2>2. CASE UNCHANGED <<rows, purged>> /\ UNCHANGED <<nextId, copies>>
    <3>1. \A s \in Sids : entitled[s] \subseteq entitled'[s]
      <4>1. ASSUME Entitle PROVE \A s \in Sids : entitled[s] \subseteq entitled'[s]
        BY <4>1 DEF Entitle
      <4>2. Entitle \/ entitled' = entitled
        BY <1>9 DEF RosterChange, AddMembership, RemoveMembership, DeleteUser, Link, Unlink,
                    AssignNumber, DeleteTeam
      <4>3. QED
        BY <4>1, <4>2
    <3>2. QED
      BY <2>2, <3>1
  <2>3. QED
    BY <1>9, <2>1, <2>2, RosterFrame
       DEF RosterChange, AddMembership, RemoveMembership, Link, Unlink, AssignNumber, DeleteTeam
<1>10. QED
  BY <1>1, <1>2, <1>3, <1>4, <1>5, <1>6, <1>7, <1>8, <1>9
     DEF Next, HookStep, WorkerStep, Actors

LEMMA ReservedStays ==
  ASSUME TypeOK, Shape, [Next]_vars, NEW p \in Sids \X Chats, Reserved(p)
  PROVE  Reserved(p)'
<1>1. CASE p \in purged
  BY <1>1, StoreStep DEF Reserved
<1>2. ASSUME NEW i \in DOMAIN rows, rows[i].sid = p[1], rows[i].chat = p[2]
      PROVE  Reserved(p)'
  <2>1. CASE i \in DOMAIN rows'
    BY <1>2, <2>1, StoreStep DEF Reserved, HasRow
  <2>2. CASE i \notin DOMAIN rows'
    <3>1. <<rows[i].sid, rows[i].chat>> \in purged'
      BY <2>2, StoreStep
    <3>2. QED
      BY <1>2, <3>1 DEF Reserved
  <2>3. QED
    BY <2>1, <2>2
<1>3. QED
  BY <1>1, <1>2 DEF Reserved, HasRow

LEMMA KnownStays ==
  ASSUME TypeOK, Shape, [Next]_vars, NEW j \in Job, Known(j)
  PROVE  Known(j)'
<1>1. <<j.sid, j.chat>> \in Sids \X Chats /\ j.id \in Nat
  BY DEF Job
<1>2. Reserved(<<j.sid, j.chat>>)'
  BY <1>1, ReservedStays DEF Known
<1>3. nextId \in Nat /\ nextId' \in {nextId, nextId + 1} /\ j.id \in 1..(nextId' - 1)
  BY StoreStep DEF Known, TypeOK
<1>4. j.id \in DOMAIN rows' => rows'[j.id].sid = j.sid /\ rows'[j.id].chat = j.chat
  BY <1>1, <1>3, StoreStep DEF Known
<1>5. QED
  BY <1>2, <1>3, <1>4 DEF Known

-----------------------------------------------------------------------------
(* Jobs.                                                                   *)

\* What try_reserve leaves behind when it inserts a row.
Fresh(h) ==
  /\ nextId' = nextId + 1
  /\ DOMAIN rows' = DOMAIN rows \cup {nextId}
  /\ \A i \in DOMAIN rows : rows'[i] = rows[i]
  /\ job'[h].id = nextId
  /\ rows'[nextId].sid = job'[h].sid /\ rows'[nextId].chat = job'[h].chat
  /\ rows'[nextId].status = "pending" /\ rows'[nextId].attempts = 0
  /\ ~HasRow(job'[h].sid, job'[h].chat)
  /\ job'[h].sid = req[h].sid
  /\ <<rows'[nextId].user, job'[h].chat>> \in req[h].todo
  /\ \A a \in Actors : a # h => pc'[a] = pc[a] /\ job'[a] = job[a]

LEMMA ReserveFresh ==
  ASSUME TypeOK, Shape, NEW h \in Hooks, NEW r \in req[h].todo, HookReserve(h), Reserve(h, r)
  PROVE  Fresh(h) /\ job'[h].chat = r[2]
<1>1. r \in Recipient /\ req[h] \in Request
  BY DEF HookReserve, Shape, Request
<1> DEFINE row == [sid |-> req[h].sid, chat |-> r[2], user |-> r[1],
                   status |-> "pending", attempts |-> 0]
           new == [id |-> nextId, sid |-> req[h].sid, chat |-> r[2]]
<1>2. /\ nextId' = nextId + 1
      /\ rows' = [k \in DOMAIN rows \cup {nextId} |-> IF k = nextId THEN row ELSE rows[k]]
      /\ job' = [job EXCEPT ![h] = new]
      /\ pc' = [pc EXCEPT ![h] = "send"]
      /\ ~HasRow(req[h].sid, r[2])
  BY DEF Reserve, Insert
<1>3. /\ row.sid = req[h].sid /\ row.chat = r[2] /\ row.user = r[1]
      /\ row.status = "pending" /\ row.attempts = 0
      /\ new.id = nextId /\ new.sid = req[h].sid /\ new.chat = r[2]
      /\ r = <<r[1], r[2]>>
  BY <1>1 DEF Recipient
<1> HIDE DEF row, new
<1>4. \A i \in DOMAIN rows : i # nextId
  BY DEF TypeOK
<1>5. job'[h] = new /\ \A a \in Actors : a # h => pc'[a] = pc[a] /\ job'[a] = job[a]
  BY <1>2 DEF TypeOK, Actors
<1>6. DOMAIN rows' = DOMAIN rows \cup {nextId} /\ rows'[nextId] = row
      /\ \A i \in DOMAIN rows : rows'[i] = rows[i]
  BY <1>2, <1>4
<1>7. QED
  BY <1>2, <1>3, <1>5, <1>6 DEF Fresh

\* Where an actor's job comes from.
LEMMA JobStep ==
  ASSUME TypeOK, Shape, [Next]_vars, NEW a \in Actors, Delivering(a)'
  PROVE  \/ Delivering(a) /\ job'[a] = job[a]
         \/ a = Worker /\ WorkerCheck /\ job'[a] \in batch
         \/ a \in Hooks /\ HookReserve(a) /\ \E r \in req[a].todo :
              Reserve(a, r) /\ Fresh(a) /\ job'[a].chat = r[2]
<1> USE DEF roster, store, procs, Stop, Delivering
<1>1. ASSUME NEW h \in Hooks, NEW s \in Sids, HookArrive(h, s)
      PROVE  Delivering(a) /\ job'[a] = job[a]
  BY <1>1 DEF HookArrive, TypeOK
<1>2. ASSUME NEW h \in Hooks, HookInsert(h)
      PROVE  Delivering(a) /\ job'[a] = job[a]
  BY <1>2 DEF HookInsert, TypeOK
<1>3. ASSUME NEW h \in Hooks, HookReread(h) \/ HookSnapshot(h) \/ HookAnswer(h)
      PROVE  Delivering(a) /\ job'[a] = job[a]
  BY <1>3 DEF HookReread, HookSnapshot, HookAnswer, TypeOK
<1>4. ASSUME NEW h \in Hooks, HookReserve(h),
             NEW r \in req[h].todo, SkipReserved(h, r) \/ UserGone(h, r)
      PROVE  Delivering(a) /\ job'[a] = job[a]
  BY <1>4 DEF HookReserve, SkipReserved, UserGone, TypeOK
<1>5. ASSUME NEW h \in Hooks, HookReserve(h), NEW r \in req[h].todo, Reserve(h, r)
      PROVE  \/ Delivering(a) /\ job'[a] = job[a]
             \/ a = h /\ Fresh(a) /\ job'[a].chat = r[2]
  BY <1>5, ReserveFresh DEF Fresh
<1>6. ASSUME NEW b \in Actors, Send(b) \/ Mark(b)
      PROVE  Delivering(a) /\ job'[a] = job[a]
  BY <1>6 DEF Send, Mark, TypeOK
<1>7. CASE WorkerScan \/ WorkerSleep \/ UNCHANGED vars
  BY <1>7 DEF WorkerScan, WorkerSleep, TypeOK, vars
<1>8. CASE WorkerCheck
  BY <1>8 DEF WorkerCheck, TypeOK, Actors
<1>9. CASE Crash \/ \E b \in Actors : Abort(b)
  BY <1>9, FailureFrame
<1>10. CASE RosterChange
  BY <1>10, RosterFrame
<1>11. QED
  BY <1>1, <1>2, <1>3, <1>4, <1>5, <1>6, <1>7, <1>8, <1>9, <1>10
     DEF Next, HookStep, WorkerStep, Actors, HookReserve

\* Where the worker's batch comes from.
LEMMA BatchStep ==
  ASSUME TypeOK, Shape, [Next]_vars
  PROVE  \/ batch' \subseteq batch
         \/ WorkerScan /\ batch' = {JobOf(i) : i \in Fetched}
<1> USE DEF procs
<1>1. CASE \E h \in Hooks, s \in Sids : HookArrive(h, s)
  BY <1>1 DEF HookArrive
<1>2. CASE \E h \in Hooks : HookStep(h)
  BY <1>2 DEF HookStep, HookInsert, HookReread, HookSnapshot, HookReserve, HookAnswer,
              Send, Mark
<1>3. CASE WorkerStep
  BY <1>3 DEF WorkerStep, WorkerScan, WorkerCheck, WorkerSleep, Send, Mark
<1>4. CASE Crash \/ \E a \in Actors : Abort(a)
  BY <1>4, FailureFrame
<1>5. CASE RosterChange \/ UNCHANGED vars
  BY <1>5, RosterFrame DEF vars
<1>6. QED
  BY <1>1, <1>2, <1>3, <1>4, <1>5 DEF Next

LEMMA JobOfFetched ==
  ASSUME TypeOK, NEW i \in Fetched
  PROVE  /\ i \in DOMAIN rows /\ Open(i) /\ JobOf(i) \in Job /\ JobOf(i).id = i
         /\ JobOf(i).sid = rows[i].sid /\ JobOf(i).chat = rows[i].chat
<1>1. i \in DOMAIN rows /\ Open(i) /\ rows[i] \in Row /\ i \in Nat
  BY DEF Fetched, TypeOK
<1>2. QED
  BY <1>1 DEF JobOf, Job, Row

LEMMA JobsKnownStep ==
  ASSUME TypeOK, Shape, JobsKnown, [Next]_vars
  PROVE  JobsKnown'
<1>0. TypeOK' /\ Shape'
  BY TypeStep
<1>1. ASSUME NEW a \in Actors, Delivering(a)' PROVE Known(job[a])'
  <2>1. CASE Delivering(a) /\ job'[a] = job[a]
    <3>1. Known(job[a]) /\ job[a] \in Job
      BY <2>1 DEF JobsKnown, Shape
    <3>2. QED
      BY <2>1, <3>1, KnownStays DEF Known, Reserved, HasRow
  <2>2. CASE job'[a] \in batch
    <3> DEFINE j == job'[a]
    <3>1. Known(j) /\ j \in Job
      BY <2>2 DEF JobsKnown, TypeOK
    <3>2. QED
      BY <3>1, KnownStays DEF Known, Reserved, HasRow
  <2>3. CASE Fresh(a)
    <3>1. /\ job'[a].id = nextId /\ nextId' = nextId + 1 /\ nextId \in Nat \ {0}
          /\ nextId \in DOMAIN rows'
          /\ rows'[nextId].sid = job'[a].sid /\ rows'[nextId].chat = job'[a].chat
      BY <2>3 DEF Fresh, TypeOK
    <3>2. QED
      BY <3>1 DEF Known, Reserved, HasRow
  <2>4. QED
    BY <1>1, <2>1, <2>2, <2>3, JobStep
<1>2. ASSUME NEW j \in batch' PROVE Known(j)'
  <2>1. CASE j \in batch
    <3>1. Known(j) /\ j \in Job
      BY <2>1 DEF JobsKnown, TypeOK
    <3>2. QED
      BY <3>1, KnownStays
  <2>2. ASSUME NEW i \in Fetched, j = JobOf(i) PROVE Known(j)'
    <3>1. j \in Job /\ Known(j)
      BY <2>2, JobOfFetched DEF Known, Reserved, HasRow, TypeOK
    <3>2. QED
      BY <3>1, KnownStays
  <2>3. QED
    BY <1>2, <2>1, <2>2, BatchStep
<1>3. QED
  BY <1>1, <1>2 DEF JobsKnown

-----------------------------------------------------------------------------
(* One row per SMS and chat, one request per row.                          *)

\* A new row appears only when a request reserves it.
LEMMA RowStep ==
  ASSUME TypeOK, Shape, [Next]_vars
  PROVE  \/ DOMAIN rows' \subseteq DOMAIN rows
         \/ \E h \in Hooks :
              /\ HookReserve(h) /\ Fresh(h)
              /\ \E r \in req[h].todo : Reserve(h, r) /\ job'[h].chat = r[2]
<1> USE DEF store, history, Stop
<1>1. ASSUME NEW h \in Hooks, HookReserve(h)
      PROVE  \/ DOMAIN rows' \subseteq DOMAIN rows
             \/ Fresh(h) /\ \E r \in req[h].todo : Reserve(h, r) /\ job'[h].chat = r[2]
  <2>1. PICK r \in req[h].todo : SkipReserved(h, r) \/ UserGone(h, r) \/ Reserve(h, r)
    BY <1>1 DEF HookReserve
  <2>2. CASE Reserve(h, r)
    <3>1. Fresh(h) /\ job'[h].chat = r[2]
      BY <1>1, <2>2, ReserveFresh
    <3>2. QED
      BY <2>2, <3>1
  <2>3. CASE SkipReserved(h, r) \/ UserGone(h, r)
    BY <2>3 DEF SkipReserved, UserGone
  <2>4. QED
    BY <2>1, <2>2, <2>3
<1>2. CASE \E h \in Hooks, s \in Sids : HookArrive(h, s)
  BY <1>2 DEF HookArrive
<1>3. ASSUME NEW h \in Hooks,
             HookInsert(h) \/ HookReread(h) \/ HookSnapshot(h) \/ HookAnswer(h)
      PROVE  DOMAIN rows' \subseteq DOMAIN rows
  BY <1>3 DEF HookInsert, HookReread, HookSnapshot, HookAnswer
<1>4. ASSUME NEW a \in Actors, Send(a) \/ Mark(a)
      PROVE  DOMAIN rows' \subseteq DOMAIN rows
  BY <1>4 DEF Send, Mark, SetStatus
<1>5. CASE WorkerScan \/ WorkerCheck \/ WorkerSleep \/ UNCHANGED vars
  BY <1>5 DEF WorkerScan, WorkerCheck, WorkerSleep, vars
<1>6. CASE Crash \/ \E a \in Actors : Abort(a)
  BY <1>6, FailureFrame
<1>7. CASE RosterChange
  BY <1>7 DEF RosterChange, AddMembership, RemoveMembership, DeleteUser, Link, Unlink,
              AssignNumber, DeleteTeam
<1>8. QED
  BY <1>1, <1>2, <1>3, <1>4, <1>5, <1>6, <1>7 DEF Next, HookStep, WorkerStep, Actors

LEMMA ExclusiveStep ==
  ASSUME TypeOK, Shape, JobsKnown, WebhooksExclusive, [Next]_vars
  PROVE  WebhooksExclusive'
<1>1. ASSUME NEW i \in DOMAIN rows', NEW k \in DOMAIN rows',
             rows'[i].sid = rows'[k].sid, rows'[i].chat = rows'[k].chat
      PROVE  i = k
  <2>1. CASE DOMAIN rows' \subseteq DOMAIN rows
    BY <1>1, <2>1, StoreStep DEF WebhooksExclusive
  <2>2. ASSUME NEW h \in Hooks, Fresh(h) PROVE i = k
    <3>1. \A l \in DOMAIN rows : l # nextId
      BY DEF TypeOK
    <3>2. CASE i # nextId /\ k # nextId
      BY <1>1, <2>2, <3>2 DEF Fresh, WebhooksExclusive
    <3>3. CASE i = nextId /\ k # nextId
      BY <1>1, <2>2, <3>3 DEF Fresh, HasRow
    <3>4. CASE i # nextId /\ k = nextId
      BY <1>1, <2>2, <3>4 DEF Fresh, HasRow
    <3>5. QED
      BY <3>2, <3>3, <3>4
  <2>3. QED
    BY <2>1, <2>2, RowStep
<1>2. ASSUME NEW g \in Hooks, NEW h \in Hooks, g # h, Delivering(g)', Delivering(h)'
      PROVE  job'[g].id # job'[h].id
  <2>1. g \in Actors /\ h \in Actors /\ g # Worker /\ h # Worker /\ nextId \in Nat
    BY SentinelAssumption DEF Actors, TypeOK
  <2>2. ASSUME NEW a \in Hooks, Fresh(a), NEW b \in Hooks, b # a, Delivering(b)'
        PROVE  job'[a].id # job'[b].id
    <3>1. b \in Actors /\ Delivering(b) /\ job'[b] = job[b]
      BY <2>2 DEF Fresh, Delivering, Actors
    <3>2. job[b].id \in 1..(nextId - 1)
      BY <3>1 DEF JobsKnown, Known
    <3>3. QED
      BY <2>1, <2>2, <3>1, <3>2 DEF Fresh
  <2>3. CASE Fresh(g)
    BY <1>2, <2>2, <2>3
  <2>4. CASE Fresh(h)
    BY <1>2, <2>2, <2>4
  <2>5. CASE Delivering(g) /\ job'[g] = job[g] /\ Delivering(h) /\ job'[h] = job[h]
    BY <1>2, <2>5 DEF WebhooksExclusive
  <2>6. QED
    BY <1>2, <2>1, <2>3, <2>4, <2>5, JobStep
<1>3. QED
  BY <1>1, <1>2 DEF WebhooksExclusive

-----------------------------------------------------------------------------
(* "sent" means delivered.                                                 *)

\* A row becomes "sent" only when an "ok" outcome is committed.
LEMMA SentStep ==
  ASSUME TypeOK, Shape, [Next]_vars,
         NEW i \in DOMAIN rows', rows'[i].status = "sent"
  PROVE  \/ i \in DOMAIN rows /\ rows[i].status = "sent"
         \/ \E a \in Actors : Mark(a) /\ job[a].id = i /\ outcome[a] = "ok" /\ i \in DOMAIN rows
<1> USE DEF store, Stop
<1>1. ASSUME NEW h \in Hooks, HookReserve(h)
      PROVE  i \in DOMAIN rows /\ rows[i].status = "sent"
  <2>1. PICK r \in req[h].todo : SkipReserved(h, r) \/ UserGone(h, r) \/ Reserve(h, r)
    BY <1>1 DEF HookReserve
  <2>2. CASE Reserve(h, r)
    <3>1. Fresh(h)
      BY <1>1, <2>2, ReserveFresh
    <3>2. i # nextId
      BY <3>1 DEF Fresh
    <3>3. QED
      BY <3>1, <3>2 DEF Fresh
  <2>3. CASE SkipReserved(h, r) \/ UserGone(h, r)
    BY <2>3 DEF SkipReserved, UserGone
  <2>4. QED
    BY <2>1, <2>2, <2>3
<1>2. CASE \E h \in Hooks, s \in Sids : HookArrive(h, s)
  BY <1>2 DEF HookArrive
<1>3. ASSUME NEW h \in Hooks,
             HookInsert(h) \/ HookReread(h) \/ HookSnapshot(h) \/ HookAnswer(h)
      PROVE  i \in DOMAIN rows /\ rows[i].status = "sent"
  BY <1>3 DEF HookInsert, HookReread, HookSnapshot, HookAnswer
<1>4. ASSUME NEW a \in Actors, Send(a)
      PROVE  i \in DOMAIN rows /\ rows[i].status = "sent"
  BY <1>4 DEF Send
<1>5. ASSUME NEW a \in Actors, Mark(a)
      PROVE  /\ i \in DOMAIN rows
             /\ \/ rows[i].status = "sent"
                \/ job[a].id = i /\ outcome[a] = "ok"
  <2>1. outcome[a] \in Outcomes /\ StatusFor(outcome[a]) \in Status
    BY StatusForOutcome DEF TypeOK
  <2>2. i \in DOMAIN rows /\ rows[i] \in Row
    BY <1>5 DEF Mark, SetStatus, TypeOK
  <2>3. CASE i # job[a].id
    <3>1. rows'[i] = rows[i]
      BY <1>5, <2>2, <2>3 DEF Mark, SetStatus
    <3>2. QED
      BY <2>2, <3>1
  <2>4. CASE i = job[a].id
    <3>1. rows'[i].status = StatusFor(outcome[a])
      BY <1>5, <2>1, <2>2, <2>4, RowUpdate DEF Mark, SetStatus
    <3>2. QED
      BY <2>1, <2>2, <2>4, <3>1, StatusForOutcome
  <2>5. QED
    BY <2>3, <2>4
<1>6. CASE WorkerScan \/ WorkerCheck \/ WorkerSleep \/ UNCHANGED vars
  BY <1>6 DEF WorkerScan, WorkerCheck, WorkerSleep, vars
<1>7. CASE Crash \/ \E a \in Actors : Abort(a)
  BY <1>7, FailureFrame
<1>8. CASE RosterChange
  BY <1>8 DEF RosterChange, AddMembership, RemoveMembership, DeleteUser, Link, Unlink,
              AssignNumber, DeleteTeam
<1>9. QED
  BY <1>1, <1>2, <1>3, <1>4, <1>5, <1>6, <1>7, <1>8 DEF Next, HookStep, WorkerStep, Actors

\* A sender has the outcome "ok" only right after a copy went out.
LEMMA OkStep ==
  ASSUME TypeOK, Shape, [Next]_vars, NEW a \in Actors,
         pc'[a] = "mark", outcome'[a] = "ok"
  PROVE  \/ pc[a] = "mark" /\ outcome[a] = "ok" /\ job'[a] = job[a]
         \/ Send(a)
<1> USE DEF procs, Stop, TypeOK
<1>1. ASSUME NEW h \in Hooks, NEW s \in Sids, HookArrive(h, s)
      PROVE  pc[a] = "mark" /\ outcome[a] = "ok" /\ job'[a] = job[a]
  BY <1>1 DEF HookArrive
<1>2. ASSUME NEW h \in Hooks, HookInsert(h) \/ HookReread(h) \/ HookSnapshot(h) \/ HookAnswer(h)
      PROVE  pc[a] = "mark" /\ outcome[a] = "ok" /\ job'[a] = job[a]
  BY <1>2 DEF HookInsert, HookReread, HookSnapshot, HookAnswer
<1>3. ASSUME NEW h \in Hooks, HookReserve(h)
      PROVE  pc[a] = "mark" /\ outcome[a] = "ok" /\ job'[a] = job[a]
  <2>1. PICK r \in req[h].todo : SkipReserved(h, r) \/ UserGone(h, r) \/ Reserve(h, r)
    BY <1>3 DEF HookReserve
  <2>2. UNCHANGED outcome
    BY <1>3 DEF HookReserve
  <2>3. CASE Reserve(h, r)
    BY <2>2, <2>3 DEF Reserve
  <2>4. CASE SkipReserved(h, r) \/ UserGone(h, r)
    BY <2>2, <2>4 DEF SkipReserved, UserGone
  <2>5. QED
    BY <2>1, <2>3, <2>4
<1>4. ASSUME NEW b \in Actors, Send(b)
      PROVE  (pc[a] = "mark" /\ outcome[a] = "ok" /\ job'[a] = job[a]) \/ Send(a)
  BY <1>4 DEF Send
<1>5. ASSUME NEW b \in Actors, Mark(b)
      PROVE  pc[a] = "mark" /\ outcome[a] = "ok" /\ job'[a] = job[a]
  BY <1>5 DEF Mark
<1>6. CASE WorkerScan \/ WorkerSleep \/ UNCHANGED vars
  BY <1>6 DEF WorkerScan, WorkerSleep, vars
<1>7. CASE WorkerCheck
  BY <1>7 DEF WorkerCheck
<1>8. CASE Crash \/ \E b \in Actors : Abort(b)
  BY <1>8, FailureFrame
<1>9. CASE RosterChange
  BY <1>9, RosterFrame
<1>10. QED
  BY <1>1, <1>2, <1>3, <1>4, <1>5, <1>6, <1>7, <1>8, <1>9
     DEF Next, HookStep, WorkerStep, Actors

LEMMA SentInvStep ==
  ASSUME TypeOK, Shape, JobsKnown, SentInv, [Next]_vars
  PROVE  SentInv'
<1>1. ASSUME NEW i \in DOMAIN rows', rows'[i].status = "sent"
      PROVE  copies'[<<rows'[i].sid, rows'[i].chat>>] > 0
  <2> DEFINE p == <<rows[i].sid, rows[i].chat>>
  <2>1. i \in DOMAIN rows
    BY <1>1, SentStep
  <2>2. rows[i] \in Row /\ p \in Sids \X Chats
    BY <2>1 DEF TypeOK, Row
  <2>3. copies[p] > 0
    <3>1. CASE rows[i].status = "sent"
      BY <2>1, <3>1 DEF SentInv, SentWasDelivered
    <3>2. ASSUME NEW a \in Actors, Mark(a), job[a].id = i, outcome[a] = "ok"
          PROVE  copies[p] > 0
      <4>1. pc[a] = "mark" /\ Known(job[a])
        BY <3>2 DEF Mark, JobsKnown, Delivering
      <4>2. QED
        BY <2>1, <3>2, <4>1 DEF Known, SentInv
    <3>3. QED
      BY <1>1, <3>1, <3>2, SentStep
  <2>4. copies[p] \in Nat /\ copies'[p] >= copies[p] /\ copies'[p] \in Nat
    BY <2>2, StoreStep, TypeStep DEF TypeOK
  <2>5. rows'[i].sid = rows[i].sid /\ rows'[i].chat = rows[i].chat
    BY <2>1, <1>1, StoreStep
  <2>6. QED
    BY <2>3, <2>4, <2>5
<1>2. ASSUME NEW a \in Actors, pc'[a] = "mark", outcome'[a] = "ok"
      PROVE  copies'[<<job'[a].sid, job'[a].chat>>] > 0
  <2> DEFINE p == <<job[a].sid, job[a].chat>>
  <2>1. CASE pc[a] = "mark" /\ outcome[a] = "ok" /\ job'[a] = job[a]
    <3>1. p \in Sids \X Chats /\ copies[p] > 0
      BY <2>1 DEF Shape, Delivering, Job, SentInv
    <3>2. copies[p] \in Nat /\ copies'[p] >= copies[p] /\ copies'[p] \in Nat
      BY <3>1, StoreStep, TypeStep DEF TypeOK
    <3>3. QED
      BY <2>1, <3>1, <3>2
  <2>2. CASE Send(a)
    <3>1. p \in Sids \X Chats
      BY <2>2 DEF Send, Shape, Delivering, Job
    <3>2. job'[a] = job[a] /\ copies' = [copies EXCEPT ![p] = @ + 1]
      BY <1>2, <2>2 DEF Send, TypeOK
    <3>3. copies[p] \in Nat /\ copies'[p] = copies[p] + 1
      BY <3>1, <3>2 DEF TypeOK
    <3>4. QED
      BY <3>2, <3>3
  <2>3. QED
    BY <1>2, <2>1, <2>2, OkStep
<1>3. QED
  BY <1>1, <1>2 DEF SentInv, SentWasDelivered

-----------------------------------------------------------------------------
(* The promise of a 200.                                                   *)

\* A request that is fanning out is left alone, has just taken its snapshot,
\* or has just worked through one recipient, who has a row now.
LEMMA RequestStep ==
  ASSUME TypeOK, Shape, [Next]_vars, NEW h \in Hooks, FanningOut(h)'
  PROVE  \/ FanningOut(h) /\ req'[h] = req[h]
         \/ /\ HookSnapshot(h) /\ req[h].team \in Teams /\ req'[h].sid = req[h].sid
            /\ req'[h].todo = req'[h].audience
            /\ req'[h].audience = Recipients(members, links, live, req[h].team)
         \/ /\ FanningOut(h) /\ HookReserve(h)
            /\ req'[h].sid = req[h].sid /\ req'[h].audience = req[h].audience
            /\ \E r \in req[h].todo :
                 req'[h].todo = req[h].todo \ {r} /\ HasRow(req[h].sid, r[2])'
<1> USE DEF procs, Stop, FanningOut
<1>1. ASSUME NEW g \in Hooks, NEW s \in Sids, HookArrive(g, s)
      PROVE  FanningOut(h) /\ req'[h] = req[h]
  BY <1>1 DEF HookArrive, TypeOK, Actors
<1>2. ASSUME NEW g \in Hooks, HookInsert(g) \/ HookReread(g) \/ HookAnswer(g)
      PROVE  FanningOut(h) /\ req'[h] = req[h]
  BY <1>2 DEF HookInsert, HookReread, HookAnswer, TypeOK, Actors
<1>3. ASSUME NEW g \in Hooks, HookSnapshot(g), g # h
      PROVE  FanningOut(h) /\ req'[h] = req[h]
  BY <1>3 DEF HookSnapshot, TypeOK, Actors
<1>4. ASSUME HookSnapshot(h)
      PROVE  /\ req[h].team \in Teams /\ req'[h].sid = req[h].sid
             /\ req'[h].todo = req'[h].audience
             /\ req'[h].audience = Recipients(members, links, live, req[h].team)
  <2> DEFINE found == Recipients(members, links, live, req[h].team)
  <2>1. req[h] \in Request /\ found \in SUBSET Recipient
    BY <1>4 DEF HookSnapshot, Shape, Recipients
  <2>2. req[h].team # NoTeam
    BY <1>4 DEF HookSnapshot, TypeOK, Actors
  <2>3. req' = [req EXCEPT ![h] = [req[h] EXCEPT !.todo = found, !.audience = found]]
    BY <1>4, <2>2 DEF HookSnapshot, TypeOK, Actors
  <2>4. req'[h] = [req[h] EXCEPT !.todo = found, !.audience = found]
    BY <2>3 DEF TypeOK
  <2>5. req[h].team \in Teams
    BY <2>1, <2>2 DEF Request
  <2> HIDE DEF found
  <2>6. /\ req'[h].sid = req[h].sid /\ req'[h].todo = found /\ req'[h].audience = found
    BY <2>1, <2>4 DEF Request
  <2>7. QED
    BY <2>5, <2>6 DEF found
<1>5. ASSUME NEW g \in Hooks, HookReserve(g), g # h
      PROVE  FanningOut(h) /\ req'[h] = req[h]
  BY <1>5 DEF HookReserve, SkipReserved, UserGone, Reserve, TypeOK, Actors
<1>6. ASSUME HookReserve(h)
      PROVE  /\ FanningOut(h)
             /\ req'[h].sid = req[h].sid /\ req'[h].audience = req[h].audience
             /\ \E r \in req[h].todo :
                  req'[h].todo = req[h].todo \ {r} /\ HasRow(req[h].sid, r[2])'
  <2>1. PICK r \in req[h].todo : SkipReserved(h, r) \/ UserGone(h, r) \/ Reserve(h, r)
    BY <1>6 DEF HookReserve
  <2>2. req[h] \in Request /\ pc[h] = "fanout" /\ h \in Actors
    BY <1>6 DEF HookReserve, Shape, Actors
  <2>3. ~UserGone(h, r)
    BY <2>2 DEF UserGone, TypeOK
  <2>4. req' = [req EXCEPT ![h] = [req[h] EXCEPT !.todo = @ \ {r}]]
    BY <2>1, <2>3 DEF SkipReserved, Reserve
  <2>5. req'[h] = [req[h] EXCEPT !.todo = @ \ {r}]
    BY <2>4 DEF TypeOK
  <2>6. /\ req'[h].sid = req[h].sid /\ req'[h].audience = req[h].audience
        /\ req'[h].todo = req[h].todo \ {r}
    BY <2>2, <2>5, RequestTodo
  <2>7. HasRow(req[h].sid, r[2])'
    <3>1. CASE SkipReserved(h, r)
      <4>1. HasRow(req[h].sid, r[2]) /\ rows' = rows
        BY <3>1 DEF SkipReserved
      <4>2. QED
        BY <4>1, <2>6 DEF HasRow
    <3>2. CASE Reserve(h, r)
      <4>1. Fresh(h) /\ job'[h].chat = r[2]
        BY <1>6, <3>2, ReserveFresh
      <4>2. QED
        BY <4>1, <2>6 DEF Fresh, HasRow
    <3>3. QED
      BY <2>1, <2>3, <3>1, <3>2
  <2>8. QED
    BY <2>2, <2>6, <2>7
<1>7. ASSUME NEW a \in Actors, Send(a) \/ Mark(a)
      PROVE  FanningOut(h) /\ req'[h] = req[h]
  BY <1>7 DEF Send, Mark, TypeOK, Actors
<1>8. CASE WorkerScan \/ WorkerCheck \/ WorkerSleep \/ UNCHANGED vars
  BY <1>8, SentinelAssumption DEF WorkerScan, WorkerCheck, WorkerSleep, vars, TypeOK, Actors
<1>9. CASE Crash \/ \E a \in Actors : Abort(a)
  BY <1>9, FailureFrame DEF Actors
<1>10. CASE RosterChange
  BY <1>10, RosterFrame
<1>11. QED
  BY <1>1, <1>2, <1>3, <1>4, <1>5, <1>6, <1>7, <1>8, <1>9, <1>10
     DEF Next, HookStep, WorkerStep, Actors

\* Only HookAnswer promises anything.
LEMMA PromisedStep ==
  ASSUME [Next]_vars
  PROVE  UNCHANGED promised \/ \E h \in Hooks : HookAnswer(h)
<1> USE DEF history
<1>1. CASE \E h \in Hooks, s \in Sids : HookArrive(h, s)
  BY <1>1 DEF HookArrive
<1>2. CASE \E h \in Hooks : HookStep(h)
  BY <1>2 DEF HookStep, HookInsert, HookReread, HookSnapshot, HookReserve, Send, Mark
<1>3. CASE WorkerStep
  BY <1>3 DEF WorkerStep, WorkerScan, WorkerCheck, WorkerSleep, Send, Mark
<1>4. CASE Crash \/ \E a \in Actors : Abort(a)
  BY <1>4 DEF Crash, Abort
<1>5. CASE RosterChange \/ UNCHANGED vars
  BY <1>5, RosterFrame DEF vars
<1>6. QED
  BY <1>1, <1>2, <1>3, <1>4, <1>5 DEF Next

LEMMA PromiseInvStep ==
  ASSUME TypeOK, Shape, PromiseInv, [Next]_vars
  PROVE  PromiseInv'
<1>1. ASSUME NEW p \in promised' PROVE Reserved(p)'
  <2>1. CASE p \in promised
    <3>1. Reserved(p) /\ p \in Sids \X Chats
      BY <2>1 DEF PromiseInv, PromiseKept, Reserved, TypeOK
    <3>2. QED
      BY <3>1, ReservedStays
  <2>2. ASSUME NEW h \in Hooks, HookAnswer(h), p \notin promised PROVE Reserved(p)'
    <3>1. PICK r \in req[h].audience : p = <<req[h].sid, r[2]>>
      BY <1>1, <2>2 DEF HookAnswer
    <3>2. pc[h] = "fanout" /\ req[h].todo = {} /\ req[h] \in Request
      BY <2>2 DEF HookAnswer, Shape
    <3>3. r \in Recipient /\ p \in Sids \X Chats
      BY <3>1, <3>2 DEF Request, Recipient
    <3>4. Reserved(<<req[h].sid, r[2]>>)
      BY <3>1, <3>2 DEF PromiseInv, FanningOut
    <3>5. QED
      BY <3>1, <3>3, <3>4, ReservedStays
  <2>3. QED
    BY <1>1, <2>1, <2>2, PromisedStep
<1>2. ASSUME NEW h \in Hooks, FanningOut(h)', NEW r \in req'[h].audience,
             NEW p, p = <<req'[h].sid, r[2]>>
      PROVE  r \in req'[h].todo \/ Reserved(p)'
  <2>1. CASE FanningOut(h) /\ req'[h].sid = req[h].sid /\ req'[h].audience = req[h].audience
    <3>1. req[h] \in Request /\ r \in req[h].audience /\ r \in Recipient
      BY <1>2, <2>1 DEF FanningOut, Shape, Request
    <3>2. p = <<req[h].sid, r[2]>> /\ p \in Sids \X Chats
      BY <1>2, <2>1, <3>1 DEF Request, Recipient
    <3>3. r \in req[h].todo \/ Reserved(p)'
      BY <2>1, <3>1, <3>2, ReservedStays DEF PromiseInv
    <3>4. CASE req'[h] = req[h]
      BY <3>3, <3>4
    <3>5. ASSUME NEW q \in req[h].todo, req'[h].todo = req[h].todo \ {q},
                 HasRow(req[h].sid, q[2])'
          PROVE  r \in req'[h].todo \/ Reserved(p)'
      <4>1. CASE q = r
        <5>1. p[1] = req[h].sid /\ p[2] = r[2]
          BY <3>2
        <5>2. HasRow(p[1], p[2])'
          BY <2>1, <3>5, <4>1, <5>1 DEF HasRow
        <5>3. QED
          BY <5>2 DEF Reserved
      <4>2. CASE q # r
        BY <3>3, <3>5, <4>2
      <4>3. QED
        BY <4>1, <4>2
    <3>6. CASE HookSnapshot(h)
      BY <2>1, <3>6 DEF HookSnapshot, FanningOut
    <3>7. QED
      BY <1>2, <3>4, <3>5, <3>6, RequestStep
  <2>2. CASE HookSnapshot(h) /\ req'[h].todo = req'[h].audience
    BY <1>2, <2>2
  <2>3. QED
    BY <1>2, <2>1, <2>2, RequestStep
<1>3. QED
  BY <1>1, <1>2 DEF PromiseInv, PromiseKept, Reserved

-----------------------------------------------------------------------------
(* Who receives an SMS.                                                    *)

\* What each step does to the tables that route an SMS.
LEMMA RoutingFrame ==
  ASSUME TypeOK, Shape, [Next]_vars
  PROVE  \/ UNCHANGED <<users, teams, members, numberTeam, links>>
            /\ UNCHANGED <<sms, routed, entitled>> /\ live' \subseteq live
         \/ \E h \in Hooks : HookInsert(h)
         \/ RosterChange
<1> USE DEF roster, store, history
<1>1. CASE \E h \in Hooks, s \in Sids : HookArrive(h, s)
  BY <1>1 DEF HookArrive
<1>2. ASSUME NEW h \in Hooks,
             HookReread(h) \/ HookSnapshot(h) \/ HookReserve(h) \/ HookAnswer(h)
      PROVE  UNCHANGED <<users, teams, members, numberTeam, links, live, sms, routed, entitled>>
  BY <1>2 DEF HookReread, HookSnapshot, HookReserve, HookAnswer
<1>3. ASSUME NEW a \in Actors, Send(a) \/ Mark(a)
      PROVE  /\ UNCHANGED <<users, teams, members, numberTeam, links, sms, routed, entitled>>
             /\ live' \subseteq live
  BY <1>3 DEF Send, Mark
<1>4. CASE WorkerScan \/ WorkerCheck \/ WorkerSleep \/ UNCHANGED vars
  BY <1>4 DEF WorkerScan, WorkerCheck, WorkerSleep, vars
<1>5. CASE Crash \/ \E a \in Actors : Abort(a)
  BY <1>5 DEF Crash, Abort
<1>6. QED
  BY <1>1, <1>2, <1>3, <1>4, <1>5 DEF Next, HookStep, WorkerStep, Actors

\* Whoever may receive an SMS now has been entered in "entitled".
RecipientsEntitled ==
  \A s \in Sids : routed[s] \in Teams =>
    Recipients(members, links, live, routed[s]) \subseteq entitled[s]

LEMMA RecipientsStep ==
  ASSUME TypeOK, Shape, Routing, [Next]_vars
  PROVE  RecipientsEntitled'
<1> USE DEF TypeOK, RecipientsEntitled, Recipients
<1>1. CASE /\ UNCHANGED <<users, teams, members, numberTeam, links>>
           /\ UNCHANGED <<sms, routed, entitled>> /\ live' \subseteq live
  BY <1>1 DEF Routing
<1>2. ASSUME NEW h \in Hooks, HookInsert(h) PROVE RecipientsEntitled'
  <2>1. UNCHANGED <<members, links, live>>
    BY <1>2 DEF HookInsert, roster
  <2>2. CASE UNCHANGED <<routed, entitled>>
    BY <2>1, <2>2 DEF Routing
  <2>3. ASSUME NEW s \in Sids, NEW t \in Teams \cup {NoTeam}, s = req[h].sid, t = req[h].team,
               routed' = [routed EXCEPT ![s] = t],
               entitled' = IF t = NoTeam THEN entitled
                 ELSE [entitled EXCEPT ![s] = @ \cup Recipients(members, links, live, t)]
        PROVE  RecipientsEntitled'
    BY <2>1, <2>3, SentinelAssumption DEF Routing
  <2>4. req[h] \in Request
    BY <1>2 DEF HookInsert, Shape
  <2>5. QED
    BY <1>2, <2>2, <2>3, <2>4 DEF HookInsert, Request
<1>3. CASE RosterChange
  <2>1. routed' = routed
    BY <1>3, RosterFrame
  <2>2. CASE Entitle
    BY <2>1, <2>2 DEF Entitle
  <2>3. ASSUME NEW u \in Users, NEW t \in Teams, RemoveMembership(u, t) PROVE RecipientsEntitled'
    BY <2>1, <2>3 DEF RemoveMembership, history, Routing
  <2>4. ASSUME NEW u \in Users, DeleteUser(u) PROVE RecipientsEntitled'
    BY <2>1, <2>4, SentinelAssumption DEF DeleteUser, Routing
  <2>5. ASSUME NEW c \in Chats, Unlink(c) PROVE RecipientsEntitled'
    BY <2>1, <2>5, SentinelAssumption DEF Unlink, history, Routing
  <2>6. ASSUME NEW t \in Teams, DeleteTeam(t) PROVE RecipientsEntitled'
    BY <2>1, <2>6 DEF DeleteTeam, history, Routing
  <2>7. ASSUME NEW t \in Teams \cup {NoTeam}, AssignNumber(t) PROVE RecipientsEntitled'
    BY <2>1, <2>7 DEF AssignNumber, history, Routing
  <2>8. QED
    BY <1>3, <2>2, <2>3, <2>4, <2>5, <2>6, <2>7 DEF RosterChange, AddMembership, Link
<1>4. QED
  BY <1>1, <1>2, <1>3, RoutingFrame

\* A request is at its snapshot with the team its SMS was saved for.
LEMMA SnapshotStep ==
  ASSUME TypeOK, Shape, [Next]_vars, NEW h \in Hooks, pc'[h] = "snapshot"
  PROVE  /\ req'[h].sid \in Sids
         /\ \/ pc[h] = "snapshot" /\ req'[h] = req[h]
            \/ sms[req'[h].sid] = req'[h].team /\ UNCHANGED <<sms, routed>>
            \/ HookInsert(h) /\ routed'[req'[h].sid] = req'[h].team
<1> USE DEF procs, Stop
<1>0. req'[h] \in Request /\ req'[h].sid \in Sids
  BY TypeStep DEF Shape, Request
<1>1. ASSUME NEW g \in Hooks, NEW s \in Sids, HookArrive(g, s)
      PROVE  \/ pc[h] = "snapshot" /\ req'[h] = req[h]
             \/ sms[req'[h].sid] = req'[h].team /\ UNCHANGED <<sms, routed>>
  BY <1>1 DEF HookArrive, TypeOK, Actors, TeamOf, store, history
<1>2. ASSUME NEW g \in Hooks, g # h,
             HookInsert(g) \/ HookReread(g) \/ HookSnapshot(g) \/ HookReserve(g) \/ HookAnswer(g)
      PROVE  pc[h] = "snapshot" /\ req'[h] = req[h]
  <2>1. CASE HookInsert(g) \/ HookReread(g) \/ HookAnswer(g)
    BY <1>2, <2>1 DEF HookInsert, HookReread, HookAnswer, TypeOK, Actors
  <2>2. CASE HookSnapshot(g)
    BY <1>2, <2>2 DEF HookSnapshot, TypeOK, Actors
  <2>3. CASE HookReserve(g)
    BY <1>2, <2>3 DEF HookReserve, SkipReserved, UserGone, Reserve, TypeOK, Actors
  <2>4. QED
    BY <1>2, <2>1, <2>2, <2>3
<1>3. ASSUME HookInsert(h)
      PROVE  routed'[req'[h].sid] = req'[h].team
  <2>1. req' = req /\ req[h] \in Request
    BY <1>3 DEF HookInsert, Shape
  <2>2. sms[req[h].sid] = Unsaved /\ routed' = [routed EXCEPT ![req[h].sid] = req[h].team]
    BY <1>3 DEF HookInsert, TypeOK, Actors
  <2>3. QED
    BY <2>1, <2>2 DEF TypeOK, Request
<1>4. ASSUME HookReread(h)
      PROVE  sms[req'[h].sid] = req'[h].team /\ UNCHANGED <<sms, routed>>
  <2>1. req[h] \in Request /\ pc[h] = "reread"
    BY <1>4 DEF HookReread, Shape
  <2>2. CASE sms[req[h].sid] = Unsaved
    BY <1>4, <2>1, <2>2 DEF HookReread, TypeOK, Actors
  <2>3. CASE sms[req[h].sid] # Unsaved
    <3>1. sms[req[h].sid] \in Teams \cup {NoTeam}
      BY <2>1, <2>3 DEF Request, TypeOK
    <3>2. req' = [req EXCEPT ![h] = [req[h] EXCEPT !.team = sms[req[h].sid]]]
      BY <1>4, <2>3 DEF HookReread
    <3>3. req'[h] = [req[h] EXCEPT !.team = sms[req[h].sid]]
      BY <3>2 DEF TypeOK
    <3>4. req'[h].sid = req[h].sid /\ req'[h].team = sms[req[h].sid]
      BY <2>1, <3>1, <3>3, RequestTeam
    <3>5. QED
      BY <1>4, <3>4 DEF HookReread, store, history
  <2>4. QED
    BY <2>2, <2>3
<1>5. ASSUME HookSnapshot(h) \/ HookReserve(h) \/ HookAnswer(h)
      PROVE  pc[h] = "snapshot" /\ req'[h] = req[h]
  BY <1>5 DEF HookSnapshot, HookReserve, SkipReserved, UserGone, Reserve, HookAnswer,
              TypeOK, Actors
<1>6. ASSUME NEW a \in Actors, Send(a) \/ Mark(a)
      PROVE  pc[h] = "snapshot" /\ req'[h] = req[h]
  BY <1>6 DEF Send, Mark, TypeOK, Actors
<1>7. CASE WorkerScan \/ WorkerCheck \/ WorkerSleep \/ UNCHANGED vars
  BY <1>0, <1>7, SentinelAssumption DEF WorkerScan, WorkerCheck, WorkerSleep, vars, TypeOK, Actors
<1>8. CASE Crash \/ \E a \in Actors : Abort(a)
  BY <1>0, <1>8, FailureFrame DEF Actors
<1>9. CASE RosterChange
  BY <1>0, <1>9, RosterFrame
<1>10. QED
  BY <1>0, <1>1, <1>2, <1>3, <1>4, <1>5, <1>6, <1>7, <1>8, <1>9
     DEF Next, HookStep, WorkerStep, Actors

LEMMA RoutingStep ==
  ASSUME TypeOK, Shape, Routing, [Next]_vars
  PROVE  Routing'
<1> DEFINE Saved(s) == /\ sms'[s] \in Teams => routed'[s] = sms'[s]
                       /\ sms'[s] = Unsaved => routed'[s] = Unsaved
<1>1. ASSUME NEW s \in Sids PROVE Saved(s)
  <2>1. CASE UNCHANGED <<sms, routed>>
    BY <2>1 DEF Routing
  <2>2. ASSUME NEW h \in Hooks, HookInsert(h) PROVE Saved(s)
    <3>1. req[h] \in Request
      BY <2>2 DEF HookInsert, Shape
    <3>2. QED
      BY <2>2, <3>1, SentinelAssumption DEF HookInsert, Routing, TypeOK, Request
  <2>3. ASSUME NEW t \in Teams, DeleteTeam(t) PROVE Saved(s)
    BY <2>3, SentinelAssumption DEF DeleteTeam, history, Routing, TypeOK
  <2>4. CASE RosterChange
    <3>1. UNCHANGED <<sms, routed>> \/ \E t \in Teams : DeleteTeam(t)
      BY <2>4 DEF RosterChange, AddMembership, RemoveMembership, DeleteUser, Link, Unlink,
                  AssignNumber, store, history
    <3>2. QED
      BY <2>1, <2>3, <3>1
  <2>5. QED
    BY <2>1, <2>2, <2>4, RoutingFrame
<1>2. ASSUME NEW h \in Hooks, pc'[h] = "snapshot", req'[h].team \in Teams
      PROVE  routed'[req'[h].sid] = req'[h].team
  <2> DEFINE s == req'[h].sid
  <2>1. CASE pc[h] = "snapshot" /\ req'[h] = req[h]
    <3>1. routed[req[h].sid] = req[h].team /\ req[h] \in Request
      BY <1>2, <2>1 DEF Routing, Shape
    <3>2. CASE routed' = routed
      BY <2>1, <3>1, <3>2
    <3>3. ASSUME NEW g \in Hooks, HookInsert(g) PROVE routed'[req[h].sid] = routed[req[h].sid]
      <4>1. CASE routed' = routed
        BY <4>1
      <4>2. CASE sms[req[g].sid] = Unsaved
                 /\ routed' = [routed EXCEPT ![req[g].sid] = req[g].team]
        <5>1. req[g].sid # req[h].sid
          <6>1. req[g] \in Request
            BY <3>3 DEF HookInsert, Shape
          <6>2. routed[req[g].sid] = Unsaved
            BY <4>2, <6>1 DEF Routing, Request
          <6>3. QED
            BY <1>2, <2>1, <3>1, <6>2, SentinelAssumption
        <5>2. QED
          BY <4>2, <5>1, <3>1 DEF TypeOK, Request
      <4>3. QED
        BY <3>3, <4>1, <4>2 DEF HookInsert
    <3>4. QED
      BY <2>1, <3>1, <3>2, <3>3, RoutingFrame, RosterFrame
  <2>2. CASE sms[s] = req'[h].team /\ UNCHANGED <<sms, routed>> /\ s \in Sids
    BY <1>2, <2>2 DEF Routing
  <2>3. CASE routed'[s] = req'[h].team
    BY <2>3
  <2>4. QED
    BY <1>2, <2>1, <2>2, <2>3, SnapshotStep
<1>3. RecipientsEntitled'
  BY RecipientsStep
<1>4. QED
  BY <1>1, <1>2, <1>3 DEF Routing, RecipientsEntitled

\* Copies go only to the chat of a sender's job; rows vanish only with a user.
LEMMA CopyStep ==
  ASSUME TypeOK, Shape, [Next]_vars
  PROVE  \/ UNCHANGED copies
         \/ \E a \in Actors : Send(a) /\ \A p \in Sids \X Chats :
              p # <<job[a].sid, job[a].chat>> => copies'[p] = copies[p]
<1> USE DEF history
<1>1. CASE \E h \in Hooks, s \in Sids : HookArrive(h, s)
  BY <1>1 DEF HookArrive
<1>2. ASSUME NEW h \in Hooks,
             HookInsert(h) \/ HookReread(h) \/ HookSnapshot(h) \/ HookReserve(h) \/ HookAnswer(h)
      PROVE  UNCHANGED copies
  BY <1>2 DEF HookInsert, HookReread, HookSnapshot, HookReserve, HookAnswer
<1>3. ASSUME NEW a \in Actors, Mark(a) PROVE UNCHANGED copies
  BY <1>3 DEF Mark
<1>4. ASSUME NEW a \in Actors, Send(a)
      PROVE  \A p \in Sids \X Chats :
               p # <<job[a].sid, job[a].chat>> => copies'[p] = copies[p]
  BY <1>4 DEF Send, TypeOK
<1>5. CASE WorkerScan \/ WorkerCheck \/ WorkerSleep \/ UNCHANGED vars
  BY <1>5 DEF WorkerScan, WorkerCheck, WorkerSleep, vars
<1>6. CASE Crash \/ \E a \in Actors : Abort(a)
  BY <1>6 DEF Crash, Abort
<1>7. CASE RosterChange
  BY <1>7, RosterFrame
<1>8. QED
  BY <1>1, <1>2, <1>3, <1>4, <1>5, <1>6, <1>7 DEF Next, HookStep, WorkerStep, Actors

LEMMA PurgedStep ==
  ASSUME TypeOK, [Next]_vars, NEW p \in purged', p \notin purged
  PROVE  \E i \in DOMAIN rows : p = <<rows[i].sid, rows[i].chat>>
<1> USE DEF history
<1>1. CASE \E h \in Hooks, s \in Sids : HookArrive(h, s)
  BY <1>1 DEF HookArrive
<1>2. CASE \E h \in Hooks : HookStep(h)
  BY <1>2 DEF HookStep, HookInsert, HookReread, HookSnapshot, HookReserve, HookAnswer, Send, Mark
<1>3. CASE WorkerStep
  BY <1>3 DEF WorkerStep, WorkerScan, WorkerCheck, WorkerSleep, Send, Mark
<1>4. CASE Crash \/ \E a \in Actors : Abort(a)
  BY <1>4 DEF Crash, Abort
<1>5. CASE RosterChange
  <2>1. ASSUME NEW u \in Users, DeleteUser(u)
        PROVE  \E i \in DOMAIN rows : p = <<rows[i].sid, rows[i].chat>>
    <3>1. purged' = purged \cup {<<rows[i].sid, rows[i].chat>> :
                                  i \in {k \in DOMAIN rows : rows[k].user = u}}
      BY <2>1 DEF DeleteUser
    <3>2. QED
      BY <3>1
  <2>2. UNCHANGED purged \/ \E u \in Users : DeleteUser(u)
    BY <1>5 DEF RosterChange, AddMembership, RemoveMembership, Link, Unlink, AssignNumber,
                DeleteTeam
  <2>3. QED
    BY <2>1, <2>2
<1>6. CASE UNCHANGED vars
  BY <1>6 DEF vars
<1>7. QED
  BY <1>1, <1>2, <1>3, <1>4, <1>5, <1>6 DEF Next

LEMMA EntitledStep ==
  ASSUME TypeOK, Shape, JobsKnown, Routing, EntitledInv, [Next]_vars
  PROVE  EntitledInv'
<1>0. \A s \in Sids : entitled[s] \subseteq entitled'[s]
  BY StoreStep
<1>1. ASSUME NEW h \in Hooks, FanningOut(h)'
      PROVE  req'[h].todo \subseteq req'[h].audience /\ req'[h].audience \subseteq entitled'[req'[h].sid]
  <2>1. CASE FanningOut(h) /\ req'[h] = req[h]
    <3>1. req[h] \in Request
      BY <2>1 DEF FanningOut, Shape
    <3>2. QED
      BY <1>0, <2>1, <3>1 DEF EntitledInv, Request
  <2>2. CASE /\ HookSnapshot(h) /\ req[h].team \in Teams /\ req'[h].sid = req[h].sid
             /\ req'[h].todo = req'[h].audience
             /\ req'[h].audience = Recipients(members, links, live, req[h].team)
    <3>1. req[h] \in Request /\ pc[h] = "snapshot"
      BY <2>2 DEF HookSnapshot, Shape
    <3>2. Recipients(members, links, live, req[h].team) \subseteq entitled[req[h].sid]
      BY <2>2, <3>1 DEF Routing, Request
    <3>3. QED
      BY <1>0, <2>2, <3>1, <3>2 DEF Request
  <2>3. CASE /\ FanningOut(h)
             /\ req'[h].sid = req[h].sid /\ req'[h].audience = req[h].audience
             /\ \E r \in req[h].todo : req'[h].todo = req[h].todo \ {r}
    <3>1. req[h] \in Request
      BY <2>3 DEF FanningOut, Shape
    <3>2. QED
      BY <1>0, <2>3, <3>1 DEF EntitledInv, Request
  <2>4. QED
    BY <1>1, <2>1, <2>2, <2>3, RequestStep
<1>2. ASSUME NEW i \in DOMAIN rows'
      PROVE  <<rows'[i].user, rows'[i].chat>> \in entitled'[rows'[i].sid]
  <2>1. CASE i \in DOMAIN rows
    <3>1. rows[i].sid \in Sids
      BY <2>1 DEF TypeOK, Row
    <3>2. QED
      BY <1>0, <1>2, <2>1, <3>1, StoreStep DEF EntitledInv
  <2>2. ASSUME NEW h \in Hooks, HookReserve(h), Fresh(h), i = nextId
        PROVE  <<rows'[i].user, rows'[i].chat>> \in entitled'[rows'[i].sid]
    <3>1. pc[h] = "fanout" /\ req[h] \in Request
      BY <2>2 DEF HookReserve, Shape
    <3>2. req[h].todo \subseteq entitled[req[h].sid] /\ req[h].sid \in Sids
      BY <3>1 DEF EntitledInv, FanningOut, Request
    <3>3. QED
      BY <1>0, <2>2, <3>2 DEF Fresh
  <2>3. QED
    BY <1>2, <2>1, <2>2, RowStep, StoreStep
<1>3. ASSUME NEW p \in purged' PROVE \E u \in Users : <<u, p[2]>> \in entitled'[p[1]]
  <2>1. CASE p \in purged
    BY <1>0, <2>1 DEF EntitledInv, TypeOK
  <2>2. ASSUME NEW i \in DOMAIN rows, p = <<rows[i].sid, rows[i].chat>>
        PROVE  \E u \in Users : <<u, p[2]>> \in entitled'[p[1]]
    <3>1. rows[i].user \in Users /\ rows[i].sid \in Sids
      BY DEF TypeOK, Row
    <3>2. <<rows[i].user, rows[i].chat>> \in entitled[rows[i].sid]
      BY DEF EntitledInv
    <3>3. QED
      BY <1>0, <2>2, <3>1, <3>2
  <2>3. QED
    BY <1>3, <2>1, <2>2, PurgedStep
<1>4. ASSUME NEW s \in Sids, NEW c \in Chats, copies'[<<s, c>>] > 0
      PROVE  \E u \in Users : <<u, c>> \in entitled'[s]
  <2>1. CASE copies'[<<s, c>>] = copies[<<s, c>>]
    BY <1>0, <1>4, <2>1 DEF EntitledInv, OnlyEntitledChats
  <2>2. ASSUME NEW a \in Actors, Send(a), s = job[a].sid, c = job[a].chat
        PROVE  \E u \in Users : <<u, c>> \in entitled'[s]
    <3>1. Reserved(<<s, c>>)
      BY <2>2 DEF Send, JobsKnown, Delivering, Known
    <3>2. CASE <<s, c>> \in purged
      <4>1. \E u \in Users : <<u, <<s, c>>[2]>> \in entitled[<<s, c>>[1]]
        BY <3>2 DEF EntitledInv
      <4>2. QED
        BY <1>0, <4>1
    <3>3. CASE HasRow(s, c)
      <4>1. PICK i \in DOMAIN rows : rows[i].sid = s /\ rows[i].chat = c
        BY <3>3 DEF HasRow
      <4>2. rows[i].user \in Users
        BY <4>1 DEF TypeOK, Row
      <4>3. <<rows[i].user, c>> \in entitled[s]
        BY <4>1 DEF EntitledInv
      <4>4. QED
        BY <1>0, <4>2, <4>3
    <3>4. QED
      BY <3>1, <3>2, <3>3 DEF Reserved
  <2>3. QED
    BY <2>1, <2>2, CopyStep
<1>5. QED
  BY <1>1, <1>2, <1>3, <1>4 DEF EntitledInv, OnlyEntitledChats

-----------------------------------------------------------------------------
(* How many attempts a row can collect.                                    *)

\* A commit adds one attempt to the row of the sender's job.
LEMMA AttemptStep ==
  ASSUME TypeOK, Shape, [Next]_vars, NEW i \in DOMAIN rows, i \in DOMAIN rows'
  PROVE  \/ rows'[i].attempts = rows[i].attempts
         \/ \E a \in Actors : /\ Mark(a) /\ job[a].id = i
                              /\ rows'[i].attempts = rows[i].attempts + 1
<1> USE DEF store, Stop
<1>1. ASSUME NEW h \in Hooks, HookReserve(h)
      PROVE  rows'[i].attempts = rows[i].attempts
  <2>1. PICK r \in req[h].todo : SkipReserved(h, r) \/ UserGone(h, r) \/ Reserve(h, r)
    BY <1>1 DEF HookReserve
  <2>2. CASE Reserve(h, r)
    <3>1. Fresh(h)
      BY <1>1, <2>2, ReserveFresh
    <3>2. QED
      BY <3>1 DEF Fresh
  <2>3. CASE SkipReserved(h, r) \/ UserGone(h, r)
    BY <2>3 DEF SkipReserved, UserGone
  <2>4. QED
    BY <2>1, <2>2, <2>3
<1>2. CASE \E h \in Hooks, s \in Sids : HookArrive(h, s)
  BY <1>2 DEF HookArrive
<1>3. ASSUME NEW h \in Hooks,
             HookInsert(h) \/ HookReread(h) \/ HookSnapshot(h) \/ HookAnswer(h)
      PROVE  rows'[i].attempts = rows[i].attempts
  BY <1>3 DEF HookInsert, HookReread, HookSnapshot, HookAnswer
<1>4. ASSUME NEW a \in Actors, Send(a)
      PROVE  rows'[i].attempts = rows[i].attempts
  BY <1>4 DEF Send
<1>5. ASSUME NEW a \in Actors, Mark(a)
      PROVE  \/ rows'[i].attempts = rows[i].attempts
             \/ job[a].id = i /\ rows'[i].attempts = rows[i].attempts + 1
  <2>1. StatusFor(outcome[a]) \in Status /\ rows[i] \in Row
    BY StatusForOutcome DEF TypeOK
  <2>2. CASE i # job[a].id
    <3>1. rows'[i] = rows[i]
      BY <1>5, <2>2 DEF Mark, SetStatus
    <3>2. QED
      BY <3>1
  <2>3. CASE i = job[a].id
    <3>1. rows'[i].attempts = rows[i].attempts + 1
      BY <1>5, <2>1, <2>3, RowUpdate DEF Mark, SetStatus
    <3>2. QED
      BY <2>3, <3>1
  <2>4. QED
    BY <2>2, <2>3
<1>6. CASE WorkerScan \/ WorkerCheck \/ WorkerSleep \/ UNCHANGED vars
  BY <1>6 DEF WorkerScan, WorkerCheck, WorkerSleep, vars
<1>7. CASE Crash \/ \E a \in Actors : Abort(a)
  BY <1>7, FailureFrame
<1>8. CASE RosterChange
  BY <1>8 DEF RosterChange, AddMembership, RemoveMembership, DeleteUser, Link, Unlink,
              AssignNumber, DeleteTeam
<1>9. QED
  BY <1>1, <1>2, <1>3, <1>4, <1>5, <1>6, <1>7, <1>8 DEF Next, HookStep, WorkerStep, Actors

\* A request gets hold of a row only by inserting it.
LEMMA HookHoldsStep ==
  ASSUME TypeOK, Shape, [Next]_vars, NEW i, HookHolds(i)'
  PROVE  HookHolds(i) \/ \E h \in Hooks : Fresh(h) /\ i = nextId
<1>1. PICK h \in Hooks : Delivering(h)' /\ job'[h].id = i
  BY DEF HookHolds
<1>2. h \in Actors /\ h # Worker
  BY SentinelAssumption DEF Actors
<1>3. CASE Delivering(h) /\ job'[h] = job[h]
  BY <1>1, <1>3 DEF HookHolds
<1>4. CASE Fresh(h)
  BY <1>1, <1>4 DEF Fresh
<1>5. QED
  BY <1>1, <1>2, <1>3, <1>4, JobStep

\* The worker gets hold of a row only by fetching it.
LEMMA WorkerHoldsStep ==
  ASSUME TypeOK, Shape, [Next]_vars, NEW i, WorkerHolds(i)'
  PROVE  WorkerHolds(i) \/ (WorkerScan /\ i \in Fetched)
<1>1. CASE Delivering(Worker)' /\ job'[Worker].id = i
  BY <1>1, JobStep, SentinelAssumption DEF WorkerHolds, Actors
<1>2. ASSUME NEW j \in batch', j.id = i
      PROVE  WorkerHolds(i) \/ (WorkerScan /\ i \in Fetched)
  <2>1. CASE j \in batch
    BY <1>2, <2>1 DEF WorkerHolds
  <2>2. ASSUME WorkerScan, NEW k \in Fetched, j = JobOf(k)
        PROVE  WorkerScan /\ i \in Fetched
    BY <1>2, <2>2, JobOfFetched
  <2>3. QED
    BY <1>2, <2>1, <2>2, BatchStep
<1>3. QED
  BY <1>1, <1>2 DEF WorkerHolds

LEMMA NextIdUnheld ==
  ASSUME TypeOK, JobsKnown
  PROVE  ~WorkerHolds(nextId)
<1>1. ASSUME NEW j, Known(j) PROVE j.id # nextId
  <2>1. nextId \in Nat /\ j.id \in 1..(nextId - 1)
    BY <1>1 DEF Known, TypeOK
  <2>2. QED
    BY <2>1
<1>2. \A j \in batch : j.id # nextId
  BY <1>1 DEF JobsKnown
<1>3. Delivering(Worker) => job[Worker].id # nextId
  BY <1>1 DEF JobsKnown, Actors
<1>4. QED
  BY <1>2, <1>3 DEF WorkerHolds

\* The worker's bookkeeping: a batch names a row once, and not the row at hand.
BatchInv ==
  /\ \A j, k \in batch : j.id = k.id => j = k
  /\ Delivering(Worker) => \A j \in batch : j.id # job[Worker].id
  /\ pc[Worker] = "idle" => batch = {}

LEMMA BatchInvStep ==
  ASSUME TypeOK, Shape, AttemptsInv, [Next]_vars
  PROVE  BatchInv'
<1> USE DEF Delivering
<1>0. BatchInv /\ Worker \in Actors
  BY DEF BatchInv, AttemptsInv, Actors
<1>1. CASE WorkerScan
  <2>1. \A i, k \in Fetched : JobOf(i).id = JobOf(k).id => JobOf(i) = JobOf(k)
    BY JobOfFetched
  <2>2. batch' = {JobOf(i) : i \in Fetched} /\ pc'[Worker] = "batch"
    BY <1>1 DEF WorkerScan, TypeOK, Actors
  <2>3. QED
    BY <2>1, <2>2 DEF BatchInv
<1>2. CASE WorkerCheck
  <2>1. PICK j \in batch : batch' = batch \ {j} /\ job' = [job EXCEPT ![Worker] = j]
    BY <1>2 DEF WorkerCheck
  <2>2. pc'[Worker] \in {"send", "mark"}
    BY <1>0, <1>2 DEF WorkerCheck, TypeOK
  <2>3. job'[Worker] = j
    BY <1>0, <2>1 DEF TypeOK
  <2>4. QED
    BY <1>0, <2>1, <2>2, <2>3 DEF BatchInv
<1>3. CASE WorkerSleep
  BY <1>0, <1>3 DEF WorkerSleep, BatchInv, TypeOK
<1>4. CASE Send(Worker)
  BY <1>0, <1>4 DEF Send, BatchInv, TypeOK
<1>5. CASE Mark(Worker)
  BY <1>0, <1>5 DEF Mark, BatchInv, TypeOK
<1>6. CASE UNCHANGED <<pc, job, batch>>
  BY <1>0, <1>6 DEF BatchInv
<1>7. CASE batch' = batch /\ pc'[Worker] = pc[Worker] /\ job'[Worker] = job[Worker]
  BY <1>0, <1>7 DEF BatchInv
<1>8. ASSUME NEW h \in Hooks, \/ \E s \in Sids : HookArrive(h, s)
                              \/ HookInsert(h) \/ HookReread(h) \/ HookSnapshot(h)
                              \/ HookAnswer(h) \/ Send(h) \/ Mark(h)
      PROVE  batch' = batch /\ pc'[Worker] = pc[Worker] /\ job'[Worker] = job[Worker]
  <2>1. h # Worker /\ h \in Actors
    BY SentinelAssumption DEF Actors
  <2>2. CASE \E s \in Sids : HookArrive(h, s)
    BY <1>0, <2>1, <2>2 DEF HookArrive, TypeOK
  <2>3. CASE HookInsert(h)
    BY <1>0, <2>1, <2>3 DEF HookInsert, TypeOK
  <2>4. CASE HookReread(h) \/ HookAnswer(h)
    BY <1>0, <2>1, <2>4 DEF HookReread, HookAnswer, Stop, TypeOK
  <2>5. CASE HookSnapshot(h)
    BY <1>0, <2>1, <2>5 DEF HookSnapshot, Stop, TypeOK
  <2>6. CASE Send(h) \/ Mark(h)
    BY <1>0, <2>1, <2>6 DEF Send, Mark, TypeOK
  <2>7. QED
    BY <1>8, <2>2, <2>3, <2>4, <2>5, <2>6
<1>9. ASSUME NEW h \in Hooks, HookReserve(h)
      PROVE  batch' = batch /\ pc'[Worker] = pc[Worker] /\ job'[Worker] = job[Worker]
  <2>1. PICK r \in req[h].todo : SkipReserved(h, r) \/ UserGone(h, r) \/ Reserve(h, r)
    BY <1>9 DEF HookReserve
  <2>2. h # Worker /\ h \in Actors /\ batch' = batch
    BY <1>9, SentinelAssumption DEF HookReserve, Actors
  <2>3. CASE SkipReserved(h, r) \/ UserGone(h, r)
    BY <1>0, <2>2, <2>3 DEF SkipReserved, UserGone, Stop, TypeOK
  <2>4. CASE Reserve(h, r)
    <3>1. Fresh(h)
      BY <1>9, <2>4, ReserveFresh
    <3>2. QED
      BY <1>0, <2>2, <3>1 DEF Fresh
  <2>5. QED
    BY <2>1, <2>3, <2>4
<1>10. CASE Crash \/ \E a \in Actors : Abort(a)
  BY <1>0, <1>10, FailureFrame DEF BatchInv
<1>11. CASE RosterChange \/ UNCHANGED vars
  BY <1>6, <1>11, RosterFrame DEF vars, procs
<1>12. QED
  BY <1>1, <1>2, <1>3, <1>4, <1>5, <1>7, <1>8, <1>9, <1>10, <1>11
     DEF Next, HookStep, WorkerStep

LEMMA AttemptsStep ==
  ASSUME TypeOK, Shape, JobsKnown, WebhooksExclusive, AttemptsInv, [Next]_vars
  PROVE  AttemptsInv'
<1> DEFINE HookShare(i) == IF HookHolds(i) THEN 1 ELSE 0
           WorkerShare(i) == IF WorkerHolds(i) THEN 1 ELSE 0
<1>1. ASSUME NEW i \in DOMAIN rows'
      PROVE  rows'[i].attempts + HookShare(i)' + WorkerShare(i)' <= MaxAttempts + 1
  <2>0. /\ MaxAttempts \in Nat \ {0} /\ nextId \in Nat /\ rows'[i].attempts \in Nat
        /\ HookShare(i)' \in {0, 1} /\ WorkerShare(i)' \in {0, 1}
    <3>1. rows'[i] \in Row
      BY <1>1, TypeStep DEF TypeOK
    <3>2. QED
      BY <3>1, BoundAssumption DEF Row, TypeOK
  <2>1. CASE i \notin DOMAIN rows
    <3>1. i = nextId
      BY <1>1, <2>1, StoreStep
    <3>2. PICK h \in Hooks : HookReserve(h) /\ Fresh(h)
      BY <1>1, <2>1, RowStep
    <3>3. rows'[i].attempts = 0
      BY <3>1, <3>2 DEF Fresh
    <3>4. ~WorkerHolds(i)'
      <4>1. ~WorkerHolds(i)
        BY <3>1, NextIdUnheld
      <4>2. i \notin Fetched
        BY <2>1 DEF Fetched
      <4>3. QED
        BY <4>1, <4>2, WorkerHoldsStep
    <3>5. QED
      BY <2>0, <3>3, <3>4
  <2>2. CASE i \in DOMAIN rows
    <3>0. rows[i] \in Row /\ rows[i].attempts \in Nat
          /\ HookShare(i) \in {0, 1} /\ WorkerShare(i) \in {0, 1}
          /\ rows[i].attempts + HookShare(i) + WorkerShare(i) <= MaxAttempts + 1
      BY <2>2 DEF TypeOK, Row, AttemptsInv
    <3>1. HookHolds(i)' => HookHolds(i)
      BY <2>2, HookHoldsStep DEF TypeOK
    <3>2. HookShare(i)' <= HookShare(i)
      BY <3>1
    <3>3. CASE rows'[i].attempts = rows[i].attempts
      <4>1. CASE WorkerHolds(i)' => WorkerHolds(i)
        BY <2>0, <3>0, <3>2, <3>3, <4>1
      <4>2. CASE WorkerScan /\ i \in Fetched
        <5>1. rows[i].attempts < MaxAttempts
          BY <4>2 DEF Fetched, Open
        <5>2. QED
          BY <2>0, <3>0, <3>3, <5>1
      <4>3. QED
        BY <4>1, <4>2, WorkerHoldsStep
    <3>4. ASSUME NEW a \in Actors, Mark(a), job[a].id = i,
                 rows'[i].attempts = rows[i].attempts + 1
          PROVE  rows'[i].attempts + HookShare(i)' + WorkerShare(i)' <= MaxAttempts + 1
      <4>0. pc[a] = "mark" /\ Delivering(a)
        BY <3>4 DEF Mark, Delivering
      <4>1. CASE a = Worker
        <5>1. WorkerHolds(i)
          BY <3>4, <4>0, <4>1 DEF WorkerHolds
        <5>2. ~WorkerHolds(i)'
          BY <3>4, <4>0, <4>1 DEF WorkerHolds, AttemptsInv, Mark, Delivering, TypeOK
        <5>3. QED
          BY <2>0, <3>0, <3>2, <3>4, <5>1, <5>2
      <4>2. CASE a # Worker
        <5>1. a \in Hooks /\ HookHolds(i)
          BY <3>4, <4>0, <4>2 DEF HookHolds, Actors
        <5>2. ~HookHolds(i)'
          <6>1. ASSUME NEW h \in Hooks, Delivering(h)', job'[h].id = i PROVE FALSE
            <7>1. h # a
              BY <3>4, <4>2, <6>1 DEF Mark, Delivering, TypeOK, Actors
            <7>2. Delivering(h) /\ job[h].id = i
              BY <3>4, <6>1, <7>1 DEF Mark, Delivering, TypeOK, Actors
            <7>3. QED
              BY <3>4, <4>0, <5>1, <7>1, <7>2 DEF WebhooksExclusive
          <6>2. QED
            BY <6>1 DEF HookHolds
        <5>3. WorkerHolds(i)' => WorkerHolds(i)
          <6>1. ~WorkerScan
            BY <3>4, <4>0, <4>2, SentinelAssumption DEF WorkerScan, Mark, TypeOK, Actors
          <6>2. QED
            BY <6>1, WorkerHoldsStep
        <5>4. QED
          BY <2>0, <3>0, <3>4, <5>1, <5>2, <5>3
      <4>3. QED
        BY <4>1, <4>2
    <3>5. QED
      BY <1>1, <2>2, <3>3, <3>4, AttemptStep
  <2>3. QED
    BY <2>1, <2>2
<1>2. BatchInv'
  BY BatchInvStep
<1>3. QED
  BY <1>1, <1>2 DEF AttemptsInv, BatchInv

-----------------------------------------------------------------------------
(* The inductive invariant and what follows from it.                       *)

LEMMA InductiveInit == Init => IInv
<1> SUFFICES ASSUME Init PROVE IInv
  OBVIOUS
<1>1. TypeOK /\ Shape
  BY TypeInit
<1>2. /\ DOMAIN rows = {} /\ batch = {} /\ promised = {} /\ purged = {}
      /\ \A a \in Actors : pc[a] = "idle"
      /\ \A s \in Sids : sms[s] = Unsaved /\ routed[s] = Unsaved
      /\ \A p \in Sids \X Chats : copies[p] = 0
  BY DEF Init
<1>3. Hooks \subseteq Actors /\ Worker \in Actors
  BY DEF Actors
<1>4. JobsKnown /\ WebhooksExclusive
  BY <1>2, <1>3 DEF JobsKnown, WebhooksExclusive, Delivering
<1>5. SentInv /\ PromiseInv
  BY <1>2, <1>3 DEF SentInv, SentWasDelivered, PromiseInv, PromiseKept, FanningOut
<1>6. Routing
  BY <1>2, <1>3, SentinelAssumption DEF Routing
<1>7. EntitledInv
  BY <1>2, <1>3 DEF EntitledInv, OnlyEntitledChats, FanningOut
<1>8. AttemptsInv
  BY <1>2, <1>3 DEF AttemptsInv, Delivering
<1>9. QED
  BY <1>1, <1>4, <1>5, <1>6, <1>7, <1>8 DEF IInv

LEMMA InductiveStep == IInv /\ [Next]_vars => IInv'
<1> SUFFICES ASSUME IInv, [Next]_vars PROVE IInv'
  OBVIOUS
<1>1. TypeOK' /\ Shape'
  BY TypeStep DEF IInv
<1>2. JobsKnown' /\ WebhooksExclusive'
  BY JobsKnownStep, ExclusiveStep DEF IInv
<1>3. SentInv' /\ PromiseInv'
  BY SentInvStep, PromiseInvStep DEF IInv
<1>4. Routing' /\ EntitledInv'
  BY RoutingStep, EntitledStep DEF IInv
<1>5. AttemptsInv'
  BY AttemptsStep DEF IInv
<1>6. QED
  BY <1>1, <1>2, <1>3, <1>4, <1>5 DEF IInv

THEOREM Inductive == Spec => []IInv
  BY InductiveInit, InductiveStep, PTL DEF Spec

\* Overlapping webhook requests, however often Twilio repeats an SMS, never
\* insert two rows for a chat nor work on the same row (the unique index
\* behind try_reserve).
THEOREM Exclusive == Spec => []WebhooksExclusive
<1>1. IInv => WebhooksExclusive
  BY DEF IInv
<1>2. QED
  BY <1>1, Inductive, PTL

\* A row says "sent" only if its chat received the SMS, although mark_sent,
\* mark_failed and mark_dead overwrite each other without looking.
THEOREM SentIsDelivered == Spec => []SentWasDelivered
<1>1. IInv => SentWasDelivered
  BY DEF IInv, SentInv
<1>2. QED
  BY <1>1, Inductive, PTL

\* When the webhook answers 200, every recipient of its snapshot has a row for
\* the retry worker to find, unless the user was deleted.
THEOREM PromiseIsKept == Spec => []PromiseKept
<1>1. IInv => PromiseKept
  BY DEF IInv, PromiseInv
<1>2. QED
  BY <1>1, Inductive, PTL

\* Whatever happens to memberships, links, teams and the number meanwhile, an
\* SMS reaches only chats entitled to it through the team it was saved for.
THEOREM EntitledOnly == Spec => []OnlyEntitledChats
<1>1. IInv => OnlyEntitledChats
  BY DEF IInv, EntitledInv
<1>2. QED
  BY <1>1, Inductive, PTL

\* No row collects more than DELIVERY_MAX_ATTEMPTS + 1 attempts.
THEOREM AttemptsAreBounded == Spec => []AttemptsBounded
<1>1. ASSUME IInv, NEW i \in DOMAIN rows PROVE rows[i].attempts <= MaxAttempts + 1
  <2>1. rows[i] \in Row /\ MaxAttempts \in Nat
    BY <1>1, BoundAssumption DEF IInv, TypeOK
  <2>2. rows[i].attempts \in Nat
    BY <2>1 DEF Row
  <2>3. rows[i].attempts + (IF HookHolds(i) THEN 1 ELSE 0)
                         + (IF WorkerHolds(i) THEN 1 ELSE 0) <= MaxAttempts + 1
    BY <1>1 DEF IInv, AttemptsInv
  <2>4. QED
    BY <2>1, <2>2, <2>3
<1>2. IInv => AttemptsBounded
  BY <1>1 DEF AttemptsBounded
<1>3. QED
  BY <1>2, Inductive, PTL
=============================================================================
