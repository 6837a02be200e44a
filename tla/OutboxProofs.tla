---------------------------- MODULE OutboxProofs ----------------------------
(***************************************************************************)
(* The SMS pipeline implements the transactional outbox, for every number  *)
(* of SMS, users, chats, teams and concurrent requests, and for every      *)
(* bound: each step of SmsPipeline is a step of Outbox or leaves what      *)
(* Outbox shows alone.                                                     *)
(***************************************************************************)
EXTENDS SmsPipelineProofs

-----------------------------------------------------------------------------
(* The refinement mapping, read off a table instead of with a CHOOSE.      *)

Pairs == Sids \X Chats

\* Row i of table R is a row of the pair p.
Of(R, i, p) == i \in DOMAIN R /\ R[i].sid = p[1] /\ R[i].chat = p[2]

\* Table R shows s as the status of p.
Shows(R, p, s) ==
  \/ s = "absent" /\ \A i \in DOMAIN R : ~Of(R, i, p)
  \/ \E i \in DOMAIN R : Of(R, i, p) /\ R[i].status = s

OneEach(R) == \A i, k \in DOMAIN R : R[i].sid = R[k].sid /\ R[i].chat = R[k].chat => i = k

LEMMA Shown ==
  ASSUME NEW p
  PROVE  Shows(rows, p, StatusOf(p)) /\ Shows(rows', p, StatusOf(p)')
<1>1. Shows(rows, p, StatusOf(p))
  <2>1. CASE \E i \in DOMAIN rows : Of(rows, i, p)
    <3> DEFINE i == CHOOSE i \in DOMAIN rows : rows[i].sid = p[1] /\ rows[i].chat = p[2]
    <3>1. Of(rows, i, p)
      BY <2>1 DEF Of
    <3>2. StatusOf(p) = rows[i].status
      BY <2>1 DEF StatusOf, HasRow, Of
    <3> HIDE DEF i
    <3>3. QED
      BY <3>1, <3>2 DEF Shows, Of
  <2>2. CASE ~\E i \in DOMAIN rows : Of(rows, i, p)
    BY <2>2 DEF StatusOf, HasRow, Of, Shows
  <2>3. QED
    BY <2>1, <2>2
<1>2. Shows(rows', p, StatusOf(p)')
  <2>1. CASE \E i \in DOMAIN rows' : Of(rows', i, p)
    <3> DEFINE i == CHOOSE i \in DOMAIN rows' : rows'[i].sid = p[1] /\ rows'[i].chat = p[2]
    <3>1. Of(rows', i, p)
      BY <2>1 DEF Of
    <3>2. StatusOf(p)' = rows'[i].status
      BY <2>1 DEF StatusOf, HasRow, Of
    <3> HIDE DEF i
    <3>3. QED
      BY <3>1, <3>2 DEF Shows, Of
  <2>2. CASE ~\E i \in DOMAIN rows' : Of(rows', i, p)
    BY <2>2 DEF StatusOf, HasRow, Of, Shows
  <2>3. QED
    BY <2>1, <2>2
<1>3. QED
  BY <1>1, <1>2

LEMMA ShownOnce ==
  ASSUME NEW R, OneEach(R), NEW p, NEW s, NEW t, Shows(R, p, s), Shows(R, p, t)
  PROVE  s = t
BY DEF Shows, Of, OneEach

\* What Outbox sees: the statuses, the reserved pairs and the copies.
Statuses == [p \in Sids \X Chats |-> StatusOf(p)]
Kept     == {p \in Sids \X Chats : HasRow(p[1], p[2])} \cup purged

LEMMA StatusesStep ==
  ASSUME OneEach(rows'), NEW F, F = [p \in Pairs |-> F[p]],
         \A p \in Pairs : Shows(rows', p, F[p])
  PROVE  Statuses' = F
<1>1. ASSUME NEW p \in Pairs PROVE StatusOf(p)' = F[p]
  <2>1. Shows(rows', p, StatusOf(p)')
    BY Shown
  <2>2. QED
    BY <2>1, ShownOnce
<1>2. Statuses' = [p \in Pairs |-> StatusOf(p)']
  BY DEF Statuses, Pairs
<1>3. QED
  BY <1>1, <1>2

LEMMA StatusesNow ==
  /\ Statuses = [p \in Pairs |-> Statuses[p]]
  /\ \A p \in Pairs : Statuses[p] = StatusOf(p) /\ Shows(rows, p, Statuses[p])
BY Shown DEF Statuses, Pairs

LEMMA Exclusively ==
  /\ WebhooksExclusive => OneEach(rows)
  /\ WebhooksExclusive' => OneEach(rows')
BY DEF WebhooksExclusive, OneEach

LEMMA LedgerState ==
  /\ Ledger!vars = <<Statuses, Kept, copies>>
  /\ Ledger!vars' = <<Statuses', Kept', copies'>>
  /\ Ledger!Deliveries = Pairs
BY DEF Ledger!vars, Ledger!Deliveries, Statuses, Kept, Pairs

-----------------------------------------------------------------------------
(* The steps of the pipeline, seen as steps of the outbox.                 *)

\* What does not touch the table, the purged pairs and the copies is not seen.
LEMMA Unseen ==
  ASSUME OneEach(rows'), UNCHANGED <<rows, purged, copies>>
  PROVE  UNCHANGED Ledger!vars
<1>1. Statuses' = Statuses
  BY StatusesStep, StatusesNow
<1>2. Kept' = Kept
  BY DEF Kept, HasRow
<1>3. QED
  BY <1>1, <1>2, LedgerState

\* try_reserve reserves.
LEMMA ReserveShown ==
  ASSUME TypeOK, Shape, OneEach(rows'), NEW h \in Hooks, NEW r \in req[h].todo,
         HookReserve(h), Reserve(h, r)
  PROVE  \E p \in Pairs : Ledger!Reserve(p)
<1> DEFINE p == <<req[h].sid, r[2]>>
           F == [Statuses EXCEPT ![p] = "pending"]
<1>1. p \in Pairs /\ p[1] = req[h].sid /\ p[2] = r[2] /\ nextId \in Nat
  BY DEF HookReserve, Shape, Request, Recipient, Pairs, TypeOK
<1>2. Fresh(h) /\ job'[h].chat = r[2]
  BY ReserveFresh
<1>3. ~HasRow(p[1], p[2]) /\ UNCHANGED <<purged, copies>>
  BY <1>1 DEF HookReserve, Reserve, history
<1>4. /\ DOMAIN rows' = DOMAIN rows \cup {nextId} /\ nextId \notin DOMAIN rows
      /\ \A i \in DOMAIN rows : rows'[i] = rows[i]
      /\ rows'[nextId].sid = p[1] /\ rows'[nextId].chat = p[2] /\ rows'[nextId].status = "pending"
  BY <1>1, <1>2 DEF Fresh, TypeOK
<1> HIDE DEF p
<1>5. Statuses' = F
  <2>1. F = [q \in Pairs |-> F[q]] /\ F[p] = "pending" /\ \A q \in Pairs : q # p => F[q] = Statuses[q]
    BY <1>1, StatusesNow
  <2>2. ASSUME NEW q \in Pairs PROVE Shows(rows', q, F[q])
    <3>1. CASE q = p
      BY <1>4, <2>1, <3>1 DEF Shows, Of
    <3>2. CASE q # p
      <4>1. ~Of(rows', nextId, q)
        BY <1>1, <1>4, <3>2 DEF Of, Pairs
      <4>2. Shows(rows, q, F[q])
        BY <2>1, <3>2, StatusesNow
      <4>3. QED
        BY <4>1, <4>2, <1>4 DEF Shows, Of
    <3>3. QED
      BY <3>1, <3>2
  <2> HIDE DEF F
  <2>3. QED
    BY <2>1, <2>2, StatusesStep
<1>6. Kept' = Kept \cup {p}
  <2>1. ASSUME NEW q \in Pairs PROVE HasRow(q[1], q[2])' <=> HasRow(q[1], q[2]) \/ q = p
    BY <1>1, <1>4 DEF HasRow, Pairs
  <2>2. QED
    BY <1>1, <1>3, <2>1 DEF Kept, Pairs
<1>7. Statuses[p] = "absent"
  BY <1>1, <1>3, StatusesNow DEF StatusOf
<1>8. QED
  BY <1>1, <1>3, <1>5, <1>6, <1>7 DEF Ledger!Reserve, Statuses, Kept

\* sendMessage delivers to a reserved pair, or delivers nothing.
LEMMA SendShown ==
  ASSUME TypeOK, Shape, JobsKnown, OneEach(rows'), NEW a \in Actors, Send(a)
  PROVE  (\E p \in Pairs : Ledger!Transmit(p)) \/ UNCHANGED Ledger!vars
<1> DEFINE p == <<job[a].sid, job[a].chat>>
<1>1. p \in Pairs /\ Reserved(p)
  BY DEF Send, Shape, Delivering, Job, JobsKnown, Known, Pairs
<1>2. p \in Kept
  BY <1>1 DEF Reserved, Kept, Pairs
<1>3. UNCHANGED <<rows, purged>>
  BY DEF Send, store
<1>4. copies' = [copies EXCEPT ![p] = @ + 1] \/ copies' = copies
  BY DEF Send
<1> HIDE DEF p
<1>5. Statuses' = Statuses
  BY <1>3, StatusesStep, StatusesNow
<1>6. Kept' = Kept
  BY <1>3 DEF Kept, HasRow
<1>7. CASE copies' = copies
  BY <1>5, <1>6, <1>7, LedgerState
<1>8. CASE copies' = [copies EXCEPT ![p] = @ + 1]
  BY <1>1, <1>2, <1>5, <1>6, <1>8 DEF Ledger!Transmit, Statuses, Kept
<1>9. QED
  BY <1>4, <1>7, <1>8

\* mark_* records what Telegram answered, or finds the row deleted.
LEMMA MarkShown ==
  ASSUME TypeOK, Shape, JobsKnown, SentInv, OneEach(rows), OneEach(rows'), NEW a \in Actors, Mark(a)
  PROVE  \/ \E p \in Pairs, s \in {"failed", "sent", "dead"} : Ledger!Record(p, s)
         \/ UNCHANGED Ledger!vars
<1> DEFINE k == job[a].id
           p == <<job[a].sid, job[a].chat>>
           s == StatusFor(outcome[a])
           F == [Statuses EXCEPT ![p] = s]
<1>1. /\ p \in Pairs /\ p[1] = job[a].sid /\ p[2] = job[a].chat
      /\ k \in DOMAIN rows => Of(rows, k, p)
  BY DEF Mark, Shape, Delivering, Job, JobsKnown, Known, Pairs, Of
<1>2. s \in {"failed", "sent", "dead"} /\ (s = "sent" => outcome[a] = "ok")
  BY DEF TypeOK, StatusFor, Outcomes
<1>3. s = "sent" => copies[p] > 0
  BY <1>2 DEF Mark, SentInv
<1>4. UNCHANGED <<purged, copies>>
  BY DEF Mark, history
<1>5. /\ DOMAIN rows' = DOMAIN rows
      /\ \A i \in DOMAIN rows : /\ i # k => rows'[i] = rows[i]
                                /\ rows'[i].sid = rows[i].sid /\ rows'[i].chat = rows[i].chat
      /\ k \in DOMAIN rows => rows'[k].status = s
  <2>1. rows' = [i \in DOMAIN rows |-> IF i = k THEN [rows[i] EXCEPT !.status = s, !.attempts = @ + 1]
                                       ELSE rows[i]]
    BY DEF Mark, SetStatus
  <2>2. s \in Status /\ \A i \in DOMAIN rows : rows[i] \in Row
    BY <1>2 DEF Status, TypeOK
  <2> HIDE DEF s
  <2>3. QED
    BY <2>1, <2>2, RowUpdate
<1>6. Kept' = Kept
  BY <1>4, <1>5 DEF Kept, HasRow
<1> HIDE DEF p, s, k
<1>7. CASE k \in DOMAIN rows
  <2>1. F = [q \in Pairs |-> F[q]] /\ F[p] = s /\ \A q \in Pairs : q # p => F[q] = Statuses[q]
    BY <1>1, StatusesNow
  <2>2. ASSUME NEW q \in Pairs PROVE Shows(rows', q, F[q])
    <3>1. CASE q = p
      BY <1>1, <1>5, <1>7, <2>1, <3>1 DEF Shows, Of
    <3>2. CASE q # p
      <4>1. ~Of(rows, k, q)
        BY <1>1, <1>7, <3>2 DEF Of, Pairs
      <4>2. Shows(rows, q, F[q])
        BY <2>1, <3>2, StatusesNow
      <4>3. QED
        BY <4>1, <4>2, <1>5 DEF Shows, Of
    <3>3. QED
      BY <3>1, <3>2
  <2>3. Statuses' = F
    <3> HIDE DEF F
    <3>1. QED
      BY <2>1, <2>2, StatusesStep
  <2>4. Statuses[p] # "absent"
    <3>1. Shows(rows, p, rows[k].status) /\ rows[k].status # "absent"
      BY <1>1, <1>7 DEF Shows, TypeOK, Row, Status
    <3>2. QED
      BY <1>1, <3>1, ShownOnce, StatusesNow
  <2>5. Ledger!Record(p, s)
    BY <1>3, <1>4, <1>6, <2>3, <2>4 DEF Ledger!Record, Statuses, Kept
  <2>6. QED
    BY <1>1, <1>2, <2>5
<1>8. CASE k \notin DOMAIN rows
  <2>1. ASSUME NEW q \in Pairs PROVE Shows(rows', q, Statuses[q])
    BY <1>5, <1>8, StatusesNow DEF Shows, Of
  <2>2. Statuses' = Statuses
    BY <2>1, StatusesStep, StatusesNow
  <2>3. QED
    BY <1>4, <1>6, <2>2, LedgerState
<1>9. QED
  BY <1>7, <1>8

\* DELETE FROM users discards the rows of the user.
LEMMA DeleteShown ==
  ASSUME TypeOK, OneEach(rows), OneEach(rows'), NEW u \in Users, DeleteUser(u)
  PROVE  \E P \in SUBSET Pairs : Ledger!Discard(P)
<1> DEFINE lost == {i \in DOMAIN rows : rows[i].user = u}
           P == {<<rows[i].sid, rows[i].chat>> : i \in lost}
           F == [p \in Pairs |-> IF p \in P THEN "absent" ELSE Statuses[p]]
<1>1. /\ rows' = [i \in DOMAIN rows \ lost |-> rows[i]]
      /\ purged' = purged \cup P /\ copies' = copies
  BY DEF DeleteUser
<1>2. P \in SUBSET Pairs
  BY DEF TypeOK, Row, Pairs
<1>3. \A i \in DOMAIN rows, p \in Pairs : Of(rows, i, p) => (i \in lost <=> p \in P)
  BY DEF Of, OneEach, Pairs
<1>4. \A p \in P : p \in Pairs /\ \E i \in lost : Of(rows, i, p)
  BY <1>2 DEF Of
<1> HIDE DEF lost, P
<1>5. lost \subseteq DOMAIN rows
  BY DEF lost
<1>6. Statuses' = F
  <2>1. ASSUME NEW p \in Pairs PROVE Shows(rows', p, F[p])
    <3>1. CASE p \in P
      BY <1>1, <1>3, <1>5, <3>1 DEF Shows, Of
    <3>2. CASE p \notin P
      <4>1. Shows(rows, p, F[p])
        BY <3>2, StatusesNow
      <4>2. QED
        BY <1>1, <1>3, <1>5, <3>2, <4>1 DEF Shows, Of
    <3>3. QED
      BY <3>1, <3>2
  <2>2. F = [p \in Pairs |-> F[p]]
    OBVIOUS
  <2> HIDE DEF F
  <2>3. QED
    BY <2>1, <2>2, StatusesStep
<1>7. Kept' = Kept
  <2>1. ASSUME NEW p \in Pairs, HasRow(p[1], p[2])' PROVE HasRow(p[1], p[2])
    BY <1>1, <2>1 DEF HasRow
  <2>2. ASSUME NEW p \in Pairs, HasRow(p[1], p[2]) PROVE HasRow(p[1], p[2])' \/ p \in P
    BY <1>1, <1>3, <2>2 DEF HasRow, Of
  <2>3. \A p \in P : p \in Pairs /\ HasRow(p[1], p[2])
    BY <1>4, <1>5 DEF HasRow, Of
  <2>4. QED
    BY <1>1, <2>1, <2>2, <2>3 DEF Kept, Pairs
<1>8. Ledger!Discard(P)
  BY <1>1, <1>6, <1>7 DEF Ledger!Discard, Ledger!Deliveries, Statuses, Kept, Pairs
<1>9. QED
  BY <1>2, <1>8

-----------------------------------------------------------------------------
(* The refinement.                                                         *)

\* Who changes the table, the purged pairs or the copies.
LEMMA Touches ==
  ASSUME TypeOK, [Next]_vars
  PROVE  \/ UNCHANGED <<rows, purged, copies>>
         \/ \E h \in Hooks : HookReserve(h) /\ \E r \in req[h].todo : Reserve(h, r)
         \/ \E a \in Actors : Send(a) \/ Mark(a)
         \/ \E u \in Users : DeleteUser(u)
<1> USE DEF store, history
<1>1. ASSUME NEW h \in Hooks, HookReserve(h)
      PROVE  UNCHANGED <<rows, purged, copies>> \/ \E r \in req[h].todo : Reserve(h, r)
  BY <1>1 DEF HookReserve, SkipReserved, UserGone
<1>2. CASE \E h \in Hooks, s \in Sids : HookArrive(h, s)
  BY <1>2 DEF HookArrive
<1>3. ASSUME NEW h \in Hooks,
             HookInsert(h) \/ HookReread(h) \/ HookSnapshot(h) \/ HookAnswer(h)
      PROVE  UNCHANGED <<rows, purged, copies>>
  BY <1>3 DEF HookInsert, HookReread, HookSnapshot, HookAnswer
<1>4. CASE WorkerScan \/ WorkerCheck \/ WorkerSleep \/ UNCHANGED vars
  BY <1>4 DEF WorkerScan, WorkerCheck, WorkerSleep, vars
<1>5. CASE Crash \/ \E a \in Actors : Abort(a)
  BY <1>5, FailureFrame
<1>6. CASE RosterChange
  BY <1>6 DEF RosterChange, AddMembership, RemoveMembership, Link, Unlink, AssignNumber, DeleteTeam
<1>7. QED
  BY <1>1, <1>2, <1>3, <1>4, <1>5, <1>6 DEF Next, HookStep, WorkerStep, Actors

LEMMA OutboxInit == Init => Ledger!Init
<1> SUFFICES ASSUME Init PROVE Ledger!Init
  OBVIOUS
<1>1. \A p \in Pairs : ~HasRow(p[1], p[2]) /\ StatusOf(p) = "absent"
  BY DEF Init, HasRow, StatusOf
<1>2. QED
  BY <1>1 DEF Init, Ledger!Init, Ledger!Deliveries, Pairs

LEMMA OutboxStep == IInv /\ [Next]_vars => [Ledger!Next]_(Ledger!vars)
<1> SUFFICES ASSUME IInv, [Next]_vars PROVE Ledger!Next \/ UNCHANGED Ledger!vars
  OBVIOUS
<1>1. IInv' /\ TypeOK /\ Shape /\ JobsKnown /\ SentInv
  BY InductiveStep DEF IInv
<1>2. OneEach(rows) /\ OneEach(rows')
  BY <1>1, Exclusively DEF IInv
<1>3. CASE UNCHANGED <<rows, purged, copies>>
  BY <1>2, <1>3, Unseen
<1>4. ASSUME NEW h \in Hooks, NEW r \in req[h].todo, HookReserve(h), Reserve(h, r) PROVE Ledger!Next
  BY <1>1, <1>2, <1>4, ReserveShown, LedgerState DEF Ledger!Next
<1>5. ASSUME NEW a \in Actors, Send(a) PROVE Ledger!Next \/ UNCHANGED Ledger!vars
  BY <1>1, <1>2, <1>5, SendShown, LedgerState DEF Ledger!Next
<1>6. ASSUME NEW a \in Actors, Mark(a) PROVE Ledger!Next \/ UNCHANGED Ledger!vars
  BY <1>1, <1>2, <1>6, MarkShown, LedgerState DEF Ledger!Next
<1>7. ASSUME NEW u \in Users, DeleteUser(u) PROVE Ledger!Next
  BY <1>1, <1>2, <1>7, DeleteShown, LedgerState DEF Ledger!Next
<1>8. QED
  BY <1>1, <1>3, <1>4, <1>5, <1>6, <1>7, Touches

\* The pipeline implements the outbox: whatever the webhooks, the worker, the
\* administrators, a crash or a lost answer do, a chat is sent only what was
\* reserved for it, a reservation goes only with its user, and a delivery is
\* recorded as sent only after a copy arrived.
THEOREM PipelineIsOutbox == Spec => ImplementsOutbox
  BY OutboxInit, OutboxStep, Inductive, PTL DEF Spec, ImplementsOutbox, Ledger!Spec
=============================================================================
