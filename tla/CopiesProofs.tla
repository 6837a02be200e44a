---------------------------- MODULE CopiesProofs ----------------------------
(***************************************************************************)
(* How many copies of an SMS a chat can get: CopiesAccounted, for every    *)
(* number of SMS, users, chats, teams and concurrent requests, and for     *)
(* every bound.                                                            *)
(***************************************************************************)
EXTENDS SmsPipelineProofs, FiniteSetTheorems

-----------------------------------------------------------------------------
(* The invariant: what CopiesInv adds to IInv.                             *)

Pair(i) == <<rows[i].sid, rows[i].chat>>

\* Who has sent for row i and not yet committed the outcome: at most one
\* request, and the worker.
HookSent(i)   == \E h \in Hooks : pc[h] = "mark" /\ job[h].id = i
WorkerSent(i) == pc[Worker] = "mark" /\ job[Worker].id = i

HookShare(i)   == IF HookSent(i) THEN 1 ELSE 0
WorkerShare(i) == IF WorkerSent(i) THEN 1 ELSE 0

\* The row of a job is there, or it went with its user.
Extant(j) == j.id \in DOMAIN rows \/ <<j.sid, j.chat>> \in purged

\* The row i accounts for the copies that its chat has received.
Accounted(i) ==
  Pair(i) \notin purged =>
    copies[Pair(i)] <= rows[i].attempts + HookShare(i) + WorkerShare(i) + 2 * faults

CopiesInv ==
  /\ \A p \in Sids \X Chats : copies[p] > 0 => Reserved(p)
  /\ \A a \in Actors : Delivering(a) => Extant(job[a])
  /\ \A j \in batch : Extant(j)
  /\ \A i \in DOMAIN rows : Accounted(i)

Failure == Crash \/ \E a \in Actors : Abort(a)

-----------------------------------------------------------------------------
(* Steps.                                                                  *)

\* Only a commit and a failure take a sender away from its row, and only a
\* failure is counted as one.
LEMMA MarkStays ==
  ASSUME TypeOK, Shape, [Next]_vars, ~Failure
  PROVE  /\ faults' = faults
         /\ \/ \E a \in Actors : Mark(a)
            \/ \A a \in Actors : pc[a] = "mark" => pc'[a] = "mark" /\ job'[a] = job[a]
<1> USE DEF procs, bounds, Stop, TypeOK
<1> DEFINE Stays == \A a \in Actors : pc[a] = "mark" => pc'[a] = "mark" /\ job'[a] = job[a]
<1>1. ASSUME NEW h \in Hooks, NEW s \in Sids, HookArrive(h, s) PROVE faults' = faults /\ Stays
  BY <1>1 DEF HookArrive
<1>2. ASSUME NEW h \in Hooks, HookInsert(h) PROVE faults' = faults /\ Stays
  BY <1>2 DEF HookInsert
<1>3. ASSUME NEW h \in Hooks, HookReread(h) \/ HookSnapshot(h) \/ HookAnswer(h)
      PROVE  faults' = faults /\ Stays
  BY <1>3 DEF HookReread, HookSnapshot, HookAnswer
<1>4. ASSUME NEW h \in Hooks, HookReserve(h) PROVE faults' = faults /\ Stays
  <2>1. PICK r \in req[h].todo : SkipReserved(h, r) \/ UserGone(h, r) \/ Reserve(h, r)
    BY <1>4 DEF HookReserve
  <2>2. CASE SkipReserved(h, r) \/ UserGone(h, r)
    BY <1>4, <2>2 DEF HookReserve, SkipReserved, UserGone
  <2>3. CASE Reserve(h, r)
    <3>1. Fresh(h)
      BY <1>4, <2>3, ReserveFresh
    <3>2. QED
      BY <1>4, <3>1 DEF HookReserve, Fresh
  <2>4. QED
    BY <2>1, <2>2, <2>3
<1>5. ASSUME NEW a \in Actors, Send(a) PROVE faults' = faults /\ Stays
  BY <1>5 DEF Send
<1>6. ASSUME NEW a \in Actors, Mark(a) PROVE faults' = faults
  BY <1>6 DEF Mark
<1>7. CASE WorkerScan \/ WorkerCheck \/ WorkerSleep
  BY <1>7 DEF WorkerScan, WorkerCheck, WorkerSleep
<1>8. CASE RosterChange
  BY <1>8, RosterFrame
<1>9. CASE UNCHANGED vars
  BY <1>9 DEF vars
<1>10. QED
  BY <1>1, <1>2, <1>3, <1>4, <1>5, <1>6, <1>7, <1>8, <1>9
     DEF Next, HookStep, WorkerStep, Actors, Failure

LEMMA ExtantStays ==
  ASSUME TypeOK, Shape, [Next]_vars, NEW j, Known(j), Extant(j)
  PROVE  Extant(j)'
<1>1. CASE <<j.sid, j.chat>> \in purged
  BY <1>1, StoreStep DEF Extant
<1>2. CASE j.id \in DOMAIN rows
  BY <1>2, StoreStep DEF Extant, Known
<1>3. QED
  BY <1>1, <1>2 DEF Extant

LEMMA ExtantStep ==
  ASSUME TypeOK, Shape, JobsKnown, CopiesInv, [Next]_vars
  PROVE  /\ \A a \in Actors : Delivering(a)' => Extant(job[a])'
         /\ \A j \in batch' : Extant(j)'
<1>1. ASSUME NEW j \in batch PROVE Extant(j)'
  BY ExtantStays DEF JobsKnown, CopiesInv
<1>2. ASSUME NEW a \in Actors, Delivering(a)' PROVE Extant(job[a])'
  <2>1. CASE Delivering(a) /\ job'[a] = job[a]
    <3>1. Extant(job[a]) /\ Known(job[a])
      BY <2>1 DEF JobsKnown, CopiesInv
    <3> DEFINE j == job[a]
    <3>2. Extant(j) /\ Known(j)
      BY <3>1
    <3>3. j.id \in DOMAIN rows' \/ <<j.sid, j.chat>> \in purged'
      <4> HIDE DEF j
      <4>1. QED
        BY <3>2, ExtantStays DEF Extant
    <3>4. QED
      BY <2>1, <3>3 DEF Extant
  <2>2. CASE job'[a] \in batch
    BY <1>1, <2>2 DEF Extant
  <2>3. ASSUME Fresh(a) PROVE Extant(job[a])'
    BY <2>3 DEF Fresh, Extant
  <2>4. QED
    BY <1>2, <2>1, <2>2, <2>3, JobStep
<1>3. ASSUME NEW j \in batch' PROVE Extant(j)'
  <2>1. CASE j \in batch
    BY <1>1, <2>1
  <2>2. CASE WorkerScan /\ j \in {JobOf(i) : i \in Fetched}
    BY <2>2, JobOfFetched DEF WorkerScan, store, Extant
  <2>3. QED
    BY <1>3, <2>1, <2>2, BatchStep
<1>4. QED
  BY <1>2, <1>3

\* What was sent had been reserved, and stays so or goes with its user.
LEMMA SentReserved ==
  ASSUME TypeOK, Shape, JobsKnown, CopiesInv, [Next]_vars,
         NEW p \in Sids \X Chats, copies'[p] > 0
  PROVE  Reserved(p)'
<1>1. CASE copies'[p] = copies[p]
  BY <1>1, ReservedStays DEF CopiesInv
<1>2. ASSUME NEW a \in Actors, Send(a), p = <<job[a].sid, job[a].chat>> PROVE Reserved(p)'
  <2>1. Reserved(p)
    BY <1>2 DEF Send, Delivering, JobsKnown, Known
  <2>2. QED
    BY <2>1, ReservedStays
<1>3. QED
  BY <1>1, <1>2, CopyStep

\* A row that was there before the step.
LEMMA AccountedStep ==
  ASSUME TypeOK, TypeOK', Shape, JobsKnown, WebhooksExclusive, CopiesInv, [Next]_vars,
         NEW i \in DOMAIN rows, i \in DOMAIN rows', Pair(i)' \notin purged'
  PROVE  copies'[Pair(i)'] <= rows'[i].attempts + HookShare(i)' + WorkerShare(i)' + 2 * faults'
<1> DEFINE p == Pair(i)
<1>1. /\ Pair(i)' = p /\ p \notin purged /\ p \in Sids \X Chats
      /\ rows[i].attempts \in Nat /\ rows'[i].attempts \in Nat /\ faults \in Nat
      /\ copies[p] \in Nat /\ copies'[p] \in Nat
      /\ HookShare(i) \in {0, 1} /\ WorkerShare(i) \in {0, 1}
      /\ HookShare(i)' \in {0, 1} /\ WorkerShare(i)' \in {0, 1}
  <2>1. rows[i] \in Row /\ rows'[i] \in Row
    BY DEF TypeOK
  <2>2. Pair(i)' = p /\ p \in Sids \X Chats
    BY <2>1, StoreStep DEF Pair, Row
  <2>3. p \notin purged
    BY <2>2, StoreStep
  <2>4. copies[p] \in Nat /\ copies'[p] \in Nat
    BY <2>2 DEF TypeOK
  <2>5. faults \in Nat /\ rows[i].attempts \in Nat /\ rows'[i].attempts \in Nat
    BY <2>1 DEF Row, TypeOK
  <2>6. QED
    BY <2>2, <2>3, <2>4, <2>5 DEF HookShare, WorkerShare
<1>2. copies[p] <= rows[i].attempts + HookShare(i) + WorkerShare(i) + 2 * faults
  BY <1>1 DEF CopiesInv, Accounted
<1>3. Worker \in Actors /\ Hooks \subseteq Actors /\ Worker \notin Hooks
  BY SentinelAssumption DEF Actors
<1> HIDE DEF p
<1>4. CASE Failure
  <2>1. rows' = rows /\ copies' = copies
    BY <1>4, FailureFrame DEF Failure, store, history
  <2>2. faults' = faults + 1
    BY <1>4 DEF Failure, Crash, Abort
  <2>3. QED
    BY <1>1, <1>2, <2>1, <2>2
<1>5. ASSUME NEW a \in Actors, Mark(a), ~Failure
      PROVE  copies'[p] <= rows'[i].attempts + HookShare(i)' + WorkerShare(i)' + 2 * faults'
  <2>1. /\ copies' = copies /\ faults' = faults /\ pc[a] = "mark"
        /\ \A b \in Actors : b # a => pc'[b] = pc[b] /\ job'[b] = job[b]
    BY <1>5 DEF Mark, history, bounds, TypeOK
  <2>2. CASE job[a].id # i
    <3>1. rows'[i] = rows[i]
      BY <1>5, <2>2 DEF Mark, SetStatus
    <3>2. (HookSent(i) => HookSent(i)') /\ (WorkerSent(i) => WorkerSent(i)')
      BY <1>3, <2>1, <2>2 DEF HookSent, WorkerSent
    <3>3. HookShare(i) <= HookShare(i)' /\ WorkerShare(i) <= WorkerShare(i)'
      BY <3>2 DEF HookShare, WorkerShare
    <3>4. QED
      BY <1>1, <1>2, <2>1, <3>1, <3>3
  <2>3. CASE job[a].id = i
    <3>1. rows'[i].attempts = rows[i].attempts + 1
      <4>1. StatusFor(outcome[a]) \in Status /\ rows[i] \in Row
        BY StatusForOutcome DEF TypeOK
      <4>2. QED
        BY <1>5, <2>3, <4>1, RowUpdate DEF Mark, SetStatus
    <3>2. CASE a = Worker
      <4>1. HookSent(i) => HookSent(i)'
        BY <1>3, <2>1, <3>2 DEF HookSent
      <4>2. HookShare(i) <= HookShare(i)'
        BY <4>1 DEF HookShare
      <4>3. QED
        BY <1>1, <1>2, <2>1, <3>1, <4>2
    <3>3. CASE a # Worker
      <4>1. WorkerSent(i) => WorkerSent(i)'
        BY <1>3, <2>1, <3>3 DEF WorkerSent
      <4>2. WorkerShare(i) <= WorkerShare(i)'
        BY <4>1 DEF WorkerShare
      <4>3. QED
        BY <1>1, <1>2, <2>1, <3>1, <4>2
    <3>4. QED
      BY <3>2, <3>3
  <2>4. QED
    BY <2>2, <2>3
<1>6. CASE ~Failure /\ \A a \in Actors : ~Mark(a)
  <2>1. faults' = faults /\ (HookSent(i) => HookSent(i)') /\ (WorkerSent(i) => WorkerSent(i)')
    BY <1>3, <1>6, MarkStays DEF HookSent, WorkerSent
  <2>2. HookShare(i) <= HookShare(i)' /\ WorkerShare(i) <= WorkerShare(i)'
    BY <2>1 DEF HookShare, WorkerShare
  <2>3. rows'[i].attempts = rows[i].attempts
    BY <1>6, AttemptStep
  <2>4. CASE copies'[p] = copies[p]
    BY <1>1, <1>2, <2>1, <2>2, <2>3, <2>4
  <2>5. ASSUME NEW a \in Actors, Send(a), p = <<job[a].sid, job[a].chat>>
        PROVE  copies'[p] <= rows'[i].attempts + HookShare(i)' + WorkerShare(i)' + 2 * faults'
    <3>1. copies'[p] <= copies[p] + 1
      BY <1>1, <2>5 DEF Send, TypeOK
    <3>2. pc[a] = "send" /\ Delivering(a) /\ pc'[a] = "mark" /\ job' = job
      BY <2>5 DEF Send, Delivering, TypeOK
    <3>3. job[a].id = i
      <4>1. Extant(job[a]) /\ Known(job[a])
        BY <3>2 DEF CopiesInv, JobsKnown
      <4>2. job[a].id \in DOMAIN rows
        BY <1>1, <2>5, <4>1 DEF Extant
      <4>3. rows[job[a].id].sid = rows[i].sid /\ rows[job[a].id].chat = rows[i].chat
        BY <2>5, <4>1, <4>2 DEF Known, p, Pair
      <4>4. QED
        BY <4>2, <4>3 DEF WebhooksExclusive
    <3>4. CASE a = Worker
      <4>1. ~WorkerSent(i) /\ WorkerSent(i)'
        BY <3>2, <3>3, <3>4 DEF WorkerSent
      <4>2. WorkerShare(i) = 0 /\ WorkerShare(i)' = 1
        BY <4>1 DEF WorkerShare
      <4>3. QED
        BY <1>1, <1>2, <2>1, <2>2, <2>3, <3>1, <4>2
    <3>5. CASE a \in Hooks
      <4>1. ~HookSent(i)
        BY <3>2, <3>3, <3>5 DEF HookSent, WebhooksExclusive, Delivering
      <4>2. HookSent(i)'
        BY <3>2, <3>3, <3>5 DEF HookSent
      <4>3. HookShare(i) = 0 /\ HookShare(i)' = 1
        BY <4>1, <4>2 DEF HookShare
      <4>4. QED
        BY <1>1, <1>2, <2>1, <2>2, <2>3, <3>1, <4>3
    <3>6. QED
      BY <3>4, <3>5 DEF Actors
  <2>6. QED
    BY <1>1, <2>4, <2>5, CopyStep
<1>7. QED
  BY <1>1, <1>4, <1>5, <1>6

\* A row that try_reserve has just inserted: nothing was sent to its chat yet.
LEMMA FreshAccounted ==
  ASSUME TypeOK, TypeOK', Shape, CopiesInv, [Next]_vars,
         NEW i \in DOMAIN rows', i \notin DOMAIN rows, Pair(i)' \notin purged'
  PROVE  copies'[Pair(i)'] = 0
<1>1. PICK h \in Hooks : /\ HookReserve(h) /\ Fresh(h)
                         /\ \E r \in req[h].todo : Reserve(h, r) /\ job'[h].chat = r[2]
  BY RowStep
<1>2. i = nextId
  BY StoreStep
<1>3. UNCHANGED <<copies, purged>>
  BY <1>1 DEF HookReserve, history
<1>4. /\ Pair(i)' = <<req[h].sid, job'[h].chat>> /\ ~HasRow(req[h].sid, job'[h].chat)
      /\ rows'[i] \in Row
  BY <1>1, <1>2 DEF Fresh, Reserve, Pair, TypeOK
<1> DEFINE p == Pair(i)'
<1>5. p \in Sids \X Chats
  BY <1>4 DEF Pair, Row
<1>6. ~Reserved(p)
  <2>1. p[1] = req[h].sid /\ p[2] = job'[h].chat /\ p \notin purged
    BY <1>3, <1>4
  <2> HIDE DEF p
  <2>2. QED
    BY <1>4, <2>1 DEF Reserved
<1> HIDE DEF p
<1>7. ~(copies[p] > 0) /\ copies[p] \in Nat
  BY <1>5, <1>6 DEF CopiesInv, TypeOK
<1>8. copies[p] = 0
  BY <1>7
<1>9. QED
  BY <1>3, <1>8 DEF p

-----------------------------------------------------------------------------
(* The theorem.                                                            *)

LEMMA CopiesInit == Init => CopiesInv
<1> SUFFICES ASSUME Init PROVE CopiesInv
  OBVIOUS
<1>1. \A p \in Sids \X Chats : ~(copies[p] > 0)
  BY DEF Init
<1>2. QED
  BY <1>1 DEF Init, CopiesInv, Delivering, Actors

LEMMA CopiesStep == IInv /\ CopiesInv /\ [Next]_vars => CopiesInv'
<1> SUFFICES ASSUME IInv, CopiesInv, [Next]_vars PROVE CopiesInv'
  OBVIOUS
<1>1. IInv' /\ TypeOK /\ TypeOK' /\ Shape /\ JobsKnown /\ WebhooksExclusive
  BY InductiveStep DEF IInv
<1>2. \A p \in Sids \X Chats : copies'[p] > 0 => Reserved(p)'
  BY <1>1, SentReserved
<1>3. ASSUME NEW i \in DOMAIN rows' PROVE Accounted(i)'
  <2>1. CASE i \in DOMAIN rows
    BY <1>1, <1>3, <2>1, AccountedStep DEF Accounted
  <2>2. ASSUME i \notin DOMAIN rows, Pair(i)' \notin purged'
        PROVE  copies'[Pair(i)'] <= rows'[i].attempts + HookShare(i)' + WorkerShare(i)' + 2 * faults'
    <3>1. copies'[Pair(i)'] = 0
      BY <1>1, <1>3, <2>2, FreshAccounted
    <3>2. rows'[i] \in Row /\ faults' \in Nat
      BY <1>1, <1>3 DEF TypeOK
    <3>3. HookShare(i)' \in {0, 1} /\ WorkerShare(i)' \in {0, 1}
      BY DEF HookShare, WorkerShare
    <3>4. rows'[i].attempts \in Nat
      BY <3>2 DEF Row
    <3>5. QED
      BY <3>1, <3>2, <3>3, <3>4
  <2>3. QED
    BY <2>1, <2>2 DEF Accounted
<1>4. QED
  BY <1>1, <1>2, <1>3, ExtantStep DEF CopiesInv

\* The two shares count the senders that CopiesAccounted counts.
LEMMA SharesCounted ==
  ASSUME WebhooksExclusive, NEW i
  PROVE  LET inFlight == {a \in Actors : pc[a] = "mark" /\ job[a].id = i}
         IN  Cardinality(inFlight) \in Nat /\ HookShare(i) + WorkerShare(i) <= Cardinality(inFlight)
<1> DEFINE F == {a \in Actors : pc[a] = "mark" /\ job[a].id = i}
<1>1. Worker \in Actors /\ Hooks \subseteq Actors /\ Worker \notin Hooks
  BY SentinelAssumption DEF Actors
<1>2. WorkerSent(i) <=> Worker \in F
  BY <1>1 DEF WorkerSent
<1>3. CASE HookSent(i)
  <2>1. PICK h \in Hooks : h \in F
    BY <1>1, <1>3 DEF HookSent
  <2>2. F \ {Worker} = {h}
    BY <1>1, <2>1 DEF WebhooksExclusive, Delivering, Actors
  <2>3. IsFiniteSet({h}) /\ Cardinality({h}) = 1
    BY FS_Singleton
  <2>4. CASE WorkerSent(i)
    <3>1. F = {h} \cup {Worker} /\ Worker \notin {h}
      BY <1>1, <1>2, <2>1, <2>2, <2>4
    <3>2. Cardinality(F) = 2
      <4> HIDE DEF F
      <4>1. QED
        BY <2>3, <3>1, FS_AddElement
    <3>3. QED
      BY <1>3, <2>4, <3>2 DEF HookShare, WorkerShare
  <2>5. CASE ~WorkerSent(i)
    <3>1. F = {h}
      BY <1>2, <2>2, <2>5
    <3>2. QED
      BY <1>3, <2>3, <2>5, <3>1 DEF HookShare, WorkerShare
  <2>6. QED
    BY <2>4, <2>5
<1>4. CASE ~HookSent(i)
  <2>1. F \subseteq {Worker}
    BY <1>4 DEF HookSent, Actors
  <2>2. CASE WorkerSent(i)
    <3>1. F = {Worker}
      BY <1>2, <2>1, <2>2
    <3>2. Cardinality(F) = 1
      BY <3>1, FS_Singleton
    <3>3. QED
      BY <1>4, <2>2, <3>2 DEF HookShare, WorkerShare
  <2>3. CASE ~WorkerSent(i)
    <3>1. F = {}
      BY <1>2, <2>1, <2>3
    <3>2. Cardinality(F) = 0
      BY <3>1, FS_EmptySet
    <3>3. QED
      BY <1>4, <2>3, <3>2 DEF HookShare, WorkerShare
  <2>4. QED
    BY <2>2, <2>3
<1>5. QED
  BY <1>3, <1>4

LEMMA CopiesImplied == TypeOK /\ WebhooksExclusive /\ CopiesInv => CopiesAccounted
<1> SUFFICES ASSUME TypeOK, WebhooksExclusive, CopiesInv, NEW i \in DOMAIN rows, Pair(i) \notin purged
             PROVE  copies[Pair(i)] <= rows[i].attempts
                      + Cardinality({a \in Actors : pc[a] = "mark" /\ job[a].id = i}) + 2 * faults
  BY DEF CopiesAccounted, Pair
<1> DEFINE n == Cardinality({a \in Actors : pc[a] = "mark" /\ job[a].id = i})
<1>1. copies[Pair(i)] <= rows[i].attempts + HookShare(i) + WorkerShare(i) + 2 * faults
  BY DEF CopiesInv, Accounted
<1>2. n \in Nat /\ HookShare(i) + WorkerShare(i) <= n /\ HookShare(i) \in Nat /\ WorkerShare(i) \in Nat
  BY SharesCounted DEF HookShare, WorkerShare
<1>3. rows[i] \in Row /\ faults \in Nat
  BY DEF TypeOK
<1>4. rows[i].attempts \in Nat /\ Pair(i) \in Sids \X Chats
  BY <1>3 DEF Row, Pair
<1>5. copies[Pair(i)] \in Nat
  BY <1>4 DEF TypeOK
<1> HIDE DEF n
<1>6. QED
  BY <1>1, <1>2, <1>3, <1>4, <1>5 DEF n

\* Duplicates are bounded, whatever overlaps, fails or is lost: a chat has
\* received at most one copy per attempt on record, per send whose outcome is
\* not committed yet, and two per failure (deliver_sms_to_recipient sends
\* before it commits, for the webhook and for the worker).
THEOREM CopiesAreAccounted == Spec => []CopiesAccounted
<1>1. IInv /\ CopiesInv => CopiesAccounted
  BY CopiesImplied DEF IInv
<1>2. QED
  BY <1>1, CopiesInit, CopiesStep, InductiveInit, InductiveStep, PTL DEF Spec
=============================================================================
