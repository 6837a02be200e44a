--------------------------- MODULE SessionsProofs ---------------------------
(***************************************************************************)
(* The invariants of Sessions for any sets of requests and tokens.         *)
(***************************************************************************)
EXTENDS Sessions, FiniteSetTheorems, TLAPS

\* Requests that sign somebody in, with the session they are about to open.
SigningIn(r) == kind[r] \in {"login", "set-password"} /\ tok[r] # NoToken

\* Which locals belong to which label; a new session is nobody else's.
Shape ==
  /\ \A r \in Requests : pc[r] = "idle" => kind[r] = "page" /\ tok[r] = NoToken
  /\ \A r \in Requests :
       kind[r] = "page" <=> pc[r] \in {"idle", "touch", "page", "revoke", "del", "srem"}
  /\ \A r \in Requests : kind[r] \in {"reset", "delete"} =>
       /\ pc[r] \in {"reset", "smembers", "delkeys", "delindex", "delete", "commit"}
       /\ tok[r] = NoToken
  /\ \A r \in Requests : pc[r] \in {"reset", "smembers", "delkeys", "delindex", "delete"} =>
       kind[r] \in {"reset", "delete"}
  /\ \A r \in Requests : pc[r] \in {"touch", "page", "revoke", "del", "srem"} => tok[r] \in given
  /\ \A r \in Requests :
       pc[r] \in {"failed", "verified", "setup", "choose", "spend", "store", "index"} =>
         kind[r] \in {"login", "set-password"} /\ tok[r] \in Tokens
  /\ \A r \in Requests : pc[r] = "commit" /\ kind[r] \in {"login", "set-password"} => tok[r] \in Tokens
  /\ \A r \in Requests : SigningIn(r) =>
       tok[r] \notin given /\ \A q \in Requests : tok[q] = tok[r] => q = r
  /\ \A r \in Requests : pc[r] \in {"del", "srem"} => batch[r] \subseteq {tok[r]}
  /\ \A r \in Requests : pc[r] = "delkeys" => batch[r] \subseteq Tokens
  /\ \A r \in Requests : pc[r] \in {"failed", "verified"} => seen[r] \in Password
  /\ \A r \in Requests : (pc[r] = "reset" => kind[r] = "reset") /\ (pc[r] = "delete" => kind[r] = "delete")
  /\ past \subseteq given

\* Every overlap there is has been noted.
Noted == Overlaps \subseteq raced

\* Of a session that no race spoilt: it is of this era, nobody revoked it,
\* and whoever deletes all sessions has it in the batch or has deleted it.
Unspoilt(t) == t \notin revoked /\ era[t] = resets

EraInv ==
  /\ \A r \in Requests : SigningIn(r) /\ tok[r] \notin raced => Unspoilt(tok[r])
  /\ \A r \in Requests : SigningIn(r) /\ pc[r] = "commit" => tok[r] \in index \cup raced
  /\ \A r \in Requests : pc[r] = "touch" /\ tok[r] \notin raced \cup past =>
       Unspoilt(tok[r]) /\ tok[r] \in index
  /\ \A t \in Usable \ raced : Unspoilt(t) /\ t \in index
  /\ \A q \in Requests : pc[q] = "delkeys" => Usable \subseteq batch[q] \cup raced
  /\ \A q \in Requests :
       pc[q] \in {"delindex", "delete"} \/ (pc[q] = "commit" /\ RevokingAll(q)) => Usable \subseteq raced
  /\ \A q \in Requests : pc[q] = "srem" => tok[q] \notin keys \/ tok[q] \in raced

\* A password in the row was chosen after the last reset, or by a race.
Sticks(a) ==
  a.password # NoPassword /\ a.password.by \notin raced => a.password.era = resets

\* Who may hold the lock of the row, and what the row is while they do.
LockInv ==
  /\ holder \in Requests =>
       /\ account.user
       /\ pc[holder] \in {"store", "index", "commit", "spend", "smembers", "delkeys", "delindex"}
       /\ ~(kind[holder] = "delete" /\ pc[holder] # "commit")
       /\ RevokingAll(holder) \/ ~draft.user => draft.password = NoPassword
  /\ \A q \in Requests :
       \/ pc[q] \in {"smembers", "delkeys", "delindex"} /\ kind[q] = "reset"
       \/ pc[q] = "commit" /\ RevokingAll(q)
       => holder = q \/ ~account.user
  /\ ~account.user => account.password = NoPassword

PasswordInv ==
  /\ Sticks(account)
  /\ holder \in Requests => Sticks(draft)
  /\ \A r \in Requests :
       pc[r] \in {"failed", "verified"} /\ tok[r] \notin raced /\ seen[r].by \notin raced =>
         seen[r].era = resets

\* The counter and the lockout of a row: one that has run out leaves the counter where it was.
Matched(a) == a.failures >= Threshold <=> a.lockout # "none"
CounterInv == Matched(account) /\ (holder \in Requests => Matched(draft))

\* The wrong passwords that are verified and not yet counted, and how far the
\* count can go while they are: a lockout stops new ones, it does not stop these.
Failing == {r \in Requests : pc[r] = "failed"}
Innocent(a) == a.failures = 0 /\ a.lockout = "none"
GuessInv ==
  /\ account.lockout = "none" => account.failures < Threshold
  /\ account.lockout = "on" =>
       account.failures + Cardinality(Failing) < Threshold + Cardinality(Requests) * (lapses + 1)
  /\ account.lockout = "lapsed" => account.failures < Threshold + Cardinality(Requests) * lapses
  /\ Innocent(draft)

-----------------------------------------------------------------------------
(* Types and shapes.                                                       *)

LEMMA InitTypes == Init => TypeOK /\ Shape
<1> SUFFICES ASSUME Init PROVE TypeOK /\ Shape
  OBVIOUS
<1>1. Secret(0, NoToken) \in Password
  BY DEF Secret, Password
<1>2. Fresh \in Account /\ [Fresh EXCEPT !.password = Secret(0, NoToken)] \in Account
  BY <1>1 DEF Fresh, Account
<1>3. 0 \in 0..MaxLapses /\ 0 \in 0..MaxFaults
  BY SessionsAssumption
<1>4. TypeOK
  BY <1>2, <1>3 DEF Init, TypeOK, Labels, Kinds
<1>5. Shape
  BY DEF Init, Shape, SigningIn
<1>6. QED
  BY <1>4, <1>5

\* The rows that the updates leave.
LEMMA RowFacts ==
  ASSUME NEW a \in Account
  PROVE  /\ Failed(a) \in Account /\ Failed(a).user = a.user /\ Failed(a).password = a.password
         /\ Cleared(a) \in Account /\ Cleared(a).user = a.user /\ Cleared(a).password = a.password
         /\ Forgotten(a) \in Account /\ Forgotten(a).user = a.user /\ Forgotten(a).password = NoPassword
         /\ Deleted(a) \in Account /\ Deleted(a).user = FALSE /\ Deleted(a).password = NoPassword
         /\ [a EXCEPT !.lockout = "lapsed"] \in Account
<1>1. Failed(a) \in Account /\ Failed(a).user = a.user /\ Failed(a).password = a.password
  <2>1. a.failures + 1 \in Nat
    BY DEF Account
  <2>2. (IF a.failures + 1 >= Threshold THEN "on" ELSE a.lockout) \in {"none", "on", "lapsed"}
    BY DEF Account
  <2>3. Failed(a) = [a EXCEPT !.failures = a.failures + 1,
                              !.lockout = IF a.failures + 1 >= Threshold THEN "on" ELSE a.lockout]
    BY DEF Failed, Account
  <2>4. QED
    BY <2>1, <2>2, <2>3 DEF Account
<1>2. Cleared(a) \in Account /\ Cleared(a).user = a.user /\ Cleared(a).password = a.password
  BY DEF Account, Cleared
<1>3. Forgotten(a) \in Account /\ Forgotten(a).user = a.user /\ Forgotten(a).password = NoPassword
  BY <1>2 DEF Account, Forgotten
<1>4. Deleted(a) \in Account /\ Deleted(a).user = FALSE /\ Deleted(a).password = NoPassword
  BY <1>3 DEF Account, Deleted
<1>5. [a EXCEPT !.lockout = "lapsed"] \in Account
  BY DEF Account
<1>6. QED
  BY <1>1, <1>2, <1>3, <1>4, <1>5

LEMMA FreshFacts == Fresh \in Account /\ Fresh.user = TRUE /\ Fresh.password = NoPassword
  BY DEF Account, Fresh

LEMMA PasswordFacts ==
  ASSUME TypeOK, Shape, NEW r \in Requests, pc[r] \in {"verified", "choose"}
  PROVE  /\ Chosen(r, account) \in Account /\ Chosen(r, account).user = account.user
         /\ Chosen(r, account).password = Secret(resets, tok[r])
         /\ seen[r] \in Password =>
              /\ Rehashed(r, account) \in Account /\ Rehashed(r, account).user = account.user
              /\ Rehashed(r, account).password
                   = IF tok[r] \in raced THEN Secret(seen[r].era, tok[r]) ELSE seen[r]
<1>1. tok[r] \in Tokens /\ account \in Account /\ resets \in Nat
  BY DEF TypeOK, Shape
<1>2. Cleared(account) \in Account /\ Cleared(account).user = account.user
  BY <1>1, RowFacts
<1>3. Secret(resets, tok[r]) \in Password
  BY <1>1 DEF Secret, Password
<1>4. seen[r] \in Password => Secret(seen[r].era, tok[r]) \in Password
  BY <1>1 DEF Secret, Password
<1>5. QED
  BY <1>2, <1>3, <1>4 DEF Chosen, Rehashed, Account

\* Every request leaves values of the right type.
LEMMA TypeStep == TypeOK /\ Shape /\ [Next]_vars => TypeOK'
<1> SUFFICES ASSUME TypeOK, Shape, [Next]_vars PROVE TypeOK'
  OBVIOUS
<1> USE SessionsAssumption DEF TypeOK, Labels, Kinds, row, redis, locals, history, bounds, GotoWith, Goto, Ends,
    Starts, NoteRaces, Overlaps
<1>1. ASSUME NEW r \in Requests, LookupForLogin(r), NoteRaces PROVE TypeOK'
  BY <1>1 DEF LookupForLogin
<1>2. ASSUME NEW r \in Requests, NEW t \in Tokens, Login(r, t), NoteRaces PROVE TypeOK'
  BY <1>2 DEF Login, Locked, Account
<1>3. ASSUME NEW r \in Requests, NEW s \in Setups, Offer(r, s), NoteRaces PROVE TypeOK'
  BY <1>3 DEF Offer
<1>4. ASSUME NEW r \in Requests, RecordFailure(r), NoteRaces PROVE TypeOK'
  BY <1>4, RowFacts DEF RecordFailure
<1>5. ASSUME NEW r \in Requests, RecordSuccess(r), NoteRaces PROVE TypeOK'
  <2>1. Cleared(account) \in Account /\ Rehashed(r, account) \in Account
    BY <1>5, RowFacts, PasswordFacts DEF RecordSuccess, Shape
  <2>2. QED
    BY <1>5, <2>1 DEF RecordSuccess, Writes
<1>6. ASSUME NEW r \in Requests, StoreSession(r), NoteRaces PROVE TypeOK'
  BY <1>6 DEF StoreSession, Shape
<1>7. ASSUME NEW r \in Requests, IndexSession(r), NoteRaces PROVE TypeOK'
  BY <1>7 DEF IndexSession, Shape
<1>8. ASSUME NEW r \in Requests, Commit(r), NoteRaces PROVE TypeOK'
  BY <1>8, FreshFacts DEF Commit, Unlocks, Shape
<1>9. ASSUME NEW r \in Requests, NEW s \in Setups, NEW t \in Tokens, SetupGet(r, s, t), NoteRaces PROVE TypeOK'
  BY <1>9 DEF SetupGet
<1>10. ASSUME NEW r \in Requests, SetupUser(r), NoteRaces PROVE TypeOK'
  BY <1>10 DEF SetupUser
<1>11. ASSUME NEW r \in Requests, ChoosePassword(r), NoteRaces PROVE TypeOK'
  BY <1>11, PasswordFacts DEF ChoosePassword, Writes
<1>12. ASSUME NEW r \in Requests, SetupRevoke(r), NoteRaces PROVE TypeOK'
  BY <1>12 DEF SetupRevoke
<1>13. ASSUME NEW r \in Requests, NEW t \in Tokens, OpenPage(r, t), NoteRaces PROVE TypeOK'
  BY <1>13 DEF OpenPage, Get
<1>14. ASSUME NEW r \in Requests, Touch(r), NoteRaces PROVE TypeOK'
  BY <1>14 DEF Touch, Shape
<1>15. ASSUME NEW r \in Requests, CurrentUser(r), NoteRaces PROVE TypeOK'
  BY <1>15 DEF CurrentUser
<1>16. ASSUME NEW r \in Requests, Logout(r), NoteRaces PROVE TypeOK'
  BY <1>16 DEF Logout
<1>17. ASSUME NEW r \in Requests, RevokeGet(r), NoteRaces PROVE TypeOK'
  BY <1>17 DEF RevokeGet, Get
<1>18. ASSUME NEW r \in Requests, RevokeDel(r), NoteRaces PROVE TypeOK'
  BY <1>18 DEF RevokeDel, Shape
<1>19. ASSUME NEW r \in Requests, RevokeSrem(r), NoteRaces PROVE TypeOK'
  BY <1>19 DEF RevokeSrem, Shape
<1>20. ASSUME NEW r \in Requests, Reset(r), NoteRaces PROVE TypeOK'
  BY <1>20 DEF Reset
<1>21. ASSUME NEW r \in Requests, ResetPassword(r), NoteRaces PROVE TypeOK'
  <2>1. Forgotten(account) \in Account
    BY RowFacts
  <2>2. QED
    BY <1>21, <2>1 DEF ResetPassword, Writes
<1>22. ASSUME NEW r \in Requests, Smembers(r), NoteRaces PROVE TypeOK'
  BY <1>22 DEF Smembers, Revoked
<1>23. ASSUME NEW r \in Requests, DelKeys(r), NoteRaces PROVE TypeOK'
  BY <1>23 DEF DelKeys, Shape
<1>24. ASSUME NEW r \in Requests, DelIndex(r), NoteRaces PROVE TypeOK'
  BY <1>24 DEF DelIndex, Revoked
<1>25. ASSUME NEW r \in Requests, DeleteUser(r), NoteRaces PROVE TypeOK'
  <2>1. Deleted(account) \in Account
    BY RowFacts
  <2>2. QED
    BY <1>25, <2>1 DEF DeleteUser, Writes
<1>26. ASSUME NEW r \in Requests, Abort(r), NoteRaces PROVE TypeOK'
  BY <1>26, FreshFacts DEF Abort, Unlocks
<1>27. ASSUME NEW t \in Tokens, SessionExpires(t), NoteRaces PROVE TypeOK'
  BY <1>27 DEF SessionExpires
<1>28. ASSUME NEW t \in Tokens, SessionAges(t), NoteRaces PROVE TypeOK'
  BY <1>28 DEF SessionAges
<1>29. ASSUME IndexExpires, NoteRaces PROVE TypeOK'
  BY <1>29 DEF IndexExpires
<1>30. ASSUME NEW s \in Setups, SetupExpires(s), NoteRaces PROVE TypeOK'
  BY <1>30 DEF SetupExpires
<1>31. ASSUME LockoutLapses, NoteRaces PROVE TypeOK'
  <2>1. [account EXCEPT !.lockout = "lapsed"] \in Account
    BY RowFacts
  <2>2. QED
    BY <1>31, <2>1 DEF LockoutLapses
<1>32. CASE UNCHANGED vars
  BY <1>32 DEF vars, Overlaps, InUse, RevokingAll, RevokingOne
<1>33. QED
  BY <1>1, <1>2, <1>3, <1>4, <1>5, <1>6, <1>7, <1>8, <1>9, <1>10, <1>11, <1>12, <1>13, <1>14, <1>15, <1>16,
    <1>17, <1>18, <1>19, <1>20, <1>21, <1>22, <1>23, <1>24, <1>25, <1>26, <1>27, <1>28, <1>29, <1>30, <1>31,
    <1>32 DEF Next, Begin, Continue, Time

\* What a request holds at each label.
LEMMA ShapeStep == TypeOK /\ Shape /\ [Next]_vars => Shape'
<1> SUFFICES ASSUME TypeOK, Shape, [Next]_vars PROVE Shape'
  OBVIOUS
<1> USE SessionsAssumption DEF TypeOK, Labels, Kinds, row, redis, locals, history, bounds, GotoWith, Goto, Ends,
    Starts, Shape, SigningIn
<1>1. ASSUME NEW r \in Requests, LookupForLogin(r), NoteRaces PROVE Shape'
  BY <1>1 DEF LookupForLogin
<1>2. ASSUME NEW r \in Requests, NEW t \in Tokens, Login(r, t), NoteRaces PROVE Shape'
  <2>1. CASE account.password = NoPassword
    BY <1>2, <2>1 DEF Login
  <2>2. CASE account.password # NoPassword
    <3>1. account.password \in Password
      BY <2>2 DEF Account
    <3>2. QED
      BY <1>2, <2>2, <3>1 DEF Login, Reserved
  <2>3. QED
    BY <2>1, <2>2
<1>3. ASSUME NEW r \in Requests, NEW s \in Setups, Offer(r, s), NoteRaces PROVE Shape'
  BY <1>3 DEF Offer
<1>4. ASSUME NEW r \in Requests, RecordFailure(r), NoteRaces PROVE Shape'
  BY <1>4 DEF RecordFailure
<1>5. ASSUME NEW r \in Requests, RecordSuccess(r), NoteRaces PROVE Shape'
  BY <1>5 DEF RecordSuccess, Writes
<1>6. ASSUME NEW r \in Requests, StoreSession(r), NoteRaces PROVE Shape'
  BY <1>6 DEF StoreSession
<1>7. ASSUME NEW r \in Requests, IndexSession(r), NoteRaces PROVE Shape'
  BY <1>7 DEF IndexSession
<1>8. ASSUME NEW r \in Requests, Commit(r), NoteRaces PROVE Shape'
  BY <1>8 DEF Commit, Unlocks
<1>9. ASSUME NEW r \in Requests, NEW s \in Setups, NEW t \in Tokens, SetupGet(r, s, t), NoteRaces PROVE Shape'
  BY <1>9 DEF SetupGet, Reserved
<1>10. ASSUME NEW r \in Requests, SetupUser(r), NoteRaces PROVE Shape'
  BY <1>10 DEF SetupUser
<1>11. ASSUME NEW r \in Requests, ChoosePassword(r), NoteRaces PROVE Shape'
  BY <1>11 DEF ChoosePassword, Writes
<1>12. ASSUME NEW r \in Requests, SetupRevoke(r), NoteRaces PROVE Shape'
  BY <1>12 DEF SetupRevoke
<1>13. ASSUME NEW r \in Requests, NEW t \in Tokens, OpenPage(r, t), NoteRaces PROVE Shape'
  BY <1>13 DEF OpenPage, Get
<1>14. ASSUME NEW r \in Requests, Touch(r), NoteRaces PROVE Shape'
  BY <1>14 DEF Touch
<1>15. ASSUME NEW r \in Requests, CurrentUser(r), NoteRaces PROVE Shape'
  BY <1>15 DEF CurrentUser
<1>16. ASSUME NEW r \in Requests, Logout(r), NoteRaces PROVE Shape'
  BY <1>16 DEF Logout
<1>17. ASSUME NEW r \in Requests, RevokeGet(r), NoteRaces PROVE Shape'
  BY <1>17 DEF RevokeGet, Get
<1>18. ASSUME NEW r \in Requests, RevokeDel(r), NoteRaces PROVE Shape'
  <2>1. CASE batch[r] = {}
    BY <1>18, <2>1 DEF RevokeDel
  <2>2. CASE batch[r] # {}
    BY <1>18, <2>2 DEF RevokeDel
  <2>3. QED
    BY <2>1, <2>2
<1>19. ASSUME NEW r \in Requests, RevokeSrem(r), NoteRaces PROVE Shape'
  BY <1>19 DEF RevokeSrem
<1>20. ASSUME NEW r \in Requests, Reset(r), NoteRaces PROVE Shape'
  BY <1>20 DEF Reset
<1>21. ASSUME NEW r \in Requests, ResetPassword(r), NoteRaces PROVE Shape'
  BY <1>21 DEF ResetPassword, Writes
<1>22. ASSUME NEW r \in Requests, Smembers(r), NoteRaces PROVE Shape'
  BY <1>22 DEF Smembers, Revoked
<1>23. ASSUME NEW r \in Requests, DelKeys(r), NoteRaces PROVE Shape'
  BY <1>23 DEF DelKeys
<1>24. ASSUME NEW r \in Requests, DelIndex(r), NoteRaces PROVE Shape'
  BY <1>24 DEF DelIndex, Revoked
<1>25. ASSUME NEW r \in Requests, DeleteUser(r), NoteRaces PROVE Shape'
  BY <1>25 DEF DeleteUser, Writes
<1>26. ASSUME NEW r \in Requests, Abort(r), NoteRaces PROVE Shape'
  BY <1>26 DEF Abort, Unlocks
<1>27. ASSUME NEW t \in Tokens, SessionExpires(t), NoteRaces PROVE Shape'
  BY <1>27 DEF SessionExpires
<1>28. ASSUME NEW t \in Tokens, SessionAges(t), NoteRaces PROVE Shape'
  BY <1>28 DEF SessionAges
<1>29. ASSUME IndexExpires, NoteRaces PROVE Shape'
  BY <1>29 DEF IndexExpires
<1>30. ASSUME NEW s \in Setups, SetupExpires(s), NoteRaces PROVE Shape'
  BY <1>30 DEF SetupExpires
<1>31. ASSUME LockoutLapses, NoteRaces PROVE Shape'
  BY <1>31 DEF LockoutLapses, Locked
<1>32. CASE UNCHANGED vars
  BY <1>32 DEF vars, Overlaps, InUse, RevokingAll, RevokingOne
<1>33. QED
  BY <1>1, <1>2, <1>3, <1>4, <1>5, <1>6, <1>7, <1>8, <1>9, <1>10, <1>11, <1>12, <1>13, <1>14, <1>15, <1>16,
    <1>17, <1>18, <1>19, <1>20, <1>21, <1>22, <1>23, <1>24, <1>25, <1>26, <1>27, <1>28, <1>29, <1>30, <1>31,
    <1>32 DEF Next, Begin, Continue, Time

-----------------------------------------------------------------------------
(* Sessions.                                                               *)

\* A race is noted as soon as two requests overlap.
LEMMA Overlapping ==
  ASSUME TypeOK, Noted, NEW r \in Requests, NEW q \in Requests, r # q, pc[r] # "idle", tok[r] \in Tokens,
         RevokingAll(q) \/ (RevokingOne(q) /\ tok[q] = tok[r])
  PROVE  tok[r] \in raced
  BY DEF Noted, Overlaps, InUse

LEMMA NotedNext == NoteRaces => Noted' /\ raced \subseteq raced'
  BY DEF NoteRaces, Noted

\* What the races spare, a revocation finds.
LEMMA EraStep == TypeOK /\ Shape /\ Noted /\ EraInv /\ [Next]_vars => EraInv'
<1> SUFFICES ASSUME TypeOK, Shape, Noted, EraInv, [Next]_vars PROVE EraInv'
  OBVIOUS
<1> USE SessionsAssumption, Overlapping, NotedNext DEF TypeOK, Shape, SigningIn, Unspoilt, Usable, EraInv,
    Labels, Kinds, row, redis, locals, history, bounds, GotoWith, Goto, Ends, Starts, RevokingAll, RevokingOne
<1>1. ASSUME NEW r \in Requests, LookupForLogin(r), NoteRaces PROVE EraInv'
  BY <1>1 DEF LookupForLogin
<1>2. ASSUME NEW r \in Requests, NEW t \in Tokens, Login(r, t), NoteRaces PROVE EraInv'
  BY <1>2 DEF Login, Locked, Reserved
<1>3. ASSUME NEW r \in Requests, NEW s \in Setups, Offer(r, s), NoteRaces PROVE EraInv'
  BY <1>3 DEF Offer
<1>4. ASSUME NEW r \in Requests, RecordFailure(r), NoteRaces PROVE EraInv'
  BY <1>4 DEF RecordFailure
<1>5. ASSUME NEW r \in Requests, RecordSuccess(r), NoteRaces PROVE EraInv'
  BY <1>5 DEF RecordSuccess, Writes
<1>6. ASSUME NEW r \in Requests, StoreSession(r), NoteRaces PROVE EraInv'
  BY <1>6 DEF StoreSession
<1>7. ASSUME NEW r \in Requests, IndexSession(r), NoteRaces PROVE EraInv'
  BY <1>7 DEF IndexSession
<1>8. ASSUME NEW r \in Requests, Commit(r), NoteRaces PROVE EraInv'
  BY <1>8 DEF Commit, Unlocks
<1>9. ASSUME NEW r \in Requests, NEW s \in Setups, NEW t \in Tokens, SetupGet(r, s, t), NoteRaces PROVE EraInv'
  BY <1>9 DEF SetupGet, Reserved
<1>10. ASSUME NEW r \in Requests, SetupUser(r), NoteRaces PROVE EraInv'
  BY <1>10 DEF SetupUser
<1>11. ASSUME NEW r \in Requests, ChoosePassword(r), NoteRaces PROVE EraInv'
  BY <1>11 DEF ChoosePassword, Writes
<1>12. ASSUME NEW r \in Requests, SetupRevoke(r), NoteRaces PROVE EraInv'
  BY <1>12 DEF SetupRevoke
<1>13. ASSUME NEW r \in Requests, NEW t \in Tokens, OpenPage(r, t), NoteRaces PROVE EraInv'
  BY <1>13 DEF OpenPage, Get
<1>14. ASSUME NEW r \in Requests, Touch(r), NoteRaces PROVE EraInv'
  BY <1>14 DEF Touch
<1>15. ASSUME NEW r \in Requests, CurrentUser(r), NoteRaces PROVE EraInv'
  BY <1>15 DEF CurrentUser
<1>16. ASSUME NEW r \in Requests, Logout(r), NoteRaces PROVE EraInv'
  BY <1>16 DEF Logout
<1>17. ASSUME NEW r \in Requests, RevokeGet(r), NoteRaces PROVE EraInv'
  BY <1>17 DEF RevokeGet, Get
<1>18. ASSUME NEW r \in Requests, RevokeDel(r), NoteRaces PROVE EraInv'
  BY <1>18 DEF RevokeDel
<1>19. ASSUME NEW r \in Requests, RevokeSrem(r), NoteRaces PROVE EraInv'
  BY <1>19 DEF RevokeSrem
<1>20. ASSUME NEW r \in Requests, Reset(r), NoteRaces PROVE EraInv'
  BY <1>20 DEF Reset
<1>21. ASSUME NEW r \in Requests, ResetPassword(r), NoteRaces PROVE EraInv'
  BY <1>21 DEF ResetPassword, Writes
<1>22. ASSUME NEW r \in Requests, Smembers(r), NoteRaces PROVE EraInv'
  BY <1>22 DEF Smembers, Revoked
<1>23. ASSUME NEW r \in Requests, DelKeys(r), NoteRaces PROVE EraInv'
  BY <1>23 DEF DelKeys
<1>24. ASSUME NEW r \in Requests, DelIndex(r), NoteRaces PROVE EraInv'
  BY <1>24 DEF DelIndex, Revoked
<1>25. ASSUME NEW r \in Requests, DeleteUser(r), NoteRaces PROVE EraInv'
  BY <1>25 DEF DeleteUser, Writes
<1>26. ASSUME NEW r \in Requests, Abort(r), NoteRaces PROVE EraInv'
  BY <1>26 DEF Abort, Unlocks
<1>27. ASSUME NEW t \in Tokens, SessionExpires(t), NoteRaces PROVE EraInv'
  BY <1>27 DEF SessionExpires
<1>28. ASSUME NEW t \in Tokens, SessionAges(t), NoteRaces PROVE EraInv'
  BY <1>28 DEF SessionAges
<1>29. ASSUME IndexExpires, NoteRaces PROVE EraInv'
  BY <1>29 DEF IndexExpires
<1>30. ASSUME NEW s \in Setups, SetupExpires(s), NoteRaces PROVE EraInv'
  BY <1>30 DEF SetupExpires
<1>31. ASSUME LockoutLapses, NoteRaces PROVE EraInv'
  BY <1>31 DEF LockoutLapses, Locked
<1>32. CASE UNCHANGED vars
  BY <1>32 DEF vars, Overlaps, InUse, RevokingAll, RevokingOne
<1>33. QED
  BY <1>1, <1>2, <1>3, <1>4, <1>5, <1>6, <1>7, <1>8, <1>9, <1>10, <1>11, <1>12, <1>13, <1>14, <1>15, <1>16,
    <1>17, <1>18, <1>19, <1>20, <1>21, <1>22, <1>23, <1>24, <1>25, <1>26, <1>27, <1>28, <1>29, <1>30, <1>31,
    <1>32 DEF Next, Begin, Continue, Time

-----------------------------------------------------------------------------
(* Passwords.                                                              *)

\* One transaction at a time, and what it leaves.
LEMMA LockStep == TypeOK /\ Shape /\ LockInv /\ [Next]_vars => LockInv'
<1> SUFFICES ASSUME TypeOK, Shape, LockInv, [Next]_vars PROVE LockInv'
  OBVIOUS
<1> USE SessionsAssumption DEF TypeOK, Shape, SigningIn, LockInv, Labels, Kinds, row, redis, locals, history,
    bounds, GotoWith, Goto, Ends, Starts, RevokingAll
<1>1. ASSUME NEW r \in Requests, LookupForLogin(r), NoteRaces PROVE LockInv'
  BY <1>1 DEF LookupForLogin
<1>2. ASSUME NEW r \in Requests, NEW t \in Tokens, Login(r, t), NoteRaces PROVE LockInv'
  BY <1>2 DEF Login, Locked
<1>3. ASSUME NEW r \in Requests, NEW s \in Setups, Offer(r, s), NoteRaces PROVE LockInv'
  BY <1>3 DEF Offer
<1>4. ASSUME NEW r \in Requests, RecordFailure(r), NoteRaces PROVE LockInv'
  <2>1. Failed(account) \in Account /\ Failed(account).user = account.user
        /\ Failed(account).password = account.password
    BY RowFacts
  <2>2. QED
    BY <1>4, <2>1 DEF RecordFailure
<1>5. ASSUME NEW r \in Requests, RecordSuccess(r), NoteRaces PROVE LockInv'
  <2>1. tok[r] \in Tokens /\ seen[r] \in Password /\ account \in Account /\ pc[r] = "verified"
    BY <1>5 DEF RecordSuccess
  <2>2. Cleared(account) \in Account /\ Cleared(account).user = account.user
        /\ Cleared(account).password = account.password
    BY <2>1, RowFacts
  <2>3. Rehashed(r, account) \in Account /\ Rehashed(r, account).user = account.user
        /\ Rehashed(r, account).password = IF tok[r] \in raced THEN Secret(seen[r].era, tok[r]) ELSE seen[r]
    BY <2>1, PasswordFacts
  <2>4. Secret(seen[r].era, tok[r]).by = tok[r] /\ Secret(seen[r].era, tok[r]).era = seen[r].era
    BY DEF Secret
  <2>5. CASE draft' = Cleared(account)
    BY <1>5, <2>1, <2>2, <2>5 DEF RecordSuccess, Writes
  <2>6. CASE draft' = Rehashed(r, account)
    BY <1>5, <2>1, <2>3, <2>4, <2>6 DEF RecordSuccess, Writes
  <2>7. CASE UNCHANGED row
    BY <1>5, <2>1, <2>7 DEF RecordSuccess, Writes
  <2>8. QED
    BY <1>5, <2>5, <2>6, <2>7 DEF RecordSuccess, Writes
<1>6. ASSUME NEW r \in Requests, StoreSession(r), NoteRaces PROVE LockInv'
  BY <1>6 DEF StoreSession
<1>7. ASSUME NEW r \in Requests, IndexSession(r), NoteRaces PROVE LockInv'
  BY <1>7 DEF IndexSession
<1>8. ASSUME NEW r \in Requests, Commit(r), NoteRaces PROVE LockInv'
  BY <1>8, FreshFacts DEF Commit, Unlocks
<1>9. ASSUME NEW r \in Requests, NEW s \in Setups, NEW t \in Tokens, SetupGet(r, s, t), NoteRaces PROVE LockInv'
  BY <1>9 DEF SetupGet
<1>10. ASSUME NEW r \in Requests, SetupUser(r), NoteRaces PROVE LockInv'
  BY <1>10 DEF SetupUser
<1>11. ASSUME NEW r \in Requests, ChoosePassword(r), NoteRaces PROVE LockInv'
  <2>1. tok[r] \in Tokens /\ account \in Account /\ pc[r] = "choose" /\ kind[r] \in {"login", "set-password"}
    BY <1>11 DEF ChoosePassword
  <2>2. Chosen(r, account).user = account.user
    BY <2>1, PasswordFacts
  <2>3. CASE account.user
    <3>1. holder = NoOne /\ holder' = r /\ draft' = Chosen(r, account) /\ UNCHANGED account
      BY <1>11, <2>3 DEF ChoosePassword, Writes
    <3>2. pc' = [pc EXCEPT ![r] = "spend"] /\ UNCHANGED kind
      BY <1>11 DEF ChoosePassword
    <3>3. QED
      BY <2>1, <2>2, <2>3, <3>1, <3>2
  <2>4. CASE ~account.user
    BY <1>11, <2>1, <2>4 DEF ChoosePassword, Writes
  <2>5. QED
    BY <2>3, <2>4
<1>12. ASSUME NEW r \in Requests, SetupRevoke(r), NoteRaces PROVE LockInv'
  BY <1>12 DEF SetupRevoke
<1>13. ASSUME NEW r \in Requests, NEW t \in Tokens, OpenPage(r, t), NoteRaces PROVE LockInv'
  BY <1>13 DEF OpenPage, Get
<1>14. ASSUME NEW r \in Requests, Touch(r), NoteRaces PROVE LockInv'
  BY <1>14 DEF Touch
<1>15. ASSUME NEW r \in Requests, CurrentUser(r), NoteRaces PROVE LockInv'
  BY <1>15 DEF CurrentUser
<1>16. ASSUME NEW r \in Requests, Logout(r), NoteRaces PROVE LockInv'
  BY <1>16 DEF Logout
<1>17. ASSUME NEW r \in Requests, RevokeGet(r), NoteRaces PROVE LockInv'
  BY <1>17 DEF RevokeGet, Get
<1>18. ASSUME NEW r \in Requests, RevokeDel(r), NoteRaces PROVE LockInv'
  BY <1>18 DEF RevokeDel
<1>19. ASSUME NEW r \in Requests, RevokeSrem(r), NoteRaces PROVE LockInv'
  BY <1>19 DEF RevokeSrem
<1>20. ASSUME NEW r \in Requests, Reset(r), NoteRaces PROVE LockInv'
  BY <1>20 DEF Reset
<1>21. ASSUME NEW r \in Requests, ResetPassword(r), NoteRaces PROVE LockInv'
  <2>1. Forgotten(account) \in Account /\ Forgotten(account).user = account.user
        /\ Forgotten(account).password = NoPassword
    BY RowFacts
  <2>2. QED
    BY <1>21, <2>1 DEF ResetPassword, Writes
<1>22. ASSUME NEW r \in Requests, Smembers(r), NoteRaces PROVE LockInv'
  BY <1>22 DEF Smembers, Revoked
<1>23. ASSUME NEW r \in Requests, DelKeys(r), NoteRaces PROVE LockInv'
  BY <1>23 DEF DelKeys
<1>24. ASSUME NEW r \in Requests, DelIndex(r), NoteRaces PROVE LockInv'
  BY <1>24 DEF DelIndex, Revoked
<1>25. ASSUME NEW r \in Requests, DeleteUser(r), NoteRaces PROVE LockInv'
  <2>1. Deleted(account) \in Account /\ ~Deleted(account).user /\ Deleted(account).password = NoPassword
    BY RowFacts
  <2>2. QED
    BY <1>25, <2>1 DEF DeleteUser, Writes
<1>26. ASSUME NEW r \in Requests, Abort(r), NoteRaces PROVE LockInv'
  BY <1>26, FreshFacts DEF Abort, Unlocks
<1>27. ASSUME NEW t \in Tokens, SessionExpires(t), NoteRaces PROVE LockInv'
  BY <1>27 DEF SessionExpires
<1>28. ASSUME NEW t \in Tokens, SessionAges(t), NoteRaces PROVE LockInv'
  BY <1>28 DEF SessionAges
<1>29. ASSUME IndexExpires, NoteRaces PROVE LockInv'
  BY <1>29 DEF IndexExpires
<1>30. ASSUME NEW s \in Setups, SetupExpires(s), NoteRaces PROVE LockInv'
  BY <1>30 DEF SetupExpires
<1>31. ASSUME LockoutLapses, NoteRaces PROVE LockInv'
  BY <1>31, RowFacts DEF LockoutLapses, Locked
<1>32. CASE UNCHANGED vars
  BY <1>32 DEF vars, Overlaps, InUse, RevokingAll, RevokingOne
<1>33. QED
  BY <1>1, <1>2, <1>3, <1>4, <1>5, <1>6, <1>7, <1>8, <1>9, <1>10, <1>11, <1>12, <1>13, <1>14, <1>15, <1>16,
    <1>17, <1>18, <1>19, <1>20, <1>21, <1>22, <1>23, <1>24, <1>25, <1>26, <1>27, <1>28, <1>29, <1>30, <1>31,
    <1>32 DEF Next, Begin, Continue, Time

\* A password chosen before a reset comes back by a race only.
LEMMA PasswordStep == TypeOK /\ Shape /\ Noted /\ LockInv /\ PasswordInv /\ [Next]_vars => PasswordInv'
<1> SUFFICES ASSUME TypeOK, Shape, Noted, LockInv, PasswordInv, [Next]_vars PROVE PasswordInv'
  OBVIOUS
<1> USE SessionsAssumption, Overlapping, NotedNext DEF TypeOK, Shape, SigningIn, Sticks, PasswordInv, LockInv,
    Labels, Kinds, row, redis, locals, history, bounds, GotoWith, Goto, Ends, Starts, RevokingAll, RevokingOne
<1>1. ASSUME NEW r \in Requests, LookupForLogin(r), NoteRaces PROVE PasswordInv'
  BY <1>1 DEF LookupForLogin
<1>2. ASSUME NEW r \in Requests, NEW t \in Tokens, Login(r, t), NoteRaces PROVE PasswordInv'
  BY <1>2 DEF Login, Locked, Reserved
<1>3. ASSUME NEW r \in Requests, NEW s \in Setups, Offer(r, s), NoteRaces PROVE PasswordInv'
  BY <1>3 DEF Offer
<1>4. ASSUME NEW r \in Requests, RecordFailure(r), NoteRaces PROVE PasswordInv'
  <2>1. Failed(account) \in Account /\ Failed(account).user = account.user
        /\ Failed(account).password = account.password
    BY RowFacts
  <2>2. QED
    BY <1>4, <2>1 DEF RecordFailure
<1>5. ASSUME NEW r \in Requests, RecordSuccess(r), NoteRaces PROVE PasswordInv'
  <2>1. tok[r] \in Tokens /\ seen[r] \in Password /\ account \in Account /\ pc[r] = "verified"
    BY <1>5 DEF RecordSuccess
  <2>2. Cleared(account) \in Account /\ Cleared(account).user = account.user
        /\ Cleared(account).password = account.password
    BY <2>1, RowFacts
  <2>3. Rehashed(r, account) \in Account /\ Rehashed(r, account).user = account.user
        /\ Rehashed(r, account).password = IF tok[r] \in raced THEN Secret(seen[r].era, tok[r]) ELSE seen[r]
    BY <2>1, PasswordFacts
  <2>4. Secret(seen[r].era, tok[r]).by = tok[r] /\ Secret(seen[r].era, tok[r]).era = seen[r].era
    BY DEF Secret
  <2>5. CASE draft' = Cleared(account)
    BY <1>5, <2>1, <2>2, <2>5 DEF RecordSuccess, Writes
  <2>6. CASE draft' = Rehashed(r, account)
    BY <1>5, <2>1, <2>3, <2>4, <2>6 DEF RecordSuccess, Writes
  <2>7. CASE UNCHANGED row
    BY <1>5, <2>1, <2>7 DEF RecordSuccess, Writes
  <2>8. QED
    BY <1>5, <2>5, <2>6, <2>7 DEF RecordSuccess, Writes
<1>6. ASSUME NEW r \in Requests, StoreSession(r), NoteRaces PROVE PasswordInv'
  BY <1>6 DEF StoreSession
<1>7. ASSUME NEW r \in Requests, IndexSession(r), NoteRaces PROVE PasswordInv'
  BY <1>7 DEF IndexSession
<1>8. ASSUME NEW r \in Requests, Commit(r), NoteRaces PROVE PasswordInv'
  BY <1>8, FreshFacts DEF Commit, Unlocks
<1>9. ASSUME NEW r \in Requests, NEW s \in Setups, NEW t \in Tokens, SetupGet(r, s, t), NoteRaces PROVE PasswordInv'
  BY <1>9 DEF SetupGet, Reserved
<1>10. ASSUME NEW r \in Requests, SetupUser(r), NoteRaces PROVE PasswordInv'
  BY <1>10 DEF SetupUser
<1>11. ASSUME NEW r \in Requests, ChoosePassword(r), NoteRaces PROVE PasswordInv'
  <2>1. tok[r] \in Tokens /\ account \in Account /\ pc[r] = "choose"
    BY <1>11 DEF ChoosePassword
  <2>2. Chosen(r, account) \in Account /\ Chosen(r, account).user = account.user
        /\ Chosen(r, account).password = Secret(resets, tok[r])
    BY <2>1, PasswordFacts
  <2>3. Secret(resets, tok[r]).by = tok[r] /\ Secret(resets, tok[r]).era = resets
        /\ Secret(resets, tok[r]) \in Password
    BY <2>1 DEF Secret, Password
  <2>4. CASE account.user
    BY <1>11, <2>1, <2>2, <2>3, <2>4 DEF ChoosePassword, Writes
  <2>5. CASE ~account.user
    BY <1>11, <2>1, <2>5 DEF ChoosePassword, Writes
  <2>6. QED
    BY <2>4, <2>5
<1>12. ASSUME NEW r \in Requests, SetupRevoke(r), NoteRaces PROVE PasswordInv'
  BY <1>12 DEF SetupRevoke
<1>13. ASSUME NEW r \in Requests, NEW t \in Tokens, OpenPage(r, t), NoteRaces PROVE PasswordInv'
  BY <1>13 DEF OpenPage, Get
<1>14. ASSUME NEW r \in Requests, Touch(r), NoteRaces PROVE PasswordInv'
  BY <1>14 DEF Touch
<1>15. ASSUME NEW r \in Requests, CurrentUser(r), NoteRaces PROVE PasswordInv'
  BY <1>15 DEF CurrentUser
<1>16. ASSUME NEW r \in Requests, Logout(r), NoteRaces PROVE PasswordInv'
  BY <1>16 DEF Logout
<1>17. ASSUME NEW r \in Requests, RevokeGet(r), NoteRaces PROVE PasswordInv'
  BY <1>17 DEF RevokeGet, Get
<1>18. ASSUME NEW r \in Requests, RevokeDel(r), NoteRaces PROVE PasswordInv'
  BY <1>18 DEF RevokeDel
<1>19. ASSUME NEW r \in Requests, RevokeSrem(r), NoteRaces PROVE PasswordInv'
  BY <1>19 DEF RevokeSrem
<1>20. ASSUME NEW r \in Requests, Reset(r), NoteRaces PROVE PasswordInv'
  BY <1>20 DEF Reset
<1>21. ASSUME NEW r \in Requests, ResetPassword(r), NoteRaces PROVE PasswordInv'
  <2>1. Forgotten(account) \in Account /\ Forgotten(account).user = account.user
        /\ Forgotten(account).password = NoPassword
    BY RowFacts
  <2>2. QED
    BY <1>21, <2>1 DEF ResetPassword, Writes
<1>22. ASSUME NEW r \in Requests, Smembers(r), NoteRaces PROVE PasswordInv'
  BY <1>22 DEF Smembers, Revoked
<1>23. ASSUME NEW r \in Requests, DelKeys(r), NoteRaces PROVE PasswordInv'
  BY <1>23 DEF DelKeys
<1>24. ASSUME NEW r \in Requests, DelIndex(r), NoteRaces PROVE PasswordInv'
  BY <1>24 DEF DelIndex, Revoked
<1>25. ASSUME NEW r \in Requests, DeleteUser(r), NoteRaces PROVE PasswordInv'
  <2>1. Deleted(account) \in Account /\ ~Deleted(account).user /\ Deleted(account).password = NoPassword
    BY RowFacts
  <2>2. QED
    BY <1>25, <2>1 DEF DeleteUser, Writes
<1>26. ASSUME NEW r \in Requests, Abort(r), NoteRaces PROVE PasswordInv'
  BY <1>26, FreshFacts DEF Abort, Unlocks
<1>27. ASSUME NEW t \in Tokens, SessionExpires(t), NoteRaces PROVE PasswordInv'
  BY <1>27 DEF SessionExpires
<1>28. ASSUME NEW t \in Tokens, SessionAges(t), NoteRaces PROVE PasswordInv'
  BY <1>28 DEF SessionAges
<1>29. ASSUME IndexExpires, NoteRaces PROVE PasswordInv'
  BY <1>29 DEF IndexExpires
<1>30. ASSUME NEW s \in Setups, SetupExpires(s), NoteRaces PROVE PasswordInv'
  BY <1>30 DEF SetupExpires
<1>31. ASSUME LockoutLapses, NoteRaces PROVE PasswordInv'
  BY <1>31, RowFacts DEF LockoutLapses, Locked
<1>32. CASE UNCHANGED vars
  BY <1>32 DEF vars, Overlaps, InUse, RevokingAll, RevokingOne
<1>33. QED
  BY <1>1, <1>2, <1>3, <1>4, <1>5, <1>6, <1>7, <1>8, <1>9, <1>10, <1>11, <1>12, <1>13, <1>14, <1>15, <1>16,
    <1>17, <1>18, <1>19, <1>20, <1>21, <1>22, <1>23, <1>24, <1>25, <1>26, <1>27, <1>28, <1>29, <1>30, <1>31,
    <1>32 DEF Next, Begin, Continue, Time

-----------------------------------------------------------------------------
(* The lockout.                                                            *)

LEMMA MatchedFacts ==
  ASSUME NEW a \in Account
  PROVE  /\ Matched(a) => Matched(Failed(a))
         /\ Matched(Cleared(a)) /\ Matched(Forgotten(a)) /\ Matched(Deleted(a)) /\ Matched(Fresh)
         /\ \A r \in Requests : Matched(Chosen(r, a)) /\ Matched(Rehashed(r, a))
         /\ Matched(a) /\ a.lockout = "on" => Matched([a EXCEPT !.lockout = "lapsed"])
<1> USE SessionsAssumption
<1>1. Matched(a) => Matched(Failed(a))
  <2>1. Failed(a) = [a EXCEPT !.failures = a.failures + 1,
                              !.lockout = IF a.failures + 1 >= Threshold THEN "on" ELSE a.lockout]
    BY DEF Failed, Account
  <2>2. Failed(a).failures = a.failures + 1 /\ a.failures \in Nat
        /\ Failed(a).lockout = IF a.failures + 1 >= Threshold THEN "on" ELSE a.lockout
    BY <2>1 DEF Account
  <2>3. QED
    BY <2>2 DEF Matched
<1>2. \A b \in Account : Cleared(b).failures = 0 /\ Cleared(b).lockout = "none"
  BY DEF Cleared, Account
<1>3. \A r \in Requests : /\ Chosen(r, a).failures = 0 /\ Chosen(r, a).lockout = "none"
                         /\ Rehashed(r, a).failures = 0 /\ Rehashed(r, a).lockout = "none"
  BY RowFacts, <1>2 DEF Chosen, Rehashed, Account
<1>4. /\ Forgotten(a).failures = 0 /\ Forgotten(a).lockout = "none"
      /\ Deleted(a).failures = 0 /\ Deleted(a).lockout = "none"
  <2>1. Cleared(a) \in Account /\ Forgotten(a) \in Account
    BY RowFacts
  <2>2. Forgotten(a).failures = 0 /\ Forgotten(a).lockout = "none"
    BY <1>2, <2>1 DEF Forgotten, Account
  <2>3. QED
    BY <2>1, <2>2 DEF Deleted, Account
<1>5. Matched(Fresh)
  BY DEF Fresh, Matched
<1>6. Matched(a) /\ a.lockout = "on" => Matched([a EXCEPT !.lockout = "lapsed"])
  BY DEF Matched, Account
<1>7. QED
  BY <1>1, <1>2, <1>3, <1>4, <1>5, <1>6 DEF Matched

\* Every update keeps the counter and the lockout in step.
LEMMA CounterStep == TypeOK /\ CounterInv /\ [Next]_vars => CounterInv'
<1> SUFFICES ASSUME TypeOK, CounterInv, [Next]_vars PROVE CounterInv'
  OBVIOUS
<1> USE SessionsAssumption DEF TypeOK, CounterInv, row, redis, locals, history, bounds
<1>1. ASSUME NEW r \in Requests, LookupForLogin(r), NoteRaces PROVE CounterInv'
  BY <1>1 DEF LookupForLogin
<1>2. ASSUME NEW r \in Requests, NEW t \in Tokens, Login(r, t), NoteRaces PROVE CounterInv'
  BY <1>2 DEF Login, Locked
<1>3. ASSUME NEW r \in Requests, NEW s \in Setups, Offer(r, s), NoteRaces PROVE CounterInv'
  BY <1>3 DEF Offer
<1>4. ASSUME NEW r \in Requests, RecordFailure(r), NoteRaces PROVE CounterInv'
  BY <1>4, MatchedFacts DEF RecordFailure
<1>5. ASSUME NEW r \in Requests, RecordSuccess(r), NoteRaces PROVE CounterInv'
  <2>1. Matched(Cleared(account)) /\ Matched(Chosen(r, account)) /\ Matched(Rehashed(r, account))
    BY MatchedFacts
  <2>2. CASE account.user
    BY <1>5, <2>1, <2>2 DEF RecordSuccess, Writes
  <2>3. CASE ~account.user
    BY <1>5, <2>3 DEF RecordSuccess, Writes
  <2>4. QED
    BY <2>2, <2>3
<1>6. ASSUME NEW r \in Requests, StoreSession(r), NoteRaces PROVE CounterInv'
  BY <1>6 DEF StoreSession
<1>7. ASSUME NEW r \in Requests, IndexSession(r), NoteRaces PROVE CounterInv'
  BY <1>7 DEF IndexSession
<1>8. ASSUME NEW r \in Requests, Commit(r), NoteRaces PROVE CounterInv'
  BY <1>8, MatchedFacts DEF Commit, Unlocks
<1>9. ASSUME NEW r \in Requests, NEW s \in Setups, NEW t \in Tokens, SetupGet(r, s, t), NoteRaces PROVE CounterInv'
  BY <1>9 DEF SetupGet
<1>10. ASSUME NEW r \in Requests, SetupUser(r), NoteRaces PROVE CounterInv'
  BY <1>10 DEF SetupUser
<1>11. ASSUME NEW r \in Requests, ChoosePassword(r), NoteRaces PROVE CounterInv'
  <2>1. Matched(Cleared(account)) /\ Matched(Chosen(r, account)) /\ Matched(Rehashed(r, account))
    BY MatchedFacts
  <2>2. CASE account.user
    BY <1>11, <2>1, <2>2 DEF ChoosePassword, Writes
  <2>3. CASE ~account.user
    BY <1>11, <2>3 DEF ChoosePassword, Writes
  <2>4. QED
    BY <2>2, <2>3
<1>12. ASSUME NEW r \in Requests, SetupRevoke(r), NoteRaces PROVE CounterInv'
  BY <1>12 DEF SetupRevoke
<1>13. ASSUME NEW r \in Requests, NEW t \in Tokens, OpenPage(r, t), NoteRaces PROVE CounterInv'
  BY <1>13 DEF OpenPage, Get
<1>14. ASSUME NEW r \in Requests, Touch(r), NoteRaces PROVE CounterInv'
  BY <1>14 DEF Touch
<1>15. ASSUME NEW r \in Requests, CurrentUser(r), NoteRaces PROVE CounterInv'
  BY <1>15 DEF CurrentUser
<1>16. ASSUME NEW r \in Requests, Logout(r), NoteRaces PROVE CounterInv'
  BY <1>16 DEF Logout
<1>17. ASSUME NEW r \in Requests, RevokeGet(r), NoteRaces PROVE CounterInv'
  BY <1>17 DEF RevokeGet, Get
<1>18. ASSUME NEW r \in Requests, RevokeDel(r), NoteRaces PROVE CounterInv'
  BY <1>18 DEF RevokeDel
<1>19. ASSUME NEW r \in Requests, RevokeSrem(r), NoteRaces PROVE CounterInv'
  BY <1>19 DEF RevokeSrem
<1>20. ASSUME NEW r \in Requests, Reset(r), NoteRaces PROVE CounterInv'
  BY <1>20 DEF Reset
<1>21. ASSUME NEW r \in Requests, ResetPassword(r), NoteRaces PROVE CounterInv'
  BY <1>21, MatchedFacts DEF ResetPassword, Writes
<1>22. ASSUME NEW r \in Requests, Smembers(r), NoteRaces PROVE CounterInv'
  BY <1>22 DEF Smembers, Revoked
<1>23. ASSUME NEW r \in Requests, DelKeys(r), NoteRaces PROVE CounterInv'
  BY <1>23 DEF DelKeys
<1>24. ASSUME NEW r \in Requests, DelIndex(r), NoteRaces PROVE CounterInv'
  BY <1>24 DEF DelIndex, Revoked
<1>25. ASSUME NEW r \in Requests, DeleteUser(r), NoteRaces PROVE CounterInv'
  BY <1>25, MatchedFacts DEF DeleteUser, Writes
<1>26. ASSUME NEW r \in Requests, Abort(r), NoteRaces PROVE CounterInv'
  BY <1>26, MatchedFacts DEF Abort, Unlocks
<1>27. ASSUME NEW t \in Tokens, SessionExpires(t), NoteRaces PROVE CounterInv'
  BY <1>27 DEF SessionExpires
<1>28. ASSUME NEW t \in Tokens, SessionAges(t), NoteRaces PROVE CounterInv'
  BY <1>28 DEF SessionAges
<1>29. ASSUME IndexExpires, NoteRaces PROVE CounterInv'
  BY <1>29 DEF IndexExpires
<1>30. ASSUME NEW s \in Setups, SetupExpires(s), NoteRaces PROVE CounterInv'
  BY <1>30 DEF SetupExpires
<1>31. ASSUME LockoutLapses, NoteRaces PROVE CounterInv'
  BY <1>31, MatchedFacts DEF LockoutLapses, Locked
<1>32. CASE UNCHANGED vars
  BY <1>32 DEF vars, Overlaps, InUse, RevokingAll, RevokingOne
<1>33. QED
  BY <1>1, <1>2, <1>3, <1>4, <1>5, <1>6, <1>7, <1>8, <1>9, <1>10, <1>11, <1>12, <1>13, <1>14, <1>15, <1>16,
    <1>17, <1>18, <1>19, <1>20, <1>21, <1>22, <1>23, <1>24, <1>25, <1>26, <1>27, <1>28, <1>29, <1>30, <1>31,
    <1>32 DEF Next, Begin, Continue, Time

-----------------------------------------------------------------------------
(* The number of guesses.                                                  *)

\* Every update but a failure and a lapse leaves a row without failures.
LEMMA InnocentFacts ==
  ASSUME TypeOK
  PROVE  /\ Innocent(Cleared(account)) /\ Innocent(Forgotten(account)) /\ Innocent(Deleted(account))
         /\ \A r \in Requests : Innocent(Chosen(r, account)) /\ Innocent(Rehashed(r, account))
         /\ Innocent(Fresh)
<1>1. account \in Account
  BY DEF TypeOK
<1>2. Cleared(account) \in Account /\ Forgotten(account) \in Account
  BY <1>1, RowFacts
<1>3. \A b \in Account : Innocent(Cleared(b))
  BY DEF Cleared, Account, Innocent
<1>4. Innocent(Forgotten(account))
  BY <1>1, <1>2, <1>3 DEF Forgotten, Account, Innocent
<1>5. Innocent(Deleted(account))
  BY <1>2, <1>4 DEF Deleted, Account, Innocent
<1>6. \A r \in Requests : Innocent(Chosen(r, account)) /\ Innocent(Rehashed(r, account))
  BY <1>1, <1>2, <1>3 DEF Chosen, Rehashed, Account, Innocent
<1>7. Innocent(Fresh)
  BY DEF Fresh, Innocent
<1>8. QED
  BY <1>1, <1>3, <1>4, <1>5, <1>6, <1>7

\* How many requests there are, and how many of them have guessed wrong.
LEMMA CountFacts ==
  /\ IsFiniteSet(Failing)
  /\ Cardinality(Requests) \in Nat
  /\ Cardinality(Failing) \in 0..Cardinality(Requests)
<1>1. IsFiniteSet(Requests) /\ Failing \subseteq Requests
  BY RequestsFinite DEF Failing
<1>2. IsFiniteSet(Failing) /\ Cardinality(Failing) <= Cardinality(Requests)
  BY <1>1, FS_Subset
<1>3. Cardinality(Requests) \in Nat /\ Cardinality(Failing) \in Nat
  BY <1>1, <1>2, FS_CardinalityType
<1>4. QED
  BY <1>2, <1>3

LEMMA Distributes == \A n, l \in Nat : n * (l + 1) = n * l + n /\ n * l \in Nat
OBVIOUS

\* A step that only takes requests out of their failed logins keeps the bound.
LEMMA Quieter ==
  ASSUME TypeOK, GuessInv, account' = account, lapses' = lapses, Innocent(draft'), Failing' \subseteq Failing
  PROVE  GuessInv'
<1> DEFINE N == Cardinality(Requests)
<1>1. Cardinality(Failing') <= Cardinality(Failing) /\ Cardinality(Failing') \in Nat
  BY CountFacts, FS_Subset, FS_CardinalityType
<1>2. /\ account.failures \in Nat /\ N \in Nat /\ lapses \in Nat /\ Threshold \in Nat
      /\ Cardinality(Failing) \in Nat
  BY CountFacts, SessionsAssumption DEF TypeOK, Account
<1>3. N * (lapses + 1) \in Nat
  BY <1>2, Distributes
<1>4. QED
  BY <1>1, <1>2, <1>3 DEF GuessInv

\* One wrong password is counted: from no lockout or from one that has passed the
\* lockout begins, with at most N - 1 others to come.
LEMMA GuessCounted ==
  ASSUME TypeOK, CounterInv, GuessInv, NEW r \in Requests, RecordFailure(r)
  PROVE  GuessInv'
<1> DEFINE N == Cardinality(Requests)
           F == Cardinality(Failing)
<1>1. r \in Failing /\ Failing' = Failing \ {r}
  BY DEF RecordFailure, Failing, Ends, TypeOK
<1>2. Cardinality(Failing') = F - 1
  BY <1>1, CountFacts, FS_RemoveElement
<1>3. lapses' = lapses /\ draft' = draft
  BY DEF RecordFailure, bounds
<1>4. /\ account \in Account /\ account.failures \in Nat /\ lapses \in Nat /\ Threshold \in Nat
      /\ N \in Nat /\ F \in 0..N /\ N * lapses \in Nat /\ N * (lapses + 1) = N * lapses + N
  BY CountFacts, Distributes, SessionsAssumption DEF TypeOK, Account
<1>5. CASE account.user
  <2>1. account' = Failed(account)
    BY <1>5 DEF RecordFailure
  <2>2. /\ account'.failures = account.failures + 1
        /\ account'.lockout = IF account.failures + 1 >= Threshold THEN "on" ELSE account.lockout
    BY <1>4, <2>1 DEF Failed, Account
  <2>3. account.lockout # "none" => account.failures >= Threshold
    BY DEF CounterInv, Matched
  <2>4. CASE account.failures + 1 >= Threshold
    <3>1. account'.lockout = "on"
      BY <2>2, <2>4
    <3>2. account.failures + F < Threshold + N * lapses + N
      <4>1. CASE account.lockout = "none"
        BY <1>4, <4>1 DEF GuessInv
      <4>2. CASE account.lockout = "on"
        BY <1>4, <4>2 DEF GuessInv
      <4>3. CASE account.lockout = "lapsed"
        BY <1>4, <4>3 DEF GuessInv
      <4>4. QED
        BY <1>4, <4>1, <4>2, <4>3 DEF Account
    <3>3. account'.failures + Cardinality(Failing') = account.failures + F
      BY <1>2, <1>4, <2>2
    <3>4. QED
      BY <1>3, <1>4, <3>1, <3>2, <3>3 DEF GuessInv
  <2>5. CASE account.failures + 1 < Threshold
    <3>1. account.lockout = "none"
      BY <1>4, <2>3, <2>5
    <3>2. QED
      BY <1>3, <1>4, <2>2, <2>5, <3>1 DEF GuessInv
  <2>6. QED
    BY <1>4, <2>4, <2>5
<1>6. CASE ~account.user
  BY <1>1, <1>3, <1>6, Quieter DEF RecordFailure, GuessInv
<1>7. QED
  BY <1>5, <1>6

\* A login is refused while the lockout is on; otherwise it may add a wrong password.
LEMMA GuessMade ==
  ASSUME TypeOK, GuessInv, NEW r \in Requests, NEW t \in Tokens, Login(r, t)
  PROVE  GuessInv'
<1>1. account' = account /\ draft' = draft /\ lapses' = lapses
  BY DEF Login, row, bounds
<1>2. account.lockout # "on"
  BY DEF Login, Locked
<1>3. QED
  BY <1>1, <1>2 DEF GuessInv

\* A lockout that runs out leaves the count where it is.
LEMMA GuessesLapse ==
  ASSUME TypeOK, GuessInv, LockoutLapses
  PROVE  GuessInv'
<1> DEFINE N == Cardinality(Requests)
<1>1. /\ account'.failures = account.failures /\ account'.lockout = "lapsed"
      /\ account.lockout = "on" /\ lapses' = lapses + 1 /\ draft' = draft
  BY DEF LockoutLapses, Locked, TypeOK, Account
<1>2. /\ account.failures \in Nat /\ lapses \in Nat /\ Threshold \in Nat /\ N \in Nat
      /\ Cardinality(Failing) \in Nat
  BY CountFacts, SessionsAssumption DEF TypeOK, Account
<1>3. N * (lapses + 1) \in Nat
  BY <1>2, Distributes
<1>4. QED
  BY <1>1, <1>2, <1>3 DEF GuessInv

\* Every step keeps the bound on the guesses.
LEMMA GuessStep == TypeOK /\ CounterInv /\ GuessInv /\ [Next]_vars => GuessInv'
<1> SUFFICES ASSUME TypeOK, CounterInv, GuessInv, [Next]_vars PROVE GuessInv'
  OBVIOUS
<1> DEFINE Quiet == account' = account /\ lapses' = lapses /\ Innocent(draft') /\ Failing' \subseteq Failing
<1>q. Quiet => GuessInv'
  BY Quieter
<1>i. pc \in [Requests -> Labels] /\ Innocent(draft) /\ Innocent(Fresh)
  BY InnocentFacts DEF TypeOK, GuessInv
<1> USE DEF row, redis, locals, history, bounds, GotoWith, Goto, Ends, Starts, Failing
<1>1. ASSUME NEW r \in Requests, LookupForLogin(r) PROVE GuessInv'
  BY <1>1, <1>i, <1>q DEF LookupForLogin
<1>2. ASSUME NEW r \in Requests, NEW t \in Tokens, Login(r, t) PROVE GuessInv'
  BY <1>2, GuessMade
<1>3. ASSUME NEW r \in Requests, NEW s \in Setups, Offer(r, s) PROVE GuessInv'
  BY <1>3, <1>i, <1>q DEF Offer
<1>4. ASSUME NEW r \in Requests, RecordFailure(r) PROVE GuessInv'
  BY <1>4, GuessCounted
<1>5. ASSUME NEW r \in Requests, RecordSuccess(r) PROVE GuessInv'
  <2>1. account' = account /\ Innocent(draft')
    BY <1>5, <1>i, InnocentFacts DEF RecordSuccess, Writes
  <2>2. lapses' = lapses /\ Failing' \subseteq Failing
    BY <1>5, <1>i DEF RecordSuccess
  <2>3. QED
    BY <1>q, <2>1, <2>2
<1>6. ASSUME NEW r \in Requests, StoreSession(r) PROVE GuessInv'
  BY <1>6, <1>i, <1>q DEF StoreSession
<1>7. ASSUME NEW r \in Requests, IndexSession(r) PROVE GuessInv'
  BY <1>7, <1>i, <1>q DEF IndexSession
<1>8. ASSUME NEW r \in Requests, Commit(r) PROVE GuessInv'
  <2>1. lapses' = lapses /\ Innocent(draft') /\ Failing' \subseteq Failing
    BY <1>8, <1>i DEF Commit, Unlocks
  <2>2. CASE holder = r
    <3>1. account'.failures = 0 /\ account'.lockout = "none"
      BY <1>8, <1>i, <2>2 DEF Commit, Innocent
    <3>2. QED
      BY <2>1, <3>1, SessionsAssumption DEF GuessInv
  <2>3. CASE holder # r
    BY <1>8, <1>q, <2>1, <2>3 DEF Commit
  <2>4. QED
    BY <2>2, <2>3
<1>9. ASSUME NEW r \in Requests, NEW s \in Setups, NEW t \in Tokens, SetupGet(r, s, t) PROVE GuessInv'
  BY <1>9, <1>i, <1>q DEF SetupGet
<1>10. ASSUME NEW r \in Requests, SetupUser(r) PROVE GuessInv'
  BY <1>10, <1>i, <1>q DEF SetupUser
<1>11. ASSUME NEW r \in Requests, ChoosePassword(r) PROVE GuessInv'
  <2>1. account' = account /\ Innocent(draft')
    BY <1>11, <1>i, InnocentFacts DEF ChoosePassword, Writes
  <2>2. lapses' = lapses /\ Failing' \subseteq Failing
    BY <1>11, <1>i DEF ChoosePassword
  <2>3. QED
    BY <1>q, <2>1, <2>2
<1>12. ASSUME NEW r \in Requests, SetupRevoke(r) PROVE GuessInv'
  BY <1>12, <1>i, <1>q DEF SetupRevoke
<1>13. ASSUME NEW r \in Requests, NEW t \in Tokens, OpenPage(r, t) PROVE GuessInv'
  BY <1>13, <1>i, <1>q DEF OpenPage
<1>14. ASSUME NEW r \in Requests, Touch(r) PROVE GuessInv'
  BY <1>14, <1>i, <1>q DEF Touch
<1>15. ASSUME NEW r \in Requests, CurrentUser(r) PROVE GuessInv'
  BY <1>15, <1>i, <1>q DEF CurrentUser
<1>16. ASSUME NEW r \in Requests, Logout(r) PROVE GuessInv'
  BY <1>16, <1>i, <1>q DEF Logout
<1>17. ASSUME NEW r \in Requests, RevokeGet(r) PROVE GuessInv'
  BY <1>17, <1>i, <1>q DEF RevokeGet
<1>18. ASSUME NEW r \in Requests, RevokeDel(r) PROVE GuessInv'
  BY <1>18, <1>i, <1>q DEF RevokeDel
<1>19. ASSUME NEW r \in Requests, RevokeSrem(r) PROVE GuessInv'
  BY <1>19, <1>i, <1>q DEF RevokeSrem
<1>20. ASSUME NEW r \in Requests, Reset(r) PROVE GuessInv'
  BY <1>20, <1>i, <1>q DEF Reset
<1>21. ASSUME NEW r \in Requests, ResetPassword(r) PROVE GuessInv'
  <2>1. account' = account /\ Innocent(draft')
    BY <1>21, <1>i, InnocentFacts DEF ResetPassword, Writes
  <2>2. lapses' = lapses /\ Failing' \subseteq Failing
    BY <1>21, <1>i DEF ResetPassword
  <2>3. QED
    BY <1>q, <2>1, <2>2
<1>22. ASSUME NEW r \in Requests, Smembers(r) PROVE GuessInv'
  BY <1>22, <1>i, <1>q DEF Smembers, Revoked
<1>23. ASSUME NEW r \in Requests, DelKeys(r) PROVE GuessInv'
  BY <1>23, <1>i, <1>q DEF DelKeys
<1>24. ASSUME NEW r \in Requests, DelIndex(r) PROVE GuessInv'
  BY <1>24, <1>i, <1>q DEF DelIndex, Revoked
<1>25. ASSUME NEW r \in Requests, DeleteUser(r) PROVE GuessInv'
  <2>1. account' = account /\ Innocent(draft')
    BY <1>25, <1>i, InnocentFacts DEF DeleteUser, Writes
  <2>2. lapses' = lapses /\ Failing' \subseteq Failing
    BY <1>25, <1>i DEF DeleteUser
  <2>3. QED
    BY <1>q, <2>1, <2>2
<1>26. ASSUME NEW r \in Requests, Abort(r) PROVE GuessInv'
  BY <1>26, <1>i, <1>q DEF Abort, Unlocks
<1>27. ASSUME NEW t \in Tokens, SessionExpires(t) PROVE GuessInv'
  BY <1>27, <1>i, <1>q DEF SessionExpires
<1>28. ASSUME NEW t \in Tokens, SessionAges(t) PROVE GuessInv'
  BY <1>28, <1>i, <1>q DEF SessionAges
<1>29. ASSUME IndexExpires PROVE GuessInv'
  BY <1>29, <1>i, <1>q DEF IndexExpires
<1>30. ASSUME NEW s \in Setups, SetupExpires(s) PROVE GuessInv'
  BY <1>30, <1>i, <1>q DEF SetupExpires
<1>31. ASSUME LockoutLapses PROVE GuessInv'
  BY <1>31, GuessesLapse
<1>32. CASE UNCHANGED vars
  BY <1>32, <1>i, <1>q DEF vars
<1>33. QED
  BY <1>1, <1>2, <1>3, <1>4, <1>5, <1>6, <1>7, <1>8, <1>9, <1>10, <1>11, <1>12, <1>13, <1>14, <1>15, <1>16,
    <1>17, <1>18, <1>19, <1>20, <1>21, <1>22, <1>23, <1>24, <1>25, <1>26, <1>27, <1>28, <1>29, <1>30, <1>31,
    <1>32 DEF Next, Begin, Continue, Time

-----------------------------------------------------------------------------
(* The theorems.                                                           *)

LEMMA InitAll == Init => Noted /\ EraInv /\ LockInv /\ PasswordInv /\ CounterInv /\ GuessInv
<1> SUFFICES ASSUME Init PROVE Noted /\ EraInv /\ LockInv /\ PasswordInv /\ CounterInv /\ GuessInv
  OBVIOUS
<1>1. account.user /\ Matched(account) /\ Sticks(account)
  <2>1. CASE account = Fresh
    BY <2>1, SessionsAssumption DEF Fresh, Matched, Sticks
  <2>2. CASE account = [Fresh EXCEPT !.password = Secret(0, NoToken)]
    <3>1. account.failures = 0 /\ account.lockout = "none" /\ account.user /\ account.password.era = 0
      BY <2>2 DEF Fresh, Secret
    <3>2. QED
      BY <3>1, SessionsAssumption DEF Init, Matched, Sticks
  <2>3. QED
    BY <2>1, <2>2 DEF Init
<1>2. Noted
  BY DEF Init, Noted, Overlaps, InUse
<1>3. EraInv
  BY DEF Init, EraInv, SigningIn, Usable
<1>4. LockInv /\ PasswordInv /\ CounterInv
  BY <1>1, SessionsAssumption DEF Init, LockInv, PasswordInv, CounterInv, RevokingAll
<1>5. GuessInv
  <2>1. Innocent(Fresh) /\ Innocent([Fresh EXCEPT !.password = Secret(0, NoToken)])
    BY DEF Fresh, Innocent
  <2>2. Innocent(account) /\ Innocent(draft)
    BY <2>1 DEF Init
  <2>3. QED
    BY <2>2, SessionsAssumption DEF GuessInv, Innocent
<1>6. QED
  BY <1>2, <1>3, <1>4, <1>5

\* Every reachable state satisfies the strengthened invariant.
IInv == TypeOK /\ Shape /\ Noted /\ EraInv /\ LockInv /\ PasswordInv /\ CounterInv /\ GuessInv

LEMMA NotedStep == Noted /\ [Next]_vars => Noted'
<1>1. ASSUME Noted, Next PROVE Noted'
  BY <1>1, NotedNext DEF Next
<1>2. ASSUME Noted, UNCHANGED vars PROVE Noted'
  BY <1>2 DEF vars, row, redis, locals, history, bounds, Noted, Overlaps, InUse, RevokingAll, RevokingOne
<1>3. QED
  BY <1>1, <1>2

\* The invariant of every behaviour, from which the theorems below follow.
THEOREM Invariance == Spec => []IInv
<1>1. Init => IInv
  BY InitTypes, InitAll DEF IInv
<1>2. IInv /\ [Next]_vars => IInv'
  BY TypeStep, ShapeStep, NotedStep, EraStep, LockStep, PasswordStep, CounterStep, GuessStep DEF IInv
<1>3. QED
  BY <1>1, <1>2, PTL DEF Spec

\* Redis, the row and every request keep values of their types.
THEOREM TypeCorrect == Spec => []TypeOK
<1>1. IInv => TypeOK
  BY DEF IInv
<1>2. QED
  BY <1>1, Invariance, PTL

\* A session survives a logout, a reset (AdminService.reset_password) or a deletion only by a race.
THEOREM RevocationsStay == Spec => []RevocationsHold
<1>1. IInv => RevocationsHold
  BY DEF IInv, EraInv, RevocationsHold, Unspoilt
<1>2. QED
  BY <1>1, Invariance, PTL

\* revoke_all_for_user finds every session that no race brought back.
THEOREM SessionsFound == Spec => []SessionsIndexed
<1>1. IInv => SessionsIndexed
  BY DEF IInv, EraInv, SessionsIndexed
<1>2. QED
  BY <1>1, Invariance, PTL

\* A reset ends the old password, except for a login that rehashes it meanwhile.
THEOREM ResetsStick == Spec => []ResetSticks
<1>1. IInv => ResetSticks
  BY DEF IInv, PasswordInv, Sticks, ResetSticks
<1>2. QED
  BY <1>1, Invariance, PTL

\* AuthService.login refuses while the account is locked, so that no more wrong passwords are counted than the
\* threshold, those verified before the lockout began, and as many again for every lockout that ran out.
THEOREM GuessesAreBounded == Spec => []GuessesBounded
<1>1. IInv => GuessesBounded
  <2> SUFFICES ASSUME IInv PROVE GuessesBounded
    OBVIOUS
  <2> DEFINE N == Cardinality(Requests)
  <2>1. /\ account.failures \in Nat /\ account.lockout \in {"none", "on", "lapsed"} /\ lapses \in Nat
        /\ Threshold \in Nat /\ N \in Nat /\ Cardinality(Failing) \in Nat
    BY CountFacts, SessionsAssumption DEF IInv, TypeOK, Account
  <2>2. N * lapses \in Nat /\ N * (lapses + 1) = N * lapses + N
    BY <2>1, Distributes
  <2>3. QED
    BY <2>1, <2>2 DEF IInv, GuessInv, GuessesBounded
<1>2. QED
  BY <1>1, Invariance, PTL
=============================================================================
