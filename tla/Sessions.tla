---- MODULE Sessions ----
(***************************************************************************)
(* Sign-in and sessions of one account: its row in `users`, and in Redis   *)
(* its sessions (`session:{token}`), the set of their tokens               *)
(* (`user_sessions:{id}`) and its set-up sessions.  Accounts share nothing *)
(* of this, so one stands for all.  A step is one Redis command (the DELs  *)
(* of one pipeline together) or one SQL statement; between two of them any *)
(* other request may step.  A commit makes the row's new values visible.   *)
(***************************************************************************)
EXTENDS Naturals, FiniteSets

CONSTANTS Requests,   \* requests under way (slots that are used again)
          Tokens,     \* session tokens; secrets.token_urlsafe never repeats one
          Setups,     \* set-up tokens
          NoOne,      \* no request
          NoToken,    \* no session token
          NoPassword, \* password_hash IS NULL and password_reset_required
          Threshold,  \* LOGIN_FAILURE_THRESHOLD
          MaxResets,  \* bound: password resets and deletions of the account
          MaxLapses,  \* bound: lockouts that run out
          MaxFaults   \* bound: requests that die half-way

(* A password, as the history tells them apart: when it was chosen, and    *)
(* the token of the request that put it in force.                          *)
Password == [era : Nat, by : Tokens \cup {NoToken}]

ASSUME SessionsAssumption ==
  /\ NoOne \notin Requests
  /\ NoToken \notin Tokens
  /\ NoPassword \notin Password
  /\ Threshold \in Nat \ {0}
  /\ {MaxResets, MaxLapses, MaxFaults} \subseteq Nat

(* A process serves finitely many requests at a time.                      *)
ASSUME RequestsFinite == IsFiniteSet(Requests)

VARIABLES
  account, \* the committed row of `users`
  holder,  \* the request whose transaction has locked the row
  draft,   \* the row as that transaction leaves it
  keys,    \* tokens with a key session:{token}
  index,   \* members of user_sessions:{id}
  setups,  \* tokens with a key setup_session:{token}
  past,    \* tokens older than SESSION_ABSOLUTE_TTL_SECONDS
  given,   \* tokens whose cookie was sent to a browser
  pc,      \* where each request is
  kind,    \* what it is
  tok,     \* the session token it works with
  seen,    \* the password it has read from the row, verified or not
  batch,   \* what SMEMBERS returned to it
  resets,  \* history: committed resets and deletions
  era,     \* history: their number when the request that made a token began
  revoked, \* history: tokens whose key a revocation has deleted
  raced,   \* history: tokens in use by a request while another one revoked them
  lapses, faults

row     == <<account, holder, draft>>
redis   == <<keys, index, setups, past>>
locals  == <<pc, kind, tok, seen, batch>>
history  == <<resets, era, revoked>>
bounds  == <<lapses, faults>>
vars    == <<row, redis, given, locals, history, raced, bounds>>

(* `lockout`: lockout_until is NULL, in the future, or has passed.         *)
Account == [user : BOOLEAN, password : Password \cup {NoPassword},
            failures : Nat, lockout : {"none", "on", "lapsed"}]

Labels == {"idle", "failed", "verified", "offer", "setup", "choose", "spend", "store", "index",
           "commit", "touch", "page", "revoke", "del", "srem", "reset", "smembers", "delkeys",
           "delindex", "delete"}
Kinds == {"login", "set-password", "page", "reset", "delete"}

(* AdminService.create_user leaves an account that must choose a password; *)
(* the other initial state has chosen one.                                 *)
Fresh == [user |-> TRUE, password |-> NoPassword, failures |-> 0, lockout |-> "none"]
Secret(e, t) == [era |-> e, by |-> t]

Init ==
  /\ account \in {Fresh, [Fresh EXCEPT !.password = Secret(0, NoToken)]}
  /\ draft = Fresh /\ holder = NoOne
  /\ keys = {} /\ index = {} /\ setups = {} /\ past = {} /\ given = {}
  /\ pc = [r \in Requests |-> "idle"]
  /\ kind = [r \in Requests |-> "page"]
  /\ tok = [r \in Requests |-> NoToken]
  /\ seen = [r \in Requests |-> NoPassword]
  /\ batch = [r \in Requests |-> {}]
  /\ resets = 0 /\ era = [t \in Tokens |-> 0] /\ revoked = {} /\ raced = {}
  /\ lapses = 0 /\ faults = 0

----------------------------------------------------------------------------
(* Who revokes, and what is in use meanwhile.                              *)

RevokingAll(r) == pc[r] # "idle" /\ kind[r] \in {"reset", "delete"}
RevokingOne(r) == pc[r] \in {"revoke", "del", "srem"}

InUse(t) ==
  \E r, q \in Requests : /\ r # q /\ pc[r] # "idle" /\ tok[r] = t
                         /\ \/ RevokingAll(q)
                            \/ RevokingOne(q) /\ tok[q] = t
Overlaps == {t \in Tokens : InUse(t)}
NoteRaces == raced' = raced \cup Overlaps'

(* A step of request r to the label l, with b for its batch; or its end.   *)
GotoWith(r, l, b) ==
  /\ pc' = [pc EXCEPT ![r] = l]
  /\ batch' = [batch EXCEPT ![r] = b]
  /\ UNCHANGED <<kind, tok, seen>>
Goto(r, l) == GotoWith(r, l, batch[r])
Ends(r) ==
  /\ pc' = [pc EXCEPT ![r] = "idle"]
  /\ kind' = [kind EXCEPT ![r] = "page"]
  /\ tok' = [tok EXCEPT ![r] = NoToken]
  /\ seen' = [seen EXCEPT ![r] = NoPassword]
  /\ batch' = [batch EXCEPT ![r] = {}]

(* A token the request will use: the code draws it in SessionStore.create, *)
(* here it is reserved when the request begins.                            *)
Reserved == {tok[r] : r \in Requests} \cup keys \cup index \cup given \cup revoked \cup raced
Starts(r, k, t, l, p, b) ==
  /\ pc[r] = "idle"
  /\ pc' = [pc EXCEPT ![r] = l]
  /\ kind' = [kind EXCEPT ![r] = k]
  /\ tok' = [tok EXCEPT ![r] = t]
  /\ seen' = [seen EXCEPT ![r] = p]
  /\ batch' = [batch EXCEPT ![r] = b]

(* An UPDATE or DELETE of the row: it waits for the row's lock and hits    *)
(* nothing when the row is gone.                                           *)
Writes(r, new) ==
  IF account.user
  THEN /\ holder = NoOne /\ holder' = r
       /\ draft' = new /\ UNCHANGED account
  ELSE UNCHANGED row

Unlocks(r) ==
  IF holder = r THEN holder' = NoOne /\ draft' = Fresh ELSE UNCHANGED <<holder, draft>>

----------------------------------------------------------------------------
(* AuthService.lookup_for_login, the first step (POST /login): an account  *)
(* without a password is offered a set-up session, whatever its lockout.   *)
LookupForLogin(r) ==
  /\ account.user /\ account.password = NoPassword
  /\ Starts(r, "login", NoToken, "offer", NoPassword, {})
  /\ UNCHANGED <<row, redis, given, history, bounds>>

(* The second step, AuthService.login (POST /login/password), up to its    *)
(* first write: one SELECT; the lockout is checked and the password        *)
(* verified on what it returned, without an await.                         *)

\* Mutant: the lockout is never looked at.
LockedNever == FALSE

Locked == account.lockout = "on"

Login(r, t) ==
  /\ account.user /\ ~Locked
  /\ \/ /\ account.password = NoPassword
        /\ Starts(r, "login", NoToken, "offer", NoPassword, {}) /\ UNCHANGED era
     \/ /\ account.password # NoPassword /\ t \notin Reserved
        /\ \E l \in {"failed", "verified"} : Starts(r, "login", t, l, account.password, {})
        /\ era' = [era EXCEPT ![t] = resets]
  /\ UNCHANGED <<row, redis, given, resets, revoked, bounds>>

(* SetupSessionStore.create, by the first or the second step of the login. *)
Offer(r, s) ==
  /\ pc[r] = "offer" /\ s \notin setups \cup UNION {batch[q] : q \in Requests}
  /\ setups' = setups \cup {s}
  /\ Ends(r)
  /\ UNCHANGED <<row, keys, index, past, given, history, bounds>>

(* record_login_failure: one UPDATE on the row's latest values, committed  *)
(* with the request; no row, no result and an error.                       *)
Failed(a) ==
  [a EXCEPT !.failures = @ + 1, !.lockout = IF a.failures + 1 >= Threshold THEN "on" ELSE @]

RecordFailure(r) ==
  /\ pc[r] = "failed" /\ holder = NoOne
  /\ account' = IF account.user THEN Failed(account) ELSE account
  /\ Ends(r)
  /\ UNCHANGED <<holder, draft, redis, given, history, bounds>>

(* record_login_success; before it, when argon2's parameters have changed, *)
(* set_password_hash with the password that was verified.                  *)
Cleared(a) == [a EXCEPT !.failures = 0, !.lockout = "none"]

Rehashed(r, a) ==
  [Cleared(a) EXCEPT !.password = IF tok[r] \in raced THEN Secret(seen[r].era, tok[r]) ELSE seen[r]]

RecordSuccess(r) ==
  /\ pc[r] = "verified"
  /\ Writes(r, Cleared(account)) \/ Writes(r, Rehashed(r, account))
  /\ Goto(r, "store")
  /\ UNCHANGED <<redis, given, history, bounds>>

(* SessionStore.create: SET, then SADD and EXPIRE in the same pipeline.    *)
StoreSession(r) ==
  /\ pc[r] = "store"
  /\ keys' = keys \cup {tok[r]}
  /\ Goto(r, "index")
  /\ UNCHANGED <<row, index, setups, past, given, history, bounds>>

\* Mutant: the token is not added to the set of its user.
IndexNothing(r) ==
  /\ pc[r] = "index"
  /\ Goto(r, "commit")
  /\ UNCHANGED <<row, redis, given, history, bounds>>

IndexSession(r) ==
  /\ pc[r] = "index"
  /\ index' = index \cup {tok[r]}
  /\ Goto(r, "commit")
  /\ UNCHANGED <<row, keys, setups, past, given, history, bounds>>

(* The end of `async with db.begin()`; a login then sends its cookies.     *)
\* Mutant: a reset is answered like a sign-in.
CommitGiving(r) ==
  /\ pc[r] = "commit"
  /\ account' = IF holder = r THEN draft ELSE account
  /\ Unlocks(r)
  /\ given' = given \cup {tok[r]}
  /\ resets' = IF RevokingAll(r) THEN resets + 1 ELSE resets
  /\ Ends(r)
  /\ UNCHANGED <<redis, era, revoked, bounds>>

Commit(r) ==
  /\ pc[r] = "commit"
  /\ account' = IF holder = r THEN draft ELSE account
  /\ Unlocks(r)
  /\ given' = IF tok[r] # NoToken THEN given \cup {tok[r]} ELSE given
  /\ resets' = IF RevokingAll(r) THEN resets + 1 ELSE resets
  /\ Ends(r)
  /\ UNCHANGED <<redis, era, revoked, bounds>>

----------------------------------------------------------------------------
(* AuthService.complete_set_password.                                      *)

SetupGet(r, s, t) ==
  /\ t \notin Reserved
  /\ s \in setups
  /\ Starts(r, "set-password", t, "setup", NoPassword, {s})
  /\ era' = [era EXCEPT ![t] = resets]
  /\ UNCHANGED <<row, redis, given, resets, revoked, bounds>>

SetupUser(r) ==
  /\ pc[r] = "setup"
  /\ IF account.user THEN Goto(r, "choose") ELSE Ends(r)
  /\ UNCHANGED <<row, redis, given, history, bounds>>

(* set_password_hash; the record_login_success that follows adds nothing.  *)
Chosen(r, a) == [Cleared(a) EXCEPT !.password = Secret(resets, tok[r])]

ChoosePassword(r) ==
  /\ pc[r] = "choose"
  /\ Writes(r, Chosen(r, account))
  /\ Goto(r, "spend")
  /\ UNCHANGED <<redis, given, history, bounds>>

SetupRevoke(r) ==
  /\ pc[r] = "spend"
  /\ setups' = setups \ batch[r]
  /\ GotoWith(r, "store", {})
  /\ UNCHANGED <<row, keys, index, past, given, history, bounds>>

----------------------------------------------------------------------------
(* SessionMiddleware, current_user and logout: a page asked for with a     *)
(* session cookie.                                                         *)

(* SessionStore.get of a session past its absolute lifetime calls revoke,  *)
(* which calls get again, until the key expires or the recursion limit     *)
(* raises: neither changes anything, and the request gets no session.      *)
Get(t) == t \in keys /\ t \notin past

OpenPage(r, t) ==
  /\ t \in given /\ Get(t)
  /\ Starts(r, "page", t, "touch", NoPassword, {})
  /\ UNCHANGED <<row, redis, given, history, bounds>>

Touch(r) ==
  /\ pc[r] = "touch"
  /\ \/ tok[r] \notin past /\ keys' = keys \cup {tok[r]} /\ Goto(r, "page")
     \/ tok[r] \in past /\ UNCHANGED keys /\ (Goto(r, "page") \/ Ends(r))
  /\ UNCHANGED <<row, index, setups, past, given, history, bounds>>

(* current_user reads the row afresh: the page is served, or its user is   *)
(* gone and the session is revoked.                                        *)
CurrentUser(r) ==
  /\ pc[r] = "page"
  /\ IF account.user THEN Ends(r) ELSE Goto(r, "revoke")
  /\ UNCHANGED <<row, redis, given, history, bounds>>

(* POST /logout trusts the session and does not read the row.              *)
Logout(r) ==
  /\ pc[r] = "page"
  /\ Goto(r, "revoke")
  /\ UNCHANGED <<row, redis, given, history, bounds>>

(* SessionStore.revoke: GET, DEL, and SREM when GET found the session.     *)
RevokeGet(r) ==
  /\ pc[r] = "revoke"
  /\ IF tok[r] \in keys \cap past
     THEN Ends(r)
     ELSE GotoWith(r, "del", keys \cap {tok[r]})
  /\ UNCHANGED <<row, redis, given, history, bounds>>

RevokeDel(r) ==
  /\ pc[r] = "del"
  /\ keys' = keys \ {tok[r]}
  /\ revoked' = revoked \cup {tok[r]}
  /\ IF batch[r] = {} THEN Ends(r) ELSE Goto(r, "srem")
  /\ UNCHANGED <<row, index, setups, past, given, resets, era, bounds>>

RevokeSrem(r) ==
  /\ pc[r] = "srem"
  /\ index' = index \ batch[r]
  /\ Ends(r)
  /\ UNCHANGED <<row, keys, setups, past, given, history, bounds>>

----------------------------------------------------------------------------
(* AdminService.reset_password and delete_user: the reset writes the row   *)
(* and then revokes, the deletion revokes and then deletes the row.        *)

Reset(r) ==
  /\ resets + Cardinality({q \in Requests : RevokingAll(q)}) < MaxResets
  /\ account.user
  /\ \/ Starts(r, "reset", NoToken, "reset", NoPassword, {})
     \/ Starts(r, "delete", NoToken, "smembers", NoPassword, {})
  /\ UNCHANGED <<row, redis, given, history, bounds>>

\* Mutant: the flag is set, the hash stays.
ForgottenHash(a) == Cleared(a)

Forgotten(a) == [Cleared(a) EXCEPT !.password = NoPassword]

ResetPassword(r) ==
  /\ pc[r] = "reset"
  /\ Writes(r, Forgotten(account))
  /\ Goto(r, "smembers")
  /\ UNCHANGED <<redis, given, history, bounds>>

(* SessionStore.revoke_all_for_user: SMEMBERS; nothing else when it is     *)
(* empty; the DELs of the sessions; the DEL of the set.                    *)
Revoked(r) == IF kind[r] = "delete" THEN "delete" ELSE "commit"

Smembers(r) ==
  /\ pc[r] = "smembers"
  /\ GotoWith(r, IF index = {} THEN Revoked(r) ELSE "delkeys", index)
  /\ UNCHANGED <<row, redis, given, history, bounds>>

\* Mutant: only the set of tokens is deleted.
DelNoKeys(r) ==
  /\ pc[r] = "delkeys"
  /\ Goto(r, "delindex")
  /\ UNCHANGED <<row, redis, given, history, bounds>>

DelKeys(r) ==
  /\ pc[r] = "delkeys"
  /\ keys' = keys \ batch[r]
  /\ revoked' = revoked \cup batch[r]
  /\ Goto(r, "delindex")
  /\ UNCHANGED <<row, index, setups, past, given, resets, era, bounds>>

DelIndex(r) ==
  /\ pc[r] = "delindex"
  /\ index' = {}
  /\ GotoWith(r, Revoked(r), {})
  /\ UNCHANGED <<row, keys, setups, past, given, history, bounds>>

Deleted(a) == [Forgotten(a) EXCEPT !.user = FALSE]

DeleteUser(r) ==
  /\ pc[r] = "delete"
  /\ Writes(r, Deleted(account))
  /\ Goto(r, "commit")
  /\ UNCHANGED <<redis, given, history, bounds>>

----------------------------------------------------------------------------
(* Time, and requests that die.                                            *)

(* A key's TTL is the sliding one, cut off at the absolute lifetime; so is *)
(* that of the set, which every create prolongs.                           *)
SessionExpires(t) ==
  /\ t \in keys /\ keys' = keys \ {t}
  /\ UNCHANGED <<row, index, setups, past, given, locals, history, bounds>>

SessionAges(t) ==
  /\ t \in (given \ past) \cap (keys \cup index \cup {tok[r] : r \in Requests})
  /\ past' = past \cup {t}
  /\ UNCHANGED <<row, keys, index, setups, given, locals, history, bounds>>

IndexExpires ==
  /\ index # {} /\ index \subseteq past /\ index' = {}
  /\ UNCHANGED <<row, keys, setups, past, given, locals, history, bounds>>

SetupExpires(s) ==
  /\ s \in setups /\ setups' = setups \ {s}
  /\ UNCHANGED <<row, keys, index, past, given, locals, history, bounds>>

LockoutLapses ==
  /\ Locked /\ lapses < MaxLapses
  /\ account' = [account EXCEPT !.lockout = "lapsed"]
  /\ lapses' = lapses + 1
  /\ UNCHANGED <<holder, draft, redis, given, locals, history, faults>>

(* An exception, or the end of the process: the transaction is rolled      *)
(* back, what Redis was told stays.                                        *)
Abort(r) ==
  /\ pc[r] # "idle" /\ faults < MaxFaults
  /\ faults' = faults + 1
  /\ Unlocks(r)
  /\ Ends(r)
  /\ UNCHANGED <<account, redis, given, history, lapses>>

----------------------------------------------------------------------------
Begin(r) ==
  \/ \E t \in Tokens : \/ Login(r, t)
                       \/ OpenPage(r, t)
                       \/ \E s \in Setups : SetupGet(r, s, t)
  \/ LookupForLogin(r) \/ Reset(r)

Continue(r) ==
  \/ \E s \in Setups : Offer(r, s)
  \/ RecordFailure(r) \/ RecordSuccess(r) \/ StoreSession(r) \/ IndexSession(r) \/ Commit(r)
  \/ SetupUser(r) \/ ChoosePassword(r) \/ SetupRevoke(r)
  \/ Touch(r) \/ CurrentUser(r) \/ Logout(r) \/ RevokeGet(r) \/ RevokeDel(r) \/ RevokeSrem(r)
  \/ ResetPassword(r) \/ Smembers(r) \/ DelKeys(r) \/ DelIndex(r) \/ DeleteUser(r)

Time ==
  \/ \E t \in Tokens : SessionExpires(t) \/ SessionAges(t)
  \/ \E s \in Setups : SetupExpires(s)
  \/ IndexExpires \/ LockoutLapses

Next ==
  /\ \/ \E r \in Requests : Begin(r) \/ Continue(r) \/ Abort(r)
     \/ Time
  /\ NoteRaces

Spec == Init /\ [][Next]_vars

----------------------------------------------------------------------------
(***************************************************************************)
(* What holds.                                                             *)
(***************************************************************************)

(* Types: what each request carries, the row as others see it and as the   *)
(* open transaction has it, the keys of Redis.                             *)
TypeOK ==
  /\ account \in Account /\ draft \in Account /\ holder \in Requests \cup {NoOne}
  /\ keys \subseteq Tokens /\ index \subseteq Tokens /\ setups \subseteq Setups
  /\ past \subseteq Tokens /\ given \subseteq Tokens
  /\ pc \in [Requests -> Labels] /\ kind \in [Requests -> Kinds]
  /\ tok \in [Requests -> Tokens \cup {NoToken}]
  /\ seen \in [Requests -> Password \cup {NoPassword}]
  /\ batch \in [Requests -> SUBSET (Tokens \cup Setups)]
  /\ resets \in Nat /\ era \in [Tokens -> Nat]
  /\ revoked \subseteq Tokens /\ raced \subseteq Tokens
  /\ lapses \in 0..MaxLapses /\ faults \in 0..MaxFaults

(* Sessions a browser could use.                                           *)
Usable == (keys \cap given) \ past

(* A session survives a logout, a password reset or the deletion of its    *)
(* user only if a request was using it, or was creating it, while it was   *)
(* being revoked (docs/08-security.md section 2).                          *)
RevocationsHold ==
  \A t \in Usable \ raced : t \notin revoked /\ era[t] = resets

(* The next revoke_all_for_user finds every session, with the same         *)
(* exception: one that a race brought back is in no set any more.          *)
SessionsIndexed == Usable \subseteq index \cup raced

(* After a reset the old password is gone: what is set was chosen later,   *)
(* unless a login that rehashes it overlapped the reset.                   *)
ResetSticks ==
  account.password # NoPassword /\ account.password.by \notin raced => account.password.era = resets

(* Until the next success no more wrong passwords are counted than the     *)
(* threshold, those already past the check when the lockout began, and     *)
(* as many again for each lockout that ran out (the counter is not reset). *)
GuessesBounded ==
  account.failures < Threshold + Cardinality(Requests) * (lapses + 1)

(* docs/08-security.md:117: an administrator's reset revokes all sessions; *)
(* when nothing is under way, none from before it is left.                 *)
ResetEndsSessions ==
  account.user /\ (\A r \in Requests : pc[r] = "idle") => \A t \in Usable : era[t] = resets

(* docs/08-security.md:46: a lockout that runs out resets the counter, so  *)
(* that the next lockout takes a whole threshold of wrong passwords again. *)
LapseResetsCounter ==
  [][account.lockout = "lapsed" /\ account'.lockout = "on" => account'.failures = Threshold]_vars
====
