---- MODULE SignOn ----
(***************************************************************************)
(* Signing on from Telegram: the rows of `telegram_links`, the one-shot    *)
(* tokens of a link to come, the sign-in of the Mini App                   *)
(* (POST /api/telegram/auth), the password form that links on the way, the *)
(* logout that must stick (ADR-0011), resets that unlink, and Telegram's   *)
(* 403, which kills a link.                                                *)
(* A chat is a Telegram account together with the WebView of its Mini App: *)
(* one set of cookies, one page, one form and one fetch under way.         *)
(***************************************************************************)
EXTENDS Naturals, FiniteSets

CONSTANTS Chats, Users, Nobody,
          Opened,              \* chats whose Mini App is opened at all
          Blockers,            \* bound: chats that may block the bot
          Sessions, NoSession, \* tokens of `session:{token}`, used again when nobody holds them
          Tokens, NoToken,     \* tokens of `tg_pending:{token}`, likewise
          MaxLinks,            \* TG_MAX_LINKS_PER_USER
          MaxBusy,             \* bound: requests under way
          MaxResets,           \* bound: resets and deletions of users
          MaxBlocks            \* bound: times a chat blocks the bot

ASSUME SignOnAssumption ==
  /\ IsFiniteSet(Chats) /\ Opened # {} /\ Opened \subseteq Chats /\ Blockers \subseteq Chats
  /\ Nobody \notin Users /\ NoSession \notin Sessions /\ NoToken \notin Tokens
  /\ MaxLinks \in Nat \ {0} /\ {MaxBusy, MaxResets, MaxBlocks} \subseteq Nat

Channels == Opened \X {"form", "fetch"}
Form(d) == <<d, "form">>
Fetch(d) == <<d, "fetch">>
Chat(c) == c[1]

VARIABLES
  users,     \* ids in `users`
  linked,    \* telegram_links.user_id by telegram_user_id, or Nobody
  dead,      \* rows with dead_at set
  owner,     \* Redis: the user of a session, or Nobody
  pending,   \* Redis: the chat of a pending token, by the token's device
  session,   \* cookie sms_session
  ticket,    \* cookie sms_tg_pending
  marked,    \* chats with the cookie sms_logged_out
  page,      \* the page shown
  heard,     \* chats whose page still waits for its fetch
  at,        \* where each request is
  who,       \* the user it acts for
  sess,      \* the session it carries or has opened
  tick,      \* the pending token it carries or has created
  had,       \* requests that carried sms_logged_out
  resetting, \* what an administrator is doing to a user
  resets,
  blocked,   \* chats that have blocked the bot
  sending,   \* chats to which a send has met a 403, not yet recorded
  blocks,
  proved,    \* history: <<chat, user>>, a password of the user entered there since the last reset
  spoilt,    \* history: <<chat, user>>, a request for the user overlapped a reset
  gone,      \* history: chats that have signed out and not asked to sign in again
  crossed,   \* history: chats whose logout was answered while a fetch was under way
  since,     \* history: chats that met a send with a 403 after the link was made
  stale,     \* history: chats whose link was made while a 403 was being recorded
  unchecked  \* history: chats linked last without a count: re-bound, or healed when dead

rows    == <<users, linked, dead>>
redis   == <<owner, pending>>
browser == <<session, ticket, marked, page, heard>>
locals  == <<at, who, sess, tick, had>>
admin   == <<resetting, resets>>
bot     == <<blocked, sending, blocks, since, stale>>
logouts == <<gone, crossed>>
vars    == <<rows, redis, browser, locals, admin, bot, logouts, proved, spoilt, unchecked>>

Labels == {"idle", "ready", "verify", "open", "consume", "find", "count", "insert", "upsert", "logout", "arrive",
           "user", "offer", "signed", "out", "error", "healed", "offered", "refused"}

Init ==
  /\ users = Users /\ dead = {}
  /\ linked \in {l \in [Chats -> Users \cup {Nobody}] : \A d \in Opened : l[d] = Nobody}
  /\ \A u \in Users : Cardinality({d \in Chats : linked[d] = u}) <= MaxLinks
  /\ proved = {p \in Chats \X Users : linked[p[1]] = p[2]}
  /\ owner = [s \in Sessions |-> Nobody] /\ pending = {}
  /\ session = [d \in Opened |-> NoSession] /\ ticket = [d \in Opened |-> NoToken]
  /\ marked = {} /\ page = [d \in Opened |-> "loading"] /\ heard = {}
  /\ at = [c \in Channels |-> "idle"] /\ who = [c \in Channels |-> Nobody]
  /\ sess = [c \in Channels |-> NoSession] /\ tick = [c \in Channels |-> NoToken]
  /\ had = {}
  /\ resetting = [u \in Users |-> "no"] /\ resets = 0
  /\ blocked = {} /\ sending = {} /\ blocks = 0
  /\ spoilt = {} /\ gone = {} /\ crossed = {} /\ since = {} /\ stale = {} /\ unchecked = {}

----------------------------------------------------------------------------
(* The session of a cookie, if Redis still has it.                         *)
Live(s) == s # NoSession /\ owner[s] # Nobody
LinksOf(u) == {d \in Chats : linked[d] = u /\ d \notin dead}

Busy == {c \in Channels : at[c] # "idle"}
(* A session or a pending token that no cookie and no request holds any    *)
(* more matters to nobody and is forgotten.                                *)
InHand(S, cookie, carried) == {x \in S : \/ \E d \in Opened : cookie[d] = x
                                         \/ \E c \in Channels : carried[c] = x}

Forget ==
  /\ owner' = [s \in Sessions |-> IF s \in InHand(Sessions, session', sess') THEN owner[s] ELSE Nobody]
  /\ pending' = pending \cap InHand(Tokens, ticket', tick')

(* A step of request c to label l.                                         *)
Goto(c, l) == at' = [at EXCEPT ![c] = l] /\ UNCHANGED <<who, sess, tick, had>>
Acts(c, l, u) ==
  at' = [at EXCEPT ![c] = l] /\ who' = [who EXCEPT ![c] = u] /\ UNCHANGED <<sess, tick, had>>

(* The request leaves with the cookies of its chat.                        *)
Sends(c, l, u) ==
  LET d == Chat(c) IN
  /\ at' = [at EXCEPT ![c] = l] /\ who' = [who EXCEPT ![c] = u]
  /\ sess' = [sess EXCEPT ![c] = session[d]] /\ tick' = [tick EXCEPT ![c] = ticket[d]]
  /\ had' = IF d \in marked THEN had \cup {c} ELSE had

Answered(c) ==
  /\ at' = [at EXCEPT ![c] = "idle"] /\ who' = [who EXCEPT ![c] = Nobody]
  /\ sess' = [sess EXCEPT ![c] = NoSession] /\ tick' = [tick EXCEPT ![c] = NoToken]
  /\ had' = had \ {c}

(* Who acts for a user while an administrator resets or deletes them.      *)
Overlaps == {<<Chat(c), who[c]>> : c \in {b \in Channels : who[b] \in Users /\ resetting[who[b]] # "no"}}
NoteRaces == spoilt' = spoilt \cup Overlaps'

----------------------------------------------------------------------------
(* The page and tg.js.                                                     *)

(* A page has loaded: the fetch of the page before is no longer heard, and *)
(* tg.js will post initData on its own, unless it reads sms_logged_out.    *)
Load(d) ==
  /\ page[d] = "loading"
  /\ page' = [page EXCEPT ![d] = IF Live(session[d]) THEN "app" ELSE "login"]
  /\ IF d \notin marked /\ at[Fetch(d)] = "idle"
     THEN /\ Cardinality(Busy) < MaxBusy
          /\ Goto(Fetch(d), "ready") /\ heard' = heard \cup {d}
     ELSE heard' = heard \ {d} /\ UNCHANGED locals
  /\ UNCHANGED <<rows, redis, session, ticket, marked, admin, bot, logouts, proved, unchecked>>

(* The browser attaches the cookies when it sends.                         *)
PostInitData(d) ==
  /\ at[Fetch(d)] = "ready"
  /\ IF d \in heard THEN Sends(Fetch(d), "arrive", Nobody) ELSE Answered(Fetch(d))
  /\ UNCHANGED <<rows, redis, browser, admin, bot, logouts, proved, unchecked>>

Navigate(d) ==
  /\ page[d] # "loading" /\ at[Form(d)] = "idle"
  /\ page' = [page EXCEPT ![d] = "loading"]
  /\ UNCHANGED <<rows, redis, session, ticket, marked, heard, locals, admin, bot, logouts, proved, unchecked>>

(* Somebody at the chat asks to sign in again.                             *)
AsksIn(d) == gone' = gone \ {d} /\ crossed' = crossed \ {d}

(* The button on /login: the marker goes, initData is posted.              *)
ClickSignIn(d) ==
  /\ page[d] = "login" /\ at[Form(d)] = "idle"
  /\ at[Fetch(d)] = "idle" /\ Cardinality(Busy) < MaxBusy
  /\ AsksIn(d) /\ marked' = marked \ {d}
  /\ Goto(Fetch(d), "ready") /\ heard' = heard \cup {d}
  /\ UNCHANGED <<rows, redis, session, ticket, page, admin, bot, proved, unchecked>>

----------------------------------------------------------------------------
(* The forms: the password (POST /login/password, or /set-password), and   *)
(* POST /logout.                                                           *)

SubmitPassword(d, u) ==
  /\ page[d] = "login" /\ at[Form(d)] = "idle" /\ Cardinality(Busy) < MaxBusy
  /\ AsksIn(d)
  /\ Sends(Form(d), "verify", u)
  /\ UNCHANGED <<rows, redis, browser, admin, bot, proved, unchecked>>

(* A wrong password changes nothing here (Sessions models it); the right   *)
(* one proves who sits at this chat.                                       *)
Verify(c) ==
  /\ at[c] = "verify" /\ who[c] \in users
  /\ Goto(c, "open")
  /\ proved' = proved \cup {<<Chat(c), who[c]>>}
  /\ UNCHANGED <<rows, redis, browser, admin, bot, logouts, unchecked>>

RejectPassword(c) ==
  /\ at[c] = "verify" /\ Goto(c, "error")
  /\ UNCHANGED <<rows, redis, browser, admin, bot, logouts, proved, unchecked>>

(* record_login_success waits for the row that a reset has locked;         *)
(* SessionStore.create.  The form then links if sms_tg_pending came along. *)
Open(c, s) ==
  /\ at[c] = "open" /\ resetting[who[c]] # "reset"
  /\ s \notin InHand(Sessions, session, sess)
  /\ owner' = [owner EXCEPT ![s] = who[c]]
  /\ sess' = [sess EXCEPT ![c] = s]
  /\ at' = [at EXCEPT ![c] = IF c[2] = "form" /\ tick[c] # NoToken THEN "consume" ELSE "signed"]
  /\ UNCHANGED <<rows, pending, browser, who, tick, had, admin, bot, logouts, proved, unchecked>>

SubmitLogout(d) ==
  /\ page[d] = "app" /\ at[Form(d)] = "idle" /\ Cardinality(Busy) < MaxBusy
  /\ Sends(Form(d), "logout", Nobody)
  /\ UNCHANGED <<rows, redis, browser, admin, bot, logouts, proved, unchecked>>

Logout(c) ==
  /\ at[c] = "logout"
  /\ owner' = [s \in Sessions |-> IF s = sess[c] THEN Nobody ELSE owner[s]]
  /\ Goto(c, "out")
  /\ UNCHANGED <<rows, pending, browser, admin, bot, logouts, proved, unchecked>>

----------------------------------------------------------------------------
(* POST /api/telegram/auth (telegram_auth).                                *)

(* A live session heals its link; without one, the marker refuses; then    *)
(* the link that verify_and_resolve has read decides.                      *)
\* Mutant: the server trusts tg.js with the marker.
RefusesNever(c) == FALSE

Refuses(c) == c \in had

Resolve(c) ==
  LET d == Chat(c) IN
  /\ at[c] = "arrive"
  /\ \/ Live(sess[c]) /\ Acts(c, "find", owner[sess[c]])
     \/ ~Live(sess[c]) /\ Refuses(c) /\ Goto(c, "refused")
     \/ /\ ~Live(sess[c]) /\ ~Refuses(c)
        /\ IF linked[d] # Nobody /\ d \notin dead THEN Acts(c, "user", linked[d]) ELSE Goto(c, "offer")
  /\ UNCHANGED <<rows, redis, browser, admin, bot, logouts, proved, unchecked>>

\* Mutant: the links of the user stay.
WithoutNone(u) == UNCHANGED <<linked, dead>>

Without(u) ==
  /\ linked' = [d \in Chats |-> IF linked[d] = u THEN Nobody ELSE linked[d]]
  /\ dead' = {d \in dead : linked[d] # u}

(* A link whose user has gone is revoked, and the chat gets a token.       *)
LinkedUser(c) ==
  /\ at[c] = "user"
  /\ IF who[c] \in users
     THEN Goto(c, "open") /\ UNCHANGED <<linked, dead>>
     ELSE Without(who[c]) /\ Acts(c, "offer", Nobody)
  /\ UNCHANGED <<users, redis, browser, admin, bot, logouts, proved, unchecked>>

CreatePending(c, t) ==
  /\ at[c] = "offer" /\ t \notin InHand(Tokens, ticket, tick)
  /\ pending' = pending \cup {t}
  /\ tick' = [tick EXCEPT ![c] = t] /\ at' = [at EXCEPT ![c] = "offered"]
  /\ UNCHANGED <<rows, owner, browser, who, sess, had, admin, bot, logouts, proved, unchecked>>

----------------------------------------------------------------------------
(* TelegramSSOService._link, for the form (link_pending) and the fetch     *)
(* (self_heal_link); both may re-bind.                                     *)

Done(c) == IF c[2] = "form" THEN "signed" ELSE "healed"

(* GET and DEL of the token.                                               *)
ConsumePending(c) ==
  /\ at[c] = "consume"
  /\ pending' = pending \ {tick[c]}
  /\ Goto(c, IF tick[c] \in pending THEN "find" ELSE "signed")
  /\ UNCHANGED <<rows, owner, browser, admin, bot, logouts, proved, unchecked>>

FindLink(c) ==
  LET d == Chat(c) IN
  /\ at[c] = "find"
  /\ Goto(c, IF linked[d] = Nobody THEN "count"
             ELSE IF linked[d] = who[c] /\ d \notin dead THEN Done(c) ELSE "upsert")
  /\ UNCHANGED <<rows, redis, browser, admin, bot, logouts, proved, unchecked>>

\* Mutant: the links are counted but not compared.
BelowNoCap(c) == TRUE

BelowCap(c) == Cardinality(LinksOf(who[c])) < MaxLinks

CountLinks(c) ==
  /\ at[c] = "count"
  /\ Goto(c, IF BelowCap(c) THEN "insert" ELSE Done(c))
  /\ UNCHANGED <<rows, redis, browser, admin, bot, logouts, proved, unchecked>>

(* INSERT ... ON CONFLICT DO UPDATE, committed, after the count or without *)
(* it; the foreign key refuses a user who has gone: the heal gives up, the *)
(* form answers 500.                                                       *)
Upsert(c) ==
  LET d == Chat(c) IN
  /\ at[c] \in {"insert", "upsert"}
  /\ IF who[c] \in users
     THEN /\ linked' = [linked EXCEPT ![d] = who[c]] /\ dead' = dead \ {d}
          /\ unchecked' = IF at[c] = "insert" THEN unchecked \ {d} ELSE unchecked \cup {d}
          /\ since' = since \ {d}
          /\ stale' = IF d \in sending THEN stale \cup {d} ELSE stale \ {d}
          /\ Goto(c, Done(c))
     ELSE /\ Goto(c, IF c[2] = "form" THEN "error" ELSE Done(c))
          /\ UNCHANGED <<linked, dead, unchecked, since, stale>>
  /\ UNCHANGED <<users, redis, browser, admin, blocked, sending, blocks, logouts, proved>>

----------------------------------------------------------------------------
(* The answers, with their cookies.                                        *)

FormAnswer(d) ==
  LET c == Form(d) IN
  /\ at[c] \in {"signed", "out", "error"}
  /\ session' = [session EXCEPT ![d] = IF at[c] = "signed" THEN sess[c]
                                       ELSE IF at[c] = "out" THEN NoSession ELSE @]
  /\ ticket' = [ticket EXCEPT ![d] = IF at[c] = "signed" /\ tick[c] # NoToken THEN NoToken ELSE @]
  /\ marked' = IF at[c] = "signed" THEN marked \ {d}
               ELSE IF at[c] = "out" THEN marked \cup {d} ELSE marked
  /\ gone' = IF at[c] = "out" THEN gone \cup {d} ELSE gone
  /\ crossed' = IF at[c] = "out" /\ d \in heard /\ at[Fetch(d)] # "ready"
                THEN crossed \cup {d} ELSE crossed \ {d}
  /\ page' = [page EXCEPT ![d] = "loading"]
  /\ Answered(c) /\ Forget
  /\ UNCHANGED <<rows, heard, admin, bot, proved, unchecked>>

FetchAnswer(d) ==
  LET c == Fetch(d) IN
  /\ at[c] \in {"signed", "healed", "offered", "refused"}
  /\ IF d \in heard
     THEN /\ session' = [session EXCEPT ![d] = IF at[c] = "signed" THEN sess[c] ELSE @]
          /\ ticket' = [ticket EXCEPT ![d] = IF at[c] = "offered" THEN tick[c] ELSE @]
          /\ marked' = IF at[c] = "healed" /\ c \in had THEN marked \ {d} ELSE marked
          /\ page' = [page EXCEPT ![d] = IF at[c] = "signed" /\ at[Form(d)] = "idle" THEN "loading" ELSE @]
     ELSE UNCHANGED <<session, ticket, marked, page>>
  /\ heard' = heard \ {d}
  /\ Answered(c) /\ Forget
  /\ UNCHANGED <<rows, admin, bot, logouts, proved, unchecked>>

----------------------------------------------------------------------------
(* Administrators, Telegram and time.                                      *)

\* Mutant: the sessions stay.
KilledNone(u) == owner

Killed(u) == [s \in Sessions |-> IF owner[s] = u THEN Nobody ELSE owner[s]]

(* AdminService.reset_password or delete_user: the sessions go first.      *)
RevokeSessions(u, how) ==
  /\ u \in users /\ resets < MaxResets /\ resetting[u] = "no"
  /\ resets' = resets + 1 /\ resetting' = [resetting EXCEPT ![u] = how]
  /\ owner' = Killed(u)
  /\ UNCHANGED <<rows, pending, browser, locals, bot, logouts, proved, unchecked>>

(* revoke_for_user, or the cascade, and the commit.                        *)
RevokeLinks(u) ==
  /\ resetting[u] # "no"
  /\ Without(u)
  /\ users' = IF resetting[u] = "delete" THEN users \ {u} ELSE users
  /\ proved' = {p \in proved : p[2] # u}
  /\ resetting' = [resetting EXCEPT ![u] = "no"]
  /\ UNCHANGED <<redis, browser, locals, resets, bot, logouts, unchecked>>

(* A session expires, or is revoked elsewhere (RosterSessions).            *)
SessionEnds(s) ==
  /\ owner[s] # Nobody
  /\ owner' = [owner EXCEPT ![s] = Nobody]
  /\ UNCHANGED <<rows, pending, browser, locals, admin, bot, logouts, proved, unchecked>>

PendingExpires(t) ==
  /\ t \in pending /\ pending' = pending \ {t}
  /\ UNCHANGED <<rows, owner, browser, locals, admin, bot, logouts, proved, unchecked>>

Block(d) ==
  /\ d \notin blocked /\ blocks < MaxBlocks
  /\ blocked' = blocked \cup {d} /\ blocks' = blocks + 1
  /\ UNCHANGED <<rows, redis, browser, locals, admin, sending, since, stale, logouts, proved, unchecked>>

Unblock(d) ==
  /\ d \in blocked /\ blocked' = blocked \ {d}
  /\ UNCHANGED <<rows, redis, browser, locals, admin, sending, blocks, since, stale, logouts, proved, unchecked>>

\* Mutant: every error of the Bot API counts as a 403.
RefusedAlways(d) == TRUE

Refused(d) == d \in blocked

(* deliver_sms_to_recipient: the send, and a transaction after the 403.    *)
Send(d) ==
  /\ linked[d] # Nobody /\ d \notin dead \cup sending /\ Refused(d)
  /\ sending' = sending \cup {d}
  /\ since' = IF d \in blocked THEN since \cup {d} ELSE since
  /\ UNCHANGED <<rows, redis, browser, locals, admin, blocked, blocks, stale, logouts, proved, unchecked>>

MarkDead(d) ==
  /\ d \in sending /\ sending' = sending \ {d}
  /\ dead' = IF linked[d] # Nobody THEN dead \cup {d} ELSE dead
  /\ UNCHANGED <<users, linked, redis, browser, locals, admin, blocked, blocks, since, stale, logouts, proved,
                 unchecked>>

----------------------------------------------------------------------------
Browser(d) ==
  \/ Load(d) \/ Navigate(d) \/ PostInitData(d) \/ ClickSignIn(d) \/ SubmitLogout(d)
  \/ \E u \in Users : SubmitPassword(d, u)
  \/ FormAnswer(d) \/ FetchAnswer(d)

Server(c) ==
  \/ Verify(c) \/ RejectPassword(c) \/ (\E s \in Sessions : Open(c, s)) \/ Logout(c)
  \/ Resolve(c) \/ LinkedUser(c) \/ (\E t \in Tokens : CreatePending(c, t))
  \/ ConsumePending(c) \/ FindLink(c) \/ CountLinks(c) \/ Upsert(c)

Others ==
  \/ \E u \in Users : (\E how \in {"reset", "delete"} : RevokeSessions(u, how)) \/ RevokeLinks(u)
  \/ \E s \in Sessions : SessionEnds(s)
  \/ \E t \in Tokens : PendingExpires(t)
  \/ \E d \in Blockers : Block(d) \/ Unblock(d)
  \/ \E d \in Chats : Send(d) \/ MarkDead(d)

Next ==
  /\ (\E d \in Opened : Browser(d)) \/ (\E c \in Channels : Server(c)) \/ Others
  /\ NoteRaces

Spec == Init /\ [][Next]_vars

----------------------------------------------------------------------------
(***************************************************************************)
(* What holds.                                                             *)
(***************************************************************************)

(* Types; the schema's foreign key and Redis' owners: a chat is linked to  *)
(* a user who exists, through deletions and links made meanwhile, and only *)
(* a linked chat is dead.                                                  *)
TypeOK ==
  /\ users \subseteq Users /\ linked \in [Chats -> users \cup {Nobody}]
  /\ dead \subseteq {d \in Chats : linked[d] # Nobody}
  /\ owner \in [Sessions -> Users \cup {Nobody}] /\ pending \subseteq Tokens
  /\ session \in [Opened -> Sessions \cup {NoSession}] /\ ticket \in [Opened -> Tokens \cup {NoToken}]
  /\ marked \subseteq Opened /\ heard \subseteq Opened
  /\ page \in [Opened -> {"loading", "app", "login"}]
  /\ at \in [Channels -> Labels] /\ who \in [Channels -> Users \cup {Nobody}]
  /\ sess \in [Channels -> Sessions \cup {NoSession}] /\ tick \in [Channels -> Tokens \cup {NoToken}]
  /\ had \subseteq Channels
  /\ resetting \in [Users -> {"no", "reset", "delete"}] /\ resets \in 0..MaxResets
  /\ blocked \subseteq Chats /\ sending \subseteq Chats /\ blocks \in 0..MaxBlocks
  /\ proved \subseteq Chats \X Users /\ spoilt \subseteq Chats \X Users
  /\ gone \subseteq Opened /\ crossed \subseteq Opened
  /\ since \subseteq Chats /\ stale \subseteq Chats /\ unchecked \subseteq Chats

(* A chat is linked to a user only if a password of that user was entered  *)
(* in this chat since the last reset of the user, unless a request for the *)
(* user was under way there during a reset.                                *)
LinksProven ==
  \A d \in Chats : linked[d] # Nobody => <<d, linked[d]>> \in proved \cup spoilt

(* The same of the sessions that the browser of a chat holds.              *)
SessionsProven ==
  \A d \in Opened : Live(session[d]) => <<d, owner[session[d]]>> \in proved \cup spoilt

(* A logout sticks (ADR-0011): no session comes back before the next       *)
(* explicit sign-in, unless a fetch already sent was still unanswered when *)
(* the logout's answer arrived.                                            *)
StickyLogout == \A d \in gone \ crossed : ~Live(session[d])

(* TG_MAX_LINKS_PER_USER is a soft cap: a link made after a count may come *)
(* on top of those of the other Mini Apps that counted at the same time,   *)
(* one for each, and of nothing else, however links were re-bound, killed, *)
(* healed and reset meanwhile.  Links made without a count are apart.      *)
LinksBounded ==
  \A u \in Users : Cardinality(LinksOf(u) \ unchecked) < MaxLinks + Cardinality(Opened)

(* A link is dead only if a send met a 403 of its chat after it was made,  *)
(* unless it was made while an earlier 403 was being recorded.             *)
DeadForAReason == dead \subseteq since \cup stale
====
