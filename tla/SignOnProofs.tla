---- MODULE SignOnProofs ----
(***************************************************************************)
(* The invariants of SignOn for any sets of users and tokens, any finite   *)
(* set of chats, and any number of requests, resets and refused sends.     *)
(***************************************************************************)
EXTENDS SignOn, FiniteSetTheorems, TLAPS

\* Requests that act for a user, after the password or the link that says so.
Acting == {"open", "consume", "find", "count", "insert", "upsert", "user", "signed", "healed"}
SigningIn == {"verify", "open", "consume", "find", "count", "insert", "upsert", "signed", "error"}

\* A form and a fetch have steps of their own, and a request that acts has a user.
Shape ==
  /\ \A d \in Opened : at[Form(d)] \in SigningIn \cup {"idle", "logout", "out"}
  /\ \A c \in Channels : at[c] \in Acting \cup {"verify"} => who[c] \in Users

\* Every overlap there is has been noted.
Noted == Overlaps \subseteq spoilt

\* A password of u was entered at chat d since the last reset of u, or a race is to blame.
Proven(d, u) == <<d, u>> \in proved \cup spoilt

\* Of links, requests and sessions alike; sessions opened during a reset are a race's.
ProvenInv ==
  /\ \A d \in Chats : linked[d] # Nobody => Proven(d, linked[d])
  /\ \A c \in Channels : at[c] \in Acting => Proven(Chat(c), who[c])
  /\ \A d \in Opened : Live(session[d]) =>
       /\ Proven(d, owner[session[d]])
       /\ resetting[owner[session[d]]] # "no" => <<d, owner[session[d]]>> \in spoilt
  /\ \A c \in Channels : Live(sess[c]) =>
       /\ Proven(Chat(c), owner[sess[c]])
       /\ resetting[owner[sess[c]]] # "no" => <<Chat(c), owner[sess[c]]>> \in spoilt

\* A chat that has signed out holds the marker and no session, and whatever
\* fetch its page still waits for carries the same.
StickyInv ==
  /\ \A d \in Opened : at[Form(d)] \in SigningIn => d \notin gone
  /\ \A d \in gone \ crossed :
       /\ session[d] = NoSession /\ d \in marked
       /\ d \in heard /\ at[Fetch(d)] \notin {"idle", "ready"} =>
            at[Fetch(d)] \in {"arrive", "refused"} /\ Fetch(d) \in had /\ sess[Fetch(d)] = NoSession

\* Whoever is dead, or about to be, has met a 403.
DeathInv == dead \cup sending \subseteq since \cup stale

\* The chats where u is about to be linked after a count.
Counted(u) == {Chat(c) : c \in {b \in Channels : at[b] = "insert" /\ who[b] = u}}

\* The links made after a count, and those about to be: whoever counts last has
\* seen fewer than MaxLinks, and nobody links in a Mini App that is not opened.
CapInv ==
  \A u \in Users : Cardinality((LinksOf(u) \ unchecked) \cup Counted(u)) < MaxLinks + Cardinality(Opened)

----------------------------------------------------------------------------
(* Chats and channels, sets of links.                                      *)

LEMMA ChannelFacts ==
  /\ \A d \in Opened : /\ d \in Chats /\ Form(d) \in Channels /\ Fetch(d) \in Channels
                       /\ Chat(Form(d)) = d /\ Chat(Fetch(d)) = d
                       /\ Form(d)[2] = "form" /\ Fetch(d)[2] = "fetch"
  /\ \A c \in Channels : /\ Chat(c) \in Opened /\ Chat(c) \in Chats
                         /\ c = Form(Chat(c)) \/ c = Fetch(Chat(c))
  /\ Blockers \subseteq Chats
<1>1. \A d \in Opened : /\ d \in Chats /\ Form(d) \in Channels /\ Fetch(d) \in Channels
                        /\ Chat(Form(d)) = d /\ Chat(Fetch(d)) = d
                        /\ Form(d)[2] = "form" /\ Fetch(d)[2] = "fetch"
  BY SignOnAssumption DEF Form, Fetch, Chat, Channels
<1>2. ASSUME NEW c \in Channels
      PROVE Chat(c) \in Opened /\ Chat(c) \in Chats /\ (c = Form(Chat(c)) \/ c = Fetch(Chat(c)))
  BY <1>2, SignOnAssumption DEF Form, Fetch, Chat, Channels
<1>3. QED
  BY <1>1, <1>2, SignOnAssumption

LEMMA CountFacts ==
  /\ \A u : IsFiniteSet(LinksOf(u)) /\ Cardinality(LinksOf(u)) \in Nat
  /\ \A S \in SUBSET Chats : IsFiniteSet(S) /\ Cardinality(S) \in Nat
<1>1. \A S \in SUBSET Chats : IsFiniteSet(S) /\ Cardinality(S) \in Nat
  BY SignOnAssumption, FS_Subset, FS_CardinalityType
<1>2. \A u : LinksOf(u) \in SUBSET Chats
  BY DEF LinksOf
<1>3. QED
  BY <1>1, <1>2

\* What the cap bounds: of a set of chats, no more than of a larger one.
Capped(u) == (LinksOf(u) \ unchecked) \cup Counted(u)

LEMMA CappedFacts ==
  /\ \A u : LinksOf(u) \subseteq Chats /\ Counted(u) \subseteq Opened /\ Capped(u) \subseteq Chats
  /\ IsFiniteSet(Opened) /\ Cardinality(Opened) \in Nat \ {0}
<1>1. \A u : LinksOf(u) \subseteq Chats /\ Counted(u) \subseteq Opened
  BY ChannelFacts DEF LinksOf, Counted
<1>2. \A u : Capped(u) \subseteq Chats
  BY <1>1, SignOnAssumption DEF Capped
<1>3. IsFiniteSet(Opened) /\ Cardinality(Opened) \in Nat
  BY SignOnAssumption, CountFacts
<1>4. Cardinality(Opened) # 0
  BY <1>3, SignOnAssumption, FS_EmptySet
<1>5. QED
  BY <1>1, <1>2, <1>3, <1>4

----------------------------------------------------------------------------
(* Types and shapes.                                                       *)

LEMMA NoteTypes == TypeOK /\ NoteRaces => spoilt' \subseteq Chats \X Users
BY ChannelFacts DEF TypeOK, NoteRaces, Overlaps

LEMMA InitAll == Init => TypeOK /\ Shape /\ Noted /\ ProvenInv /\ StickyInv /\ DeathInv /\ CapInv
<1> SUFFICES ASSUME Init
    PROVE TypeOK /\ Shape /\ Noted /\ ProvenInv /\ StickyInv /\ DeathInv /\ CapInv
  OBVIOUS
<1> USE SignOnAssumption, ChannelFacts DEF Init
<1>1. TypeOK
  BY DEF TypeOK, Labels
<1>2. Shape /\ Noted
  BY DEF Shape, Noted, Overlaps, Acting
<1>3. ProvenInv
  BY DEF ProvenInv, Proven, Live, Acting
<1>4. StickyInv /\ DeathInv
  BY DEF StickyInv, SigningIn, DeathInv
<1>5. CapInv
  <2> SUFFICES ASSUME NEW u \in Users PROVE Cardinality(Capped(u)) < MaxLinks + Cardinality(Opened)
    BY DEF CapInv, Capped
  <2>1. Capped(u) = {d \in Chats : linked[d] = u}
    BY DEF LinksOf, Counted, Capped
  <2>2. Cardinality(Capped(u)) <= MaxLinks /\ Capped(u) \in SUBSET Chats
    BY <2>1
  <2>3. Cardinality(Capped(u)) \in Nat
    BY <2>2, CountFacts
  <2> HIDE DEF Init
  <2>4. QED
    BY <2>2, <2>3, CappedFacts
<1>6. QED
  BY <1>1, <1>2, <1>3, <1>4, <1>5

LEMMA TypeStep == TypeOK /\ [Next]_vars => TypeOK'
<1> SUFFICES ASSUME TypeOK, [Next]_vars PROVE TypeOK'
  OBVIOUS
<1> USE SignOnAssumption, ChannelFacts, NoteTypes DEF TypeOK, Labels, rows, redis, browser, locals, admin, bot,
    logouts
<1>1. ASSUME NEW d \in Opened, Load(d), NoteRaces PROVE TypeOK'
  BY <1>1 DEF Load, Goto
<1>2. ASSUME NEW d \in Opened, Navigate(d), NoteRaces PROVE TypeOK'
  BY <1>2 DEF Navigate
<1>3. ASSUME NEW d \in Opened, PostInitData(d), NoteRaces PROVE TypeOK'
  <2>1. CASE d \in heard
    <3>1. at[Fetch(d)] = "ready" /\ Sends(Fetch(d), "arrive", Nobody) /\ UNCHANGED <<rows, redis, browser, admin,
          bot, logouts, proved, unchecked>>
      BY <1>3, <2>1 DEF PostInitData
    <3>2. QED
      BY <1>3, <3>1 DEF Sends
  <2>2. CASE d \notin heard
    <3>1. at[Fetch(d)] = "ready" /\ Answered(Fetch(d)) /\ UNCHANGED <<rows, redis, browser, admin, bot, logouts,
          proved, unchecked>>
      BY <1>3, <2>2 DEF PostInitData
    <3>2. QED
      BY <1>3, <3>1 DEF Answered
  <2>3. QED
    BY <2>1, <2>2
<1>4. ASSUME NEW d \in Opened, ClickSignIn(d), NoteRaces PROVE TypeOK'
  BY <1>4 DEF ClickSignIn, AsksIn, Goto
<1>5. ASSUME NEW d \in Opened, SubmitLogout(d), NoteRaces PROVE TypeOK'
  BY <1>5 DEF SubmitLogout, Sends
<1>6. ASSUME NEW d \in Opened, NEW u \in Users, SubmitPassword(d, u), NoteRaces PROVE TypeOK'
  BY <1>6 DEF SubmitPassword, AsksIn, Sends
<1>7. ASSUME NEW d \in Opened, FormAnswer(d), NoteRaces PROVE TypeOK'
  BY <1>7 DEF FormAnswer, Answered, Forget
<1>8. ASSUME NEW d \in Opened, FetchAnswer(d), NoteRaces PROVE TypeOK'
  <2>1. CASE d \in heard
    <3>1. /\ session'[d] \in {session[d], sess[Fetch(d)]} /\ session' = [session EXCEPT ![d] = session'[d]]
          /\ ticket'[d] \in {ticket[d], tick[Fetch(d)]} /\ ticket' = [ticket EXCEPT ![d] = ticket'[d]]
          /\ marked' \subseteq marked /\ page' \in [Opened -> {"loading", "app", "login"}]
          /\ UNCHANGED <<rows, admin, bot, logouts, proved, unchecked>>
      BY <1>8, <2>1 DEF FetchAnswer
    <3>2. Answered(Fetch(d)) /\ Forget /\ heard' = heard \ {d}
      BY <1>8 DEF FetchAnswer
    <3>3. session'[d] \in Sessions \cup {NoSession} /\ ticket'[d] \in Tokens \cup {NoToken}
      BY <3>1
    <3>4. session' \in [Opened -> Sessions \cup {NoSession}] /\ ticket' \in [Opened -> Tokens \cup {NoToken}]
      BY <3>1, <3>3
    <3>5. QED
      BY <1>8, <3>1, <3>2, <3>4 DEF Answered, Forget
  <2>2. CASE d \notin heard
    BY <1>8, <2>2 DEF FetchAnswer, Answered, Forget
  <2>3. QED
    BY <2>1, <2>2
<1>9. ASSUME NEW c \in Channels, Verify(c), NoteRaces PROVE TypeOK'
  BY <1>9 DEF Verify, Goto
<1>10. ASSUME NEW c \in Channels, RejectPassword(c), NoteRaces PROVE TypeOK'
  BY <1>10 DEF RejectPassword, Goto
<1>11. ASSUME NEW c \in Channels, NEW s \in Sessions, Open(c, s), NoteRaces PROVE TypeOK'
  BY <1>11 DEF Open
<1>12. ASSUME NEW c \in Channels, Logout(c), NoteRaces PROVE TypeOK'
  BY <1>12 DEF Logout, Goto
<1>13. ASSUME NEW c \in Channels, Resolve(c), NoteRaces PROVE TypeOK'
  <2>1. CASE Live(sess[c]) /\ Acts(c, "find", owner[sess[c]])
    BY <1>13, <2>1 DEF Resolve, Acts, Live
  <2>2. CASE Goto(c, "refused") \/ Goto(c, "offer")
    BY <1>13, <2>2 DEF Resolve, Goto
  <2>3. CASE Acts(c, "user", linked[Chat(c)])
    BY <1>13, <2>3 DEF Resolve, Acts
  <2>4. QED
    BY <1>13, <2>1, <2>2, <2>3 DEF Resolve
<1>14. ASSUME NEW c \in Channels, LinkedUser(c), NoteRaces PROVE TypeOK'
  <2>1. CASE who[c] \in users
    BY <1>14, <2>1 DEF LinkedUser, Goto
  <2>2. CASE who[c] \notin users
    <3>1. /\ linked' = [d \in Chats |-> IF linked[d] = who[c] THEN Nobody ELSE linked[d]]
          /\ dead' = {d \in dead : linked[d] # who[c]}
          /\ at' = [at EXCEPT ![c] = "offer"] /\ who' = [who EXCEPT ![c] = Nobody]
          /\ UNCHANGED <<users, redis, browser, sess, tick, had, admin, bot, logouts, proved, unchecked>>
      BY <1>14, <2>2 DEF LinkedUser, Acts, Without
    <3>2. linked' \in [Chats -> users \cup {Nobody}] /\ dead' \subseteq {d \in Chats : linked'[d] # Nobody}
      BY <3>1
    <3>3. QED
      BY <1>14, <3>1, <3>2
  <2>3. QED
    BY <2>1, <2>2
<1>15. ASSUME NEW c \in Channels, NEW t \in Tokens, CreatePending(c, t), NoteRaces PROVE TypeOK'
  BY <1>15 DEF CreatePending
<1>16. ASSUME NEW c \in Channels, ConsumePending(c), NoteRaces PROVE TypeOK'
  BY <1>16 DEF ConsumePending, Goto, Done
<1>17. ASSUME NEW c \in Channels, FindLink(c), NoteRaces PROVE TypeOK'
  BY <1>17 DEF FindLink, Goto, Done
<1>18. ASSUME NEW c \in Channels, CountLinks(c), NoteRaces PROVE TypeOK'
  BY <1>18, CountFacts DEF CountLinks, Goto, Done, BelowCap
<1>19. ASSUME NEW c \in Channels, Upsert(c), NoteRaces PROVE TypeOK'
  <2>1. CASE who[c] \in users
    <3>1. /\ linked' = [linked EXCEPT ![Chat(c)] = who[c]] /\ dead' = dead \ {Chat(c)}
          /\ unchecked' \subseteq Chats /\ since' \subseteq Chats /\ stale' \subseteq Chats
          /\ at' = [at EXCEPT ![c] = Done(c)]
          /\ UNCHANGED <<users, redis, browser, who, sess, tick, had, admin, blocked, sending, blocks, logouts,
            proved>>
      BY <1>19, <2>1 DEF Upsert, Goto
    <3>2. who[c] # Nobody /\ Done(c) \in Labels
      BY <2>1 DEF Done
    <3>3. linked' \in [Chats -> users \cup {Nobody}] /\ dead' \subseteq {d \in Chats : linked'[d] # Nobody}
      BY <2>1, <3>1, <3>2
    <3>4. QED
      BY <1>19, <3>1, <3>2, <3>3
  <2>2. CASE who[c] \notin users
    BY <1>19, <2>2 DEF Upsert, Goto, Done
  <2>3. QED
    BY <2>1, <2>2
<1>20. ASSUME NEW u \in Users, NEW how \in {"reset", "delete"}, RevokeSessions(u, how), NoteRaces PROVE TypeOK'
  BY <1>20 DEF RevokeSessions, Killed
<1>21. ASSUME NEW u \in Users, RevokeLinks(u), NoteRaces PROVE TypeOK'
  BY <1>21 DEF RevokeLinks, Without
<1>22. ASSUME NEW s \in Sessions, SessionEnds(s), NoteRaces PROVE TypeOK'
  BY <1>22 DEF SessionEnds
<1>23. ASSUME NEW t \in Tokens, PendingExpires(t), NoteRaces PROVE TypeOK'
  BY <1>23 DEF PendingExpires
<1>24. ASSUME NEW d \in Blockers, Block(d), NoteRaces PROVE TypeOK'
  BY <1>24 DEF Block
<1>25. ASSUME NEW d \in Blockers, Unblock(d), NoteRaces PROVE TypeOK'
  BY <1>25 DEF Unblock
<1>26. ASSUME NEW d \in Chats, Send(d), NoteRaces PROVE TypeOK'
  BY <1>26 DEF Send, Refused
<1>27. ASSUME NEW d \in Chats, MarkDead(d), NoteRaces PROVE TypeOK'
  BY <1>27 DEF MarkDead
<1>28. CASE UNCHANGED vars
  BY <1>28 DEF vars, Overlaps
<1>29. QED
  BY <1>1, <1>2, <1>3, <1>4, <1>5, <1>6, <1>7, <1>8, <1>9, <1>10, <1>11, <1>12, <1>13, <1>14, <1>15, <1>16,
    <1>17, <1>18, <1>19, <1>20, <1>21, <1>22, <1>23, <1>24, <1>25, <1>26, <1>27, <1>28 DEF Next, Browser, Server,
    Others

LEMMA ShapeStep == TypeOK /\ Shape /\ [Next]_vars => Shape'
<1> SUFFICES ASSUME TypeOK, Shape, [Next]_vars PROVE Shape'
  OBVIOUS
<1> USE SignOnAssumption, ChannelFacts DEF TypeOK, Shape, Acting, SigningIn, rows, redis, browser, locals, admin,
    bot, logouts
<1>1. ASSUME NEW d \in Opened, Load(d), NoteRaces PROVE Shape'
  BY <1>1 DEF Load, Goto
<1>2. ASSUME NEW d \in Opened, Navigate(d), NoteRaces PROVE Shape'
  BY <1>2 DEF Navigate
<1>3. ASSUME NEW d \in Opened, PostInitData(d), NoteRaces PROVE Shape'
  <2>1. CASE d \in heard
    <3>1. at[Fetch(d)] = "ready" /\ Sends(Fetch(d), "arrive", Nobody) /\ UNCHANGED <<rows, redis, browser, admin,
          bot, logouts, proved, unchecked>>
      BY <1>3, <2>1 DEF PostInitData
    <3>2. QED
      BY <1>3, <3>1 DEF Sends
  <2>2. CASE d \notin heard
    <3>1. at[Fetch(d)] = "ready" /\ Answered(Fetch(d)) /\ UNCHANGED <<rows, redis, browser, admin, bot, logouts,
          proved, unchecked>>
      BY <1>3, <2>2 DEF PostInitData
    <3>2. QED
      BY <1>3, <3>1 DEF Answered
  <2>3. QED
    BY <2>1, <2>2
<1>4. ASSUME NEW d \in Opened, ClickSignIn(d), NoteRaces PROVE Shape'
  BY <1>4 DEF ClickSignIn, AsksIn, Goto
<1>5. ASSUME NEW d \in Opened, SubmitLogout(d), NoteRaces PROVE Shape'
  BY <1>5 DEF SubmitLogout, Sends
<1>6. ASSUME NEW d \in Opened, NEW u \in Users, SubmitPassword(d, u), NoteRaces PROVE Shape'
  BY <1>6 DEF SubmitPassword, AsksIn, Sends
<1>7. ASSUME NEW d \in Opened, FormAnswer(d), NoteRaces PROVE Shape'
  BY <1>7 DEF FormAnswer, Answered, Forget
<1>8. ASSUME NEW d \in Opened, FetchAnswer(d), NoteRaces PROVE Shape'
  BY <1>8 DEF FetchAnswer, Answered, Forget
<1>9. ASSUME NEW c \in Channels, Verify(c), NoteRaces PROVE Shape'
  BY <1>9 DEF Verify, Goto
<1>10. ASSUME NEW c \in Channels, RejectPassword(c), NoteRaces PROVE Shape'
  BY <1>10 DEF RejectPassword, Goto
<1>11. ASSUME NEW c \in Channels, NEW s \in Sessions, Open(c, s), NoteRaces PROVE Shape'
  BY <1>11 DEF Open
<1>12. ASSUME NEW c \in Channels, Logout(c), NoteRaces PROVE Shape'
  BY <1>12 DEF Logout, Goto
<1>13. ASSUME NEW c \in Channels, Resolve(c), NoteRaces PROVE Shape'
  BY <1>13 DEF Resolve, Acts, Goto, Refuses, Live
<1>14. ASSUME NEW c \in Channels, LinkedUser(c), NoteRaces PROVE Shape'
  BY <1>14 DEF LinkedUser, Goto, Acts, Without
<1>15. ASSUME NEW c \in Channels, NEW t \in Tokens, CreatePending(c, t), NoteRaces PROVE Shape'
  BY <1>15 DEF CreatePending
<1>16. ASSUME NEW c \in Channels, ConsumePending(c), NoteRaces PROVE Shape'
  BY <1>16 DEF ConsumePending, Goto, Done
<1>17. ASSUME NEW c \in Channels, FindLink(c), NoteRaces PROVE Shape'
  BY <1>17 DEF FindLink, Goto, Done
<1>18. ASSUME NEW c \in Channels, CountLinks(c), NoteRaces PROVE Shape'
  BY <1>18 DEF CountLinks, Goto, Done, BelowCap
<1>19. ASSUME NEW c \in Channels, Upsert(c), NoteRaces PROVE Shape'
  BY <1>19 DEF Upsert, Goto, Done
<1>20. ASSUME NEW u \in Users, NEW how \in {"reset", "delete"}, RevokeSessions(u, how), NoteRaces PROVE Shape'
  BY <1>20 DEF RevokeSessions, Killed
<1>21. ASSUME NEW u \in Users, RevokeLinks(u), NoteRaces PROVE Shape'
  BY <1>21 DEF RevokeLinks, Without
<1>22. ASSUME NEW s \in Sessions, SessionEnds(s), NoteRaces PROVE Shape'
  BY <1>22 DEF SessionEnds
<1>23. ASSUME NEW t \in Tokens, PendingExpires(t), NoteRaces PROVE Shape'
  BY <1>23 DEF PendingExpires
<1>24. ASSUME NEW d \in Blockers, Block(d), NoteRaces PROVE Shape'
  BY <1>24 DEF Block
<1>25. ASSUME NEW d \in Blockers, Unblock(d), NoteRaces PROVE Shape'
  BY <1>25 DEF Unblock
<1>26. ASSUME NEW d \in Chats, Send(d), NoteRaces PROVE Shape'
  BY <1>26 DEF Send, Refused
<1>27. ASSUME NEW d \in Chats, MarkDead(d), NoteRaces PROVE Shape'
  BY <1>27 DEF MarkDead
<1>28. CASE UNCHANGED vars
  BY <1>28 DEF vars, Overlaps
<1>29. QED
  BY <1>1, <1>2, <1>3, <1>4, <1>5, <1>6, <1>7, <1>8, <1>9, <1>10, <1>11, <1>12, <1>13, <1>14, <1>15, <1>16,
    <1>17, <1>18, <1>19, <1>20, <1>21, <1>22, <1>23, <1>24, <1>25, <1>26, <1>27, <1>28 DEF Next, Browser, Server,
    Others

----------------------------------------------------------------------------
(* Links and sessions.                                                     *)

LEMMA Overlapping ==
  ASSUME Noted, NEW c \in Channels, who[c] \in Users, resetting[who[c]] # "no"
  PROVE  <<Chat(c), who[c]>> \in spoilt
BY DEF Noted, Overlaps

LEMMA NotedNext ==
  NoteRaces =>
    /\ Noted' /\ spoilt \subseteq spoilt'
    /\ \A c \in Channels : who'[c] \in Users /\ resetting'[who'[c]] # "no" => <<Chat(c), who'[c]>> \in spoilt'
BY DEF Noted, NoteRaces, Overlaps

LEMMA AnswerProven ==
  ASSUME TypeOK, Shape, Noted, ProvenInv, NoteRaces, NEW b \in Channels, Answered(b), Forget,
         UNCHANGED <<rows, admin, proved>>,
         \A e \in Opened : session'[e] \in {session[e], NoSession} \/ (e = Chat(b) /\ session'[e] = sess[b])
  PROVE  ProvenInv'
<1> USE SignOnAssumption, ChannelFacts, NotedNext DEF TypeOK, Shape, ProvenInv, Proven, Live, Acting, rows, admin
<1>3. /\ \A c \in Channels : sess'[c] \in {sess[c], NoSession}
      /\ \A c \in Channels : at'[c] = "idle" \/ (at'[c] = at[c] /\ who'[c] = who[c])
      /\ \A s \in Sessions : owner'[s] \in {owner[s], Nobody}
  BY DEF Answered, Forget
<1>4. spoilt \subseteq spoilt' /\ UNCHANGED <<linked, proved, resetting>>
  OBVIOUS
<1>5. ASSUME NEW e \in Opened, NEW s \in Sessions \cup {NoSession}, s # NoSession, owner'[s] # Nobody,
             s = session[e] \/ \E c \in Channels : Chat(c) = e /\ s = sess[c]
      PROVE  /\ owner'[s] = owner[s] /\ <<e, owner[s]>> \in proved' \cup spoilt'
             /\ resetting'[owner[s]] # "no" => <<e, owner[s]>> \in spoilt'
  BY <1>3, <1>4, <1>5
<1>6. ASSUME NEW e \in Opened, session'[e] # NoSession, owner'[session'[e]] # Nobody
      PROVE  /\ <<e, owner'[session'[e]]>> \in proved' \cup spoilt'
             /\ resetting'[owner'[session'[e]]] # "no" => <<e, owner'[session'[e]]>> \in spoilt'
  <2>1. /\ session'[e] \in Sessions \cup {NoSession}
        /\ session'[e] = session[e] \/ \E c \in Channels : Chat(c) = e /\ session'[e] = sess[c]
    BY <1>6
  <2>2. QED
    BY <2>1, <1>5, <1>6
<1>7. ASSUME NEW c \in Channels, sess'[c] # NoSession, owner'[sess'[c]] # Nobody
      PROVE  /\ <<Chat(c), owner'[sess'[c]]>> \in proved' \cup spoilt'
             /\ resetting'[owner'[sess'[c]]] # "no" => <<Chat(c), owner'[sess'[c]]>> \in spoilt'
  BY <1>3, <1>5, <1>7
<1>8. QED
  BY <1>3, <1>4, <1>6, <1>7

LEMMA ProvenStep == TypeOK /\ Shape /\ Noted /\ ProvenInv /\ [Next]_vars => ProvenInv'
<1> SUFFICES ASSUME TypeOK, Shape, Noted, ProvenInv, [Next]_vars PROVE ProvenInv'
  OBVIOUS
<1> USE SignOnAssumption, ChannelFacts, Overlapping, NotedNext DEF TypeOK, Shape, ProvenInv, Proven, Live,
    Acting, rows, redis, browser, locals, admin, bot, logouts
<1>1. ASSUME NEW d \in Opened, Load(d), NoteRaces PROVE ProvenInv'
  BY <1>1 DEF Load, Goto
<1>2. ASSUME NEW d \in Opened, Navigate(d), NoteRaces PROVE ProvenInv'
  BY <1>2 DEF Navigate
<1>3. ASSUME NEW d \in Opened, PostInitData(d), NoteRaces PROVE ProvenInv'
  <2>1. CASE d \in heard
    <3>1. at[Fetch(d)] = "ready" /\ Sends(Fetch(d), "arrive", Nobody) /\ UNCHANGED <<rows, redis, browser, admin,
          bot, logouts, proved, unchecked>>
      BY <1>3, <2>1 DEF PostInitData
    <3>2. QED
      BY <1>3, <3>1 DEF Sends
  <2>2. CASE d \notin heard
    <3>1. at[Fetch(d)] = "ready" /\ Answered(Fetch(d)) /\ UNCHANGED <<rows, redis, browser, admin, bot, logouts,
          proved, unchecked>>
      BY <1>3, <2>2 DEF PostInitData
    <3>2. QED
      BY <1>3, <3>1 DEF Answered
  <2>3. QED
    BY <2>1, <2>2
<1>4. ASSUME NEW d \in Opened, ClickSignIn(d), NoteRaces PROVE ProvenInv'
  BY <1>4 DEF ClickSignIn, AsksIn, Goto
<1>5. ASSUME NEW d \in Opened, SubmitLogout(d), NoteRaces PROVE ProvenInv'
  BY <1>5 DEF SubmitLogout, Sends
<1>6. ASSUME NEW d \in Opened, NEW u \in Users, SubmitPassword(d, u), NoteRaces PROVE ProvenInv'
  BY <1>6 DEF SubmitPassword, AsksIn, Sends
<1>7. ASSUME NEW d \in Opened, FormAnswer(d), NoteRaces PROVE ProvenInv'
  <2>1. \A e \in Opened : session'[e] \in {session[e], NoSession} \/ (e = d /\ session'[e] = sess[Form(d)])
    BY <1>7 DEF FormAnswer
  <2>2. Answered(Form(d)) /\ Forget /\ UNCHANGED <<rows, admin, proved>>
    BY <1>7 DEF FormAnswer
  <2>3. Form(d) \in Channels /\ Chat(Form(d)) = d
    OBVIOUS
  <2>4. \A e \in Opened :
          session'[e] \in {session[e], NoSession} \/ (e = Chat(Form(d)) /\ session'[e] = sess[Form(d)])
    BY <2>1, <2>3
  <2> HIDE DEF TypeOK, Shape, ProvenInv, rows, admin
  <2>5. QED
    BY <1>7, <2>2, <2>3, <2>4, AnswerProven
<1>8. ASSUME NEW d \in Opened, FetchAnswer(d), NoteRaces PROVE ProvenInv'
  <2>1. \A e \in Opened : session'[e] = session[e] \/ (e = d /\ session'[e] = sess[Fetch(d)])
    <3>1. CASE d \in heard
      BY <1>8, <3>1 DEF FetchAnswer
    <3>2. CASE d \notin heard
      BY <1>8, <3>2 DEF FetchAnswer
    <3>3. QED
      BY <3>1, <3>2
  <2>2. Answered(Fetch(d)) /\ Forget /\ UNCHANGED <<rows, admin, proved>>
    BY <1>8 DEF FetchAnswer
  <2>3. Fetch(d) \in Channels /\ Chat(Fetch(d)) = d
    OBVIOUS
  <2>4. \A e \in Opened :
          session'[e] \in {session[e], NoSession} \/ (e = Chat(Fetch(d)) /\ session'[e] = sess[Fetch(d)])
    BY <2>1, <2>3
  <2> HIDE DEF TypeOK, Shape, ProvenInv, rows, admin
  <2>5. QED
    BY <1>8, <2>2, <2>3, <2>4, AnswerProven
<1>9. ASSUME NEW c \in Channels, Verify(c), NoteRaces PROVE ProvenInv'
  BY <1>9 DEF Verify, Goto
<1>10. ASSUME NEW c \in Channels, RejectPassword(c), NoteRaces PROVE ProvenInv'
  BY <1>10 DEF RejectPassword, Goto
<1>11. ASSUME NEW c \in Channels, NEW s \in Sessions, Open(c, s), NoteRaces PROVE ProvenInv'
  BY <1>11 DEF Open, InHand
<1>12. ASSUME NEW c \in Channels, Logout(c), NoteRaces PROVE ProvenInv'
  BY <1>12 DEF Logout, Goto
<1>13. ASSUME NEW c \in Channels, Resolve(c), NoteRaces PROVE ProvenInv'
  BY <1>13 DEF Resolve, Acts, Goto, Refuses
<1>14. ASSUME NEW c \in Channels, LinkedUser(c), NoteRaces PROVE ProvenInv'
  BY <1>14 DEF LinkedUser, Goto, Acts, Without
<1>15. ASSUME NEW c \in Channels, NEW t \in Tokens, CreatePending(c, t), NoteRaces PROVE ProvenInv'
  BY <1>15 DEF CreatePending
<1>16. ASSUME NEW c \in Channels, ConsumePending(c), NoteRaces PROVE ProvenInv'
  BY <1>16 DEF ConsumePending, Goto, Done
<1>17. ASSUME NEW c \in Channels, FindLink(c), NoteRaces PROVE ProvenInv'
  BY <1>17 DEF FindLink, Goto, Done
<1>18. ASSUME NEW c \in Channels, CountLinks(c), NoteRaces PROVE ProvenInv'
  BY <1>18 DEF CountLinks, Goto, Done, BelowCap
<1>19. ASSUME NEW c \in Channels, Upsert(c), NoteRaces PROVE ProvenInv'
  BY <1>19 DEF Upsert, Goto, Done
<1>20. ASSUME NEW u \in Users, NEW how \in {"reset", "delete"}, RevokeSessions(u, how), NoteRaces PROVE ProvenInv'
  BY <1>20 DEF RevokeSessions, Killed
<1>21. ASSUME NEW u \in Users, RevokeLinks(u), NoteRaces PROVE ProvenInv'
  BY <1>21 DEF RevokeLinks, Without
<1>22. ASSUME NEW s \in Sessions, SessionEnds(s), NoteRaces PROVE ProvenInv'
  BY <1>22 DEF SessionEnds
<1>23. ASSUME NEW t \in Tokens, PendingExpires(t), NoteRaces PROVE ProvenInv'
  BY <1>23 DEF PendingExpires
<1>24. ASSUME NEW d \in Blockers, Block(d), NoteRaces PROVE ProvenInv'
  BY <1>24 DEF Block
<1>25. ASSUME NEW d \in Blockers, Unblock(d), NoteRaces PROVE ProvenInv'
  BY <1>25 DEF Unblock
<1>26. ASSUME NEW d \in Chats, Send(d), NoteRaces PROVE ProvenInv'
  BY <1>26 DEF Send, Refused
<1>27. ASSUME NEW d \in Chats, MarkDead(d), NoteRaces PROVE ProvenInv'
  BY <1>27 DEF MarkDead
<1>28. CASE UNCHANGED vars
  BY <1>28 DEF vars, Overlaps
<1>29. QED
  BY <1>1, <1>2, <1>3, <1>4, <1>5, <1>6, <1>7, <1>8, <1>9, <1>10, <1>11, <1>12, <1>13, <1>14, <1>15, <1>16,
    <1>17, <1>18, <1>19, <1>20, <1>21, <1>22, <1>23, <1>24, <1>25, <1>26, <1>27, <1>28 DEF Next, Browser, Server,
    Others

----------------------------------------------------------------------------
(* Logouts, dead links and the cap.                                        *)

LEMMA StickyStep == TypeOK /\ Shape /\ StickyInv /\ [Next]_vars => StickyInv'
<1> SUFFICES ASSUME TypeOK, Shape, StickyInv, [Next]_vars PROVE StickyInv'
  OBVIOUS
<1> USE SignOnAssumption, ChannelFacts DEF TypeOK, Shape, StickyInv, SigningIn, Live, rows, redis, browser,
    locals, admin, bot, logouts
<1>1. ASSUME NEW d \in Opened, Load(d), NoteRaces PROVE StickyInv'
  BY <1>1 DEF Load, Goto
<1>2. ASSUME NEW d \in Opened, Navigate(d), NoteRaces PROVE StickyInv'
  BY <1>2 DEF Navigate
<1>3. ASSUME NEW d \in Opened, PostInitData(d), NoteRaces PROVE StickyInv'
  BY <1>3 DEF PostInitData, Sends, Answered
<1>4. ASSUME NEW d \in Opened, ClickSignIn(d), NoteRaces PROVE StickyInv'
  BY <1>4 DEF ClickSignIn, AsksIn, Goto
<1>5. ASSUME NEW d \in Opened, SubmitLogout(d), NoteRaces PROVE StickyInv'
  BY <1>5 DEF SubmitLogout, Sends
<1>6. ASSUME NEW d \in Opened, NEW u \in Users, SubmitPassword(d, u), NoteRaces PROVE StickyInv'
  BY <1>6 DEF SubmitPassword, AsksIn, Sends
<1>7. ASSUME NEW d \in Opened, FormAnswer(d), NoteRaces PROVE StickyInv'
  BY <1>7 DEF FormAnswer, Answered, Forget
<1>8. ASSUME NEW d \in Opened, FetchAnswer(d), NoteRaces PROVE StickyInv'
  BY <1>8 DEF FetchAnswer, Answered, Forget
<1>9. ASSUME NEW c \in Channels, Verify(c), NoteRaces PROVE StickyInv'
  BY <1>9 DEF Verify, Goto
<1>10. ASSUME NEW c \in Channels, RejectPassword(c), NoteRaces PROVE StickyInv'
  BY <1>10 DEF RejectPassword, Goto
<1>11. ASSUME NEW c \in Channels, NEW s \in Sessions, Open(c, s), NoteRaces PROVE StickyInv'
  BY <1>11 DEF Open
<1>12. ASSUME NEW c \in Channels, Logout(c), NoteRaces PROVE StickyInv'
  BY <1>12 DEF Logout, Goto
<1>13. ASSUME NEW c \in Channels, Resolve(c), NoteRaces PROVE StickyInv'
  BY <1>13 DEF Resolve, Acts, Goto, Refuses
<1>14. ASSUME NEW c \in Channels, LinkedUser(c), NoteRaces PROVE StickyInv'
  BY <1>14 DEF LinkedUser, Goto, Acts, Without
<1>15. ASSUME NEW c \in Channels, NEW t \in Tokens, CreatePending(c, t), NoteRaces PROVE StickyInv'
  BY <1>15 DEF CreatePending
<1>16. ASSUME NEW c \in Channels, ConsumePending(c), NoteRaces PROVE StickyInv'
  BY <1>16 DEF ConsumePending, Goto, Done
<1>17. ASSUME NEW c \in Channels, FindLink(c), NoteRaces PROVE StickyInv'
  BY <1>17 DEF FindLink, Goto, Done
<1>18. ASSUME NEW c \in Channels, CountLinks(c), NoteRaces PROVE StickyInv'
  BY <1>18 DEF CountLinks, Goto, Done, BelowCap
<1>19. ASSUME NEW c \in Channels, Upsert(c), NoteRaces PROVE StickyInv'
  BY <1>19 DEF Upsert, Goto, Done
<1>20. ASSUME NEW u \in Users, NEW how \in {"reset", "delete"}, RevokeSessions(u, how), NoteRaces PROVE StickyInv'
  BY <1>20 DEF RevokeSessions, Killed
<1>21. ASSUME NEW u \in Users, RevokeLinks(u), NoteRaces PROVE StickyInv'
  BY <1>21 DEF RevokeLinks, Without
<1>22. ASSUME NEW s \in Sessions, SessionEnds(s), NoteRaces PROVE StickyInv'
  BY <1>22 DEF SessionEnds
<1>23. ASSUME NEW t \in Tokens, PendingExpires(t), NoteRaces PROVE StickyInv'
  BY <1>23 DEF PendingExpires
<1>24. ASSUME NEW d \in Blockers, Block(d), NoteRaces PROVE StickyInv'
  BY <1>24 DEF Block
<1>25. ASSUME NEW d \in Blockers, Unblock(d), NoteRaces PROVE StickyInv'
  BY <1>25 DEF Unblock
<1>26. ASSUME NEW d \in Chats, Send(d), NoteRaces PROVE StickyInv'
  BY <1>26 DEF Send, Refused
<1>27. ASSUME NEW d \in Chats, MarkDead(d), NoteRaces PROVE StickyInv'
  BY <1>27 DEF MarkDead
<1>28. CASE UNCHANGED vars
  BY <1>28 DEF vars, Overlaps
<1>29. QED
  BY <1>1, <1>2, <1>3, <1>4, <1>5, <1>6, <1>7, <1>8, <1>9, <1>10, <1>11, <1>12, <1>13, <1>14, <1>15, <1>16,
    <1>17, <1>18, <1>19, <1>20, <1>21, <1>22, <1>23, <1>24, <1>25, <1>26, <1>27, <1>28 DEF Next, Browser, Server,
    Others

LEMMA DeathStep == TypeOK /\ DeathInv /\ [Next]_vars => DeathInv'
<1> SUFFICES ASSUME TypeOK, DeathInv, [Next]_vars PROVE DeathInv'
  OBVIOUS
<1> USE SignOnAssumption, ChannelFacts DEF TypeOK, DeathInv, rows, redis, browser, locals, admin, bot, logouts
<1>1. ASSUME NEW d \in Opened, Load(d), NoteRaces PROVE DeathInv'
  BY <1>1 DEF Load, Goto
<1>2. ASSUME NEW d \in Opened, Navigate(d), NoteRaces PROVE DeathInv'
  BY <1>2 DEF Navigate
<1>3. ASSUME NEW d \in Opened, PostInitData(d), NoteRaces PROVE DeathInv'
  BY <1>3 DEF PostInitData, Sends, Answered
<1>4. ASSUME NEW d \in Opened, ClickSignIn(d), NoteRaces PROVE DeathInv'
  BY <1>4 DEF ClickSignIn, AsksIn, Goto
<1>5. ASSUME NEW d \in Opened, SubmitLogout(d), NoteRaces PROVE DeathInv'
  BY <1>5 DEF SubmitLogout, Sends
<1>6. ASSUME NEW d \in Opened, NEW u \in Users, SubmitPassword(d, u), NoteRaces PROVE DeathInv'
  BY <1>6 DEF SubmitPassword, AsksIn, Sends
<1>7. ASSUME NEW d \in Opened, FormAnswer(d), NoteRaces PROVE DeathInv'
  BY <1>7 DEF FormAnswer, Answered, Forget
<1>8. ASSUME NEW d \in Opened, FetchAnswer(d), NoteRaces PROVE DeathInv'
  BY <1>8 DEF FetchAnswer, Answered, Forget
<1>9. ASSUME NEW c \in Channels, Verify(c), NoteRaces PROVE DeathInv'
  BY <1>9 DEF Verify, Goto
<1>10. ASSUME NEW c \in Channels, RejectPassword(c), NoteRaces PROVE DeathInv'
  BY <1>10 DEF RejectPassword, Goto
<1>11. ASSUME NEW c \in Channels, NEW s \in Sessions, Open(c, s), NoteRaces PROVE DeathInv'
  BY <1>11 DEF Open
<1>12. ASSUME NEW c \in Channels, Logout(c), NoteRaces PROVE DeathInv'
  BY <1>12 DEF Logout, Goto
<1>13. ASSUME NEW c \in Channels, Resolve(c), NoteRaces PROVE DeathInv'
  BY <1>13 DEF Resolve, Acts, Goto, Refuses
<1>14. ASSUME NEW c \in Channels, LinkedUser(c), NoteRaces PROVE DeathInv'
  BY <1>14 DEF LinkedUser, Goto, Acts, Without
<1>15. ASSUME NEW c \in Channels, NEW t \in Tokens, CreatePending(c, t), NoteRaces PROVE DeathInv'
  BY <1>15 DEF CreatePending
<1>16. ASSUME NEW c \in Channels, ConsumePending(c), NoteRaces PROVE DeathInv'
  BY <1>16 DEF ConsumePending, Goto, Done
<1>17. ASSUME NEW c \in Channels, FindLink(c), NoteRaces PROVE DeathInv'
  BY <1>17 DEF FindLink, Goto, Done
<1>18. ASSUME NEW c \in Channels, CountLinks(c), NoteRaces PROVE DeathInv'
  BY <1>18 DEF CountLinks, Goto, Done, BelowCap
<1>19. ASSUME NEW c \in Channels, Upsert(c), NoteRaces PROVE DeathInv'
  BY <1>19 DEF Upsert, Goto, Done
<1>20. ASSUME NEW u \in Users, NEW how \in {"reset", "delete"}, RevokeSessions(u, how), NoteRaces PROVE DeathInv'
  BY <1>20 DEF RevokeSessions, Killed
<1>21. ASSUME NEW u \in Users, RevokeLinks(u), NoteRaces PROVE DeathInv'
  BY <1>21 DEF RevokeLinks, Without
<1>22. ASSUME NEW s \in Sessions, SessionEnds(s), NoteRaces PROVE DeathInv'
  BY <1>22 DEF SessionEnds
<1>23. ASSUME NEW t \in Tokens, PendingExpires(t), NoteRaces PROVE DeathInv'
  BY <1>23 DEF PendingExpires
<1>24. ASSUME NEW d \in Blockers, Block(d), NoteRaces PROVE DeathInv'
  BY <1>24 DEF Block
<1>25. ASSUME NEW d \in Blockers, Unblock(d), NoteRaces PROVE DeathInv'
  BY <1>25 DEF Unblock
<1>26. ASSUME NEW d \in Chats, Send(d), NoteRaces PROVE DeathInv'
  BY <1>26 DEF Send, Refused
<1>27. ASSUME NEW d \in Chats, MarkDead(d), NoteRaces PROVE DeathInv'
  BY <1>27 DEF MarkDead
<1>28. CASE UNCHANGED vars
  BY <1>28 DEF vars, Overlaps
<1>29. QED
  BY <1>1, <1>2, <1>3, <1>4, <1>5, <1>6, <1>7, <1>8, <1>9, <1>10, <1>11, <1>12, <1>13, <1>14, <1>15, <1>16,
    <1>17, <1>18, <1>19, <1>20, <1>21, <1>22, <1>23, <1>24, <1>25, <1>26, <1>27, <1>28 DEF Next, Browser, Server,
    Others

----------------------------------------------------------------------------
(* Links made after a count.                                               *)

\* Nobody starts to be linked, and links go, stay or lose their count.
LEMMA FewerCapped ==
  ASSUME CapInv, \A u \in Users : Capped(u)' \subseteq Capped(u)
  PROVE  CapInv'
<1> SUFFICES ASSUME NEW u \in Users PROVE Cardinality(Capped(u)') < MaxLinks + Cardinality(Opened)
  BY DEF CapInv, Capped
<1>1. Cardinality(Capped(u)) < MaxLinks + Cardinality(Opened) /\ Capped(u) \in SUBSET Chats
  BY CappedFacts DEF CapInv, Capped
<1>2. Capped(u)' \in SUBSET Chats
  BY <1>1
<1>3. Cardinality(Capped(u)') <= Cardinality(Capped(u))
  BY <1>1, CountFacts, FS_Subset
<1> HIDE DEF Capped
<1>4. QED
  BY <1>1, <1>2, <1>3, CountFacts, CappedFacts, SignOnAssumption

\* Whoever counts has seen room for one more; as many again may be about to link.
LEMMA RoomForAll ==
  ASSUME NEW u \in Users, NEW S, S \subseteq LinksOf(u) \cup Opened, Cardinality(LinksOf(u)) < MaxLinks
  PROVE  Cardinality(S) < MaxLinks + Cardinality(Opened)
<1>1. LinksOf(u) \in SUBSET Chats /\ Opened \in SUBSET Chats
  BY CappedFacts, SignOnAssumption
<1>2. LinksOf(u) \cup Opened \in SUBSET Chats /\ LinksOf(u) \cap Opened \in SUBSET Chats /\ S \in SUBSET Chats
  BY <1>1
<1>3. Cardinality(LinksOf(u) \cup Opened)
      = Cardinality(LinksOf(u)) + Cardinality(Opened) - Cardinality(LinksOf(u) \cap Opened)
  BY <1>1, CountFacts, FS_Union
<1>4. Cardinality(S) <= Cardinality(LinksOf(u) \cup Opened)
  BY <1>2, CountFacts, FS_Subset
<1>5. /\ Cardinality(S) \in Nat /\ Cardinality(LinksOf(u) \cup Opened) \in Nat
      /\ Cardinality(LinksOf(u) \cap Opened) \in Nat
      /\ Cardinality(LinksOf(u)) \in Nat /\ Cardinality(Opened) \in Nat
  BY <1>1, <1>2, CountFacts
<1>6. QED
  BY <1>3, <1>4, <1>5, SignOnAssumption

LEMMA CapStep == TypeOK /\ CapInv /\ [Next]_vars => CapInv'
<1> SUFFICES ASSUME TypeOK, CapInv, [Next]_vars PROVE CapInv'
  OBVIOUS
<1> DEFINE Still == \A b \in Channels : at'[b] = "insert" => at[b] = "insert" /\ who'[b] = who[b]
           Kept == \A u \in Users : (LinksOf(u) \ unchecked)' \subseteq LinksOf(u) \ unchecked
           Same == UNCHANGED <<linked, dead, unchecked>>
<1>1. ASSUME Still PROVE \A u : Counted(u)' \subseteq Counted(u)
  BY <1>1 DEF Counted
<1>2. ASSUME Still, Kept PROVE CapInv'
  BY <1>1, <1>2, FewerCapped DEF Capped
<1>3. ASSUME Still, Same PROVE CapInv'
  <2>1. Kept
    BY <1>3 DEF LinksOf
  <2>2. QED
    BY <1>2, <1>3, <2>1
<1> USE SignOnAssumption, ChannelFacts DEF TypeOK, rows, redis, browser, locals, admin, bot, logouts
<1>4. ASSUME NEW d \in Opened, Load(d) PROVE Still /\ Same
  BY <1>4 DEF Load, Goto
<1>5. ASSUME NEW d \in Opened, Navigate(d) PROVE Still /\ Same
  BY <1>5 DEF Navigate
<1>6. ASSUME NEW d \in Opened, PostInitData(d) PROVE Still /\ Same
  BY <1>6 DEF PostInitData, Sends, Answered
<1>7. ASSUME NEW d \in Opened, ClickSignIn(d) PROVE Still /\ Same
  BY <1>7 DEF ClickSignIn, AsksIn, Goto
<1>8. ASSUME NEW d \in Opened, SubmitLogout(d) PROVE Still /\ Same
  BY <1>8 DEF SubmitLogout, Sends
<1>9. ASSUME NEW d \in Opened, NEW u \in Users, SubmitPassword(d, u) PROVE Still /\ Same
  BY <1>9 DEF SubmitPassword, AsksIn, Sends
<1>10. ASSUME NEW d \in Opened, FormAnswer(d) PROVE Still /\ Same
  BY <1>10 DEF FormAnswer, Answered, Forget
<1>11. ASSUME NEW d \in Opened, FetchAnswer(d) PROVE Still /\ Same
  BY <1>11 DEF FetchAnswer, Answered, Forget
<1>12. ASSUME NEW c \in Channels, Verify(c) PROVE Still /\ Same
  BY <1>12 DEF Verify, Goto
<1>13. ASSUME NEW c \in Channels, RejectPassword(c) PROVE Still /\ Same
  BY <1>13 DEF RejectPassword, Goto
<1>14. ASSUME NEW c \in Channels, NEW s \in Sessions, Open(c, s) PROVE Still /\ Same
  BY <1>14 DEF Open
<1>15. ASSUME NEW c \in Channels, Logout(c) PROVE Still /\ Same
  BY <1>15 DEF Logout, Goto
<1>16. ASSUME NEW c \in Channels, Resolve(c) PROVE Still /\ Same
  BY <1>16 DEF Resolve, Acts, Goto, Refuses
<1>17. ASSUME NEW c \in Channels, NEW t \in Tokens, CreatePending(c, t) PROVE Still /\ Same
  BY <1>17 DEF CreatePending
<1>18. ASSUME NEW c \in Channels, ConsumePending(c) PROVE Still /\ Same
  BY <1>18 DEF ConsumePending, Goto, Done
<1>19. ASSUME NEW c \in Channels, FindLink(c) PROVE Still /\ Same
  BY <1>19 DEF FindLink, Goto, Done
<1>20. ASSUME NEW u \in Users, NEW how \in {"reset", "delete"}, RevokeSessions(u, how) PROVE Still /\ Same
  BY <1>20 DEF RevokeSessions, Killed
<1>21. ASSUME NEW s \in Sessions, SessionEnds(s) PROVE Still /\ Same
  BY <1>21 DEF SessionEnds
<1>22. ASSUME NEW t \in Tokens, PendingExpires(t) PROVE Still /\ Same
  BY <1>22 DEF PendingExpires
<1>23. ASSUME NEW d \in Blockers, Block(d) PROVE Still /\ Same
  BY <1>23 DEF Block
<1>24. ASSUME NEW d \in Blockers, Unblock(d) PROVE Still /\ Same
  BY <1>24 DEF Unblock
<1>25. ASSUME NEW d \in Chats, Send(d) PROVE Still /\ Same
  BY <1>25 DEF Send, Refused
<1>26. ASSUME UNCHANGED vars PROVE Still /\ Same
  BY <1>26 DEF vars
<1>27. ASSUME NEW c \in Channels, LinkedUser(c) PROVE Still /\ Kept
  BY <1>27 DEF LinkedUser, Goto, Acts, Without, LinksOf
<1>28. ASSUME NEW d \in Chats, MarkDead(d) PROVE Still /\ Kept
  BY <1>28 DEF MarkDead, LinksOf
<1>29. ASSUME NEW u \in Users, RevokeLinks(u) PROVE Still /\ Kept
  BY <1>29 DEF RevokeLinks, Without, LinksOf
<1>30. ASSUME NEW c \in Channels, CountLinks(c) PROVE CapInv'
  <2>1. Same /\ who' = who /\ \A b \in Channels \ {c} : at'[b] = at[b]
    BY <1>30 DEF CountLinks, Goto
  <2>2. CASE ~BelowCap(c)
    <3>1. Still
      BY <1>30, <2>1, <2>2 DEF CountLinks, Goto, Done
    <3>2. QED
      BY <1>3, <2>1, <3>1
  <2>3. CASE BelowCap(c)
    <3> SUFFICES ASSUME NEW u \in Users PROVE Cardinality(Capped(u)') < MaxLinks + Cardinality(Opened)
      BY DEF CapInv, Capped
    <3>1. LinksOf(u)' = LinksOf(u) /\ Counted(u)' \subseteq Opened
      BY <2>1 DEF LinksOf, Counted
    <3>2. CASE u = who[c]
      <4>1. Cardinality(LinksOf(u)) < MaxLinks
        BY <2>3, <3>2 DEF BelowCap
      <4>2. Capped(u)' \subseteq LinksOf(u) \cup Opened
        BY <3>1 DEF Capped
      <4>3. QED
        BY <4>1, <4>2, RoomForAll
    <3>3. CASE u # who[c]
      <4>1. Counted(u)' \subseteq Counted(u)
        BY <2>1, <3>3 DEF Counted
      <4>2. Capped(u)' = Capped(u) \/ Capped(u)' \subseteq Capped(u)
        BY <2>1, <3>1, <4>1 DEF Capped
      <4>3. Capped(u) \in SUBSET Chats /\ Capped(u)' \in SUBSET Chats
        BY <4>2, CappedFacts
      <4>4. Cardinality(Capped(u)') <= Cardinality(Capped(u))
        BY <4>2, <4>3, CountFacts, FS_Subset
      <4>5. Cardinality(Capped(u)) < MaxLinks + Cardinality(Opened)
        BY DEF CapInv, Capped
      <4> HIDE DEF Capped
      <4>6. QED
        BY <4>3, <4>4, <4>5, CountFacts, CappedFacts, SignOnAssumption
    <3>4. QED
      BY <3>2, <3>3
  <2>4. QED
    BY <2>2, <2>3
<1>31. ASSUME NEW c \in Channels, Upsert(c) PROVE CapInv'
  <2>1. Still
    BY <1>31 DEF Upsert, Goto, Done
  <2>2. CASE who[c] \notin users
    BY <1>3, <1>31, <2>1, <2>2 DEF Upsert
  <2>3. CASE who[c] \in users /\ at[c] = "upsert"
    <3>1. Kept
      BY <1>31, <2>3 DEF Upsert, LinksOf
    <3>2. QED
      BY <1>2, <2>1, <3>1
  <2>4. CASE who[c] \in users /\ at[c] = "insert"
    <3> SUFFICES ASSUME NEW u \in Users PROVE Capped(u)' \subseteq Capped(u)
      BY FewerCapped
    <3>1. Counted(u)' \subseteq Counted(u)
      BY <1>1, <2>1
    <3>2. CASE u = who[c]
      <4>1. Chat(c) \in Counted(u)
        BY <2>4, <3>2 DEF Counted
      <4>2. (LinksOf(u) \ unchecked)' \subseteq (LinksOf(u) \ unchecked) \cup {Chat(c)}
        BY <1>31, <2>4, <3>2 DEF Upsert, LinksOf
      <4>3. QED
        BY <3>1, <4>1, <4>2 DEF Capped
    <3>3. CASE u # who[c]
      <4>1. (LinksOf(u) \ unchecked)' \subseteq LinksOf(u) \ unchecked
        BY <1>31, <2>4, <3>3 DEF Upsert, LinksOf
      <4>2. QED
        BY <3>1, <4>1 DEF Capped
    <3>4. QED
      BY <3>2, <3>3
  <2>5. QED
    BY <1>31, <2>2, <2>3, <2>4 DEF Upsert
<1> HIDE DEF Still, Kept, Same
<1>32. QED
  BY <1>2, <1>3, <1>4, <1>5, <1>6, <1>7, <1>8, <1>9, <1>10, <1>11, <1>12, <1>13, <1>14, <1>15, <1>16,
    <1>17, <1>18, <1>19, <1>20, <1>21, <1>22, <1>23, <1>24, <1>25, <1>26, <1>27, <1>28, <1>29, <1>30, <1>31
    DEF Next, Browser, Server, Others

LEMMA NotedStep == Noted /\ [Next]_vars => Noted'
<1>1. ASSUME Noted, Next PROVE Noted'
  BY <1>1, NotedNext DEF Next
<1>2. ASSUME Noted, UNCHANGED vars PROVE Noted'
  BY <1>2 DEF vars, locals, admin, Noted, Overlaps
<1>3. QED
  BY <1>1, <1>2

----------------------------------------------------------------------------
(* The theorems.                                                           *)

\* Every reachable state satisfies the strengthened invariant.
IInv == TypeOK /\ Shape /\ Noted /\ ProvenInv /\ StickyInv /\ DeathInv /\ CapInv

\* The invariant of every behaviour, from which the theorems below follow.
THEOREM Invariance == Spec => []IInv
<1>1. Init => IInv
  BY InitAll DEF IInv
<1>2. IInv /\ [Next]_vars => IInv'
  BY TypeStep, ShapeStep, NotedStep, ProvenStep, StickyStep, DeathStep, CapStep DEF IInv
<1>3. QED
  BY <1>1, <1>2, PTL DEF Spec

\* The tables, Redis, cookies and requests keep their types; a chat is linked to a user who exists.
THEOREM TypeCorrect == Spec => []TypeOK
<1>1. IInv => TypeOK
  BY DEF IInv
<1>2. QED
  BY <1>1, Invariance, PTL

\* A link is to whoever entered a password there since the last reset, or a race is to blame.
THEOREM LinksAreProven == Spec => []LinksProven
<1>1. IInv => LinksProven
  BY DEF IInv, ProvenInv, Proven, LinksProven
<1>2. QED
  BY <1>1, Invariance, PTL

\* The same of the session in a browser's cookie.
THEOREM SessionsAreProven == Spec => []SessionsProven
<1>1. IInv => SessionsProven
  BY DEF IInv, ProvenInv, Proven, SessionsProven
<1>2. QED
  BY <1>1, Invariance, PTL

\* A logout sticks unless a fetch sent before its answer was still under way (telegram_auth, tg.js).
THEOREM LogoutSticks == Spec => []StickyLogout
<1>1. IInv => StickyLogout
  BY DEF IInv, StickyInv, StickyLogout, Live
<1>2. QED
  BY <1>1, Invariance, PTL

\* However many sign-ins count the links of a user at once, those that were counted exceed
\* TG_MAX_LINKS_PER_USER by less than one for each Mini App (TelegramSSOService._link).
THEOREM LinksStayBounded == Spec => []LinksBounded
<1>1. IInv => LinksBounded
  <2> SUFFICES ASSUME IInv, NEW u \in Users
        PROVE Cardinality(LinksOf(u) \ unchecked) < MaxLinks + Cardinality(Opened)
    BY DEF LinksBounded
  <2>1. Cardinality(Capped(u)) < MaxLinks + Cardinality(Opened)
    BY DEF IInv, CapInv, Capped
  <2>2. LinksOf(u) \ unchecked \in SUBSET Capped(u) /\ Capped(u) \in SUBSET Chats
    BY CappedFacts DEF Capped
  <2>3. Cardinality(LinksOf(u) \ unchecked) <= Cardinality(Capped(u))
    BY <2>2, CountFacts, FS_Subset
  <2>4. LinksOf(u) \ unchecked \in SUBSET Chats
    BY <2>2
  <2>5. QED
    BY <2>1, <2>2, <2>3, <2>4, CountFacts, CappedFacts, SignOnAssumption
<1>2. QED
  BY <1>1, Invariance, PTL

\* mark_dead hits only chats that met a 403 since their link was made, or while it was made.
THEOREM DeathsExplained == Spec => []DeadForAReason
<1>1. IInv => DeadForAReason
  BY DEF IInv, DeathInv, DeadForAReason
<1>2. QED
  BY <1>1, Invariance, PTL
====
