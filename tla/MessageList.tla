---- MODULE MessageList ----
(***************************************************************************)
(* Reading SMS (ADR-0014): the list of inbound SMS, newest first, page by  *)
(* page behind a keyset cursor, as /messages renders it and messages.js    *)
(* continues it, while SMS arrive and are committed in any order and       *)
(* numbers, teams and memberships change (Numbers).                        *)
(* What a reader may see is decided by where a number is now.              *)
(***************************************************************************)
EXTENDS Numbers, Sequences, SequencesExt

CONSTANTS MaxMessages, \* bound: ids of SMS
          Times,       \* bound: instants of received_at
          PageSize     \* limit

ASSUME MessageListAssumption ==
  /\ Times \subseteq Nat /\ Times # {} /\ PageSize \in 1..100
  /\ MaxMessages \in Nat

Messages == 1..MaxMessages
NoMessage == 0

VARIABLES
  received, \* ids of the SMS committed
  sentTo,   \* to_number
  time,     \* received_at
  visible,  \* of a list: the numbers its page may show
  cursor,   \* the SMS its next page starts after
  page,     \* the page on its way to the browser
  more,     \* whether that page says there is another
  shown,    \* what the browser shows, in order
  owed      \* history: SMS there when the list was opened, and seeable ever since

messages == <<received, sentTo, time>>
lists    == <<visible, cursor, page, more, shown, owed>>
vars     == <<rows, req, within, reach, due, messages, lists>>

Init ==
  /\ InitNumbers
  /\ received = {} /\ sentTo = [m \in Messages |-> NoPhone]
  /\ time = [m \in Messages |-> 0]
  /\ visible = [r \in Requests |-> {}] /\ cursor = [r \in Requests |-> NoMessage]
  /\ page = [r \in Requests |-> {}] /\ more = {} /\ shown = [r \in Requests |-> <<>>]
  /\ owed = [r \in Requests |-> {}]

----------------------------------------------------------------------------
(* SmsRepository.create stamps a row and INSERTs it, which gives it an id, *)
(* and a commit shows it.  Requests overlap, so that SMS appear in any     *)
(* order of received_at and of id.                                         *)

Receive(m, p, t) ==
  /\ m \notin received
  /\ received' = received \cup {m}
  /\ sentTo' = [sentTo EXCEPT ![m] = p] /\ time' = [time EXCEPT ![m] = t]

----------------------------------------------------------------------------
(* The order of the list, and the page after a cursor.                     *)

\* Mutant: the cursor compares received_at only.
OlderByTime(m, k) == time[m] < time[k]

Older(m, k) == time[m] < time[k] \/ (time[m] = time[k] /\ m < k)

Before(m, k) == time[m] > time[k] \/ (time[m] = time[k] /\ m > k)

(* list_inbound with limit + 1: what is left, and its first PageSize.      *)
Rows(r) ==
  {m \in received : /\ sentTo[m] \in visible[r]
                    /\ req[r].phone # NoPhone => sentTo[m] = req[r].phone
                    /\ cursor[r] # NoMessage => Older(m, cursor[r])}

(* How many rows of S the order puts before m; a page; its rows in order.   *)
Place(S, m) == Cardinality({k \in S : Before(k, m)})

FirstPage(S) == {m \in S : Place(S, m) < PageSize}

InOrder(S) == [i \in 1..Cardinality(S) |-> CHOOSE m \in S : Place(S, m) = i - 1]

(* What user u may see now, with a filter on the team for administrators.  *)
Seeable(u, t) ==
  IF u = Admin THEN IF t = NoTeam THEN Phones ELSE {phone[i] : i \in {j \in numbers : team[j] = t}}
  ELSE {phone[i] : i \in {j \in numbers : team[j] \in belongs[u]}}

----------------------------------------------------------------------------
(* A list is opened with a filter on the number and, by an administrator,  *)
(* on the team; its first page is rendered, the next ones are fetched.     *)
Wanted(u, p, t) ==
  {m \in received : sentTo[m] \in Seeable(u, t) /\ (p # NoPhone => sentTo[m] = p)}

OpenList(r, u, p, t) ==
  /\ CanBegin(r) /\ (u # Admin => t = NoTeam)
  /\ req' = [req EXCEPT ![r] = [@ EXCEPT !.op = "list", !.at = "scoped", !.by = u,
                                         !.scope = ScopeOf(u), !.phone = p, !.team = t]]
  /\ owed' = [owed EXCEPT ![r] = Wanted(u, p, t)]
  /\ UNCHANGED <<visible, cursor, page, more, shown>>

\* Mutant: a list of numbers is not filtered by the teams.
ScopedAlways(r) == {phone[i] : i \in numbers}

Scoped(r) == {phone[i] : i \in {j \in numbers : team[j] \in req[r].scope}}

(* _visible_numbers                                                        *)
VisibleNumbers(r) ==
  /\ req[r].at = "scoped" /\ req[r].op = "list"
  /\ visible' = [visible EXCEPT ![r] = IF req[r].by = Admin THEN Seeable(Admin, req[r].team) ELSE Scoped(r)]
  /\ req' = [req EXCEPT ![r].at = "visible"]
  /\ UNCHANGED <<cursor, page, more, shown, owed>>

ListInbound(r) ==
  /\ req[r].at = "visible"
  /\ page' = [page EXCEPT ![r] = FirstPage(Rows(r))]
  /\ more' = IF Cardinality(Rows(r)) > PageSize THEN more \cup {r} ELSE more \ {r}
  /\ visible' = [visible EXCEPT ![r] = {}]
  /\ req' = [req EXCEPT ![r].at = "sent", ![r].scope = {}]
  /\ UNCHANGED <<cursor, shown, owed>>

(* appendMessages: what is shown already is left out.                      *)
Extended(r) == shown[r] \o InOrder(page[r] \ ToSet(shown[r]))

(* updateMore: the next cursor, or the end of the list, which is forgotten *)
(* here.                                                                   *)
ShowPage(r) ==
  /\ req[r].at = "sent"
  /\ \/ /\ r \in more
        /\ shown' = [shown EXCEPT ![r] = Extended(r)]
        /\ cursor' = [cursor EXCEPT ![r] = Last(InOrder(page[r]))]
        /\ req' = [req EXCEPT ![r].at = "more"]
        /\ UNCHANGED owed
     \/ /\ r \notin more
        /\ shown' = [shown EXCEPT ![r] = <<>>] /\ cursor' = [cursor EXCEPT ![r] = NoMessage]
        /\ owed' = [owed EXCEPT ![r] = {}]
        /\ Finish(r)
  /\ page' = [page EXCEPT ![r] = {}] /\ more' = more \ {r}
  /\ UNCHANGED visible

(* The answer to a fetch is lost: the button may be pressed again.         *)
LosePage(r) ==
  /\ req[r].at = "sent" /\ cursor[r] # NoMessage
  /\ page' = [page EXCEPT ![r] = {}] /\ more' = more \ {r}
  /\ req' = [req EXCEPT ![r].at = "more"]
  /\ UNCHANGED <<visible, cursor, shown, owed>>

(* onMoreClick: a new request, with the user's teams of now.               *)
ClickMore(r) ==
  /\ req[r].at = "more"
  /\ req' = [req EXCEPT ![r].at = "scoped", ![r].scope = ScopeOf(req[r].by)]
  /\ UNCHANGED lists

----------------------------------------------------------------------------
(* Bound: one list is read, apart from the requests of Numbers; SMS come   *)
(* before it or while it is read.                                          *)
Reading == \E r \in Requests : req[r].op = "list"
Apart == \A r \in Requests : req[r].at = "idle" \/ req[r].op = "list"

ListStep(r) ==
  \/ ~Reading /\ \E u \in Users, p \in Phones \cup {NoPhone}, t \in Teams \cup {NoTeam} : OpenList(r, u, p, t)
  \/ VisibleNumbers(r) \/ ListInbound(r) \/ ShowPage(r) \/ LosePage(r) \/ ClickMore(r)

WantedNow(r) == Wanted(req[r].by, req[r].phone, req[r].team)

(* An SMS that its reader cannot see at some moment is owed no more, nor   *)
(* is any when his memberships change, whether or not he is signed out.    *)
Relist ==
  /\ owed' = [r \in Requests |-> IF req'[r].op = "list" /\ Acting(r)' = Acting(r)
                                 THEN owed[r] \cap WantedNow(r)' ELSE {}]
  /\ shown' = [r \in Requests |-> IF req'[r].op = "list" THEN shown[r] ELSE <<>>]
  /\ cursor' = [r \in Requests |-> IF req'[r].op = "list" THEN cursor[r] ELSE NoMessage]

(* While a list is read, numbers are assigned elsewhere.                   *)
Moved(i, t) ==
  /\ i \in numbers /\ t \in (teams \cup {NoTeam}) \ {team[i]}
  /\ changes < MaxChanges /\ changes' = changes + 1
  /\ team' = [team EXCEPT ![i] = t]
  /\ UNCHANGED <<teams, belongs, numbers, phone, req, due>>

Next ==
  \/ /\ Apart
     /\ \E r \in Requests : ListStep(r)
     /\ UNCHANGED <<rows, due, messages>> /\ Watch
  \/ /\ Apart
     /\ \E m \in Messages, p \in Phones, t \in Times : Receive(m, p, t)
     /\ UNCHANGED <<rows, req, within, reach, due, lists>>
  \/ /\ received = {} /\ ~Reading
     /\ \E r \in Requests : NumbersStep(r)
     /\ UNCHANGED <<messages, lists>> /\ Watch
  \/ /\ RosterStep \/ (Reading /\ \E i \in Ids, t \in Teams \cup {NoTeam} : Moved(i, t))
     /\ UNCHANGED <<messages, visible, page, more>> /\ Watch /\ Relist

Spec == Init /\ [][Next]_vars

----------------------------------------------------------------------------
(***************************************************************************)
(* What holds.                                                             *)
(***************************************************************************)

(* Types; ids follow the INSERTs, and only a list has pages.               *)
TypeOK ==
  /\ NumbersTypeOK
  /\ received \subseteq Messages
  /\ sentTo \in [Messages -> Phones \cup {NoPhone}]
  /\ time \in [Messages -> Times \cup {0}]
  /\ visible \in [Requests -> SUBSET Phones] /\ cursor \in [Requests -> Messages \cup {NoMessage}]
  /\ page \in [Requests -> SUBSET Messages] /\ more \subseteq Requests
  /\ \A r \in Requests : /\ Len(shown[r]) <= Cardinality(Messages)
                         /\ ToSet(shown[r]) \subseteq Messages
                         /\ page[r] # {} => req[r].op = "list"
  /\ owed \in [Requests -> SUBSET Messages]

(* A row changes its team only when an assignment of that row commits, or  *)
(* goes back to the pool with its team: no synchronisation ever takes a    *)
(* number away from a team (ADR-0013).                                     *)
Asked(i, o) == \E r \in Requests : Writes(r, o) /\ req[r].id = i

AssignmentsKept ==
  [][\A i \in numbers \cap numbers' :
       /\ phone'[i] = phone[i]
       /\ team'[i] # team[i] => \/ Asked(i, "assign") /\ team'[i] \in teams \cup {NoTeam}
                                \/ team[i] \notin teams' /\ team'[i] = NoTeam
                                \/ Moved(i, team'[i])]_vars

(* Nobody edits a row or is sent an SMS of a number that was at no time    *)
(* during the request in a team that was by then among his own.            *)
OnlyReachable ==
  /\ EditsReachable
  /\ \A r \in Requests : req[r].by # Admin =>
       \A m \in page[r] : \E e \in reach[r] : e[2] = sentTo[m]

(* The pages put together are newest first, with no SMS twice; and the     *)
(* last one leaves out none that was there when the list was opened and    *)
(* could be seen throughout, whatever arrived, was committed late or moved *)
(* in between, and though answers were lost.                               *)
NewestFirst ==
  \A r \in Requests : LET seen == Extended(r) IN \A i, j \in DOMAIN seen : i < j => Before(seen[i], seen[j])

NothingSkipped ==
  \A r \in Requests : req[r].at = "sent" /\ r \notin more => owed[r] \subseteq ToSet(Extended(r))

PagesRight == NewestFirst /\ NothingSkipped
====
