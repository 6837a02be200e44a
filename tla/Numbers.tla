---- MODULE Numbers ----
(***************************************************************************)
(* The rows of `phone_numbers` and the requests that change them: numbers  *)
(* added, renamed and deleted by the members of a team, assigned and       *)
(* synchronised from the Twilio account by an administrator, released when *)
(* their team is deleted.  Every request reads, commits, and writes in a   *)
(* second transaction what the first one has decided.                      *)
(* A phone is a number after normalize_phone; a row is known by its id.    *)
(***************************************************************************)
EXTENDS Naturals, FiniteSets

CONSTANTS Phones, NoPhone,
          Teams, NoTeam,   \* NoTeam: team_id IS NULL, the pool
          Members, Admin,
          MaxChanges,      \* bound: changes of teams and memberships
          MaxIds,          \* bound: ids of phone_numbers, used again when nobody means them
          MaxRequests      \* bound: numbered as they begin

ASSUME NumbersAssumption ==
  /\ NoPhone \notin Phones /\ NoTeam \notin Teams /\ Admin \notin Members
  /\ {MaxChanges, MaxIds, MaxRequests} \subseteq Nat

Ids == 1..MaxIds
NoId == 0
Requests == 1..MaxRequests

VARIABLES
  teams,    \* ids in `teams`
  belongs,  \* user_teams: the teams of each member
  numbers,  \* ids in `phone_numbers`
  phone,    \* phone_number of a row
  team,     \* team_id of a row
  changes,
  req,      \* the requests, and what each has read
  within,   \* history: teams a request's user has been in since it began
  reach,    \* history: rows that were in one of those teams since it began
  due       \* history: phones a synchronisation owes to the pool

rows    == <<teams, belongs, numbers, phone, team, changes>>

Users == Members \cup {Admin}
Ops == {"none", "create", "update", "delete", "assign", "sync", "list"}
Steps == {"idle", "scoped", "write", "visible", "sent", "more", "done"}

Blank == [op |-> "none", at |-> "idle", by |-> Admin, scope |-> {},
          id |-> NoId, phone |-> NoPhone, team |-> NoTeam, list |-> {}]

InitNumbers ==
  /\ teams = Teams
  /\ belongs \in [Members -> (SUBSET Teams) \ {{}}]
  /\ numbers \in {1..n : n \in 0..MaxIds}
  /\ phone \in [Ids -> Phones \cup {NoPhone}] /\ team \in [Ids -> Teams \cup {NoTeam}]
  /\ \A i \in Ids : IF i \in numbers THEN phone[i] # NoPhone ELSE phone[i] = NoPhone /\ team[i] = NoTeam
  /\ \A i, j \in numbers : phone[i] = phone[j] => i = j
  /\ changes = 0
  /\ req = [r \in Requests |-> Blank]
  /\ within = [r \in Requests |-> {}] /\ reach = [r \in Requests |-> {}] /\ due = [r \in Requests |-> {}]

----------------------------------------------------------------------------
Taken(p) == \E i \in numbers : phone[i] = p

(* Ids for n new rows: the least ones that no request still means.         *)
Free == {i \in Ids \ numbers : \A r \in Requests : req[r].id # i /\ \A e \in reach[r] : e[1] # i}

Fresh(n) == {i \in Free : Cardinality({j \in Free : j < i}) < n}

(* A request between its first read and its answer.                        *)
InProgress(r) == req[r].at \in {"scoped", "write", "visible", "sent"}

(* current_scope: all the teams of a member; an administrator needs none.  *)
ScopeOf(u) == IF u = Admin THEN {} ELSE belongs[u]
Acting(r) == ScopeOf(req[r].by)

(* What the user and the numbers have been while a request was running.    *)
Watch ==
  /\ within' = [r \in Requests |-> IF InProgress(r)' THEN within[r] \cup Acting(r)' ELSE {}]
  /\ reach' = [r \in Requests |->
                 IF InProgress(r)'
                 THEN reach[r] \cup {<<i, phone'[i]>> : i \in {j \in numbers' : team'[j] \in within'[r]}}
                 ELSE {}]

CanBegin(r) == req[r].at = "idle" /\ \A q \in Requests : q < r => req[q].at # "idle"

Begin(r, u) ==
  /\ CanBegin(r)
  /\ req' = [req EXCEPT ![r] = [@ EXCEPT !.at = "scoped", !.by = u, !.scope = ScopeOf(u)]]
  /\ UNCHANGED <<rows, due>>

(* Nothing before the first read tells the handlers apart.                 *)
Starts(r) == req[r].at = "scoped" /\ req[r].op = "none"
Writes(r, o) == req[r].at = "write" /\ req[r].op = o
Finish(r) == req' = [req EXCEPT ![r] = [Blank EXCEPT !.at = "done"]]

----------------------------------------------------------------------------
(* POST /api/numbers                                                       *)

MayUse(r, t) == req[r].by = Admin \/ t \in req[r].scope

CheckCreate(r, p, t) ==
  /\ Starts(r)
  /\ IF MayUse(r, t) /\ t \in teams /\ ~Taken(p)
     THEN req' = [req EXCEPT ![r] = [@ EXCEPT !.op = "create", !.at = "write", !.phone = p, !.team = t]]
     ELSE Finish(r)
  /\ UNCHANGED <<rows, due>>

(* The unique index and the foreign key have the last word (500).          *)
Insert(r) ==
  LET p == req[r].phone
      t == req[r].team IN
  /\ Writes(r, "create")
  /\ \/ /\ Taken(p) \/ t \notin teams
        /\ Finish(r) /\ UNCHANGED <<numbers, phone, team>>
     \/ /\ ~Taken(p) /\ t \in teams
        /\ \E i \in Fresh(1) : /\ numbers' = numbers \cup {i}
                               /\ phone' = [phone EXCEPT ![i] = p] /\ team' = [team EXCEPT ![i] = t]
        /\ Finish(r)
  /\ UNCHANGED <<teams, belongs, changes, due>>

----------------------------------------------------------------------------
(* PATCH and DELETE /api/numbers/{id}                                      *)

\* Mutant: any row that has a team will do.
MineAnyTeam(r, i) == req[r].by = Admin \/ team[i] # NoTeam

Mine(r, i) == req[r].by = Admin \/ (team[i] # NoTeam /\ team[i] \in req[r].scope)

FindNumber(r, i, o) ==
  /\ Starts(r)
  /\ IF i \in numbers /\ Mine(r, i)
     THEN req' = [req EXCEPT ![r] = [@ EXCEPT !.op = o, !.at = "write", !.id = i]]
     ELSE Finish(r)
  /\ UNCHANGED <<rows, due>>

(* UPDATE ... WHERE id.  The label itself is not represented.              *)
SetLabel(r) == Writes(r, "update") /\ Finish(r) /\ UNCHANGED <<rows, due>>

DeleteNumber(r) ==
  LET i == req[r].id IN
  /\ Writes(r, "delete")
  /\ numbers' = numbers \ {i}
  /\ phone' = [phone EXCEPT ![i] = NoPhone] /\ team' = [team EXCEPT ![i] = NoTeam]
  /\ due' = [q \in Requests |-> due[q] \ {phone[i]}]
  /\ Finish(r)
  /\ UNCHANGED <<teams, belongs, changes>>

----------------------------------------------------------------------------
(* PATCH /api/admin/numbers/{id}                                           *)

FindAssigned(r, i, t) ==
  /\ Starts(r) /\ req[r].by = Admin
  /\ IF i \in numbers /\ t \in teams \cup {NoTeam}
     THEN req' = [req EXCEPT ![r] = [@ EXCEPT !.op = "assign", !.at = "write", !.id = i, !.team = t]]
     ELSE Finish(r)
  /\ UNCHANGED <<rows, due>>

(* The row may have gone (no effect), or the team (the foreign key, 500).  *)
SetTeam(r) ==
  LET i == req[r].id
      t == req[r].team IN
  /\ Writes(r, "assign")
  /\ IF i \in numbers /\ t \in teams \cup {NoTeam} THEN team' = [team EXCEPT ![i] = t] ELSE UNCHANGED team
  /\ Finish(r)
  /\ UNCHANGED <<teams, belongs, numbers, phone, changes, due>>

----------------------------------------------------------------------------
(* POST /api/admin/numbers/sync                                            *)

(* All the pages of the account's numbers, fetched in a thread, then       *)
(* normalised and without repetitions; or Twilio fails (502).              *)
ListAccount(r, S) ==
  /\ Starts(r) /\ req[r].by = Admin
  /\ req' = [req EXCEPT ![r] = [@ EXCEPT !.op = "sync", !.at = "write", !.list = S]]
  /\ due' = [due EXCEPT ![r] = S]
  /\ UNCHANGED rows

TwilioFails(r) == Starts(r) /\ req[r].by = Admin /\ Finish(r) /\ UNCHANGED <<rows, due>>

\* Mutant: without ON CONFLICT DO NOTHING, one known number fails the batch.
MissingOrNone(S) == IF \E p \in S : Taken(p) THEN {} ELSE S

Missing(S) == {p \in S : ~Taken(p)}

\* Mutant: ON CONFLICT DO UPDATE SET team_id = EXCLUDED.team_id.
TeamsReset(S, new) ==
  [i \in Ids |-> IF i \in new \/ (i \in numbers /\ phone[i] \in S) THEN NoTeam ELSE team[i]]

TeamsAfter(S, new) == [i \in Ids |-> IF i \in new THEN NoTeam ELSE team[i]]

BulkUpsert(r) ==
  LET S == req[r].list IN
  /\ Writes(r, "sync")
  /\ \E new \in [Missing(S) -> Fresh(Cardinality(Missing(S)))] :
       LET ids == {new[p] : p \in Missing(S)} IN
       /\ \A p, q \in Missing(S) : new[p] = new[q] => p = q
       /\ numbers' = numbers \cup ids
       /\ phone' = [i \in Ids |-> IF i \in ids THEN CHOOSE p \in Missing(S) : new[p] = i ELSE phone[i]]
       /\ team' = TeamsAfter(S, ids)
  /\ Finish(r)
  /\ UNCHANGED <<teams, belongs, changes, due>>

----------------------------------------------------------------------------
(* Teams and memberships (TeamRoster).  Whoever loses or gains a team      *)
(* loses the sessions, and a list of theirs goes no further, unless one    *)
(* was stored between the revocation and the COMMIT (RosterSessions).      *)
SignedOut(us) ==
  \E kept \in SUBSET us :
    req' = [r \in Requests |-> IF req[r].at = "more" /\ req[r].by \in us \ kept
                               THEN [Blank EXCEPT !.at = "done"] ELSE req[r]]

\* Mutant: the foreign key has no ON DELETE SET NULL.
ReleasedNone(t) == team

Released(t) == [i \in Ids |-> IF team[i] = t THEN NoTeam ELSE team[i]]

DeleteTeam(t) ==
  /\ t \in teams /\ \A u \in Members : belongs[u] # {t}
  /\ changes < MaxChanges /\ changes' = changes + 1
  /\ teams' = teams \ {t} /\ team' = Released(t)
  /\ belongs' = [u \in Members |-> belongs[u] \ {t}]
  /\ SignedOut({u \in Members : t \in belongs[u]})
  /\ UNCHANGED <<numbers, phone, due>>

ChangeTeams(u, T) ==
  /\ T \in (SUBSET teams) \ {{}, belongs[u]}
  /\ changes < MaxChanges /\ changes' = changes + 1
  /\ belongs' = [belongs EXCEPT ![u] = T]
  /\ SignedOut({u})
  /\ UNCHANGED <<teams, numbers, phone, team, due>>

----------------------------------------------------------------------------
NumbersStep(r) ==
  \/ \E u \in Users : Begin(r, u)
  \/ \E p \in Phones, t \in Teams : CheckCreate(r, p, t)
  \/ Insert(r)
  \/ \E i \in Ids, o \in {"update", "delete"} : FindNumber(r, i, o)
  \/ SetLabel(r) \/ DeleteNumber(r)
  \/ \E i \in Ids, t \in Teams \cup {NoTeam} : FindAssigned(r, i, t)
  \/ SetTeam(r)
  \/ \E S \in SUBSET Phones : ListAccount(r, S)
  \/ TwilioFails(r) \/ BulkUpsert(r)

RosterStep ==
  \/ \E t \in Teams : DeleteTeam(t)
  \/ \E u \in Members, T \in SUBSET Teams : ChangeTeams(u, T)

----------------------------------------------------------------------------
(***************************************************************************)
(* What holds of the numbers.                                              *)
(***************************************************************************)

(* Types; a phone has one row (its unique index), a row's team exists (the *)
(* foreign key), and a request means a row only by an id nobody has reused.*)
NumbersTypeOK ==
  /\ teams \subseteq Teams /\ belongs \in [Members -> (SUBSET teams) \ {{}}]
  /\ numbers \subseteq Ids
  /\ phone \in [Ids -> Phones \cup {NoPhone}] /\ team \in [Ids -> teams \cup {NoTeam}]
  /\ \A i \in Ids : i \in numbers <=> phone[i] # NoPhone
  /\ \A i, j \in numbers : phone[i] = phone[j] => i = j
  /\ req \in [Requests -> [op : Ops, at : Steps, by : Users, scope : SUBSET Teams, id : Ids \cup {NoId},
                           phone : Phones \cup {NoPhone}, team : Teams \cup {NoTeam},
                           list : SUBSET Phones]]
  /\ within \in [Requests -> SUBSET Teams] /\ reach \in [Requests -> SUBSET (Ids \X Phones)]
  /\ due \in [Requests -> SUBSET Phones] /\ changes \in 0..MaxChanges

(* After a synchronisation every number it has listed has a row, unless it *)
(* was deleted since the listing: a batch that meets known numbers, or     *)
(* races with another one or with an added number, loses nothing.          *)
SyncComplete == \A r \in Requests : req[r].at = "done" => \A p \in due[r] : Taken(p)

(* A member renames or deletes only a row that, while the request ran, was *)
(* in a team he was then in or had been in; and adds one only to such a    *)
(* team, however memberships and assignments change under the request.     *)
EditsReachable ==
  \A r \in Requests : req[r].at = "write" /\ req[r].by # Admin =>
    /\ req[r].op \in {"update", "delete"} => \E e \in reach[r] : e[1] = req[r].id
    /\ req[r].op = "create" => req[r].team \in within[r]
====
