---- MODULE MessageListProofs ----
(***************************************************************************)
(* The invariants of MessageList for any sets of phones, teams, members    *)
(* and instants, and any number of requests, rows, changes and messages.   *)
(***************************************************************************)
EXTENDS MessageList, FiniteSetTheorems, SequenceTheorems, TLAPS

\* NumbersTypeOK in three parts: the tables, the requests, their history.
RowsOK ==
  /\ teams \subseteq Teams /\ belongs \in [Members -> (SUBSET teams) \ {{}}]
  /\ numbers \subseteq Ids
  /\ phone \in [Ids -> Phones \cup {NoPhone}] /\ team \in [Ids -> teams \cup {NoTeam}]
  /\ \A i \in Ids : i \in numbers <=> phone[i] # NoPhone
  /\ \A i, j \in numbers : phone[i] = phone[j] => i = j
  /\ changes \in 0..MaxChanges
RequestRecords == [op : Ops, at : Steps, by : Users, scope : SUBSET Teams, id : Ids \cup {NoId},
                   phone : Phones \cup {NoPhone}, team : Teams \cup {NoTeam}, list : SUBSET Phones]
ReqOK == req \in [Requests -> RequestRecords] /\ due \in [Requests -> SUBSET Phones]
MessagesOK == sentTo \in [Messages -> Phones \cup {NoPhone}] /\ received \subseteq Messages
CreatesPhone == \A r \in Requests : Writes(r, "create") => req[r].phone \in Phones
HistoryOK == within \in [Requests -> SUBSET Teams] /\ reach \in [Requests -> SUBSET (Ids \X Phones)]

\* A list's numbers and page exist only between the steps that make and use them.
ListsOK ==
  /\ visible \in [Requests -> SUBSET Phones] /\ page \in [Requests -> SUBSET received]
  /\ \A r \in Requests : /\ visible[r] # {} => req[r].at = "visible"
                         /\ page[r] # {} => req[r].at = "sent"

\* The teams a request has read of its user are teams he has been in since it began.
ScopeInv == \A r \in Requests : req[r].by # Admin /\ req[r].at = "scoped" => req[r].scope \subseteq within[r]

\* A page, and the numbers it is made from, were within the user's reach.
ReachInv ==
  /\ EditsReachable
  /\ \A r \in Requests : req[r].by # Admin =>
       /\ \A p \in visible[r] : \E e \in reach[r] : e[2] = p
       /\ \A m \in page[r] : \E e \in reach[r] : e[2] = sentTo[m]

\* Only a synchronisation owes phones: to its own batch, and once it has ended they have rows.
DueInv ==
  \A r \in Requests : due[r] # {} =>
    \/ req[r].at = "write" /\ req[r].op = "sync" /\ due[r] \subseteq req[r].list
    \/ req[r].at = "done" /\ \A p \in due[r] : Taken(p)

TimesOK == time \in [Messages -> Times \cup {0}]

\* Newest first, with no repetition.
Sorted(s) == \A i, j \in DOMAIN s : i < j => Before(s[i], s[j])

\* Where a list can be, and what nothing else has.
OpOK(r) ==
  /\ req[r].at \in {"visible", "sent", "more"} => req[r].op = "list"
  /\ req[r].at \in {"idle", "write", "done"} => req[r].op # "list"

\* What is shown is in order, up to the cursor; the page on its way comes after it.
ShownOK(r) ==
  /\ ToSet(shown[r]) \subseteq received /\ Sorted(shown[r])
  /\ IF cursor[r] = NoMessage THEN shown[r] = <<>> ELSE shown[r] # <<>> /\ cursor[r] = Last(shown[r])
  /\ req[r].op # "list" => shown[r] = <<>> /\ owed[r] = {}
  /\ cursor[r] # NoMessage => \A m \in page[r] : Before(cursor[r], m)
  /\ r \in more => req[r].at = "sent" /\ page[r] # {}

\* What is owed is seeable still, and is shown already, on its way, or yet to come.
OwedOK(r) ==
  /\ owed[r] \subseteq WantedNow(r)
  /\ req[r].at = "scoped" /\ req[r].by # Admin => owed[r] = {} \/ req[r].scope = belongs[req[r].by]
  /\ \A m \in owed[r] :
       /\ m \in ToSet(shown[r]) \/ cursor[r] = NoMessage \/ Before(cursor[r], m)
       /\ req[r].at = "visible" => sentTo[m] \in visible[r]
       /\ req[r].at = "sent" => \/ m \in ToSet(shown[r]) \cup page[r]
                                \/ r \in more /\ \A k \in page[r] : Before(k, m)

PageInv ==
  /\ TimesOK /\ more \subseteq Requests
  /\ cursor \in [Requests -> Messages \cup {NoMessage}]
  /\ shown \in [Requests -> Seq(Messages)] /\ owed \in [Requests -> SUBSET received]
  /\ \A r \in Requests : OpOK(r) /\ ShownOK(r) /\ OwedOK(r)

----------------------------------------------------------------------------
(* Lemmas about single operators.                                          *)

LEMMA NumbersParts == NumbersTypeOK <=> RowsOK /\ ReqOK /\ HistoryOK
BY DEF NumbersTypeOK, RowsOK, ReqOK, HistoryOK, RequestRecords

LEMMA FreshIsNew == \A n : Fresh(n) \subseteq Ids \ numbers
BY DEF Fresh, Free

\* What Watch keeps of a request in progress.
LEMMA WatchFacts ==
  Watch => \A r \in Requests : InProgress(r)' =>
    /\ within[r] \subseteq within'[r] /\ Acting(r)' \subseteq within'[r]
    /\ reach[r] \subseteq reach'[r]
    /\ \A i \in numbers' : team'[i] \in within'[r] => <<i, phone'[i]>> \in reach'[r]
BY DEF Watch

----------------------------------------------------------------------------
(* The order of the list.                                                  *)

(* `received_at DESC, id DESC` orders any two different messages, one way; *)
(* the keyset comparison is the other way round.                           *)
LEMMA BeforeOrders ==
  ASSUME TimesOK
  PROVE  /\ \A a \in Messages : ~Before(a, a)
         /\ \A a, b \in Messages : a # b => (Before(a, b) <=> ~Before(b, a))
         /\ \A a, b, c \in Messages : Before(a, b) /\ Before(b, c) => Before(a, c)
         /\ \A a, b \in Messages : Older(a, b) <=> Before(b, a)
<1>1. /\ Messages \subseteq Nat
      /\ \A m \in Messages : time[m] \in Nat
  <2>1. \A x \in Times \cup {0} : x \in Nat
    BY MessageListAssumption
  <2>2. \A m \in Messages : time[m] \in Times \cup {0}
    BY DEF TimesOK
  <2>3. Messages \subseteq Nat
    BY DEF Messages
  <2>4. QED
    BY <2>1, <2>2, <2>3, Zenon
<1>2. \A a \in Messages : ~Before(a, a)
  BY <1>1 DEF Before
<1>3. ASSUME NEW a \in Messages, NEW b \in Messages
      PROVE  (a # b => (Before(a, b) <=> ~Before(b, a))) /\ (Older(a, b) <=> Before(b, a))
  <2>1. a \in Nat /\ b \in Nat /\ time[a] \in Nat /\ time[b] \in Nat
    BY <1>1
  <2>2. QED
    BY <2>1 DEF Before, Older
<1>4. ASSUME NEW a \in Messages, NEW b \in Messages, NEW c \in Messages, Before(a, b), Before(b, c)
      PROVE  Before(a, c)
  <2>1. a \in Nat /\ b \in Nat /\ c \in Nat /\ time[a] \in Nat /\ time[b] \in Nat /\ time[c] \in Nat
    BY <1>1
  <2>2. QED
    BY <1>4, <2>1 DEF Before
<1>5. QED
  BY <1>2, <1>3, <1>4

LEMMA FewMessages == IsFiniteSet(Messages) /\ Cardinality(Messages) = MaxMessages
  BY FS_Interval, MessageListAssumption DEF Messages

LEMMA SetsAreFinite ==
  ASSUME NEW S \in SUBSET Messages
  PROVE  IsFiniteSet(S) /\ Cardinality(S) \in Nat
  BY FewMessages, FS_Subset, FS_CardinalityType

\* The place of a message among some: how many of them are listed before it.
LEMMA Places ==
  ASSUME TimesOK, NEW S \in SUBSET Messages
  PROVE  /\ \A m \in S : Place(S, m) \in 0..(Cardinality(S) - 1)
         /\ \A k, m \in S : Before(k, m) <=> Place(S, k) < Place(S, m)
         /\ \A k, m \in S : Place(S, k) = Place(S, m) => k = m
<1> DEFINE Ahead(m) == {k \in S : Before(k, m)}
<1>1. \A m \in S : IsFiniteSet(Ahead(m)) /\ Cardinality(Ahead(m)) \in Nat
  BY SetsAreFinite
<1>2. \A m \in S : Place(S, m) = Cardinality(Ahead(m))
  BY DEF Place
<1>3. ASSUME NEW m \in S PROVE Cardinality(Ahead(m)) < Cardinality(S)
  <2>1. Ahead(m) \in SUBSET S /\ m \notin Ahead(m)
    BY BeforeOrders
  <2>2. IsFiniteSet(S) /\ Cardinality(S) \in Nat
    BY SetsAreFinite
  <2> HIDE DEF Ahead
  <2>3. Cardinality(Ahead(m)) <= Cardinality(S) /\ Cardinality(Ahead(m)) # Cardinality(S)
    BY <2>1, <2>2, FS_Subset
  <2>4. QED
    BY <1>1, <2>2, <2>3
<1>4. ASSUME NEW k \in S, NEW m \in S, Before(k, m) PROVE Cardinality(Ahead(k)) < Cardinality(Ahead(m))
  <2>1. Ahead(k) \in SUBSET Ahead(m)
    BY <1>4, BeforeOrders
  <2>2. k \in Ahead(m) /\ k \notin Ahead(k)
    BY <1>4, BeforeOrders
  <2>3. IsFiniteSet(Ahead(m)) /\ Cardinality(Ahead(m)) \in Nat /\ Cardinality(Ahead(k)) \in Nat
    BY <1>1
  <2> HIDE DEF Ahead
  <2>4. Cardinality(Ahead(k)) <= Cardinality(Ahead(m)) /\ Cardinality(Ahead(k)) # Cardinality(Ahead(m))
    BY <2>1, <2>2, <2>3, FS_Subset
  <2>5. QED
    BY <2>3, <2>4
<1>5. \A m \in S : Place(S, m) \in 0..(Cardinality(S) - 1)
  <2> HIDE DEF Ahead
  <2>1. Cardinality(S) \in Nat
    BY SetsAreFinite
  <2>2. QED
    BY <1>1, <1>2, <1>3, <2>1
<1>6. \A k, m \in S : Before(k, m) => Place(S, k) < Place(S, m)
  BY <1>2, <1>4
<1>7. \A k, m \in S : k = m \/ Before(k, m) \/ Before(m, k)
  BY BeforeOrders
<1>8. QED
  BY <1>5, <1>6, <1>7

\* Every place is somebody's.
LEMMA PlacesFilled ==
  ASSUME TimesOK, NEW S \in SUBSET Messages
  PROVE  \A i \in 1..Cardinality(S) : \E m \in S : Place(S, m) = i - 1
<1> DEFINE n == Cardinality(S)
           f == [m \in S |-> Place(S, m) + 1]
<1>1. IsFiniteSet(S) /\ n \in Nat
  BY SetsAreFinite
<1>2. \A m \in S : Place(S, m) \in 0..(n - 1)
  BY Places
<1>3. f \in [S -> 1..n]
  BY <1>1, <1>2
<1>4. \A k, m \in S : f[k] = f[m] => k = m
  BY <1>1, <1>2, Places
<1>5. f \in Injection(S, 1..n)
  BY <1>3, <1>4 DEF Injection, IsInjective
<1>6. IsFiniteSet(1..n) /\ Cardinality(1..n) = n
  BY <1>1, FS_Interval
<1>7. f \in Surjection(S, 1..n)
  BY <1>5, <1>6, FS_Injection
<1>8. \A i \in 1..n : \E m \in S : f[m] = i
  BY <1>7 DEF Surjection
<1>9. QED
  BY <1>1, <1>2, <1>8

\* A set in order: a sequence of all its members, newest first.
LEMMA Ordered ==
  ASSUME TimesOK, NEW S \in SUBSET Messages
  PROVE  /\ InOrder(S) \in Seq(S) /\ Len(InOrder(S)) = Cardinality(S)
         /\ ToSet(InOrder(S)) = S /\ Sorted(InOrder(S))
<1> DEFINE n == Cardinality(S)
           s == InOrder(S)
<1>1. IsFiniteSet(S) /\ n \in Nat
  BY SetsAreFinite
<1>2. \A i \in 1..n : s[i] \in S /\ Place(S, s[i]) = i - 1
  BY PlacesFilled DEF InOrder
<1>3. s \in [1..n -> S]
  BY <1>2 DEF InOrder
<1>4. s \in Seq(S) /\ Len(s) = n /\ DOMAIN s = 1..n
  BY <1>1, <1>3, SeqDef, LenProperties
<1>5. Sorted(s)
  BY <1>1, <1>2, <1>4, Places DEF Sorted
<1>6. \A m \in S : \E i \in 1..n : s[i] = m
  <2> SUFFICES ASSUME NEW m \in S PROVE \E i \in 1..n : s[i] = m
    OBVIOUS
  <2>1. Place(S, m) \in 0..(n - 1)
    BY Places
  <2>2. Place(S, m) + 1 \in 1..n
    BY <1>1, <2>1
  <2>3. s[Place(S, m) + 1] = m
    BY <1>1, <1>2, <2>1, <2>2, Places
  <2>4. QED
    BY <2>2, <2>3
<1>7. ToSet(s) = S
  BY <1>2, <1>4, <1>6 DEF ToSet
<1>8. QED
  BY <1>4, <1>5, <1>7

\* A first page takes the newest, and takes all when they fit.
LEMMA FirstPages ==
  ASSUME TimesOK, NEW S \in SUBSET Messages
  PROVE  /\ FirstPage(S) \subseteq S
         /\ \A k, m \in S : m \in FirstPage(S) /\ k \notin FirstPage(S) => Before(m, k)
         /\ Cardinality(S) <= PageSize => FirstPage(S) = S
         /\ S # {} => FirstPage(S) # {}
<1> DEFINE n == Cardinality(S)
<1>1. n \in Nat /\ PageSize \in Nat /\ PageSize >= 1
  BY SetsAreFinite, MessageListAssumption
<1>2. \A m \in S : Place(S, m) \in 0..(n - 1)
  BY Places
<1>3. \A k, m \in S : m \in FirstPage(S) /\ k \notin FirstPage(S) => Before(m, k)
  BY <1>1, <1>2, Places DEF FirstPage
<1>4. n <= PageSize => FirstPage(S) = S
  BY <1>1, <1>2 DEF FirstPage
<1>5. ASSUME S # {} PROVE FirstPage(S) # {}
  <2>1. n # 0
    BY <1>5, SetsAreFinite, FS_EmptySet
  <2>2. 1 \in 1..n /\ 1 - 1 = 0
    BY <1>1, <2>1
  <2>3. PICK m \in S : Place(S, m) = 0
    BY <2>2, PlacesFilled
  <2>4. QED
    BY <1>1, <2>3 DEF FirstPage
<1>6. QED
  BY <1>3, <1>4, <1>5 DEF FirstPage

\* In a sorted sequence nothing comes after the last one, and nothing twice.
LEMMA SortedFacts ==
  ASSUME TimesOK, NEW s \in Seq(Messages), Sorted(s)
  PROVE  /\ \A m \in ToSet(s) : m = Last(s) \/ Before(m, Last(s))
         /\ Len(s) <= Cardinality(Messages)
         /\ s # <<>> => Last(s) \in ToSet(s)
<1>1. /\ Len(s) \in Nat /\ DOMAIN s = 1..Len(s) /\ s \in [1..Len(s) -> Messages]
      /\ s # <<>> => Len(s) # 0
  BY LenProperties, EmptySeq
<1>2. \A m \in ToSet(s) : m = Last(s) \/ Before(m, Last(s))
  <2> SUFFICES ASSUME NEW i \in 1..Len(s) PROVE s[i] = s[Len(s)] \/ Before(s[i], s[Len(s)])
    BY <1>1 DEF ToSet, Last
  <2>1. Len(s) \in Nat
    BY <1>1
  <2>2. Len(s) \in 1..Len(s) /\ (i = Len(s) \/ i < Len(s))
    BY <2>1
  <2>3. QED
    BY <1>1, <2>2 DEF Sorted
<1>3. Len(s) <= Cardinality(Messages)
  <2>1. \A i, j \in 1..Len(s) : s[i] = s[j] => i = j
    <3> SUFFICES ASSUME NEW i \in 1..Len(s), NEW j \in 1..Len(s), i < j PROVE s[i] # s[j]
      BY <1>1
    <3>1. Before(s[i], s[j]) /\ s[i] \in Messages
      BY <1>1 DEF Sorted
    <3>2. QED
      BY <3>1, BeforeOrders
  <2>2. s \in Injection(1..Len(s), Messages)
    BY <1>1, <2>1 DEF Injection, IsInjective
  <2>3. Len(s) \in Nat
    BY <1>1
  <2>4. Cardinality(1..Len(s)) = Len(s)
    BY <2>3, FS_Interval
  <2>5. QED
    BY <2>2, <2>4, FewMessages, FS_Injection
<1>4. s # <<>> => Last(s) \in ToSet(s)
  BY <1>1 DEF Last, ToSet
<1>5. QED
  BY <1>2, <1>3, <1>4

\* A page of messages that all come after the last one shown is put behind it.
LEMMA Appended ==
  ASSUME TimesOK, NEW s \in Seq(Messages), Sorted(s), NEW P \in SUBSET Messages,
         s # <<>> => \A m \in P : Before(Last(s), m)
  PROVE  LET e == s \o InOrder(P \ ToSet(s)) IN
         /\ e \in Seq(Messages) /\ Sorted(e) /\ ToSet(e) = ToSet(s) \cup P
         /\ P # {} => e # <<>> /\ Last(e) = Last(InOrder(P))
<1> DEFINE p == InOrder(P)
           e == s \o InOrder(P \ ToSet(s))
<1>1. P \ ToSet(s) = P
  <2> SUFFICES ASSUME NEW m \in P, m \in ToSet(s) PROVE FALSE
    OBVIOUS
  <2>1. s # <<>> /\ Last(s) \in Messages
    <3>1. s # <<>>
      BY DEF ToSet
    <3>2. QED
      BY <3>1, SortedFacts DEF ToSet
  <2>2. Before(Last(s), m) /\ (m = Last(s) \/ Before(m, Last(s)))
    BY <2>1, SortedFacts
  <2>3. QED
    BY <2>1, <2>2, BeforeOrders
<1>2. p \in Seq(P) /\ Len(p) = Cardinality(P) /\ ToSet(p) = P /\ Sorted(p)
  BY Ordered
<1>3. p \in Seq(Messages)
  BY <1>2, SeqMonotonic
<1> HIDE DEF p
<1>4. e = s \o p
  BY <1>1 DEF p
<1> HIDE DEF e
<1>5. /\ Len(s) \in Nat /\ Len(p) \in Nat /\ DOMAIN s = 1..Len(s) /\ DOMAIN p = 1..Len(p)
      /\ s \in [1..Len(s) -> Messages] /\ p \in [1..Len(p) -> Messages]
      /\ e \in Seq(Messages) /\ Len(e) = Len(s) + Len(p) /\ DOMAIN e = 1..(Len(s) + Len(p))
  BY <1>3, <1>4, LenProperties, ConcatProperties
<1>6. \A i \in 1..(Len(s) + Len(p)) : e[i] = IF i <= Len(s) THEN s[i] ELSE p[i - Len(s)]
  BY <1>3, <1>4, ConcatProperties
<1>7. ToSet(e) = ToSet(s) \cup P
  <2>1. Range(e) = Range(s) \cup Range(p)
    BY <1>3, <1>4, RangeConcatenation
  <2>2. Range(e) = ToSet(e) /\ Range(s) = ToSet(s) /\ Range(p) = ToSet(p)
    BY DEF Range, ToSet
  <2>3. QED
    BY <1>2, <2>1, <2>2
<1>8. Sorted(e)
  <2> SUFFICES ASSUME NEW i \in 1..(Len(s) + Len(p)), NEW j \in 1..(Len(s) + Len(p)), i < j
               PROVE  Before(e[i], e[j])
    BY <1>5 DEF Sorted
  <2>1. CASE j <= Len(s)
    BY <1>5, <1>6, <2>1 DEF Sorted
  <2>2. CASE i > Len(s)
    <3>1. i - Len(s) \in 1..Len(p) /\ j - Len(s) \in 1..Len(p) /\ i - Len(s) < j - Len(s)
      BY <1>5, <2>2
    <3>2. e[i] = p[i - Len(s)] /\ e[j] = p[j - Len(s)]
      BY <1>5, <1>6, <2>2
    <3>3. QED
      BY <1>2, <1>5, <3>1, <3>2 DEF Sorted
  <2>3. CASE i <= Len(s) /\ j > Len(s)
    <3>1. e[i] = s[i] /\ e[j] = p[j - Len(s)] /\ i \in 1..Len(s) /\ j - Len(s) \in 1..Len(p)
      BY <1>5, <1>6, <2>3
    <3>2. e[i] \in ToSet(s) /\ e[j] \in P /\ s # <<>>
      <4>1. e[i] \in ToSet(s) /\ s # <<>>
        BY <1>5, <3>1, EmptySeq DEF ToSet
      <4>2. e[j] \in ToSet(p)
        BY <1>5, <3>1 DEF ToSet
      <4>3. QED
        BY <1>2, <4>1, <4>2
    <3>3. e[i] \in Messages /\ e[j] \in Messages /\ Last(s) \in Messages
      BY <1>5, <3>1, <3>2, SortedFacts DEF ToSet
    <3>4. Before(Last(s), e[j]) /\ (e[i] = Last(s) \/ Before(e[i], Last(s)))
      BY <3>2, SortedFacts
    <3>5. QED
      BY <3>3, <3>4, BeforeOrders
  <2>4. QED
    BY <1>5, <2>1, <2>2, <2>3
<1>9. ASSUME P # {} PROVE e # <<>> /\ Last(e) = Last(p)
  <2>1. Len(p) # 0
    BY <1>2, <1>9, SetsAreFinite, FS_EmptySet
  <2>2. Len(e) \in 1..(Len(s) + Len(p)) /\ Len(e) > Len(s) /\ Len(e) - Len(s) = Len(p) /\ Len(e) # 0
    BY <1>5, <2>1
  <2>3. e[Len(e)] = p[Len(p)]
    BY <1>5, <1>6, <2>2
  <2>4. QED
    BY <2>2, <2>3, EmptySeq DEF Last
<1>10. QED
  BY <1>5, <1>7, <1>8, <1>9 DEF e, p

----------------------------------------------------------------------------
(* Types.                                                                  *)

LEMMA RowsStep == RowsOK /\ ReqOK /\ CreatesPhone /\ [Next]_vars => RowsOK'
<1> SUFFICES ASSUME RowsOK, ReqOK, CreatesPhone, [Next]_vars PROVE RowsOK'
  OBVIOUS
<1> USE NumbersAssumption DEF RowsOK, rows
<1>1. ASSUME NEW r \in Requests, NEW u \in Users, Begin(r, u), UNCHANGED <<messages, lists>>, Watch PROVE RowsOK'
  BY <1>1 DEF Begin, CanBegin
<1>2. ASSUME NEW r \in Requests, NEW p \in Phones, NEW t \in Teams, CheckCreate(r, p, t), UNCHANGED <<messages,
      lists>>, Watch PROVE RowsOK'
  BY <1>2 DEF CheckCreate, Starts, MayUse, Finish, Blank
<1>3. ASSUME NEW r \in Requests, Insert(r), UNCHANGED <<messages, lists>>, Watch PROVE RowsOK'
  <2> DEFINE p == req[r].phone
             t == req[r].team
  <2>1. CASE UNCHANGED <<numbers, phone, team>>
    BY <1>3, <2>1 DEF Insert
  <2>2. CASE ~UNCHANGED <<numbers, phone, team>>
    <3>1. /\ ~Taken(p) /\ t \in teams
          /\ \E i \in Fresh(1) : /\ numbers' = numbers \cup {i}
                                 /\ phone' = [phone EXCEPT ![i] = p] /\ team' = [team EXCEPT ![i] = t]
      BY <1>3, <2>2 DEF Insert
    <3>2. PICK i \in Fresh(1) : /\ numbers' = numbers \cup {i}
                                /\ phone' = [phone EXCEPT ![i] = p] /\ team' = [team EXCEPT ![i] = t]
      BY <3>1
    <3>3. i \in Ids \ numbers /\ UNCHANGED <<teams, belongs, changes>> /\ p \in Phones
      BY <1>3, FreshIsNew DEF Insert, CreatesPhone
    <3>4. QED
      BY <3>1, <3>2, <3>3 DEF Taken
  <2>3. QED
    BY <2>1, <2>2
<1>4. ASSUME NEW r \in Requests, NEW i \in Ids, NEW o \in {"update", "delete"}, FindNumber(r, i, o),
      UNCHANGED <<messages, lists>>, Watch PROVE RowsOK'
  BY <1>4 DEF FindNumber, Starts, Mine, Finish, Blank
<1>5. ASSUME NEW r \in Requests, SetLabel(r), UNCHANGED <<messages, lists>>, Watch PROVE RowsOK'
  BY <1>5 DEF SetLabel, Writes, Finish, Blank
<1>6. ASSUME NEW r \in Requests, DeleteNumber(r), UNCHANGED <<messages, lists>>, Watch PROVE RowsOK'
  BY <1>6 DEF DeleteNumber, Writes, Finish, Blank
<1>7. ASSUME NEW r \in Requests, NEW i \in Ids, NEW t \in Teams \cup {NoTeam}, FindAssigned(r, i, t),
      UNCHANGED <<messages, lists>>, Watch PROVE RowsOK'
  BY <1>7 DEF FindAssigned, Starts, Finish, Blank
<1>8. ASSUME NEW r \in Requests, SetTeam(r), UNCHANGED <<messages, lists>>, Watch PROVE RowsOK'
  BY <1>8 DEF SetTeam, Writes, Finish, Blank
<1>9. ASSUME NEW r \in Requests, NEW S \in SUBSET Phones, ListAccount(r, S), UNCHANGED <<messages, lists>>,
      Watch PROVE RowsOK'
  BY <1>9 DEF ListAccount, Starts
<1>10. ASSUME NEW r \in Requests, TwilioFails(r), UNCHANGED <<messages, lists>>, Watch PROVE RowsOK'
  BY <1>10 DEF TwilioFails, Starts, Finish, Blank
<1>11. ASSUME NEW r \in Requests, BulkUpsert(r), UNCHANGED <<messages, lists>>, Watch PROVE RowsOK'
  <2> DEFINE S == req[r].list
  <2>1. PICK new \in [Missing(S) -> Fresh(Cardinality(Missing(S)))] :
          LET ids == {new[p] : p \in Missing(S)} IN
          /\ \A p, q \in Missing(S) : new[p] = new[q] => p = q
          /\ numbers' = numbers \cup ids
          /\ phone' = [i \in Ids |-> IF i \in ids THEN CHOOSE p \in Missing(S) : new[p] = i ELSE phone[i]]
          /\ team' = TeamsAfter(S, ids)
    BY <1>11 DEF BulkUpsert
  <2> DEFINE ids == {new[p] : p \in Missing(S)}
  <2>2. Missing(S) \subseteq Phones /\ ids \subseteq Ids \ numbers
    <3>1. S \subseteq Phones
      BY DEF ReqOK, RequestRecords
    <3>2. Missing(S) \subseteq S
      BY DEF Missing
    <3>3. \A p \in Missing(S) : new[p] \in Ids \ numbers
      BY FreshIsNew
    <3>4. QED
      BY <3>1, <3>2, <3>3
  <2>3. \A i \in ids : phone'[i] \in Missing(S) /\ new[phone'[i]] = i
    BY <2>1, <2>2
  <2>4. \A i \in Ids \ ids : phone'[i] = phone[i]
    BY <2>1
  <2>5. numbers' = numbers \cup ids /\ team' = TeamsAfter(S, ids)
    BY <2>1
  <2>6. UNCHANGED <<teams, belongs, changes>>
    BY <1>11 DEF BulkUpsert
  <2>7. phone' \in [Ids -> Phones \cup {NoPhone}]
    <3>1. \A i \in Ids : phone'[i] \in Phones \cup {NoPhone}
      BY <2>2, <2>3, <2>4
    <3>2. phone' = [i \in Ids |-> phone'[i]]
      BY <2>1
    <3>3. QED
      BY <3>1, <3>2
  <2>8. team' \in [Ids -> teams' \cup {NoTeam}]
    BY <2>5, <2>6 DEF TeamsAfter
  <2>9. \A i \in Ids : i \in numbers' <=> phone'[i] # NoPhone
    BY <2>2, <2>3, <2>4, <2>5
  <2>10. ASSUME NEW i \in numbers', NEW j \in numbers', phone'[i] = phone'[j] PROVE i = j
    <3>1. CASE i \in ids /\ j \in ids
      BY <2>3, <2>10, <3>1
    <3>2. CASE i \notin ids /\ j \notin ids
      BY <2>4, <2>5, <2>10, <3>2
    <3>3. ASSUME NEW k \in ids, NEW l \in numbers \ ids, phone'[k] = phone'[l] PROVE FALSE
      <4>1. phone'[l] = phone[l] /\ phone'[k] \in Missing(S)
        BY <2>3, <2>4, <3>3
      <4>2. QED
        BY <3>3, <4>1 DEF Missing, Taken
    <3>4. QED
      BY <2>5, <2>10, <3>1, <3>2, <3>3
  <2>11. QED
    BY <2>2, <2>5, <2>6, <2>7, <2>8, <2>9, <2>10
<1>12. ASSUME NEW t \in Teams, DeleteTeam(t), UNCHANGED <<messages, visible, page, more>>, Watch PROVE RowsOK'
  <2>1. /\ t \in teams /\ (\A u \in Members : belongs[u] # {t}) /\ changes < MaxChanges /\ changes' = changes + 1
        /\ teams' = teams \ {t} /\ team' = Released(t)
        /\ belongs' = [u \in Members |-> belongs[u] \ {t}]
        /\ UNCHANGED <<numbers, phone>>
    BY <1>12 DEF DeleteTeam
  <2>2. belongs' \in [Members -> (SUBSET teams') \ {{}}]
    BY <2>1
  <2>3. changes' \in 0..MaxChanges
    BY <2>1
  <2>4. team' \in [Ids -> teams' \cup {NoTeam}]
    BY <2>1 DEF Released
  <2>5. QED
    BY <2>1, <2>2, <2>3, <2>4
<1>13. ASSUME NEW u \in Members, NEW T \in SUBSET Teams, ChangeTeams(u, T), UNCHANGED <<messages, visible, page,
       more>>, Watch PROVE RowsOK'
  <2>1. /\ T \subseteq teams /\ T # {} /\ changes < MaxChanges /\ changes' = changes + 1
        /\ belongs' = [belongs EXCEPT ![u] = T]
        /\ UNCHANGED <<teams, numbers, phone, team>>
    BY <1>13 DEF ChangeTeams
  <2>2. belongs' \in [Members -> (SUBSET teams) \ {{}}]
    BY <2>1
  <2>3. changes' \in 0..MaxChanges
    BY <2>1
  <2>4. QED
    BY <2>1, <2>2, <2>3
<1>14. ASSUME NEW i \in Ids, NEW t \in Teams \cup {NoTeam}, Moved(i, t), UNCHANGED <<messages, visible, page,
       more>>, Watch PROVE RowsOK'
  BY <1>14 DEF Moved
<1>15. ASSUME NEW r \in Requests, NEW u \in Users, NEW p \in Phones \cup {NoPhone},
       NEW t \in Teams \cup {NoTeam}, OpenList(r, u, p, t), UNCHANGED <<rows, due, messages>>, Watch PROVE RowsOK'
  BY <1>15 DEF OpenList, CanBegin
<1>16. ASSUME NEW r \in Requests, VisibleNumbers(r), UNCHANGED <<rows, due, messages>>, Watch PROVE RowsOK'
  BY <1>16 DEF VisibleNumbers
<1>17. ASSUME NEW r \in Requests, ListInbound(r), UNCHANGED <<rows, due, messages>>, Watch PROVE RowsOK'
  BY <1>17 DEF ListInbound
<1>18. ASSUME NEW r \in Requests, ShowPage(r), UNCHANGED <<rows, due, messages>>, Watch PROVE RowsOK'
  BY <1>18 DEF ShowPage, Finish, Blank
<1>19. ASSUME NEW r \in Requests, LosePage(r), UNCHANGED <<rows, due, messages>>, Watch PROVE RowsOK'
  BY <1>19 DEF LosePage
<1>20. ASSUME NEW r \in Requests, ClickMore(r), UNCHANGED <<rows, due, messages>>, Watch PROVE RowsOK'
  BY <1>20 DEF ClickMore, lists
<1>21. ASSUME NEW m \in Messages, NEW p \in Phones, NEW t \in Times, Receive(m, p, t), UNCHANGED <<rows, req,
       within, reach, due, lists>> PROVE RowsOK'
  BY <1>21 DEF Receive, messages
<1>22. CASE UNCHANGED vars
  BY <1>22 DEF vars, lists, messages
<1>23. QED
  BY <1>1, <1>2, <1>3, <1>4, <1>5, <1>6, <1>7, <1>8, <1>9, <1>10, <1>11, <1>12, <1>13, <1>14, <1>15, <1>16,
    <1>17, <1>18, <1>19, <1>20, <1>21, <1>22 DEF Next, NumbersStep, RosterStep, ListStep

----------------------------------------------------------------------------
(* What each step does to the requests.                                    *)

Others(r) == req' \in [Requests -> RequestRecords] /\ \A s \in Requests \ {r} : req'[s] = req[s]
Ended(r) == req'[r].at = "done" /\ req'[r].op = "none" /\ req'[r].by = Admin /\ req'[r].scope = {}
Same(r) == req'[r].by = req[r].by /\ req'[r].op = req[r].op

LEMMA Update ==
  ASSUME ReqOK, NEW r \in Requests, NEW q \in RequestRecords, req' = [req EXCEPT ![r] = q]
  PROVE  Others(r) /\ req'[r] = q
BY DEF ReqOK, Others

LEMMA Fields == ReqOK => \A r \in Requests : req[r] \in RequestRecords
BY DEF ReqOK

LEMMA FinishEffect ==
  ASSUME ReqOK, NEW r \in Requests, Finish(r)
  PROVE  Others(r) /\ Ended(r)
<1> DEFINE n == [Blank EXCEPT !.at = "done"]
<1>1. n \in RequestRecords /\ n.at = "done" /\ n.op = "none" /\ n.by = Admin /\ n.scope = {}
  BY DEF Blank, RequestRecords, Ops, Steps, Users
<1>2. req' = [req EXCEPT ![r] = n]
  BY DEF Finish
<1> HIDE DEF n
<1>3. QED
  BY <1>1, <1>2, Update DEF Ended

LEMMA BeginEffect ==
  ASSUME RowsOK, ReqOK, NEW r \in Requests, NEW u \in Users, Begin(r, u)
  PROVE  /\ Others(r) /\ UNCHANGED <<rows, due>>
         /\ req[r].at = "idle" /\ req'[r].at = "scoped" /\ req'[r].op = req[r].op
         /\ req'[r].by = u /\ req'[r].scope = ScopeOf(u)
<1> DEFINE n == [req[r] EXCEPT !.at = "scoped", !.by = u, !.scope = ScopeOf(u)]
<1>1. ScopeOf(u) \in SUBSET Teams
  BY DEF ScopeOf, RowsOK, Users
<1>2. /\ n \in RequestRecords /\ n.at = "scoped" /\ n.op = req[r].op
      /\ n.by = u /\ n.scope = ScopeOf(u)
  BY <1>1, Fields DEF RequestRecords, Steps
<1>3. req' = [req EXCEPT ![r] = n] /\ req[r].at = "idle" /\ UNCHANGED <<rows, due>>
  BY DEF Begin, CanBegin, ReqOK
<1> HIDE DEF n
<1>4. QED
  BY <1>2, <1>3, Update

LEMMA CheckCreateEffect ==
  ASSUME ReqOK, NEW r \in Requests, NEW p \in Phones, NEW t \in Teams, CheckCreate(r, p, t)
  PROVE  /\ Others(r) /\ UNCHANGED <<rows, due>>
         /\ req[r].at = "scoped" /\ req[r].op = "none"
         /\ \/ Ended(r)
            \/ /\ req'[r].at = "write" /\ req'[r].op = "create" /\ req'[r].phone = p /\ req'[r].team = t
               /\ req'[r].by = req[r].by /\ MayUse(r, t)
<1> DEFINE n == [req[r] EXCEPT !.op = "create", !.at = "write", !.phone = p, !.team = t]
<1>1. /\ n \in RequestRecords /\ n.at = "write" /\ n.op = "create"
      /\ n.phone = p /\ n.team = t /\ n.by = req[r].by
  BY Fields DEF RequestRecords, Ops, Steps
<1>2. /\ (req' = [req EXCEPT ![r] = n] /\ MayUse(r, t)) \/ Finish(r)
      /\ req[r].at = "scoped" /\ req[r].op = "none" /\ UNCHANGED <<rows, due>>
  BY DEF CheckCreate, Starts, ReqOK
<1> HIDE DEF n
<1>3. QED
  BY <1>1, <1>2, Update, FinishEffect

LEMMA FindNumberEffect ==
  ASSUME ReqOK, NEW r \in Requests, NEW i \in Ids, NEW o \in {"update", "delete"}, FindNumber(r, i, o)
  PROVE  /\ Others(r) /\ UNCHANGED <<rows, due>>
         /\ req[r].at = "scoped" /\ req[r].op = "none"
         /\ \/ Ended(r)
            \/ /\ req'[r].at = "write" /\ req'[r].op = o /\ req'[r].id = i
               /\ req'[r].by = req[r].by /\ i \in numbers /\ Mine(r, i)
<1> DEFINE n == [req[r] EXCEPT !.op = o, !.at = "write", !.id = i]
<1>1. n \in RequestRecords /\ n.at = "write" /\ n.op = o /\ n.id = i /\ n.by = req[r].by
  BY Fields DEF RequestRecords, Ops, Steps
<1>2. /\ (req' = [req EXCEPT ![r] = n] /\ i \in numbers /\ Mine(r, i)) \/ Finish(r)
      /\ req[r].at = "scoped" /\ req[r].op = "none" /\ UNCHANGED <<rows, due>>
  BY DEF FindNumber, Starts, ReqOK
<1> HIDE DEF n
<1>3. QED
  BY <1>1, <1>2, Update, FinishEffect

LEMMA FindAssignedEffect ==
  ASSUME ReqOK, NEW r \in Requests, NEW i \in Ids, NEW t \in Teams \cup {NoTeam}, FindAssigned(r, i, t)
  PROVE  /\ Others(r) /\ UNCHANGED <<rows, due>>
         /\ req[r].at = "scoped" /\ req[r].op = "none" /\ req[r].by = Admin
         /\ \/ Ended(r)
            \/ req'[r].at = "write" /\ req'[r].op = "assign" /\ req'[r].by = Admin
<1> DEFINE n == [req[r] EXCEPT !.op = "assign", !.at = "write", !.id = i, !.team = t]
<1>1. n \in RequestRecords /\ n.at = "write" /\ n.op = "assign" /\ n.by = req[r].by
  BY Fields DEF RequestRecords, Ops, Steps
<1>2. /\ req' = [req EXCEPT ![r] = n] \/ Finish(r)
      /\ req[r].at = "scoped" /\ req[r].op = "none" /\ req[r].by = Admin /\ UNCHANGED <<rows, due>>
  BY DEF FindAssigned, Starts, ReqOK
<1> HIDE DEF n
<1>3. QED
  BY <1>1, <1>2, Update, FinishEffect

LEMMA ListAccountEffect ==
  ASSUME ReqOK, NEW r \in Requests, NEW S \in SUBSET Phones, ListAccount(r, S)
  PROVE  /\ Others(r) /\ UNCHANGED rows /\ due' = [due EXCEPT ![r] = S]
         /\ req[r].at = "scoped" /\ req[r].by = Admin
         /\ req'[r].at = "write" /\ req'[r].op = "sync" /\ req'[r].list = S /\ req'[r].by = Admin
<1> DEFINE n == [req[r] EXCEPT !.op = "sync", !.at = "write", !.list = S]
<1>1. n \in RequestRecords /\ n.at = "write" /\ n.op = "sync" /\ n.list = S /\ n.by = req[r].by
  BY Fields DEF RequestRecords, Ops, Steps
<1>2. /\ req' = [req EXCEPT ![r] = n] /\ due' = [due EXCEPT ![r] = S]
      /\ req[r].at = "scoped" /\ req[r].by = Admin /\ UNCHANGED rows
  BY DEF ListAccount, Starts, ReqOK
<1> HIDE DEF n
<1>3. QED
  BY <1>1, <1>2, Update

LEMMA OpenListEffect ==
  ASSUME RowsOK, ReqOK, NEW r \in Requests, NEW u \in Users, NEW p \in Phones \cup {NoPhone},
         NEW t \in Teams \cup {NoTeam}, OpenList(r, u, p, t)
  PROVE  /\ Others(r) /\ UNCHANGED <<visible, page>>
         /\ req[r].at = "idle" /\ req'[r].at = "scoped" /\ req'[r].op = "list"
         /\ req'[r].by = u /\ req'[r].scope = ScopeOf(u)
<1> DEFINE n == [req[r] EXCEPT !.op = "list", !.at = "scoped", !.by = u, !.scope = ScopeOf(u),
                               !.phone = p, !.team = t]
<1>1. ScopeOf(u) \in SUBSET Teams
  BY DEF ScopeOf, RowsOK, Users
<1>2. n \in RequestRecords /\ n.at = "scoped" /\ n.op = "list" /\ n.by = u /\ n.scope = ScopeOf(u)
  BY <1>1, Fields DEF RequestRecords, Ops, Steps
<1>3. req' = [req EXCEPT ![r] = n] /\ req[r].at = "idle" /\ UNCHANGED <<visible, page>>
  BY DEF OpenList, CanBegin, ReqOK
<1> HIDE DEF n
<1>4. QED
  BY <1>2, <1>3, Update

LEMMA VisibleNumbersEffect ==
  ASSUME ReqOK, NEW r \in Requests, VisibleNumbers(r)
  PROVE  /\ Others(r) /\ Same(r) /\ UNCHANGED page
         /\ req[r].at = "scoped" /\ req'[r].at = "visible" /\ req'[r].scope = req[r].scope
<1> DEFINE n == [req[r] EXCEPT !.at = "visible"]
<1>1. /\ n \in RequestRecords /\ n.at = "visible" /\ n.op = req[r].op /\ n.by = req[r].by
      /\ n.scope = req[r].scope
  BY Fields DEF RequestRecords, Steps
<1>2. req' = [req EXCEPT ![r] = n] /\ req[r].at = "scoped" /\ UNCHANGED page
  BY DEF VisibleNumbers, ReqOK
<1> HIDE DEF n
<1>3. QED
  BY <1>1, <1>2, Update DEF Same

LEMMA ListInboundEffect ==
  ASSUME ReqOK, NEW r \in Requests, ListInbound(r)
  PROVE  /\ Others(r) /\ Same(r) /\ req[r].at = "visible" /\ req'[r].at = "sent" /\ req'[r].scope = {}
         /\ page' = [page EXCEPT ![r] = FirstPage(Rows(r))] /\ visible' = [visible EXCEPT ![r] = {}]
<1> DEFINE n == [req[r] EXCEPT !.at = "sent", !.scope = {}]
<1>1. n \in RequestRecords /\ n.at = "sent" /\ n.op = req[r].op /\ n.by = req[r].by /\ n.scope = {}
  BY Fields DEF RequestRecords, Steps
<1>2. /\ req' = [req EXCEPT ![r] = n] /\ req[r].at = "visible"
      /\ page' = [page EXCEPT ![r] = FirstPage(Rows(r))] /\ visible' = [visible EXCEPT ![r] = {}]
  BY DEF ListInbound, ReqOK
<1> HIDE DEF n
<1>3. QED
  BY <1>1, <1>2, Update DEF Same

LEMMA ToMore ==
  ASSUME ReqOK, NEW r \in Requests, req' = [req EXCEPT ![r].at = "more"]
  PROVE  Others(r) /\ Same(r) /\ req'[r].at = "more"
<1> DEFINE n == [req[r] EXCEPT !.at = "more"]
<1>1. n \in RequestRecords /\ n.at = "more" /\ n.op = req[r].op /\ n.by = req[r].by
  BY Fields DEF RequestRecords, Steps
<1>2. req' = [req EXCEPT ![r] = n]
  BY DEF ReqOK
<1> HIDE DEF n
<1>3. QED
  BY <1>1, <1>2, Update DEF Same

LEMMA PageEffect ==
  ASSUME ReqOK, NEW r \in Requests, ShowPage(r) \/ LosePage(r)
  PROVE  /\ Others(r) /\ req[r].at = "sent" /\ ((Same(r) /\ req'[r].at = "more") \/ Ended(r))
         /\ page' = [page EXCEPT ![r] = {}] /\ UNCHANGED visible
<1>1. /\ req[r].at = "sent" /\ page' = [page EXCEPT ![r] = {}] /\ UNCHANGED visible
      /\ req' = [req EXCEPT ![r].at = "more"] \/ Finish(r)
  BY DEF ShowPage, LosePage
<1>2. QED
  BY <1>1, ToMore, FinishEffect

LEMMA ClickMoreEffect ==
  ASSUME RowsOK, ReqOK, NEW r \in Requests, ClickMore(r)
  PROVE  /\ Others(r) /\ Same(r) /\ UNCHANGED <<visible, page>>
         /\ req[r].at = "more" /\ req'[r].at = "scoped" /\ req'[r].scope = ScopeOf(req[r].by)
<1> DEFINE n == [req[r] EXCEPT !.at = "scoped", !.scope = ScopeOf(req[r].by)]
<1>1. ScopeOf(req[r].by) \in SUBSET Teams
  BY Fields DEF ScopeOf, RowsOK, RequestRecords, Users
<1>2. /\ n \in RequestRecords /\ n.at = "scoped" /\ n.op = req[r].op /\ n.by = req[r].by
      /\ n.scope = ScopeOf(req[r].by)
  BY <1>1, Fields DEF RequestRecords, Steps
<1>3. req' = [req EXCEPT ![r] = n] /\ req[r].at = "more" /\ UNCHANGED <<visible, page>>
  BY DEF ClickMore, lists, ReqOK
<1> HIDE DEF n
<1>4. QED
  BY <1>2, <1>3, Update DEF Same

LEMMA SignedOutEffect ==
  ASSUME ReqOK, NEW us, SignedOut(us)
  PROVE  /\ req' \in [Requests -> RequestRecords]
         /\ \A r \in Requests : req'[r] = req[r] \/ (req[r].at = "more" /\ Ended(r))
<1> DEFINE n == [Blank EXCEPT !.at = "done"]
<1>1. n \in RequestRecords /\ n.at = "done" /\ n.op = "none" /\ n.by = Admin /\ n.scope = {}
  BY DEF Blank, RequestRecords, Ops, Steps, Users
<1>2. \A r \in Requests : req'[r] = req[r] \/ (req[r].at = "more" /\ req'[r] = n)
  BY DEF SignedOut
<1>3. req' = [r \in Requests |-> req'[r]]
  BY DEF SignedOut
<1> HIDE DEF n
<1>4. QED
  BY <1>1, <1>2, <1>3, Fields DEF Ended, ReqOK

(* A request that writes ends with that step.                              *)
Written(r) == Insert(r) \/ SetLabel(r) \/ DeleteNumber(r) \/ SetTeam(r) \/ BulkUpsert(r)

LEMMA WriteEffect ==
  ASSUME ReqOK, NEW r \in Requests, Written(r)
  PROVE  Others(r) /\ Ended(r) /\ req[r].at = "write" /\ UNCHANGED belongs
<1>1. Finish(r) /\ req[r].at = "write" /\ UNCHANGED belongs
  BY DEF Written, Insert, SetLabel, DeleteNumber, SetTeam, BulkUpsert, Writes, rows
<1>2. QED
  BY <1>1, FinishEffect

LEMMA RequestStep == RowsOK /\ ReqOK /\ CreatesPhone /\ [Next]_vars => ReqOK' /\ CreatesPhone'
<1> SUFFICES ASSUME RowsOK, ReqOK, CreatesPhone, [Next]_vars PROVE ReqOK' /\ CreatesPhone'
  OBVIOUS
<1> USE NumbersAssumption
<1>1. ASSUME NEW r \in Requests, NEW u \in Users, Begin(r, u), UNCHANGED <<messages, lists>>,
      Watch PROVE ReqOK' /\ CreatesPhone'
  <2>1. /\ Others(r) /\ UNCHANGED <<rows, due>>
        /\ req[r].at = "idle" /\ req'[r].at = "scoped" /\ req'[r].op = req[r].op
        /\ req'[r].by = u /\ req'[r].scope = ScopeOf(u)
    BY <1>1, BeginEffect
  <2>2. QED
    BY <1>1, <2>1 DEF ReqOK, CreatesPhone, Others, Ended, Same, Writes, lists, rows
<1>2. ASSUME NEW r \in Requests, NEW p \in Phones, NEW t \in Teams, CheckCreate(r, p, t), UNCHANGED <<messages,
      lists>>, Watch PROVE ReqOK' /\ CreatesPhone'
  <2>1. /\ Others(r) /\ UNCHANGED <<rows, due>> /\ req[r].at = "scoped" /\ req[r].op = "none"
        /\ \/ Ended(r)
           \/ /\ req'[r].at = "write" /\ req'[r].op = "create" /\ req'[r].phone = p /\ req'[r].team = t
              /\ req'[r].by = req[r].by /\ MayUse(r, t)
    BY <1>2, CheckCreateEffect
  <2>2. QED
    BY <1>2, <2>1 DEF ReqOK, CreatesPhone, Others, Ended, Same, Writes, lists, rows
<1>3. ASSUME NEW r \in Requests, Insert(r), UNCHANGED <<messages, lists>>, Watch PROVE ReqOK' /\ CreatesPhone'
  <2>1. Others(r) /\ Ended(r) /\ req[r].at = "write" /\ UNCHANGED belongs
    BY <1>3, WriteEffect DEF Written
  <2>2. QED
    BY <1>3, <2>1 DEF Insert, ReqOK, CreatesPhone, Others, Ended, Same, Writes, lists, rows
<1>4. ASSUME NEW r \in Requests, NEW i \in Ids, NEW o \in {"update", "delete"}, FindNumber(r, i, o),
      UNCHANGED <<messages, lists>>, Watch PROVE ReqOK' /\ CreatesPhone'
  <2>1. /\ Others(r) /\ UNCHANGED <<rows, due>> /\ req[r].at = "scoped" /\ req[r].op = "none"
        /\ \/ Ended(r)
           \/ /\ req'[r].at = "write" /\ req'[r].op = o /\ req'[r].id = i
              /\ req'[r].by = req[r].by /\ i \in numbers /\ Mine(r, i)
    BY <1>4, FindNumberEffect
  <2>2. QED
    BY <1>4, <2>1 DEF ReqOK, CreatesPhone, Others, Ended, Same, Writes, lists, rows
<1>5. ASSUME NEW r \in Requests, SetLabel(r), UNCHANGED <<messages, lists>>, Watch PROVE ReqOK' /\ CreatesPhone'
  <2>1. Others(r) /\ Ended(r) /\ req[r].at = "write" /\ UNCHANGED belongs
    BY <1>5, WriteEffect DEF Written
  <2>2. QED
    BY <1>5, <2>1 DEF SetLabel, ReqOK, CreatesPhone, Others, Ended, Same, Writes, lists, rows
<1>6. ASSUME NEW r \in Requests, DeleteNumber(r), UNCHANGED <<messages, lists>>, Watch PROVE ReqOK' /\ CreatesPhone'
  <2>1. Others(r) /\ Ended(r) /\ req[r].at = "write" /\ UNCHANGED belongs
    BY <1>6, WriteEffect DEF Written
  <2>2. QED
    BY <1>6, <2>1 DEF DeleteNumber, ReqOK, CreatesPhone, Others, Ended, Same, Writes, lists, rows
<1>7. ASSUME NEW r \in Requests, NEW i \in Ids, NEW t \in Teams \cup {NoTeam}, FindAssigned(r, i, t),
      UNCHANGED <<messages, lists>>, Watch PROVE ReqOK' /\ CreatesPhone'
  <2>1. /\ Others(r) /\ UNCHANGED <<rows, due>> /\ req[r].at = "scoped" /\ req[r].op = "none" /\ req[r].by = Admin
        /\ Ended(r) \/ (req'[r].at = "write" /\ req'[r].op = "assign" /\ req'[r].by = Admin)
    BY <1>7, FindAssignedEffect
  <2>2. QED
    BY <1>7, <2>1 DEF ReqOK, CreatesPhone, Others, Ended, Same, Writes, lists, rows
<1>8. ASSUME NEW r \in Requests, SetTeam(r), UNCHANGED <<messages, lists>>, Watch PROVE ReqOK' /\ CreatesPhone'
  <2>1. Others(r) /\ Ended(r) /\ req[r].at = "write" /\ UNCHANGED belongs
    BY <1>8, WriteEffect DEF Written
  <2>2. QED
    BY <1>8, <2>1 DEF SetTeam, ReqOK, CreatesPhone, Others, Ended, Same, Writes, lists, rows
<1>9. ASSUME NEW r \in Requests, NEW S \in SUBSET Phones, ListAccount(r, S), UNCHANGED <<messages, lists>>,
      Watch PROVE ReqOK' /\ CreatesPhone'
  <2>1. /\ Others(r) /\ UNCHANGED rows /\ due' = [due EXCEPT ![r] = S] /\ req[r].at = "scoped" /\ req[r].by = Admin
        /\ req'[r].at = "write" /\ req'[r].op = "sync" /\ req'[r].list = S /\ req'[r].by = Admin
    BY <1>9, ListAccountEffect
  <2>2. QED
    BY <1>9, <2>1 DEF ReqOK, CreatesPhone, Others, Ended, Same, Writes, lists, rows
<1>10. ASSUME NEW r \in Requests, TwilioFails(r), UNCHANGED <<messages, lists>>, Watch PROVE ReqOK' /\ CreatesPhone'
  <2>1. Others(r) /\ Ended(r) /\ req[r].at = "scoped" /\ req[r].op = "none" /\ UNCHANGED <<rows, due>>
    BY <1>10, FinishEffect DEF TwilioFails, Starts
  <2>2. QED
    BY <1>10, <2>1 DEF ReqOK, CreatesPhone, Others, Ended, Same, Writes, lists, rows
<1>11. ASSUME NEW r \in Requests, BulkUpsert(r), UNCHANGED <<messages, lists>>, Watch PROVE ReqOK' /\ CreatesPhone'
  <2>1. Others(r) /\ Ended(r) /\ req[r].at = "write" /\ UNCHANGED belongs
    BY <1>11, WriteEffect DEF Written
  <2>2. QED
    BY <1>11, <2>1 DEF BulkUpsert, ReqOK, CreatesPhone, Others, Ended, Same, Writes, lists, rows
<1>12. ASSUME NEW t \in Teams, DeleteTeam(t), UNCHANGED <<messages, visible, page, more>>,
       Watch PROVE ReqOK' /\ CreatesPhone'
  <2>1. /\ req' \in [Requests -> RequestRecords]
        /\ \A q \in Requests : req'[q] = req[q] \/ (req[q].at = "more" /\ Ended(q))
    BY <1>12, SignedOutEffect DEF DeleteTeam
  <2>2. QED
    BY <1>12, <2>1 DEF DeleteTeam, ReqOK, CreatesPhone, Others, Ended, Same, Writes, lists, rows
<1>13. ASSUME NEW u \in Members, NEW T \in SUBSET Teams, ChangeTeams(u, T), UNCHANGED <<messages, visible, page,
       more>>, Watch PROVE ReqOK' /\ CreatesPhone'
  <2>1. /\ req' \in [Requests -> RequestRecords]
        /\ \A q \in Requests : req'[q] = req[q] \/ (req[q].at = "more" /\ Ended(q))
    BY <1>13, SignedOutEffect DEF ChangeTeams
  <2>2. QED
    BY <1>13, <2>1 DEF ChangeTeams, ReqOK, CreatesPhone, Others, Ended, Same, Writes, lists, rows
<1>14. ASSUME NEW i \in Ids, NEW t \in Teams \cup {NoTeam}, Moved(i, t), UNCHANGED <<messages, visible, page,
       more>>, Watch PROVE ReqOK' /\ CreatesPhone'
  BY <1>14 DEF Moved, ReqOK, CreatesPhone, Writes
<1>15. ASSUME NEW r \in Requests, NEW u \in Users, NEW p \in Phones \cup {NoPhone},
       NEW t \in Teams \cup {NoTeam}, OpenList(r, u, p, t), UNCHANGED <<rows, due, messages>>,
       Watch PROVE ReqOK' /\ CreatesPhone'
  <2>1. /\ Others(r) /\ UNCHANGED <<visible, page>>
        /\ req[r].at = "idle" /\ req'[r].at = "scoped" /\ req'[r].op = "list"
        /\ req'[r].by = u /\ req'[r].scope = ScopeOf(u)
    BY <1>15, OpenListEffect
  <2>2. QED
    BY <1>15, <2>1 DEF ReqOK, CreatesPhone, Others, Ended, Same, Writes, lists, rows
<1>16. ASSUME NEW r \in Requests, VisibleNumbers(r), UNCHANGED <<rows, due, messages>>,
       Watch PROVE ReqOK' /\ CreatesPhone'
  <2>1. /\ Others(r) /\ Same(r) /\ UNCHANGED page
        /\ req[r].at = "scoped" /\ req'[r].at = "visible" /\ req'[r].scope = req[r].scope
    BY <1>16, VisibleNumbersEffect
  <2>2. QED
    BY <1>16, <2>1 DEF ReqOK, CreatesPhone, Others, Ended, Same, Writes, lists, rows
<1>17. ASSUME NEW r \in Requests, ListInbound(r), UNCHANGED <<rows, due, messages>>,
       Watch PROVE ReqOK' /\ CreatesPhone'
  <2>1. /\ Others(r) /\ Same(r) /\ req[r].at = "visible" /\ req'[r].at = "sent" /\ req'[r].scope = {}
        /\ page' = [page EXCEPT ![r] = FirstPage(Rows(r))] /\ visible' = [visible EXCEPT ![r] = {}]
    BY <1>17, ListInboundEffect
  <2>2. QED
    BY <1>17, <2>1 DEF ReqOK, CreatesPhone, Others, Ended, Same, Writes, lists, rows
<1>18. ASSUME NEW r \in Requests, ShowPage(r), UNCHANGED <<rows, due, messages>>,
       Watch PROVE ReqOK' /\ CreatesPhone'
  <2>1. /\ Others(r) /\ req[r].at = "sent" /\ ((Same(r) /\ req'[r].at = "more") \/ Ended(r))
        /\ page' = [page EXCEPT ![r] = {}] /\ UNCHANGED visible
    BY <1>18, PageEffect
  <2>2. QED
    BY <1>18, <2>1 DEF ReqOK, CreatesPhone, Others, Ended, Same, Writes, lists, rows
<1>19. ASSUME NEW r \in Requests, LosePage(r), UNCHANGED <<rows, due, messages>>,
       Watch PROVE ReqOK' /\ CreatesPhone'
  <2>1. /\ Others(r) /\ req[r].at = "sent" /\ ((Same(r) /\ req'[r].at = "more") \/ Ended(r))
        /\ page' = [page EXCEPT ![r] = {}] /\ UNCHANGED visible
    BY <1>19, PageEffect
  <2>2. QED
    BY <1>19, <2>1 DEF ReqOK, CreatesPhone, Others, Ended, Same, Writes, lists, rows
<1>20. ASSUME NEW r \in Requests, ClickMore(r), UNCHANGED <<rows, due, messages>>,
       Watch PROVE ReqOK' /\ CreatesPhone'
  <2>1. /\ Others(r) /\ Same(r) /\ UNCHANGED <<visible, page>>
        /\ req[r].at = "more" /\ req'[r].at = "scoped" /\ req'[r].scope = ScopeOf(req[r].by)
    BY <1>20, ClickMoreEffect
  <2>2. QED
    BY <1>20, <2>1 DEF ReqOK, CreatesPhone, Others, Ended, Same, Writes, lists, rows
<1>21. ASSUME NEW m \in Messages, NEW p \in Phones, NEW t \in Times, Receive(m, p, t), UNCHANGED <<rows, req,
       within, reach, due, lists>> PROVE ReqOK' /\ CreatesPhone'
  BY <1>21 DEF ReqOK, CreatesPhone, Writes
<1>22. CASE UNCHANGED vars
  BY <1>22 DEF vars, lists, messages, ReqOK, CreatesPhone, Writes
<1>23. QED
  BY <1>1, <1>2, <1>3, <1>4, <1>5, <1>6, <1>7, <1>8, <1>9, <1>10, <1>11, <1>12, <1>13, <1>14, <1>15, <1>16,
    <1>17, <1>18, <1>19, <1>20, <1>21, <1>22 DEF Next, NumbersStep, RosterStep, ListStep

LEMMA HistoryStep == RowsOK' /\ ReqOK' /\ HistoryOK /\ Watch => HistoryOK'
<1> SUFFICES ASSUME RowsOK', ReqOK', HistoryOK, Watch PROVE HistoryOK'
  OBVIOUS
<1>1. ASSUME NEW r \in Requests PROVE Acting(r)' \subseteq Teams
  <2>1. req'[r].by \in Users
    BY DEF ReqOK, RequestRecords
  <2>2. QED
    BY <2>1 DEF Acting, ScopeOf, RowsOK, Users
<1>2. \A i \in numbers' : <<i, phone'[i]>> \in Ids \X Phones
  BY DEF RowsOK
<1>3. within' \in [Requests -> SUBSET Teams]
  BY <1>1 DEF Watch, HistoryOK
<1>4. reach' \in [Requests -> SUBSET (Ids \X Phones)]
  BY <1>2 DEF Watch, HistoryOK
<1>5. QED
  BY <1>3, <1>4 DEF HistoryOK

LEMMA MessagesStep == MessagesOK /\ [Next]_vars => MessagesOK'
<1> SUFFICES ASSUME MessagesOK, [Next]_vars PROVE MessagesOK'
  OBVIOUS
<1>1. ASSUME NEW m \in Messages, NEW p \in Phones, NEW t \in Times, Receive(m, p, t) PROVE MessagesOK'
  BY <1>1 DEF Receive, MessagesOK
<1>2. CASE UNCHANGED messages
  BY <1>2 DEF messages, MessagesOK
<1>3. QED
  BY <1>1, <1>2 DEF Next, vars

LEMMA ListsStep == RowsOK /\ ReqOK /\ ListsOK /\ [Next]_vars => ListsOK'
<1> SUFFICES ASSUME RowsOK, ReqOK, ListsOK, [Next]_vars PROVE ListsOK'
  OBVIOUS
<1> USE NumbersAssumption
<1>1. ASSUME NEW r \in Requests, NEW u \in Users, Begin(r, u), UNCHANGED <<messages, lists>>, Watch PROVE ListsOK'
  <2>1. /\ Others(r) /\ UNCHANGED <<rows, due>>
        /\ req[r].at = "idle" /\ req'[r].at = "scoped" /\ req'[r].op = req[r].op
        /\ req'[r].by = u /\ req'[r].scope = ScopeOf(u)
    BY <1>1, BeginEffect
  <2>2. QED
    BY <1>1, <2>1 DEF ListsOK, Others, Ended, Same, lists, messages
<1>2. ASSUME NEW r \in Requests, NEW p \in Phones, NEW t \in Teams, CheckCreate(r, p, t), UNCHANGED <<messages,
      lists>>, Watch PROVE ListsOK'
  <2>1. /\ Others(r) /\ UNCHANGED <<rows, due>> /\ req[r].at = "scoped" /\ req[r].op = "none"
        /\ \/ Ended(r)
           \/ /\ req'[r].at = "write" /\ req'[r].op = "create" /\ req'[r].phone = p /\ req'[r].team = t
              /\ req'[r].by = req[r].by /\ MayUse(r, t)
    BY <1>2, CheckCreateEffect
  <2>2. QED
    BY <1>2, <2>1 DEF ListsOK, Others, Ended, Same, lists, messages
<1>3. ASSUME NEW r \in Requests, Insert(r), UNCHANGED <<messages, lists>>, Watch PROVE ListsOK'
  <2>1. Others(r) /\ Ended(r) /\ req[r].at = "write" /\ UNCHANGED belongs
    BY <1>3, WriteEffect DEF Written
  <2>2. QED
    BY <1>3, <2>1 DEF ListsOK, Others, Ended, Same, lists, messages
<1>4. ASSUME NEW r \in Requests, NEW i \in Ids, NEW o \in {"update", "delete"}, FindNumber(r, i, o),
      UNCHANGED <<messages, lists>>, Watch PROVE ListsOK'
  <2>1. /\ Others(r) /\ UNCHANGED <<rows, due>> /\ req[r].at = "scoped" /\ req[r].op = "none"
        /\ \/ Ended(r)
           \/ /\ req'[r].at = "write" /\ req'[r].op = o /\ req'[r].id = i
              /\ req'[r].by = req[r].by /\ i \in numbers /\ Mine(r, i)
    BY <1>4, FindNumberEffect
  <2>2. QED
    BY <1>4, <2>1 DEF ListsOK, Others, Ended, Same, lists, messages
<1>5. ASSUME NEW r \in Requests, SetLabel(r), UNCHANGED <<messages, lists>>, Watch PROVE ListsOK'
  <2>1. Others(r) /\ Ended(r) /\ req[r].at = "write" /\ UNCHANGED belongs
    BY <1>5, WriteEffect DEF Written
  <2>2. QED
    BY <1>5, <2>1 DEF ListsOK, Others, Ended, Same, lists, messages
<1>6. ASSUME NEW r \in Requests, DeleteNumber(r), UNCHANGED <<messages, lists>>, Watch PROVE ListsOK'
  <2>1. Others(r) /\ Ended(r) /\ req[r].at = "write" /\ UNCHANGED belongs
    BY <1>6, WriteEffect DEF Written
  <2>2. QED
    BY <1>6, <2>1 DEF ListsOK, Others, Ended, Same, lists, messages
<1>7. ASSUME NEW r \in Requests, NEW i \in Ids, NEW t \in Teams \cup {NoTeam}, FindAssigned(r, i, t),
      UNCHANGED <<messages, lists>>, Watch PROVE ListsOK'
  <2>1. /\ Others(r) /\ UNCHANGED <<rows, due>> /\ req[r].at = "scoped" /\ req[r].op = "none" /\ req[r].by = Admin
        /\ Ended(r) \/ (req'[r].at = "write" /\ req'[r].op = "assign" /\ req'[r].by = Admin)
    BY <1>7, FindAssignedEffect
  <2>2. QED
    BY <1>7, <2>1 DEF ListsOK, Others, Ended, Same, lists, messages
<1>8. ASSUME NEW r \in Requests, SetTeam(r), UNCHANGED <<messages, lists>>, Watch PROVE ListsOK'
  <2>1. Others(r) /\ Ended(r) /\ req[r].at = "write" /\ UNCHANGED belongs
    BY <1>8, WriteEffect DEF Written
  <2>2. QED
    BY <1>8, <2>1 DEF ListsOK, Others, Ended, Same, lists, messages
<1>9. ASSUME NEW r \in Requests, NEW S \in SUBSET Phones, ListAccount(r, S), UNCHANGED <<messages, lists>>,
      Watch PROVE ListsOK'
  <2>1. /\ Others(r) /\ UNCHANGED rows /\ due' = [due EXCEPT ![r] = S] /\ req[r].at = "scoped" /\ req[r].by = Admin
        /\ req'[r].at = "write" /\ req'[r].op = "sync" /\ req'[r].list = S /\ req'[r].by = Admin
    BY <1>9, ListAccountEffect
  <2>2. QED
    BY <1>9, <2>1 DEF ListsOK, Others, Ended, Same, lists, messages
<1>10. ASSUME NEW r \in Requests, TwilioFails(r), UNCHANGED <<messages, lists>>, Watch PROVE ListsOK'
  <2>1. Others(r) /\ Ended(r) /\ req[r].at = "scoped" /\ req[r].op = "none" /\ UNCHANGED <<rows, due>>
    BY <1>10, FinishEffect DEF TwilioFails, Starts
  <2>2. QED
    BY <1>10, <2>1 DEF ListsOK, Others, Ended, Same, lists, messages
<1>11. ASSUME NEW r \in Requests, BulkUpsert(r), UNCHANGED <<messages, lists>>, Watch PROVE ListsOK'
  <2>1. Others(r) /\ Ended(r) /\ req[r].at = "write" /\ UNCHANGED belongs
    BY <1>11, WriteEffect DEF Written
  <2>2. QED
    BY <1>11, <2>1 DEF ListsOK, Others, Ended, Same, lists, messages
<1>12. ASSUME NEW t \in Teams, DeleteTeam(t), UNCHANGED <<messages, visible, page, more>>, Watch PROVE ListsOK'
  <2>1. /\ req' \in [Requests -> RequestRecords]
        /\ \A q \in Requests : req'[q] = req[q] \/ (req[q].at = "more" /\ Ended(q))
    BY <1>12, SignedOutEffect DEF DeleteTeam
  <2>2. QED
    BY <1>12, <2>1 DEF ListsOK, Others, Ended, Same, lists, messages
<1>13. ASSUME NEW u \in Members, NEW T \in SUBSET Teams, ChangeTeams(u, T), UNCHANGED <<messages, visible, page,
       more>>, Watch PROVE ListsOK'
  <2>1. /\ req' \in [Requests -> RequestRecords]
        /\ \A q \in Requests : req'[q] = req[q] \/ (req[q].at = "more" /\ Ended(q))
    BY <1>13, SignedOutEffect DEF ChangeTeams
  <2>2. QED
    BY <1>13, <2>1 DEF ListsOK, Others, Ended, Same, lists, messages
<1>14. ASSUME NEW i \in Ids, NEW t \in Teams \cup {NoTeam}, Moved(i, t), UNCHANGED <<messages, visible, page,
       more>>, Watch PROVE ListsOK'
  BY <1>14 DEF Moved, ListsOK, messages
<1>15. ASSUME NEW r \in Requests, NEW u \in Users, NEW p \in Phones \cup {NoPhone},
       NEW t \in Teams \cup {NoTeam}, OpenList(r, u, p, t), UNCHANGED <<rows, due, messages>>, Watch PROVE ListsOK'
  <2>1. /\ Others(r) /\ UNCHANGED <<visible, page>>
        /\ req[r].at = "idle" /\ req'[r].at = "scoped" /\ req'[r].op = "list"
        /\ req'[r].by = u /\ req'[r].scope = ScopeOf(u)
    BY <1>15, OpenListEffect
  <2>2. QED
    BY <1>15, <2>1 DEF ListsOK, Others, Ended, Same, lists, messages
<1>16. ASSUME NEW r \in Requests, VisibleNumbers(r), UNCHANGED <<rows, due, messages>>, Watch PROVE ListsOK'
  <2>1. /\ Others(r) /\ Same(r) /\ UNCHANGED page
        /\ req[r].at = "scoped" /\ req'[r].at = "visible" /\ req'[r].scope = req[r].scope
    BY <1>16, VisibleNumbersEffect
  <2>2. \E S \in SUBSET Phones : visible' = [visible EXCEPT ![r] = S]
    <3>1. Seeable(Admin, req[r].team) \subseteq Phones /\ Scoped(r) \subseteq Phones
      BY DEF Seeable, Scoped, RowsOK
    <3>2. QED
      BY <1>16, <3>1 DEF VisibleNumbers
  <2>3. QED
    BY <1>16, <2>1, <2>2 DEF ListsOK, Others, Ended, Same, lists, messages
<1>17. ASSUME NEW r \in Requests, ListInbound(r), UNCHANGED <<rows, due, messages>>, Watch PROVE ListsOK'
  <2>1. /\ Others(r) /\ Same(r) /\ req[r].at = "visible" /\ req'[r].at = "sent" /\ req'[r].scope = {}
        /\ page' = [page EXCEPT ![r] = FirstPage(Rows(r))] /\ visible' = [visible EXCEPT ![r] = {}]
    BY <1>17, ListInboundEffect
  <2>2. FirstPage(Rows(r)) \subseteq received
    BY DEF FirstPage, Rows
  <2>3. QED
    BY <1>17, <2>1, <2>2 DEF ListsOK, Others, Ended, Same, lists, messages
<1>18. ASSUME NEW r \in Requests, ShowPage(r), UNCHANGED <<rows, due, messages>>, Watch PROVE ListsOK'
  <2>1. /\ Others(r) /\ req[r].at = "sent" /\ ((Same(r) /\ req'[r].at = "more") \/ Ended(r))
        /\ page' = [page EXCEPT ![r] = {}] /\ UNCHANGED visible
    BY <1>18, PageEffect
  <2>2. QED
    BY <1>18, <2>1 DEF ListsOK, Others, Ended, Same, lists, messages
<1>19. ASSUME NEW r \in Requests, LosePage(r), UNCHANGED <<rows, due, messages>>, Watch PROVE ListsOK'
  <2>1. /\ Others(r) /\ req[r].at = "sent" /\ ((Same(r) /\ req'[r].at = "more") \/ Ended(r))
        /\ page' = [page EXCEPT ![r] = {}] /\ UNCHANGED visible
    BY <1>19, PageEffect
  <2>2. QED
    BY <1>19, <2>1 DEF ListsOK, Others, Ended, Same, lists, messages
<1>20. ASSUME NEW r \in Requests, ClickMore(r), UNCHANGED <<rows, due, messages>>, Watch PROVE ListsOK'
  <2>1. /\ Others(r) /\ Same(r) /\ UNCHANGED <<visible, page>>
        /\ req[r].at = "more" /\ req'[r].at = "scoped" /\ req'[r].scope = ScopeOf(req[r].by)
    BY <1>20, ClickMoreEffect
  <2>2. QED
    BY <1>20, <2>1 DEF ListsOK, Others, Ended, Same, lists, messages
<1>21. ASSUME NEW m \in Messages, NEW p \in Phones, NEW t \in Times, Receive(m, p, t), UNCHANGED <<rows, req,
       within, reach, due, lists>> PROVE ListsOK'
  BY <1>21 DEF ListsOK, Receive, lists
<1>22. CASE UNCHANGED vars
  BY <1>22 DEF vars, lists, messages, ListsOK
<1>23. QED
  BY <1>1, <1>2, <1>3, <1>4, <1>5, <1>6, <1>7, <1>8, <1>9, <1>10, <1>11, <1>12, <1>13, <1>14, <1>15, <1>16,
    <1>17, <1>18, <1>19, <1>20, <1>21, <1>22 DEF Next, NumbersStep, RosterStep, ListStep

----------------------------------------------------------------------------
(* What a request may reach.                                               *)

LEMMA ScopeStep == RowsOK /\ ReqOK /\ ScopeInv /\ [Next]_vars => ScopeInv'
<1> SUFFICES ASSUME RowsOK, ReqOK, ScopeInv, [Next]_vars PROVE ScopeInv'
  OBVIOUS
<1> USE NumbersAssumption
<1>1. ASSUME NEW r \in Requests, NEW u \in Users, Begin(r, u), UNCHANGED <<messages, lists>>, Watch PROVE ScopeInv'
  <2>1. /\ Others(r) /\ UNCHANGED <<rows, due>>
        /\ req[r].at = "idle" /\ req'[r].at = "scoped" /\ req'[r].op = req[r].op
        /\ req'[r].by = u /\ req'[r].scope = ScopeOf(u)
    BY <1>1, BeginEffect
  <2>2. QED
    BY <1>1, <2>1, WatchFacts DEF rows, ScopeInv, InProgress, Acting, ScopeOf, Others, Ended, Same
<1>2. ASSUME NEW r \in Requests, NEW p \in Phones, NEW t \in Teams, CheckCreate(r, p, t), UNCHANGED <<messages,
      lists>>, Watch PROVE ScopeInv'
  <2>1. /\ Others(r) /\ UNCHANGED <<rows, due>> /\ req[r].at = "scoped" /\ req[r].op = "none"
        /\ \/ Ended(r)
           \/ /\ req'[r].at = "write" /\ req'[r].op = "create" /\ req'[r].phone = p /\ req'[r].team = t
              /\ req'[r].by = req[r].by /\ MayUse(r, t)
    BY <1>2, CheckCreateEffect
  <2>2. QED
    BY <1>2, <2>1, WatchFacts DEF rows, ScopeInv, InProgress, Acting, ScopeOf, Others, Ended, Same
<1>3. ASSUME NEW r \in Requests, Insert(r), UNCHANGED <<messages, lists>>, Watch PROVE ScopeInv'
  <2>1. Others(r) /\ Ended(r) /\ req[r].at = "write" /\ UNCHANGED belongs
    BY <1>3, WriteEffect DEF Written
  <2>2. QED
    BY <1>3, <2>1, WatchFacts DEF rows, ScopeInv, InProgress, Acting, ScopeOf, Others, Ended, Same
<1>4. ASSUME NEW r \in Requests, NEW i \in Ids, NEW o \in {"update", "delete"}, FindNumber(r, i, o),
      UNCHANGED <<messages, lists>>, Watch PROVE ScopeInv'
  <2>1. /\ Others(r) /\ UNCHANGED <<rows, due>> /\ req[r].at = "scoped" /\ req[r].op = "none"
        /\ \/ Ended(r)
           \/ /\ req'[r].at = "write" /\ req'[r].op = o /\ req'[r].id = i
              /\ req'[r].by = req[r].by /\ i \in numbers /\ Mine(r, i)
    BY <1>4, FindNumberEffect
  <2>2. QED
    BY <1>4, <2>1, WatchFacts DEF rows, ScopeInv, InProgress, Acting, ScopeOf, Others, Ended, Same
<1>5. ASSUME NEW r \in Requests, SetLabel(r), UNCHANGED <<messages, lists>>, Watch PROVE ScopeInv'
  <2>1. Others(r) /\ Ended(r) /\ req[r].at = "write" /\ UNCHANGED belongs
    BY <1>5, WriteEffect DEF Written
  <2>2. QED
    BY <1>5, <2>1, WatchFacts DEF rows, ScopeInv, InProgress, Acting, ScopeOf, Others, Ended, Same
<1>6. ASSUME NEW r \in Requests, DeleteNumber(r), UNCHANGED <<messages, lists>>, Watch PROVE ScopeInv'
  <2>1. Others(r) /\ Ended(r) /\ req[r].at = "write" /\ UNCHANGED belongs
    BY <1>6, WriteEffect DEF Written
  <2>2. QED
    BY <1>6, <2>1, WatchFacts DEF rows, ScopeInv, InProgress, Acting, ScopeOf, Others, Ended, Same
<1>7. ASSUME NEW r \in Requests, NEW i \in Ids, NEW t \in Teams \cup {NoTeam}, FindAssigned(r, i, t),
      UNCHANGED <<messages, lists>>, Watch PROVE ScopeInv'
  <2>1. /\ Others(r) /\ UNCHANGED <<rows, due>> /\ req[r].at = "scoped" /\ req[r].op = "none" /\ req[r].by = Admin
        /\ Ended(r) \/ (req'[r].at = "write" /\ req'[r].op = "assign" /\ req'[r].by = Admin)
    BY <1>7, FindAssignedEffect
  <2>2. QED
    BY <1>7, <2>1, WatchFacts DEF rows, ScopeInv, InProgress, Acting, ScopeOf, Others, Ended, Same
<1>8. ASSUME NEW r \in Requests, SetTeam(r), UNCHANGED <<messages, lists>>, Watch PROVE ScopeInv'
  <2>1. Others(r) /\ Ended(r) /\ req[r].at = "write" /\ UNCHANGED belongs
    BY <1>8, WriteEffect DEF Written
  <2>2. QED
    BY <1>8, <2>1, WatchFacts DEF rows, ScopeInv, InProgress, Acting, ScopeOf, Others, Ended, Same
<1>9. ASSUME NEW r \in Requests, NEW S \in SUBSET Phones, ListAccount(r, S), UNCHANGED <<messages, lists>>,
      Watch PROVE ScopeInv'
  <2>1. /\ Others(r) /\ UNCHANGED rows /\ due' = [due EXCEPT ![r] = S] /\ req[r].at = "scoped" /\ req[r].by = Admin
        /\ req'[r].at = "write" /\ req'[r].op = "sync" /\ req'[r].list = S /\ req'[r].by = Admin
    BY <1>9, ListAccountEffect
  <2>2. QED
    BY <1>9, <2>1, WatchFacts DEF rows, ScopeInv, InProgress, Acting, ScopeOf, Others, Ended, Same
<1>10. ASSUME NEW r \in Requests, TwilioFails(r), UNCHANGED <<messages, lists>>, Watch PROVE ScopeInv'
  <2>1. Others(r) /\ Ended(r) /\ req[r].at = "scoped" /\ req[r].op = "none" /\ UNCHANGED <<rows, due>>
    BY <1>10, FinishEffect DEF TwilioFails, Starts
  <2>2. QED
    BY <1>10, <2>1, WatchFacts DEF rows, ScopeInv, InProgress, Acting, ScopeOf, Others, Ended, Same
<1>11. ASSUME NEW r \in Requests, BulkUpsert(r), UNCHANGED <<messages, lists>>, Watch PROVE ScopeInv'
  <2>1. Others(r) /\ Ended(r) /\ req[r].at = "write" /\ UNCHANGED belongs
    BY <1>11, WriteEffect DEF Written
  <2>2. QED
    BY <1>11, <2>1, WatchFacts DEF rows, ScopeInv, InProgress, Acting, ScopeOf, Others, Ended, Same
<1>12. ASSUME NEW t \in Teams, DeleteTeam(t), UNCHANGED <<messages, visible, page, more>>, Watch PROVE ScopeInv'
  <2>1. /\ req' \in [Requests -> RequestRecords]
        /\ \A q \in Requests : req'[q] = req[q] \/ (req[q].at = "more" /\ Ended(q))
    BY <1>12, SignedOutEffect DEF DeleteTeam
  <2>2. QED
    BY <1>12, <2>1, WatchFacts DEF rows, ScopeInv, InProgress, Acting, ScopeOf, Others, Ended, Same
<1>13. ASSUME NEW u \in Members, NEW T \in SUBSET Teams, ChangeTeams(u, T), UNCHANGED <<messages, visible, page,
       more>>, Watch PROVE ScopeInv'
  <2>1. /\ req' \in [Requests -> RequestRecords]
        /\ \A q \in Requests : req'[q] = req[q] \/ (req[q].at = "more" /\ Ended(q))
    BY <1>13, SignedOutEffect DEF ChangeTeams
  <2>2. QED
    BY <1>13, <2>1, WatchFacts DEF rows, ScopeInv, InProgress, Acting, ScopeOf, Others, Ended, Same
<1>14. ASSUME NEW i \in Ids, NEW t \in Teams \cup {NoTeam}, Moved(i, t), UNCHANGED <<messages, visible, page,
       more>>, Watch PROVE ScopeInv'
  BY <1>14, WatchFacts DEF Moved, ScopeInv, InProgress
<1>15. ASSUME NEW r \in Requests, NEW u \in Users, NEW p \in Phones \cup {NoPhone},
       NEW t \in Teams \cup {NoTeam}, OpenList(r, u, p, t), UNCHANGED <<rows, due, messages>>, Watch PROVE ScopeInv'
  <2>1. /\ Others(r) /\ UNCHANGED <<visible, page>>
        /\ req[r].at = "idle" /\ req'[r].at = "scoped" /\ req'[r].op = "list"
        /\ req'[r].by = u /\ req'[r].scope = ScopeOf(u)
    BY <1>15, OpenListEffect
  <2>2. QED
    BY <1>15, <2>1, WatchFacts DEF rows, ScopeInv, InProgress, Acting, ScopeOf, Others, Ended, Same
<1>16. ASSUME NEW r \in Requests, VisibleNumbers(r), UNCHANGED <<rows, due, messages>>, Watch PROVE ScopeInv'
  <2>1. /\ Others(r) /\ Same(r) /\ UNCHANGED page
        /\ req[r].at = "scoped" /\ req'[r].at = "visible" /\ req'[r].scope = req[r].scope
    BY <1>16, VisibleNumbersEffect
  <2>2. QED
    BY <1>16, <2>1, WatchFacts DEF rows, ScopeInv, InProgress, Acting, ScopeOf, Others, Ended, Same
<1>17. ASSUME NEW r \in Requests, ListInbound(r), UNCHANGED <<rows, due, messages>>, Watch PROVE ScopeInv'
  <2>1. /\ Others(r) /\ Same(r) /\ req[r].at = "visible" /\ req'[r].at = "sent" /\ req'[r].scope = {}
        /\ page' = [page EXCEPT ![r] = FirstPage(Rows(r))] /\ visible' = [visible EXCEPT ![r] = {}]
    BY <1>17, ListInboundEffect
  <2>2. QED
    BY <1>17, <2>1, WatchFacts DEF rows, ScopeInv, InProgress, Acting, ScopeOf, Others, Ended, Same
<1>18. ASSUME NEW r \in Requests, ShowPage(r), UNCHANGED <<rows, due, messages>>, Watch PROVE ScopeInv'
  <2>1. /\ Others(r) /\ req[r].at = "sent" /\ ((Same(r) /\ req'[r].at = "more") \/ Ended(r))
        /\ page' = [page EXCEPT ![r] = {}] /\ UNCHANGED visible
    BY <1>18, PageEffect
  <2>2. QED
    BY <1>18, <2>1, WatchFacts DEF rows, ScopeInv, InProgress, Acting, ScopeOf, Others, Ended, Same
<1>19. ASSUME NEW r \in Requests, LosePage(r), UNCHANGED <<rows, due, messages>>, Watch PROVE ScopeInv'
  <2>1. /\ Others(r) /\ req[r].at = "sent" /\ ((Same(r) /\ req'[r].at = "more") \/ Ended(r))
        /\ page' = [page EXCEPT ![r] = {}] /\ UNCHANGED visible
    BY <1>19, PageEffect
  <2>2. QED
    BY <1>19, <2>1, WatchFacts DEF rows, ScopeInv, InProgress, Acting, ScopeOf, Others, Ended, Same
<1>20. ASSUME NEW r \in Requests, ClickMore(r), UNCHANGED <<rows, due, messages>>, Watch PROVE ScopeInv'
  <2>1. /\ Others(r) /\ Same(r) /\ UNCHANGED <<visible, page>>
        /\ req[r].at = "more" /\ req'[r].at = "scoped" /\ req'[r].scope = ScopeOf(req[r].by)
    BY <1>20, ClickMoreEffect
  <2>2. QED
    BY <1>20, <2>1, WatchFacts DEF rows, ScopeInv, InProgress, Acting, ScopeOf, Others, Ended, Same
<1>21. ASSUME NEW m \in Messages, NEW p \in Phones, NEW t \in Times, Receive(m, p, t), UNCHANGED <<rows, req,
       within, reach, due, lists>> PROVE ScopeInv'
  BY <1>21 DEF ScopeInv, InProgress
<1>22. CASE UNCHANGED vars
  BY <1>22 DEF vars, lists, messages, ScopeInv, InProgress
<1>23. QED
  BY <1>1, <1>2, <1>3, <1>4, <1>5, <1>6, <1>7, <1>8, <1>9, <1>10, <1>11, <1>12, <1>13, <1>14, <1>15, <1>16,
    <1>17, <1>18, <1>19, <1>20, <1>21, <1>22 DEF Next, NumbersStep, RosterStep, ListStep

LEMMA ReachStep == RowsOK /\ ReqOK /\ ListsOK /\ MessagesOK /\ ScopeInv /\ ReachInv /\ [Next]_vars => ReachInv'
<1> SUFFICES ASSUME RowsOK, ReqOK, ListsOK, MessagesOK, ScopeInv, ReachInv, [Next]_vars PROVE ReachInv'
  OBVIOUS
<1> USE NumbersAssumption
<1>1. ASSUME NEW r \in Requests, NEW u \in Users, Begin(r, u), UNCHANGED <<messages, lists>>, Watch PROVE ReachInv'
  <2>1. /\ Others(r) /\ UNCHANGED <<rows, due>>
        /\ req[r].at = "idle" /\ req'[r].at = "scoped" /\ req'[r].op = req[r].op
        /\ req'[r].by = u /\ req'[r].scope = ScopeOf(u)
    BY <1>1, BeginEffect
  <2>2. QED
    BY <1>1, <2>1, WatchFacts DEF ListsOK, ReachInv, EditsReachable, ScopeInv, InProgress, Others, Ended, Same,
      messages, lists
<1>2. ASSUME NEW r \in Requests, NEW p \in Phones, NEW t \in Teams, CheckCreate(r, p, t), UNCHANGED <<messages,
      lists>>, Watch PROVE ReachInv'
  <2>1. /\ Others(r) /\ UNCHANGED <<rows, due>> /\ req[r].at = "scoped" /\ req[r].op = "none"
        /\ \/ Ended(r)
           \/ /\ req'[r].at = "write" /\ req'[r].op = "create" /\ req'[r].phone = p /\ req'[r].team = t
              /\ req'[r].by = req[r].by /\ MayUse(r, t)
    BY <1>2, CheckCreateEffect
  <2>2. QED
    BY <1>2, <2>1, WatchFacts DEF MayUse, ListsOK, ReachInv, EditsReachable, ScopeInv, InProgress, Others, Ended,
      Same, messages, lists
<1>3. ASSUME NEW r \in Requests, Insert(r), UNCHANGED <<messages, lists>>, Watch PROVE ReachInv'
  <2>1. Others(r) /\ Ended(r) /\ req[r].at = "write" /\ UNCHANGED belongs
    BY <1>3, WriteEffect DEF Written
  <2>2. QED
    BY <1>3, <2>1, WatchFacts DEF ListsOK, ReachInv, EditsReachable, ScopeInv, InProgress, Others, Ended, Same,
      messages, lists
<1>4. ASSUME NEW r \in Requests, NEW i \in Ids, NEW o \in {"update", "delete"}, FindNumber(r, i, o),
      UNCHANGED <<messages, lists>>, Watch PROVE ReachInv'
  <2>1. /\ Others(r) /\ UNCHANGED <<rows, due>> /\ req[r].at = "scoped" /\ req[r].op = "none"
        /\ \/ Ended(r)
           \/ /\ req'[r].at = "write" /\ req'[r].op = o /\ req'[r].id = i
              /\ req'[r].by = req[r].by /\ i \in numbers /\ Mine(r, i)
    BY <1>4, FindNumberEffect
  <2>2. ASSUME req'[r].by # Admin, ~Ended(r) PROVE \E e \in reach'[r] : e[1] = i
    <3>1. team[i] \in within[r] /\ InProgress(r)' /\ i \in numbers /\ UNCHANGED <<numbers, phone, team>>
      BY <2>1, <2>2 DEF Mine, ScopeInv, InProgress, rows
    <3>2. <<i, phone[i]>> \in reach'[r] /\ <<i, phone[i]>>[1] = i
      BY <1>4, <3>1, WatchFacts
    <3>3. QED
      BY <3>2
  <2>3. QED
    BY <1>4, <2>1, <2>2, WatchFacts DEF Mine, rows, ListsOK, ReachInv, EditsReachable, ScopeInv, InProgress,
      Others, Ended, Same, messages, lists
<1>5. ASSUME NEW r \in Requests, SetLabel(r), UNCHANGED <<messages, lists>>, Watch PROVE ReachInv'
  <2>1. Others(r) /\ Ended(r) /\ req[r].at = "write" /\ UNCHANGED belongs
    BY <1>5, WriteEffect DEF Written
  <2>2. QED
    BY <1>5, <2>1, WatchFacts DEF ListsOK, ReachInv, EditsReachable, ScopeInv, InProgress, Others, Ended, Same,
      messages, lists
<1>6. ASSUME NEW r \in Requests, DeleteNumber(r), UNCHANGED <<messages, lists>>, Watch PROVE ReachInv'
  <2>1. Others(r) /\ Ended(r) /\ req[r].at = "write" /\ UNCHANGED belongs
    BY <1>6, WriteEffect DEF Written
  <2>2. QED
    BY <1>6, <2>1, WatchFacts DEF ListsOK, ReachInv, EditsReachable, ScopeInv, InProgress, Others, Ended, Same,
      messages, lists
<1>7. ASSUME NEW r \in Requests, NEW i \in Ids, NEW t \in Teams \cup {NoTeam}, FindAssigned(r, i, t),
      UNCHANGED <<messages, lists>>, Watch PROVE ReachInv'
  <2>1. /\ Others(r) /\ UNCHANGED <<rows, due>> /\ req[r].at = "scoped" /\ req[r].op = "none" /\ req[r].by = Admin
        /\ Ended(r) \/ (req'[r].at = "write" /\ req'[r].op = "assign" /\ req'[r].by = Admin)
    BY <1>7, FindAssignedEffect
  <2>2. QED
    BY <1>7, <2>1, WatchFacts DEF ListsOK, ReachInv, EditsReachable, ScopeInv, InProgress, Others, Ended, Same,
      messages, lists
<1>8. ASSUME NEW r \in Requests, SetTeam(r), UNCHANGED <<messages, lists>>, Watch PROVE ReachInv'
  <2>1. Others(r) /\ Ended(r) /\ req[r].at = "write" /\ UNCHANGED belongs
    BY <1>8, WriteEffect DEF Written
  <2>2. QED
    BY <1>8, <2>1, WatchFacts DEF ListsOK, ReachInv, EditsReachable, ScopeInv, InProgress, Others, Ended, Same,
      messages, lists
<1>9. ASSUME NEW r \in Requests, NEW S \in SUBSET Phones, ListAccount(r, S), UNCHANGED <<messages, lists>>,
      Watch PROVE ReachInv'
  <2>1. /\ Others(r) /\ UNCHANGED rows /\ due' = [due EXCEPT ![r] = S] /\ req[r].at = "scoped" /\ req[r].by = Admin
        /\ req'[r].at = "write" /\ req'[r].op = "sync" /\ req'[r].list = S /\ req'[r].by = Admin
    BY <1>9, ListAccountEffect
  <2>2. QED
    BY <1>9, <2>1, WatchFacts DEF ListsOK, ReachInv, EditsReachable, ScopeInv, InProgress, Others, Ended, Same,
      messages, lists
<1>10. ASSUME NEW r \in Requests, TwilioFails(r), UNCHANGED <<messages, lists>>, Watch PROVE ReachInv'
  <2>1. Others(r) /\ Ended(r) /\ req[r].at = "scoped" /\ req[r].op = "none" /\ UNCHANGED <<rows, due>>
    BY <1>10, FinishEffect DEF TwilioFails, Starts
  <2>2. QED
    BY <1>10, <2>1, WatchFacts DEF ListsOK, ReachInv, EditsReachable, ScopeInv, InProgress, Others, Ended, Same,
      messages, lists
<1>11. ASSUME NEW r \in Requests, BulkUpsert(r), UNCHANGED <<messages, lists>>, Watch PROVE ReachInv'
  <2>1. Others(r) /\ Ended(r) /\ req[r].at = "write" /\ UNCHANGED belongs
    BY <1>11, WriteEffect DEF Written
  <2>2. QED
    BY <1>11, <2>1, WatchFacts DEF ListsOK, ReachInv, EditsReachable, ScopeInv, InProgress, Others, Ended, Same,
      messages, lists
<1>12. ASSUME NEW t \in Teams, DeleteTeam(t), UNCHANGED <<messages, visible, page, more>>, Watch PROVE ReachInv'
  <2>1. /\ req' \in [Requests -> RequestRecords]
        /\ \A q \in Requests : req'[q] = req[q] \/ (req[q].at = "more" /\ Ended(q))
    BY <1>12, SignedOutEffect DEF DeleteTeam
  <2>2. QED
    BY <1>12, <2>1, WatchFacts DEF ListsOK, ReachInv, EditsReachable, ScopeInv, InProgress, Others, Ended, Same,
      messages, lists
<1>13. ASSUME NEW u \in Members, NEW T \in SUBSET Teams, ChangeTeams(u, T), UNCHANGED <<messages, visible, page,
       more>>, Watch PROVE ReachInv'
  <2>1. /\ req' \in [Requests -> RequestRecords]
        /\ \A q \in Requests : req'[q] = req[q] \/ (req[q].at = "more" /\ Ended(q))
    BY <1>13, SignedOutEffect DEF ChangeTeams
  <2>2. QED
    BY <1>13, <2>1, WatchFacts DEF ListsOK, ReachInv, EditsReachable, ScopeInv, InProgress, Others, Ended, Same,
      messages, lists
<1>14. ASSUME NEW i \in Ids, NEW t \in Teams \cup {NoTeam}, Moved(i, t), UNCHANGED <<messages, visible, page,
       more>>, Watch PROVE ReachInv'
  BY <1>14, WatchFacts DEF Moved, ReachInv, EditsReachable, InProgress, ListsOK, messages
<1>15. ASSUME NEW r \in Requests, NEW u \in Users, NEW p \in Phones \cup {NoPhone},
       NEW t \in Teams \cup {NoTeam}, OpenList(r, u, p, t), UNCHANGED <<rows, due, messages>>, Watch PROVE ReachInv'
  <2>1. /\ Others(r) /\ UNCHANGED <<visible, page>>
        /\ req[r].at = "idle" /\ req'[r].at = "scoped" /\ req'[r].op = "list"
        /\ req'[r].by = u /\ req'[r].scope = ScopeOf(u)
    BY <1>15, OpenListEffect
  <2>2. QED
    BY <1>15, <2>1, WatchFacts DEF ListsOK, ReachInv, EditsReachable, ScopeInv, InProgress, Others, Ended, Same,
      messages, lists
<1>16. ASSUME NEW r \in Requests, VisibleNumbers(r), UNCHANGED <<rows, due, messages>>, Watch PROVE ReachInv'
  <2>1. /\ Others(r) /\ Same(r) /\ UNCHANGED page
        /\ req[r].at = "scoped" /\ req'[r].at = "visible" /\ req'[r].scope = req[r].scope
    BY <1>16, VisibleNumbersEffect
  <2>2. UNCHANGED <<numbers, phone, team, messages, page>>
    BY <1>16, <2>1 DEF rows
  <2>3. req[r].by # Admin => visible' = [visible EXCEPT ![r] = Scoped(r)]
    BY <1>16 DEF VisibleNumbers
  <2>4. req[r].by # Admin => \A p \in Scoped(r) : \E e \in reach'[r] : e[2] = p
    <3>1. SUFFICES ASSUME req[r].by # Admin, NEW i \in numbers, team[i] \in req[r].scope
                   PROVE  <<i, phone[i]>> \in reach'[r]
      <4>1. \A i : <<i, phone[i]>>[2] = phone[i]
        OBVIOUS
      <4>2. QED
        BY <4>1 DEF Scoped
    <3>2. req[r].scope \subseteq within[r]
      BY <2>1, <3>1 DEF ScopeInv
    <3>3. InProgress(r)'
      BY <2>1 DEF InProgress
    <3>4. QED
      BY <1>16, <2>2, <3>1, <3>2, <3>3, WatchFacts
  <2>5. \A q \in Requests \ {r} : visible'[q] = visible[q]
    BY <1>16 DEF VisibleNumbers, ListsOK
  <2>6. ASSUME NEW q \in Requests, req'[q].by # Admin
        PROVE  (\A p \in visible'[q] : \E e \in reach'[q] : e[2] = p) /\ page'[q] = page[q]
    <3>1. CASE q = r
      <4>1. visible'[q] = Scoped(r) /\ req[r].by # Admin
        BY <2>1, <2>3, <2>6, <3>1 DEF ListsOK, Same
      <4>2. QED
        BY <2>2, <2>4, <3>1, <4>1
    <3>2. CASE q # r
      <4>1. req'[q] = req[q] /\ visible'[q] = visible[q]
        BY <2>1, <2>5, <3>2 DEF Others
      <4>2. QED
        BY <1>16, <2>2, <2>6, <4>1, WatchFacts DEF ReachInv, ListsOK, InProgress
    <3>3. QED
      BY <3>1, <3>2
  <2>7. EditsReachable'
    BY <1>16,  <2>1, WatchFacts DEF ReachInv, EditsReachable, Others, Same, InProgress
  <2>8. ASSUME NEW q \in Requests, req'[q].by # Admin
        PROVE  \A m \in page'[q] : \E e \in reach'[q] : e[2] = sentTo'[m]
    <3>1. page'[r] = {}
      BY <2>1 DEF ListsOK
    <3>2. QED
      BY <1>16,  <2>1, <2>2, <2>8, <3>1, WatchFacts DEF ReachInv, ListsOK, Others, InProgress, messages
  <2>9. QED
    BY <2>6, <2>7, <2>8, WatchFacts DEF ReachInv
<1>17. ASSUME NEW r \in Requests, ListInbound(r), UNCHANGED <<rows, due, messages>>, Watch PROVE ReachInv'
  <2>1. /\ Others(r) /\ Same(r) /\ req[r].at = "visible" /\ req'[r].at = "sent" /\ req'[r].scope = {}
        /\ page' = [page EXCEPT ![r] = FirstPage(Rows(r))] /\ visible' = [visible EXCEPT ![r] = {}]
    BY <1>17, ListInboundEffect
  <2>2. \A m \in FirstPage(Rows(r)) : sentTo[m] \in visible[r]
    BY DEF FirstPage, Rows
  <2>3. QED
    BY <1>17, <2>1, <2>2, WatchFacts DEF ListsOK, ReachInv, EditsReachable, ScopeInv, InProgress, Others, Ended,
      Same, messages, lists
<1>18. ASSUME NEW r \in Requests, ShowPage(r), UNCHANGED <<rows, due, messages>>, Watch PROVE ReachInv'
  <2>1. /\ Others(r) /\ req[r].at = "sent" /\ ((Same(r) /\ req'[r].at = "more") \/ Ended(r))
        /\ page' = [page EXCEPT ![r] = {}] /\ UNCHANGED visible
    BY <1>18, PageEffect
  <2>2. QED
    BY <1>18, <2>1, WatchFacts DEF ListsOK, ReachInv, EditsReachable, ScopeInv, InProgress, Others, Ended, Same,
      messages, lists
<1>19. ASSUME NEW r \in Requests, LosePage(r), UNCHANGED <<rows, due, messages>>, Watch PROVE ReachInv'
  <2>1. /\ Others(r) /\ req[r].at = "sent" /\ ((Same(r) /\ req'[r].at = "more") \/ Ended(r))
        /\ page' = [page EXCEPT ![r] = {}] /\ UNCHANGED visible
    BY <1>19, PageEffect
  <2>2. QED
    BY <1>19, <2>1, WatchFacts DEF ListsOK, ReachInv, EditsReachable, ScopeInv, InProgress, Others, Ended, Same,
      messages, lists
<1>20. ASSUME NEW r \in Requests, ClickMore(r), UNCHANGED <<rows, due, messages>>, Watch PROVE ReachInv'
  <2>1. /\ Others(r) /\ Same(r) /\ UNCHANGED <<visible, page>>
        /\ req[r].at = "more" /\ req'[r].at = "scoped" /\ req'[r].scope = ScopeOf(req[r].by)
    BY <1>20, ClickMoreEffect
  <2>2. QED
    BY <1>20, <2>1, WatchFacts DEF ListsOK, ReachInv, EditsReachable, ScopeInv, InProgress, Others, Ended, Same,
      messages, lists
<1>21. ASSUME NEW m \in Messages, NEW p \in Phones, NEW t \in Times, Receive(m, p, t), UNCHANGED <<rows, req,
       within, reach, due, lists>> PROVE ReachInv'
  <2>1. \A m1 \in received : sentTo'[m1] = sentTo[m1]
    BY <1>21 DEF Receive, MessagesOK
  <2>2. QED
    BY <1>21, <2>1 DEF ReachInv, EditsReachable, ListsOK, lists
<1>22. CASE UNCHANGED vars
  BY <1>22 DEF vars, lists, messages, ReachInv, EditsReachable
<1>23. QED
  BY <1>1, <1>2, <1>3, <1>4, <1>5, <1>6, <1>7, <1>8, <1>9, <1>10, <1>11, <1>12, <1>13, <1>14, <1>15, <1>16,
    <1>17, <1>18, <1>19, <1>20, <1>21, <1>22 DEF Next, NumbersStep, RosterStep, ListStep

----------------------------------------------------------------------------
(* What a synchronisation owes.                                            *)

LEMMA DueStep == RowsOK /\ ReqOK /\ DueInv /\ [Next]_vars => DueInv'
<1> SUFFICES ASSUME RowsOK, ReqOK, DueInv, [Next]_vars PROVE DueInv'
  OBVIOUS
<1> USE NumbersAssumption
<1>1. ASSUME NEW r \in Requests, NEW u \in Users, Begin(r, u), UNCHANGED <<messages, lists>>, Watch PROVE DueInv'
  <2>1. /\ Others(r) /\ UNCHANGED <<rows, due>>
        /\ req[r].at = "idle" /\ req'[r].at = "scoped" /\ req'[r].op = req[r].op
        /\ req'[r].by = u /\ req'[r].scope = ScopeOf(u)
    BY <1>1, BeginEffect
  <2>2. QED
    BY <1>1, <2>1 DEF DueInv, Taken, Others, Ended, Same, rows, ReqOK
<1>2. ASSUME NEW r \in Requests, NEW p \in Phones, NEW t \in Teams, CheckCreate(r, p, t), UNCHANGED <<messages,
      lists>>, Watch PROVE DueInv'
  <2>1. /\ Others(r) /\ UNCHANGED <<rows, due>> /\ req[r].at = "scoped" /\ req[r].op = "none"
        /\ \/ Ended(r)
           \/ /\ req'[r].at = "write" /\ req'[r].op = "create" /\ req'[r].phone = p /\ req'[r].team = t
              /\ req'[r].by = req[r].by /\ MayUse(r, t)
    BY <1>2, CheckCreateEffect
  <2>2. QED
    BY <1>2, <2>1 DEF DueInv, Taken, Others, Ended, Same, rows, ReqOK
<1>3. ASSUME NEW r \in Requests, Insert(r), UNCHANGED <<messages, lists>>, Watch PROVE DueInv'
  <2>1. Others(r) /\ Ended(r) /\ Writes(r, "create") /\ UNCHANGED due
    BY <1>3, WriteEffect DEF Written, Insert
  <2>2. \A p \in Phones : Taken(p) => Taken(p)'
    <3>1. numbers \subseteq numbers' /\ \A i \in numbers : phone'[i] = phone[i]
      <4>1. CASE UNCHANGED <<numbers, phone, team>>
        BY <4>1
      <4>2. CASE \E i \in Fresh(1) : numbers' = numbers \cup {i} /\ phone' = [phone EXCEPT ![i] = req[r].phone]
        BY <4>2, FreshIsNew DEF RowsOK
      <4>3. QED
        BY <1>3, <4>1, <4>2 DEF Insert
    <3>2. QED
      BY <3>1 DEF Taken
  <2>3. QED
    BY <2>1, <2>2 DEF DueInv, Others, Writes, ReqOK
<1>4. ASSUME NEW r \in Requests, NEW i \in Ids, NEW o \in {"update", "delete"}, FindNumber(r, i, o),
      UNCHANGED <<messages, lists>>, Watch PROVE DueInv'
  <2>1. /\ Others(r) /\ UNCHANGED <<rows, due>> /\ req[r].at = "scoped" /\ req[r].op = "none"
        /\ \/ Ended(r)
           \/ /\ req'[r].at = "write" /\ req'[r].op = o /\ req'[r].id = i
              /\ req'[r].by = req[r].by /\ i \in numbers /\ Mine(r, i)
    BY <1>4, FindNumberEffect
  <2>2. QED
    BY <1>4, <2>1 DEF DueInv, Taken, Others, Ended, Same, rows, ReqOK
<1>5. ASSUME NEW r \in Requests, SetLabel(r), UNCHANGED <<messages, lists>>, Watch PROVE DueInv'
  <2>1. Others(r) /\ Ended(r) /\ Writes(r, "update") /\ UNCHANGED <<numbers, phone, due>>
    BY <1>5, WriteEffect DEF Written, SetLabel, rows
  <2>2. QED
    BY <2>1 DEF DueInv, Others, Writes, Taken
<1>6. ASSUME NEW r \in Requests, DeleteNumber(r), UNCHANGED <<messages, lists>>, Watch PROVE DueInv'
  <2> DEFINE i == req[r].id
  <2>1. /\ Others(r) /\ Ended(r) /\ Writes(r, "delete")
        /\ numbers' = numbers \ {i} /\ phone' = [phone EXCEPT ![i] = NoPhone]
        /\ due' = [q \in Requests |-> due[q] \ {phone[i]}]
    BY <1>6, WriteEffect DEF Written, DeleteNumber
  <2>2. \A p : Taken(p) /\ p # phone[i] => Taken(p)'
    BY <2>1 DEF Taken, RowsOK
  <2>3. QED
    BY <2>1, <2>2 DEF DueInv, Others, Writes
<1>7. ASSUME NEW r \in Requests, NEW i \in Ids, NEW t \in Teams \cup {NoTeam}, FindAssigned(r, i, t),
      UNCHANGED <<messages, lists>>, Watch PROVE DueInv'
  <2>1. /\ Others(r) /\ UNCHANGED <<rows, due>> /\ req[r].at = "scoped" /\ req[r].op = "none" /\ req[r].by = Admin
        /\ Ended(r) \/ (req'[r].at = "write" /\ req'[r].op = "assign" /\ req'[r].by = Admin)
    BY <1>7, FindAssignedEffect
  <2>2. QED
    BY <1>7, <2>1 DEF DueInv, Taken, Others, Ended, Same, rows, ReqOK
<1>8. ASSUME NEW r \in Requests, SetTeam(r), UNCHANGED <<messages, lists>>, Watch PROVE DueInv'
  <2>1. Others(r) /\ Ended(r) /\ Writes(r, "assign") /\ UNCHANGED <<numbers, phone, due>>
    BY <1>8, WriteEffect DEF Written, SetTeam
  <2>2. QED
    BY <2>1 DEF DueInv, Others, Writes, Taken
<1>9. ASSUME NEW r \in Requests, NEW S \in SUBSET Phones, ListAccount(r, S), UNCHANGED <<messages, lists>>,
      Watch PROVE DueInv'
  <2>1. /\ Others(r) /\ UNCHANGED rows /\ due' = [due EXCEPT ![r] = S] /\ req[r].at = "scoped" /\ req[r].by = Admin
        /\ req'[r].at = "write" /\ req'[r].op = "sync" /\ req'[r].list = S /\ req'[r].by = Admin
    BY <1>9, ListAccountEffect
  <2>2. QED
    BY <1>9, <2>1 DEF DueInv, Taken, Others, Ended, Same, rows, ReqOK
<1>10. ASSUME NEW r \in Requests, TwilioFails(r), UNCHANGED <<messages, lists>>, Watch PROVE DueInv'
  <2>1. Others(r) /\ Ended(r) /\ req[r].at = "scoped" /\ req[r].op = "none" /\ UNCHANGED <<rows, due>>
    BY <1>10, FinishEffect DEF TwilioFails, Starts
  <2>2. QED
    BY <1>10, <2>1 DEF DueInv, Taken, Others, Ended, Same, rows, ReqOK
<1>11. ASSUME NEW r \in Requests, BulkUpsert(r), UNCHANGED <<messages, lists>>, Watch PROVE DueInv'
  <2> DEFINE S == req[r].list
  <2>1. Others(r) /\ Ended(r) /\ Writes(r, "sync") /\ UNCHANGED due
    BY <1>11, WriteEffect DEF Written, BulkUpsert
  <2>2. PICK new \in [Missing(S) -> Fresh(Cardinality(Missing(S)))] :
          LET ids == {new[p] : p \in Missing(S)} IN
          /\ \A p, q \in Missing(S) : new[p] = new[q] => p = q
          /\ numbers' = numbers \cup ids
          /\ phone' = [i \in Ids |-> IF i \in ids THEN CHOOSE p \in Missing(S) : new[p] = i ELSE phone[i]]
          /\ team' = TeamsAfter(S, ids)
    BY <1>11 DEF BulkUpsert
  <2> DEFINE ids == {new[p] : p \in Missing(S)}
  <2>3. \A p \in Missing(S) : new[p] \in Ids \ numbers
    BY FreshIsNew
  <2>4. ids \subseteq Ids \ numbers
    BY <2>3
  <2>5. numbers' = numbers \cup ids /\ \A i \in numbers : phone'[i] = phone[i]
    BY <2>2, <2>4 DEF RowsOK
  <2>6. \A p : Taken(p) => Taken(p)'
    BY <2>5 DEF Taken
  <2>7. \A p \in Missing(S) : Taken(p)'
    <3>1. \A p \in Missing(S) : new[p] \in numbers' /\ phone'[new[p]] = p
      BY <2>2, <2>3
    <3>2. QED
      BY <3>1 DEF Taken
  <2>8. \A p \in S : Taken(p)'
    BY <2>6, <2>7 DEF Missing
  <2>9. \A q \in Requests \ {r} : req'[q] = req[q] /\ due'[q] = due[q]
    BY <2>1 DEF Others
  <2>10. due'[r] \subseteq S /\ req'[r].at = "done"
    BY <2>1 DEF DueInv, Writes, Ended
  <2> HIDE DEF S
  <2>11. QED
    BY <2>6, <2>8, <2>9, <2>10 DEF DueInv
<1>12. ASSUME NEW t \in Teams, DeleteTeam(t), UNCHANGED <<messages, visible, page, more>>, Watch PROVE DueInv'
  <2>1. /\ req' \in [Requests -> RequestRecords]
        /\ \A q \in Requests : req'[q] = req[q] \/ (req[q].at = "more" /\ Ended(q))
    BY <1>12, SignedOutEffect DEF DeleteTeam
  <2>2. QED
    BY <1>12, <2>1 DEF DeleteTeam, DueInv, Taken, Others, Ended, Same, rows, ReqOK
<1>13. ASSUME NEW u \in Members, NEW T \in SUBSET Teams, ChangeTeams(u, T), UNCHANGED <<messages, visible, page,
       more>>, Watch PROVE DueInv'
  <2>1. /\ req' \in [Requests -> RequestRecords]
        /\ \A q \in Requests : req'[q] = req[q] \/ (req[q].at = "more" /\ Ended(q))
    BY <1>13, SignedOutEffect DEF ChangeTeams
  <2>2. QED
    BY <1>13, <2>1 DEF ChangeTeams, DueInv, Taken, Others, Ended, Same, rows, ReqOK
<1>14. ASSUME NEW i \in Ids, NEW t \in Teams \cup {NoTeam}, Moved(i, t), UNCHANGED <<messages, visible, page,
       more>>, Watch PROVE DueInv'
  BY <1>14 DEF Moved, DueInv, Taken
<1>15. ASSUME NEW r \in Requests, NEW u \in Users, NEW p \in Phones \cup {NoPhone},
       NEW t \in Teams \cup {NoTeam}, OpenList(r, u, p, t), UNCHANGED <<rows, due, messages>>, Watch PROVE DueInv'
  <2>1. /\ Others(r) /\ UNCHANGED <<visible, page>>
        /\ req[r].at = "idle" /\ req'[r].at = "scoped" /\ req'[r].op = "list"
        /\ req'[r].by = u /\ req'[r].scope = ScopeOf(u)
    BY <1>15, OpenListEffect
  <2>2. QED
    BY <1>15, <2>1 DEF DueInv, Taken, Others, Ended, Same, rows, ReqOK
<1>16. ASSUME NEW r \in Requests, VisibleNumbers(r), UNCHANGED <<rows, due, messages>>, Watch PROVE DueInv'
  <2>1. /\ Others(r) /\ Same(r) /\ UNCHANGED page
        /\ req[r].at = "scoped" /\ req'[r].at = "visible" /\ req'[r].scope = req[r].scope
    BY <1>16, VisibleNumbersEffect
  <2>2. QED
    BY <1>16, <2>1 DEF DueInv, Taken, Others, Ended, Same, rows, ReqOK
<1>17. ASSUME NEW r \in Requests, ListInbound(r), UNCHANGED <<rows, due, messages>>, Watch PROVE DueInv'
  <2>1. /\ Others(r) /\ Same(r) /\ req[r].at = "visible" /\ req'[r].at = "sent" /\ req'[r].scope = {}
        /\ page' = [page EXCEPT ![r] = FirstPage(Rows(r))] /\ visible' = [visible EXCEPT ![r] = {}]
    BY <1>17, ListInboundEffect
  <2>2. QED
    BY <1>17, <2>1 DEF DueInv, Taken, Others, Ended, Same, rows, ReqOK
<1>18. ASSUME NEW r \in Requests, ShowPage(r), UNCHANGED <<rows, due, messages>>, Watch PROVE DueInv'
  <2>1. /\ Others(r) /\ req[r].at = "sent" /\ ((Same(r) /\ req'[r].at = "more") \/ Ended(r))
        /\ page' = [page EXCEPT ![r] = {}] /\ UNCHANGED visible
    BY <1>18, PageEffect
  <2>2. QED
    BY <1>18, <2>1 DEF DueInv, Taken, Others, Ended, Same, rows, ReqOK
<1>19. ASSUME NEW r \in Requests, LosePage(r), UNCHANGED <<rows, due, messages>>, Watch PROVE DueInv'
  <2>1. /\ Others(r) /\ req[r].at = "sent" /\ ((Same(r) /\ req'[r].at = "more") \/ Ended(r))
        /\ page' = [page EXCEPT ![r] = {}] /\ UNCHANGED visible
    BY <1>19, PageEffect
  <2>2. QED
    BY <1>19, <2>1 DEF DueInv, Taken, Others, Ended, Same, rows, ReqOK
<1>20. ASSUME NEW r \in Requests, ClickMore(r), UNCHANGED <<rows, due, messages>>, Watch PROVE DueInv'
  <2>1. /\ Others(r) /\ Same(r) /\ UNCHANGED <<visible, page>>
        /\ req[r].at = "more" /\ req'[r].at = "scoped" /\ req'[r].scope = ScopeOf(req[r].by)
    BY <1>20, ClickMoreEffect
  <2>2. QED
    BY <1>20, <2>1 DEF DueInv, Taken, Others, Ended, Same, rows, ReqOK
<1>21. ASSUME NEW m \in Messages, NEW p \in Phones, NEW t \in Times, Receive(m, p, t), UNCHANGED <<rows, req,
       within, reach, due, lists>> PROVE DueInv'
  BY <1>21 DEF DueInv, Taken, rows
<1>22. CASE UNCHANGED vars
  BY <1>22 DEF vars, lists, messages, DueInv, Taken, rows
<1>23. QED
  BY <1>1, <1>2, <1>3, <1>4, <1>5, <1>6, <1>7, <1>8, <1>9, <1>10, <1>11, <1>12, <1>13, <1>14, <1>15, <1>16,
    <1>17, <1>18, <1>19, <1>20, <1>21, <1>22 DEF Next, NumbersStep, RosterStep, ListStep

----------------------------------------------------------------------------
(* The pages of a list.                                                    *)

(* The shape of a step, for the lists: the requests of Numbers are no      *)
(* lists and become none.                                                  *)
LEMMA NumbersEffect ==
  ASSUME RowsOK, ReqOK, NEW r \in Requests, NumbersStep(r), OpOK(r), req[r].op # "list"
  PROVE  Others(r) /\ req'[r].op # "list" /\ req'[r].at \notin {"visible", "sent", "more"}
<1> DEFINE Plain == Others(r) /\ req'[r].op # "list" /\ req'[r].at \notin {"visible", "sent", "more"}
<1>1. ASSUME Others(r), Ended(r) PROVE Plain
  BY <1>1 DEF Ended
<1>2. ASSUME NEW u \in Users, Begin(r, u) PROVE Plain
  BY <1>2, BeginEffect
<1>3. ASSUME NEW p \in Phones, NEW t \in Teams, CheckCreate(r, p, t) PROVE Plain
  BY <1>1, <1>3, CheckCreateEffect
<1>4. ASSUME Written(r) PROVE Plain
  BY <1>1, <1>4, WriteEffect
<1>5. ASSUME NEW i \in Ids, NEW o \in {"update", "delete"}, FindNumber(r, i, o) PROVE Plain
  BY <1>1, <1>5, FindNumberEffect
<1>6. ASSUME NEW i \in Ids, NEW t \in Teams \cup {NoTeam}, FindAssigned(r, i, t) PROVE Plain
  BY <1>1, <1>6, FindAssignedEffect
<1>7. ASSUME NEW S \in SUBSET Phones, ListAccount(r, S) PROVE Plain
  BY <1>7, ListAccountEffect
<1>8. ASSUME TwilioFails(r) PROVE Plain
  BY <1>1, <1>8, FinishEffect DEF TwilioFails
<1>9. QED
  BY <1>2, <1>3, <1>4, <1>5, <1>6, <1>7, <1>8 DEF NumbersStep, Written

LEMMA RosterEffect ==
  ASSUME ReqOK, RosterStep \/ \E i \in Ids, t \in Teams \cup {NoTeam} : Moved(i, t)
  PROVE  /\ req' \in [Requests -> RequestRecords]
         /\ \A r \in Requests : req'[r] = req[r] \/ (req[r].at = "more" /\ Ended(r))
<1>1. ASSUME NEW us, SignedOut(us)
      PROVE  /\ req' \in [Requests -> RequestRecords]
             /\ \A r \in Requests : req'[r] = req[r] \/ (req[r].at = "more" /\ Ended(r))
  BY <1>1, SignedOutEffect
<1>2. CASE \E t \in Teams : DeleteTeam(t)
  BY <1>1, <1>2 DEF DeleteTeam
<1>3. CASE \E u \in Members, T \in SUBSET Teams : ChangeTeams(u, T)
  BY <1>1, <1>3 DEF ChangeTeams
<1>4. CASE \E i \in Ids, t \in Teams \cup {NoTeam} : Moved(i, t)
  BY <1>4 DEF Moved, ReqOK
<1>5. QED
  BY <1>2, <1>3, <1>4 DEF RosterStep

\* A list keeps its filters from its opening to its end.
SameFilter(r) == req'[r].phone = req[r].phone /\ req'[r].team = req[r].team

LEMMA FilterKept ==
  ASSUME ReqOK, NEW r \in Requests,
         VisibleNumbers(r) \/ ListInbound(r) \/ ClickMore(r) \/ req' = [req EXCEPT ![r].at = "more"]
  PROVE  SameFilter(r)
<1>1. req[r] \in RequestRecords /\ r \in DOMAIN req
  BY DEF ReqOK
<1>2. \E a, s : \/ req' = [req EXCEPT ![r] = [req[r] EXCEPT !.at = a]]
               \/ req' = [req EXCEPT ![r] = [req[r] EXCEPT !.at = a, !.scope = s]]
  <2>1. CASE VisibleNumbers(r)
    BY <1>1, <2>1 DEF VisibleNumbers
  <2>2. CASE ListInbound(r)
    <3>1. req' = [req EXCEPT ![r] = [req[r] EXCEPT !.at = "sent", !.scope = {}]]
      BY <2>2 DEF ListInbound, ReqOK
    <3>2. QED
      BY <3>1
  <2>3. CASE ClickMore(r)
    <3>1. req' = [req EXCEPT ![r] = [req[r] EXCEPT !.at = "scoped", !.scope = ScopeOf(req[r].by)]]
      BY <2>3 DEF ClickMore, ReqOK
    <3>2. QED
      BY <3>1
  <2>4. CASE req' = [req EXCEPT ![r].at = "more"]
    BY <1>1, <2>4
  <2>5. QED
    BY <2>1, <2>2, <2>3, <2>4
<1>3. PICK a, s : \/ req' = [req EXCEPT ![r] = [req[r] EXCEPT !.at = a]]
                  \/ req' = [req EXCEPT ![r] = [req[r] EXCEPT !.at = a, !.scope = s]]
  BY <1>2
<1>4. \/ req'[r] = [req[r] EXCEPT !.at = a]
      \/ req'[r] = [req[r] EXCEPT !.at = a, !.scope = s]
  BY <1>1, <1>3
<1>5. QED
  BY <1>1, <1>4 DEF RequestRecords, SameFilter

LEMMA OpenedWith ==
  ASSUME ReqOK, NEW r \in Requests, NEW u \in Users, NEW p \in Phones \cup {NoPhone},
         NEW t \in Teams \cup {NoTeam}, OpenList(r, u, p, t)
  PROVE  req'[r].phone = p /\ req'[r].team = t
BY DEF OpenList, ReqOK

\* Of a list that a step does not touch nothing changes.
Still(q) ==
  /\ req'[q] = req[q] /\ visible'[q] = visible[q] /\ cursor'[q] = cursor[q] /\ page'[q] = page[q]
  /\ shown'[q] = shown[q] /\ owed'[q] = owed[q] /\ (q \in more' <=> q \in more)

ListOK(q) == OpOK(q) /\ ShownOK(q) /\ OwedOK(q)

LEMMA SameSight ==
  ASSUME UNCHANGED <<rows, messages>>
  PROVE  /\ \A u, t : Seeable(u, t)' = Seeable(u, t)
         /\ \A u, p, t : Wanted(u, p, t)' = Wanted(u, p, t)
         /\ \A a, b : Before(a, b)' <=> Before(a, b)
         /\ \A s : Sorted(s)' <=> Sorted(s)
         /\ belongs' = belongs /\ received' = received /\ sentTo' = sentTo /\ time' = time
<1>1. /\ teams' = teams /\ belongs' = belongs /\ numbers' = numbers /\ phone' = phone /\ team' = team
      /\ received' = received /\ sentTo' = sentTo /\ time' = time
  BY DEF rows, messages
<1>2. \A u, t : Seeable(u, t)' = Seeable(u, t)
  BY <1>1 DEF Seeable
<1>3. QED
  BY <1>1, <1>2 DEF Wanted, Before, Sorted

LEMMA StillOK ==
  ASSUME UNCHANGED <<rows, messages>>, NEW q \in Requests, Still(q), ListOK(q)
  PROVE  ListOK(q)'
<1>1. OpOK(q)'
  BY DEF Still, ListOK, OpOK
<1>2. ShownOK(q)'
  BY SameSight DEF Still, ListOK, ShownOK
<1>3. OwedOK(q)'
  BY SameSight DEF Still, ListOK, OwedOK, WantedNow
<1>4. QED
  BY <1>1, <1>2, <1>3 DEF ListOK

(* The types of what the lists keep.                                       *)
PageTypes ==
  /\ TimesOK /\ more \subseteq Requests
  /\ cursor \in [Requests -> Messages \cup {NoMessage}]
  /\ shown \in [Requests -> Seq(Messages)] /\ owed \in [Requests -> SUBSET received]

LEMMA PageParts == PageInv <=> PageTypes /\ \A r \in Requests : ListOK(r)
BY DEF PageInv, PageTypes, ListOK

\* A step of one list: the others stand still.
OneList(r) ==
  /\ UNCHANGED <<rows, messages>> /\ Others(r) /\ more' \subseteq Requests
  /\ visible' = [visible EXCEPT ![r] = visible'[r]] /\ cursor' = [cursor EXCEPT ![r] = cursor'[r]]
  /\ page' = [page EXCEPT ![r] = page'[r]] /\ shown' = [shown EXCEPT ![r] = shown'[r]]
  /\ owed' = [owed EXCEPT ![r] = owed'[r]]
  /\ more' \ {r} = more \ {r}

LEMMA OneListStep ==
  ASSUME PageInv, ReqOK, ListsOK, NEW r \in Requests, OneList(r), ListOK(r)',
         cursor'[r] \in Messages \cup {NoMessage}, shown'[r] \in Seq(Messages), owed'[r] \in SUBSET received
  PROVE  PageInv'
<1>1. \A q \in Requests \ {r} : Still(q)
  BY DEF OneList, Others, Still, PageInv, ListsOK
<1>2. \A q \in Requests \ {r} : ListOK(q)'
  BY <1>1, StillOK, PageParts DEF OneList
<1>3. PageTypes'
  <2>1. PageTypes /\ UNCHANGED <<time, received>> /\ more' \subseteq Requests
    BY PageParts DEF OneList, messages
  <2>2. cursor' = [cursor EXCEPT ![r] = cursor'[r]] /\ cursor' \in [Requests -> Messages \cup {NoMessage}]
    BY <2>1 DEF OneList, PageTypes
  <2>3. shown' \in [Requests -> Seq(Messages)] /\ owed' \in [Requests -> SUBSET received]
    BY <2>1 DEF OneList, PageTypes
  <2>4. QED
    BY <2>1, <2>2, <2>3 DEF PageTypes, TimesOK
<1>4. QED
  BY <1>2, <1>3 DEF PageInv, PageTypes, ListOK

\* A list is opened: everything its reader may see now is owed.
LEMMA OpenListPages ==
  ASSUME PageInv, RowsOK, ReqOK, ListsOK, NEW r \in Requests, NEW u \in Users, NEW p \in Phones \cup {NoPhone},
         NEW t \in Teams \cup {NoTeam}, OpenList(r, u, p, t), UNCHANGED <<rows, messages>>
  PROVE  PageInv'
<1>1. /\ Others(r) /\ UNCHANGED <<visible, page>>
      /\ req[r].at = "idle" /\ req'[r].at = "scoped" /\ req'[r].op = "list"
      /\ req'[r].by = u /\ req'[r].scope = ScopeOf(u)
  BY OpenListEffect
<1>2. req'[r].phone = p /\ req'[r].team = t
  BY OpenedWith
<1>3. /\ UNCHANGED <<visible, cursor, page, more, shown>> /\ owed' = [owed EXCEPT ![r] = Wanted(u, p, t)]
  BY DEF OpenList
<1>4. OpOK(r) /\ ShownOK(r) /\ page[r] = {}
  BY <1>1 DEF PageInv, ListsOK
<1>5. /\ shown[r] = <<>> /\ cursor[r] = NoMessage /\ r \notin more
  BY <1>1, <1>4 DEF OpOK, ShownOK
<1>6. owed'[r] = Wanted(u, p, t) /\ Wanted(u, p, t) \subseteq received
  BY <1>3 DEF PageInv, Wanted
<1>7. OneList(r)
  BY <1>1, <1>3, <1>6 DEF OneList, PageInv, ListsOK
<1>8. OpOK(r)'
  BY <1>1 DEF OpOK
<1>9. ShownOK(r)'
  BY <1>1, <1>3, <1>4, <1>5, SameSight DEF ShownOK
<1>10. OwedOK(r)'
  <2>1. owed'[r] \subseteq WantedNow(r)'
    BY <1>1, <1>2, <1>6, SameSight DEF WantedNow
  <2>2. u # Admin => req'[r].scope = belongs'[u]
    BY <1>1, SameSight DEF ScopeOf
  <2>3. QED
    BY <1>1, <1>3, <1>5, <2>1, <2>2 DEF OwedOK
<1>11. QED
  BY <1>3, <1>5, <1>6, <1>7, <1>8, <1>9, <1>10, OneListStep DEF ListOK, PageInv

\* _visible_numbers: what is owed can be seen now, by the memberships of now.
LEMMA VisibleNumbersPages ==
  ASSUME PageInv, RowsOK, ReqOK, ListsOK, NEW r \in Requests, VisibleNumbers(r), UNCHANGED <<rows, messages>>
  PROVE  PageInv'
<1>1. /\ Others(r) /\ Same(r) /\ UNCHANGED page
      /\ req[r].at = "scoped" /\ req'[r].at = "visible" /\ req'[r].scope = req[r].scope
  BY VisibleNumbersEffect
<1>2. SameFilter(r) /\ req[r].op = "list" /\ req'[r].op = "list" /\ req'[r].by = req[r].by
  BY <1>1, FilterKept DEF VisibleNumbers, Same
<1>3. /\ UNCHANGED <<cursor, page, more, shown, owed>>
      /\ visible' = [visible EXCEPT ![r] = visible'[r]]
      /\ visible'[r] = IF req[r].by = Admin THEN Seeable(Admin, req[r].team) ELSE Scoped(r)
  BY DEF VisibleNumbers, ListsOK
<1>4. ShownOK(r) /\ OwedOK(r) /\ owed[r] \subseteq received
  BY DEF PageInv
<1>5. OneList(r)
  BY <1>1, <1>3 DEF OneList, PageInv, ListsOK
<1>6. OpOK(r)'
  BY <1>1, <1>2 DEF OpOK
<1>7. ShownOK(r)'
  BY <1>1, <1>2, <1>3, <1>4, SameSight DEF ShownOK
<1>8. ASSUME NEW m \in owed[r] PROVE sentTo[m] \in visible'[r]
  <2>1. sentTo[m] \in Seeable(req[r].by, req[r].team)
    BY <1>4 DEF OwedOK, WantedNow, Wanted
  <2>2. CASE req[r].by = Admin
    BY <1>3, <2>1, <2>2
  <2>3. CASE req[r].by # Admin
    <3>1. req[r].scope = belongs[req[r].by]
      BY <1>1, <1>4, <2>3 DEF OwedOK
    <3>2. QED
      BY <1>3, <2>1, <2>3, <3>1 DEF Seeable, Scoped
  <2>4. QED
    BY <2>2, <2>3
<1>9. OwedOK(r)'
  <2>1. WantedNow(r)' = WantedNow(r)
    BY <1>2, SameSight DEF WantedNow, SameFilter
  <2>2. QED
    BY <1>1, <1>2, <1>3, <1>4, <1>8, <2>1, SameSight DEF OwedOK
<1>10. QED
  BY <1>3, <1>4, <1>5, <1>6, <1>7, <1>9, OneListStep DEF ListOK, PageInv

\* What list_inbound reads: everything owed that is not shown yet is among it.
LEMMA RowsFacts ==
  ASSUME PageInv, MessagesOK, NEW r \in Requests, req[r].at = "visible"
  PROVE  /\ Rows(r) \in SUBSET Messages /\ Rows(r) \subseteq received
         /\ cursor[r] # NoMessage => \A m \in Rows(r) : Before(cursor[r], m)
         /\ owed[r] \subseteq ToSet(shown[r]) \cup Rows(r)
<1>1. /\ TimesOK /\ ShownOK(r) /\ OwedOK(r) /\ cursor[r] \in Messages \cup {NoMessage}
      /\ received \subseteq Messages /\ owed[r] \subseteq received
  BY DEF PageInv, MessagesOK
<1>2. Rows(r) \subseteq received /\ \A m \in Rows(r) : cursor[r] # NoMessage => Older(m, cursor[r])
  BY DEF Rows
<1>3. cursor[r] # NoMessage => \A m \in Rows(r) : Before(cursor[r], m)
  BY <1>1, <1>2, BeforeOrders
<1>4. ASSUME NEW m \in owed[r], m \notin ToSet(shown[r]) PROVE m \in Rows(r)
  <2>1. m \in received /\ sentTo[m] \in visible[r] /\ (cursor[r] = NoMessage \/ Before(cursor[r], m))
    BY <1>1, <1>4 DEF OwedOK
  <2>2. req[r].phone # NoPhone => sentTo[m] = req[r].phone
    BY <1>1, <1>4 DEF OwedOK, WantedNow, Wanted
  <2>3. cursor[r] # NoMessage => Older(m, cursor[r])
    BY <1>1, <2>1, BeforeOrders
  <2>4. QED
    BY <2>1, <2>2, <2>3 DEF Rows
<1>5. QED
  BY <1>1, <1>2, <1>3, <1>4

\* list_inbound: the page takes the newest of what is left; `more` says whether it took all.
LEMMA ListInboundPages ==
  ASSUME PageInv, RowsOK, ReqOK, ListsOK, MessagesOK, NEW r \in Requests, ListInbound(r), UNCHANGED <<rows, messages>>
  PROVE  PageInv'
<1> DEFINE S == Rows(r)
           P == FirstPage(S)
<1>1. /\ Others(r) /\ Same(r) /\ req[r].at = "visible" /\ req'[r].at = "sent" /\ req'[r].scope = {}
      /\ page' = [page EXCEPT ![r] = P] /\ visible' = [visible EXCEPT ![r] = {}]
  BY ListInboundEffect
<1>2. SameFilter(r) /\ req'[r].by = req[r].by /\ req'[r].op = req[r].op
  BY <1>1, FilterKept DEF Same
<1>3. /\ UNCHANGED <<cursor, shown, owed>>
      /\ more' = IF Cardinality(S) > PageSize THEN more \cup {r} ELSE more \ {r}
  BY DEF ListInbound
<1>4. TimesOK /\ OpOK(r) /\ ShownOK(r) /\ OwedOK(r) /\ owed[r] \subseteq received
  BY DEF PageInv
<1>5. /\ S \in SUBSET Messages /\ S \subseteq received
      /\ cursor[r] # NoMessage => \A m \in S : Before(cursor[r], m)
      /\ owed[r] \subseteq ToSet(shown[r]) \cup S
  BY <1>1, RowsFacts
<1>6. Cardinality(S) \in Nat /\ PageSize \in Nat /\ PageSize >= 1 /\ (S = {} => Cardinality(S) = 0)
  BY <1>5, SetsAreFinite, FS_EmptySet, MessageListAssumption
<1> HIDE DEF S
<1>7. /\ P \subseteq S
      /\ \A k, m \in S : m \in P /\ k \notin P => Before(m, k)
      /\ Cardinality(S) <= PageSize => P = S
      /\ S # {} => P # {}
  BY <1>4, <1>5, FirstPages
<1> HIDE DEF P
<1>8. page'[r] = P
  BY <1>1 DEF ListsOK
<1>9. (r \in more' => P # {}) /\ (r \notin more' => P = S)
  BY <1>3, <1>6, <1>7
<1>10. OneList(r)
  BY <1>1, <1>3, <1>8 DEF OneList, PageInv, ListsOK
<1>11. OpOK(r)'
  BY <1>1, <1>2, <1>4 DEF OpOK
<1>12. ShownOK(r)'
  BY <1>1, <1>2, <1>3, <1>4, <1>5, <1>7, <1>8, <1>9, SameSight DEF ShownOK
<1>13. OwedOK(r)'
  <2>1. WantedNow(r)' = WantedNow(r)
    BY <1>2, SameSight DEF WantedNow, SameFilter
  <2>2. ASSUME NEW m \in owed[r]
        PROVE  m \in ToSet(shown[r]) \cup P \/ (r \in more' /\ \A k \in P : Before(k, m))
    BY <1>5, <1>7, <1>9
  <2>3. ASSUME NEW m \in owed[r]
        PROVE  m \in ToSet(shown[r]) \/ cursor[r] = NoMessage \/ Before(cursor[r], m)
    BY <1>4 DEF OwedOK
  <2>4. owed[r] \subseteq WantedNow(r)
    BY <1>4 DEF OwedOK
  <2>5. QED
    BY <1>1, <1>3, <1>8, <2>1, <2>2, <2>3, <2>4, SameSight DEF OwedOK
<1>14. QED
  BY <1>3, <1>4, <1>10, <1>11, <1>12, <1>13, OneListStep DEF ListOK, PageInv

\* What the browser shows once the page on its way has arrived.
LEMMA ExtendedFacts ==
  ASSUME PageInv, MessagesOK, ListsOK, NEW r \in Requests
  PROVE  /\ Extended(r) \in Seq(Messages) /\ Sorted(Extended(r))
         /\ ToSet(Extended(r)) = ToSet(shown[r]) \cup page[r]
         /\ page[r] # {} => Extended(r) # <<>> /\ Last(Extended(r)) = Last(InOrder(page[r]))
<1>1. /\ TimesOK /\ ShownOK(r) /\ shown[r] \in Seq(Messages) /\ page[r] \in SUBSET Messages
  BY DEF PageInv, MessagesOK, ListsOK
<1>2. Sorted(shown[r]) /\ (shown[r] # <<>> => \A m \in page[r] : Before(Last(shown[r]), m))
  BY <1>1 DEF ShownOK
<1>3. QED
  BY <1>1, <1>2, Appended DEF Extended

\* appendMessages and updateMore: the list grows by the page and goes on after it.
LEMMA MorePages ==
  ASSUME PageInv, RowsOK, ReqOK, ListsOK, MessagesOK, NEW r \in Requests, ShowPage(r), r \in more,
         UNCHANGED <<rows, messages>>
  PROVE  PageInv'
<1> DEFINE e == Extended(r)
<1>1. /\ req[r].at = "sent" /\ shown' = [shown EXCEPT ![r] = e]
      /\ cursor' = [cursor EXCEPT ![r] = Last(InOrder(page[r]))]
      /\ req' = [req EXCEPT ![r].at = "more"] /\ UNCHANGED <<owed, visible>>
      /\ page' = [page EXCEPT ![r] = {}] /\ more' = more \ {r}
  BY DEF ShowPage
<1>2. Others(r) /\ Same(r) /\ req'[r].at = "more" /\ SameFilter(r)
  BY <1>1, ToMore, FilterKept
<1>3. TimesOK /\ OpOK(r) /\ ShownOK(r) /\ OwedOK(r) /\ page[r] # {} /\ page[r] \subseteq received
  BY DEF PageInv, ShownOK, ListsOK
<1>4. /\ e \in Seq(Messages) /\ Sorted(e) /\ ToSet(e) = ToSet(shown[r]) \cup page[r]
      /\ e # <<>> /\ Last(e) = Last(InOrder(page[r]))
  BY <1>3, ExtendedFacts
<1> HIDE DEF e
<1>5. Last(e) \in ToSet(e)
  BY <1>3, <1>4, SortedFacts
<1>6. ToSet(e) \subseteq received /\ Last(e) \in Messages /\ Last(e) # NoMessage
  <2>1. ToSet(e) \subseteq received
    BY <1>3, <1>4 DEF ShownOK
  <2>2. \A m \in Messages : m # NoMessage
    BY DEF Messages, NoMessage
  <2>3. QED
    BY <1>5, <2>1, <2>2 DEF MessagesOK
<1>7. shown'[r] = e /\ cursor'[r] = Last(e) /\ page'[r] = {} /\ owed'[r] = owed[r]
  BY <1>1, <1>4 DEF PageInv, ListsOK
<1>8. OneList(r)
  BY <1>1, <1>2, <1>7 DEF OneList, PageInv, ListsOK
<1>9. OpOK(r)'
  BY <1>1, <1>2, <1>3 DEF OpOK, Same
<1>10. ShownOK(r)'
  BY <1>1, <1>2, <1>3, <1>4, <1>6, <1>7, SameSight DEF ShownOK, OpOK, Same
<1>11. OwedOK(r)'
  <2>1. WantedNow(r)' = WantedNow(r) /\ owed[r] \subseteq WantedNow(r)
    BY <1>2, <1>3, SameSight DEF WantedNow, SameFilter, OwedOK, Same
  <2>2. \A m \in owed[r] : m \in ToSet(e) \/ \A k \in page[r] : Before(k, m)
    BY <1>1, <1>3, <1>4 DEF OwedOK
  <2>3. Last(e) \in page[r]
    <3>1. Last(InOrder(page[r])) \in ToSet(InOrder(page[r])) /\ ToSet(InOrder(page[r])) = page[r]
      <4>1. page[r] \in SUBSET Messages
        BY <1>3 DEF MessagesOK
      <4>2. /\ InOrder(page[r]) \in Seq(page[r]) /\ Len(InOrder(page[r])) = Cardinality(page[r])
            /\ ToSet(InOrder(page[r])) = page[r] /\ Sorted(InOrder(page[r]))
        BY <1>3, <4>1, Ordered
      <4>3. InOrder(page[r]) \in Seq(Messages) /\ InOrder(page[r]) # <<>>
        BY <1>3, <4>1, <4>2, SeqMonotonic DEF ToSet
      <4>4. QED
        BY <1>3, <4>2, <4>3, SortedFacts
    <3>2. QED
      BY <1>4, <3>1
  <2>4. \A m \in owed[r] : m \in ToSet(e) \/ Before(Last(e), m)
    BY <2>2, <2>3
  <2>5. QED
    BY <1>2, <1>7, <2>1, <2>4, SameSight DEF OwedOK
<1>12. QED
  BY <1>1, <1>3, <1>4, <1>6, <1>7, <1>8, <1>9, <1>10, <1>11, OneListStep DEF ListOK, PageInv

\* The last page ends the list.
LEMMA LastPages ==
  ASSUME PageInv, RowsOK, ReqOK, ListsOK, NEW r \in Requests, ShowPage(r), r \notin more,
         UNCHANGED <<rows, messages>>
  PROVE  PageInv'
<1>1. /\ shown' = [shown EXCEPT ![r] = <<>>] /\ cursor' = [cursor EXCEPT ![r] = NoMessage]
      /\ owed' = [owed EXCEPT ![r] = {}] /\ Finish(r) /\ UNCHANGED visible
      /\ page' = [page EXCEPT ![r] = {}] /\ more' = more \ {r}
  BY DEF ShowPage
<1>2. Others(r) /\ Ended(r)
  BY <1>1, FinishEffect
<1>3. shown'[r] = <<>> /\ cursor'[r] = NoMessage /\ page'[r] = {} /\ owed'[r] = {} /\ r \notin more'
  BY <1>1 DEF PageInv, ListsOK
<1>4. OneList(r)
  BY <1>1, <1>2, <1>3 DEF OneList, PageInv, ListsOK
<1>5. OpOK(r)'
  BY <1>2 DEF OpOK, Ended
<1>6. ShownOK(r)'
  BY <1>2, <1>3 DEF ShownOK, Ended, ToSet, Sorted
<1>7. OwedOK(r)'
  BY <1>3 DEF OwedOK
<1>8. <<>> \in Seq(Messages)
  BY EmptySeq
<1>9. QED
  BY <1>3, <1>4, <1>5, <1>6, <1>7, <1>8, OneListStep DEF ListOK

\* A page that is lost takes nothing with it: the cursor stays.
LEMMA LostPages ==
  ASSUME PageInv, RowsOK, ReqOK, ListsOK, NEW r \in Requests, LosePage(r), UNCHANGED <<rows, messages>>
  PROVE  PageInv'
<1>1. /\ UNCHANGED <<visible, cursor, shown, owed>> /\ req' = [req EXCEPT ![r].at = "more"]
      /\ page' = [page EXCEPT ![r] = {}] /\ more' = more \ {r} /\ req[r].at = "sent"
  BY DEF LosePage
<1>2. Others(r) /\ Same(r) /\ req'[r].at = "more" /\ SameFilter(r)
  BY <1>1, ToMore, FilterKept
<1>3. /\ OpOK(r) /\ ShownOK(r) /\ OwedOK(r) /\ page'[r] = {} /\ r \notin more'
      /\ cursor[r] \in Messages \cup {NoMessage} /\ shown[r] \in Seq(Messages) /\ owed[r] \subseteq received
  BY <1>1 DEF PageInv, ListsOK
<1>4. OneList(r)
  BY <1>1, <1>2, <1>3 DEF OneList, PageInv, ListsOK
<1>5. OpOK(r)'
  BY <1>1, <1>2, <1>3 DEF OpOK, Same
<1>6. ShownOK(r)'
  BY <1>1, <1>2, <1>3, SameSight DEF ShownOK, Same
<1>7. OwedOK(r)'
  <2>1. WantedNow(r)' = WantedNow(r)
    BY <1>2, SameSight DEF WantedNow, SameFilter, Same
  <2>2. QED
    BY <1>1, <1>2, <1>3, <2>1, SameSight DEF OwedOK, Same
<1>8. QED
  BY <1>1, <1>3, <1>4, <1>5, <1>6, <1>7, OneListStep DEF ListOK

\* onMoreClick: the next page is asked for with the memberships of now.
LEMMA ClickedPages ==
  ASSUME PageInv, RowsOK, ReqOK, ListsOK, NEW r \in Requests, ClickMore(r), UNCHANGED <<rows, messages>>
  PROVE  PageInv'
<1>1. /\ Others(r) /\ Same(r) /\ UNCHANGED <<visible, page>>
      /\ req[r].at = "more" /\ req'[r].at = "scoped" /\ req'[r].scope = ScopeOf(req[r].by)
  BY ClickMoreEffect
<1>2. UNCHANGED lists /\ SameFilter(r)
  BY FilterKept DEF ClickMore
<1>3. /\ OpOK(r) /\ ShownOK(r) /\ OwedOK(r)
      /\ cursor[r] \in Messages \cup {NoMessage} /\ shown[r] \in Seq(Messages) /\ owed[r] \subseteq received
  BY DEF PageInv
<1>4. OneList(r)
  BY <1>1, <1>2 DEF OneList, PageInv, ListsOK, lists
<1>5. OpOK(r)'
  BY <1>1, <1>3 DEF OpOK, Same
<1>6. ShownOK(r)'
  BY <1>1, <1>2, <1>3, SameSight DEF ShownOK, Same, lists
<1>7. OwedOK(r)'
  <2>1. WantedNow(r)' = WantedNow(r)
    BY <1>1, <1>2, SameSight DEF WantedNow, SameFilter, Same
  <2>2. req'[r].by # Admin => req'[r].scope = belongs'[req'[r].by]
    BY <1>1, SameSight DEF ScopeOf, Same
  <2>3. QED
    BY <1>1, <1>2, <1>3, <2>1, <2>2, SameSight DEF OwedOK, Same, lists
<1>8. QED
  BY <1>2, <1>3, <1>4, <1>5, <1>6, <1>7, OneListStep DEF ListOK, lists

\* An SMS that is committed disturbs no list: it changes neither the time nor the number of another one.
LEMMA ReceivedPages ==
  ASSUME PageInv, MessagesOK, ListsOK, NEW m \in Messages, NEW p \in Phones, NEW t \in Times, Receive(m, p, t),
         UNCHANGED <<rows, req, lists>>
  PROVE  PageInv'
<1>1. /\ received \subseteq received' /\ received \subseteq Messages
      /\ \A k \in received : sentTo'[k] = sentTo[k] /\ time'[k] = time[k]
      /\ time' \in [Messages -> Times \cup {0}]
  BY DEF Receive, MessagesOK, PageInv, TimesOK
<1>2. \A a, b \in received : Before(a, b)' <=> Before(a, b)
  BY <1>1 DEF Before
<1>3. /\ visible' = visible /\ cursor' = cursor /\ page' = page /\ more' = more /\ shown' = shown /\ owed' = owed
      /\ req' = req /\ belongs' = belongs
  BY DEF lists, rows
<1>4. \A u, k : Seeable(u, k)' = Seeable(u, k)
  BY DEF Seeable, rows
<1>5. PageTypes'
  BY <1>1, <1>3 DEF PageInv, PageTypes, TimesOK
<1>6. ASSUME NEW r \in Requests PROVE ListOK(r)'
  <2>1. OpOK(r) /\ ShownOK(r) /\ OwedOK(r) /\ owed[r] \subseteq received /\ shown[r] \in Seq(Messages)
    BY DEF PageInv
  <2>2. OpOK(r)'
    BY <1>3, <2>1 DEF OpOK
  <2>3. /\ \A i \in DOMAIN shown[r] : shown[r][i] \in received
        /\ page[r] \subseteq received
        /\ cursor[r] # NoMessage => cursor[r] \in received
    <3>1. \A i \in DOMAIN shown[r] : shown[r][i] \in received
      BY <2>1 DEF ShownOK, ToSet
    <3>2. ASSUME cursor[r] # NoMessage PROVE cursor[r] \in received
      <4>1. cursor[r] = Last(shown[r]) /\ shown[r] # <<>>
        BY <2>1, <3>2 DEF ShownOK
      <4>2. Last(shown[r]) \in ToSet(shown[r])
        BY <2>1, <4>1, SortedFacts DEF ShownOK, PageInv
      <4>3. QED
        BY <2>1, <4>1, <4>2 DEF ShownOK
    <3>3. QED
      BY <3>1, <3>2 DEF ListsOK
  <2>4. Sorted(shown[r])'
    BY <1>2, <1>3, <2>1, <2>3 DEF Sorted, ShownOK
  <2>5. ShownOK(r)'
    BY <1>1, <1>2, <1>3, <2>1, <2>3, <2>4 DEF ShownOK
  <2>6. owed[r] \subseteq WantedNow(r)'
    BY <1>1, <1>3, <1>4, <2>1 DEF OwedOK, WantedNow, Wanted
  <2>7. OwedOK(r)'
    BY <1>1, <1>2, <1>3, <2>1, <2>3, <2>6 DEF OwedOK
  <2>8. QED
    BY <2>2, <2>5, <2>7 DEF ListOK
<1>7. QED
  BY <1>5, <1>6 DEF PageInv, PageTypes, ListOK

\* The requests of Numbers go on only while no list is read and nothing has come.
LEMMA NumbersPages ==
  ASSUME PageInv, RowsOK, ReqOK, ListsOK, NEW r \in Requests, NumbersStep(r), received = {}, ~Reading,
         UNCHANGED <<messages, lists>>
  PROVE  PageInv'
<1>1. \A q \in Requests : OpOK(q) /\ ShownOK(q) /\ req[q].op # "list"
  BY DEF PageInv, Reading
<1>2. /\ visible' = visible /\ cursor' = cursor /\ page' = page /\ more' = more /\ shown' = shown /\ owed' = owed
      /\ received' = received /\ sentTo' = sentTo /\ time' = time
  BY DEF lists, messages
<1>3. Others(r) /\ req'[r].op # "list" /\ req'[r].at \notin {"visible", "sent", "more"}
  BY <1>1, NumbersEffect
<1>4. ASSUME NEW q \in Requests PROVE ListOK(q)'
  <2>1. OpOK(q) /\ ShownOK(q) /\ req[q].op # "list" /\ owed[q] = {} /\ shown[q] = <<>> /\ q \notin more
    BY <1>1 DEF ShownOK, OpOK
  <2>2. req'[q].op # "list" /\ req'[q].at \notin {"visible", "sent", "more"}
    BY <1>3, <2>1 DEF Others, OpOK
  <2>3. OpOK(q)' /\ OwedOK(q)'
    BY <1>2, <2>1, <2>2 DEF OpOK, OwedOK
  <2>4. ShownOK(q)'
    BY <1>2, <2>1, <2>2 DEF ShownOK, Before, Sorted
  <2>5. QED
    BY <2>3, <2>4 DEF ListOK
<1>5. PageTypes'
  BY <1>2 DEF PageInv, PageTypes, TimesOK
<1>6. QED
  BY <1>4, <1>5 DEF PageInv, PageTypes, ListOK

\* Teams, memberships and assignments change: who is signed out loses the list, and what cannot be
\* seen for a while is owed no more.
LEMMA RosterPages ==
  ASSUME PageInv, RowsOK, ReqOK, ListsOK,
         RosterStep \/ \E i \in Ids, t \in Teams \cup {NoTeam} : Moved(i, t),
         UNCHANGED <<messages, visible, page, more>>, Relist
  PROVE  PageInv'
<1>1. /\ visible' = visible /\ page' = page /\ more' = more
      /\ received' = received /\ sentTo' = sentTo /\ time' = time
  BY DEF messages
<1>2. /\ req' \in [Requests -> RequestRecords]
      /\ \A r \in Requests : req'[r] = req[r] \/ (req[r].at = "more" /\ Ended(r))
  BY RosterEffect
<1>3. \A a, b : Before(a, b)' <=> Before(a, b)
  BY <1>1 DEF Before
<1>4. ASSUME NEW r \in Requests
      PROVE  /\ ListOK(r)' /\ cursor'[r] \in Messages \cup {NoMessage} /\ shown'[r] \in Seq(Messages)
             /\ owed'[r] \subseteq received
  <2>1. /\ OpOK(r) /\ ShownOK(r) /\ OwedOK(r) /\ owed[r] \subseteq received /\ shown[r] \in Seq(Messages)
        /\ cursor[r] \in Messages \cup {NoMessage} /\ (page[r] # {} => req[r].at = "sent")
    BY DEF PageInv, ListsOK
  <2>2. /\ owed'[r] = IF req'[r].op = "list" /\ Acting(r)' = Acting(r) THEN owed[r] \cap WantedNow(r)' ELSE {}
        /\ shown'[r] = IF req'[r].op = "list" THEN shown[r] ELSE <<>>
        /\ cursor'[r] = IF req'[r].op = "list" THEN cursor[r] ELSE NoMessage
    BY DEF Relist
  <2>3. <<>> \in Seq(Messages)
    BY EmptySeq
  <2>4. CASE req'[r] = req[r] /\ req[r].op = "list"
    <3>1. /\ shown'[r] = shown[r] /\ cursor'[r] = cursor[r] /\ owed'[r] \subseteq owed[r] /\ req'[r] = req[r]
          /\ owed'[r] \subseteq WantedNow(r)'
      BY <2>2, <2>4
    <3>2. OpOK(r)' /\ ShownOK(r)'
      BY <1>1, <1>3, <2>1, <2>4, <3>1 DEF OpOK, ShownOK, Sorted
    <3>3. req[r].by # Admin /\ owed'[r] # {} => belongs'[req[r].by] = belongs[req[r].by]
      BY <2>2, <2>4 DEF Acting, ScopeOf
    <3>4. OwedOK(r)'
      BY <1>1, <1>3, <2>1, <3>1, <3>3 DEF OwedOK
    <3>5. QED
      BY <2>1, <3>1, <3>2, <3>4 DEF ListOK
  <2>5. CASE req'[r] = req[r] /\ req[r].op # "list"
    <3>1. shown'[r] = <<>> /\ cursor'[r] = NoMessage /\ owed'[r] = {} /\ shown[r] = <<>> /\ cursor[r] = NoMessage
      BY <2>1, <2>2, <2>5 DEF ShownOK
    <3>2. OpOK(r)' /\ ShownOK(r)' /\ OwedOK(r)'
      BY <1>1, <1>3, <2>1, <2>5, <3>1 DEF OpOK, ShownOK, OwedOK, Sorted
    <3>3. QED
      BY <2>3, <3>1, <3>2 DEF ListOK
  <2>6. CASE req[r].at = "more" /\ Ended(r)
    <3>1. shown'[r] = <<>> /\ cursor'[r] = NoMessage /\ owed'[r] = {}
      BY <2>2, <2>6 DEF Ended
    <3>2. r \notin more'
      BY <1>1, <2>1, <2>6 DEF ShownOK
    <3>3. OpOK(r)' /\ ShownOK(r)' /\ OwedOK(r)'
      BY <1>1, <2>6, <3>1, <3>2 DEF OpOK, ShownOK, OwedOK, Sorted, ToSet, Ended
    <3>4. QED
      BY <2>3, <3>1, <3>3 DEF ListOK
  <2>7. QED
    BY <1>2, <2>4, <2>5, <2>6
<1>5. PageTypes'
  BY <1>1, <1>4 DEF PageInv, PageTypes, TimesOK, Relist
<1>6. QED
  BY <1>4, <1>5 DEF PageInv, PageTypes, ListOK

\* Every step keeps the pages of every list.
LEMMA PageStep == PageInv /\ RowsOK /\ ReqOK /\ ListsOK /\ MessagesOK /\ [Next]_vars => PageInv'
<1> SUFFICES ASSUME PageInv, RowsOK, ReqOK, ListsOK, MessagesOK, [Next]_vars PROVE PageInv'
  OBVIOUS
<1>1. ASSUME NEW r \in Requests, ListStep(r), UNCHANGED <<rows, due, messages>> PROVE PageInv'
  <2>1. UNCHANGED <<rows, messages>>
    BY <1>1
  <2>2. QED
    BY <1>1, <2>1, OpenListPages, VisibleNumbersPages, ListInboundPages, MorePages, LastPages, LostPages,
       ClickedPages DEF ListStep
<1>2. ASSUME NEW m \in Messages, NEW p \in Phones, NEW t \in Times, Receive(m, p, t),
             UNCHANGED <<rows, req, within, reach, due, lists>>
      PROVE  PageInv'
  BY <1>2, ReceivedPages
<1>3. ASSUME NEW r \in Requests, NumbersStep(r), received = {}, ~Reading, UNCHANGED <<messages, lists>>
      PROVE  PageInv'
  BY <1>3, NumbersPages
<1>4. ASSUME RosterStep \/ (Reading /\ \E i \in Ids, t \in Teams \cup {NoTeam} : Moved(i, t)),
             UNCHANGED <<messages, visible, page, more>>, Relist
      PROVE  PageInv'
  BY <1>4, RosterPages
<1>5. CASE UNCHANGED vars
  <2>1. UNCHANGED <<rows, messages>> /\ \A q \in Requests : Still(q)
    BY <1>5 DEF vars, lists, Still
  <2>2. \A q \in Requests : ListOK(q)'
    BY <2>1, StillOK, PageParts
  <2>3. PageTypes'
    BY <1>5 DEF PageInv, PageTypes, TimesOK, vars, lists, messages
  <2>4. QED
    BY <2>2, <2>3 DEF PageInv, PageTypes, ListOK
<1>6. QED
  BY <1>1, <1>2, <1>3, <1>4, <1>5 DEF Next

----------------------------------------------------------------------------
(* The theorems.                                                           *)

IInv ==
  /\ RowsOK /\ ReqOK /\ CreatesPhone /\ HistoryOK /\ MessagesOK /\ ListsOK
  /\ ScopeInv /\ ReachInv /\ DueInv /\ PageInv

LEMMA InitAll == Init => IInv
<1> SUFFICES ASSUME Init PROVE IInv
  OBVIOUS
<1> USE NumbersAssumption DEF Init, InitNumbers
<1>1. RowsOK
  <2>1. numbers \subseteq Ids
    BY DEF Ids
  <2>2. QED
    BY <2>1 DEF RowsOK
<1>2. ReqOK /\ \A r \in Requests : req[r].at = "idle" /\ req[r].op = "none"
  BY DEF ReqOK, RequestRecords, Blank, Ops, Steps, Users
<1>3. CreatesPhone /\ HistoryOK
  BY <1>2 DEF CreatesPhone, HistoryOK, Writes
<1>4. MessagesOK /\ ListsOK
  BY DEF MessagesOK, ListsOK
<1>5. ScopeInv /\ ReachInv /\ DueInv
  BY <1>2 DEF ScopeInv, ReachInv, EditsReachable, DueInv
<1>6. PageInv
  <2>1. time \in [Messages -> Times \cup {0}] /\ <<>> \in Seq(Messages)
    BY EmptySeq
  <2>2. ASSUME NEW r \in Requests PROVE OpOK(r) /\ ShownOK(r) /\ OwedOK(r)
    <3>1. /\ shown[r] = <<>> /\ cursor[r] = NoMessage /\ owed[r] = {} /\ page[r] = {} /\ more = {}
          /\ req[r].at = "idle" /\ req[r].op = "none"
      BY <1>2
    <3>2. QED
      BY <3>1 DEF OpOK, ShownOK, OwedOK, ToSet, Sorted
  <2>3. QED
    BY <2>1, <2>2 DEF PageInv, TimesOK
<1>7. QED
  BY <1>1, <1>2, <1>3, <1>4, <1>5, <1>6 DEF IInv

LEMMA HistoryNext == RowsOK' /\ ReqOK' /\ HistoryOK /\ [Next]_vars => HistoryOK'
<1> SUFFICES ASSUME RowsOK', ReqOK', HistoryOK, [Next]_vars PROVE HistoryOK'
  OBVIOUS
<1>1. Watch \/ UNCHANGED <<within, reach>>
  BY DEF Next, vars
<1>2. QED
  BY <1>1, HistoryStep DEF HistoryOK

LEMMA Inductive == IInv /\ [Next]_vars => IInv'
<1> SUFFICES ASSUME IInv, [Next]_vars PROVE IInv'
  OBVIOUS
<1>1. RowsOK' /\ ReqOK' /\ CreatesPhone' /\ MessagesOK' /\ ListsOK'
  BY RowsStep, RequestStep, MessagesStep, ListsStep DEF IInv
<1>2. HistoryOK' /\ ScopeInv' /\ ReachInv' /\ DueInv'
  BY <1>1, HistoryNext, ScopeStep, ReachStep, DueStep DEF IInv
<1>3. PageInv'
  BY PageStep DEF IInv
<1>4. QED
  BY <1>1, <1>2, <1>3 DEF IInv

(* The inductive invariant: the types, what a request may reach, what a    *)
(* synchronisation owes, what the pages of a list have shown and have yet  *)
(* to show (numbers_service, messages_service, messages.js).               *)
THEOREM Invariance == Spec => []IInv
BY InitAll, Inductive, PTL DEF Spec

(* The tables and the requests keep their types: a phone has one row, and  *)
(* a row's team exists, whatever is deleted meanwhile.                     *)
THEOREM NumbersTypeCorrect == Spec => []NumbersTypeOK
<1>1. IInv => NumbersTypeOK
  BY NumbersParts DEF IInv
<1>2. QED
  BY <1>1, Invariance, PTL

(* The messages, and each list's cursor, page and what it shows, keep      *)
(* their types; no list shows more messages than there are.                *)
THEOREM TypeCorrect == Spec => []TypeOK
<1>1. IInv => TypeOK
  <2> SUFFICES ASSUME IInv PROVE TypeOK
    OBVIOUS
  <2>1. NumbersTypeOK
    BY NumbersParts DEF IInv
  <2>2. /\ received \subseteq Messages /\ sentTo \in [Messages -> Phones \cup {NoPhone}]
        /\ time \in [Messages -> Times \cup {0}] /\ visible \in [Requests -> SUBSET Phones]
        /\ cursor \in [Requests -> Messages \cup {NoMessage}] /\ more \subseteq Requests
    BY DEF IInv, MessagesOK, ListsOK, PageInv, TimesOK
  <2>3. page \in [Requests -> SUBSET Messages] /\ owed \in [Requests -> SUBSET Messages]
    BY DEF IInv, MessagesOK, ListsOK, PageInv
  <2>4. ASSUME NEW r \in Requests
        PROVE  /\ Len(shown[r]) <= Cardinality(Messages) /\ ToSet(shown[r]) \subseteq Messages
               /\ page[r] # {} => req[r].op = "list"
    <3>1. TimesOK /\ OpOK(r) /\ ShownOK(r) /\ shown[r] \in Seq(Messages) /\ received \subseteq Messages
      BY DEF IInv, MessagesOK, PageInv
    <3>2. Len(shown[r]) <= Cardinality(Messages)
      BY <3>1, SortedFacts DEF ShownOK
    <3>3. page[r] # {} => req[r].at = "sent"
      BY DEF IInv, ListsOK
    <3>4. QED
      BY <3>1, <3>2, <3>3 DEF ShownOK, OpOK
  <2>5. QED
    BY <2>1, <2>2, <2>3, <2>4 DEF TypeOK
<1>2. QED
  BY <1>1, Invariance, PTL

(* The pages of a list, put together, are newest first and repeat nothing; *)
(* and what was there at its opening and could be seen throughout is in    *)
(* them at the end (list_inbound, appendMessages, updateMore).             *)
THEOREM PagesAreRight == Spec => []PagesRight
<1>1. IInv => NewestFirst
  BY ExtendedFacts DEF IInv, NewestFirst, Sorted
<1>2. IInv => NothingSkipped
  <2> SUFFICES ASSUME IInv, NEW r \in Requests, req[r].at = "sent", r \notin more
               PROVE  owed[r] \subseteq ToSet(Extended(r))
    BY DEF NothingSkipped
  <2>1. OwedOK(r)
    BY DEF IInv, PageInv
  <2>2. ToSet(Extended(r)) = ToSet(shown[r]) \cup page[r]
    BY ExtendedFacts DEF IInv
  <2>3. QED
    BY <2>1, <2>2 DEF OwedOK
<1>3. IInv => PagesRight
  BY <1>1, <1>2 DEF PagesRight
<1>4. QED
  BY <1>3, Invariance, PTL

(* No synchronisation loses a number, whatever else is added, assigned or  *)
(* synchronised between its listing and its write (bulk_upsert_for_sync).  *)
THEOREM SyncsComplete == Spec => []SyncComplete
<1>1. IInv => SyncComplete
  BY DEF IInv, DueInv, SyncComplete
<1>2. QED
  BY <1>1, Invariance, PTL

(* A member edits, and is sent SMS of, only numbers that were in one of    *)
(* his teams while the request ran (current_scope, _visible_numbers).      *)
THEOREM ReachRespected == Spec => []OnlyReachable
<1>1. IInv => OnlyReachable
  BY DEF IInv, ReachInv, OnlyReachable
<1>2. QED
  BY <1>1, Invariance, PTL


(* Whether a row changes its team as AssignmentsKept allows.               *)
Kept(i) ==
  /\ phone'[i] = phone[i]
  /\ team'[i] # team[i] => \/ Asked(i, "assign") /\ team'[i] \in teams \cup {NoTeam}
                           \/ team[i] \notin teams' /\ team'[i] = NoTeam
                           \/ Moved(i, team'[i])

AllKept == \A i \in numbers \cap numbers' : Kept(i)

LEMMA AssignStep == RowsOK /\ [Next]_vars => AllKept
<1> SUFFICES ASSUME RowsOK, [Next]_vars PROVE AllKept
  OBVIOUS
<1> USE NumbersAssumption
<1>1. ASSUME NEW r \in Requests, NEW u \in Users, Begin(r, u), UNCHANGED <<messages, lists>>, Watch PROVE AllKept
  BY <1>1 DEF Begin, AllKept, Kept, rows
<1>2. ASSUME NEW r \in Requests, NEW p \in Phones, NEW t \in Teams, CheckCreate(r, p, t), UNCHANGED <<messages,
      lists>>, Watch PROVE AllKept
  BY <1>2 DEF CheckCreate, AllKept, Kept, rows
<1>3. ASSUME NEW r \in Requests, Insert(r), UNCHANGED <<messages, lists>>, Watch PROVE AllKept
  <2>1. CASE UNCHANGED <<numbers, phone, team>>
    BY <2>1 DEF AllKept, Kept
  <2>2. CASE \E i \in Fresh(1) : /\ phone' = [phone EXCEPT ![i] = req[r].phone]
                                 /\ team' = [team EXCEPT ![i] = req[r].team]
    BY <2>2, FreshIsNew DEF AllKept, Kept, RowsOK
  <2>3. QED
    BY <1>3, <2>1, <2>2 DEF Insert
<1>4. ASSUME NEW r \in Requests, NEW i \in Ids, NEW o \in {"update", "delete"}, FindNumber(r, i, o),
      UNCHANGED <<messages, lists>>, Watch PROVE AllKept
  BY <1>4 DEF FindNumber, AllKept, Kept, rows
<1>5. ASSUME NEW r \in Requests, SetLabel(r), UNCHANGED <<messages, lists>>, Watch PROVE AllKept
  BY <1>5 DEF SetLabel, AllKept, Kept, rows
<1>6. ASSUME NEW r \in Requests, DeleteNumber(r), UNCHANGED <<messages, lists>>, Watch PROVE AllKept
  <2>1. /\ numbers' = numbers \ {req[r].id} /\ phone' = [phone EXCEPT ![req[r].id] = NoPhone]
        /\ team' = [team EXCEPT ![req[r].id] = NoTeam]
    BY <1>6 DEF DeleteNumber
  <2>2. QED
    BY <2>1 DEF AllKept, Kept, RowsOK
<1>7. ASSUME NEW r \in Requests, NEW i \in Ids, NEW t \in Teams \cup {NoTeam}, FindAssigned(r, i, t),
      UNCHANGED <<messages, lists>>, Watch PROVE AllKept
  BY <1>7 DEF FindAssigned, AllKept, Kept, rows
<1>8. ASSUME NEW r \in Requests, SetTeam(r), UNCHANGED <<messages, lists>>, Watch PROVE AllKept
  <2>1. UNCHANGED phone /\ Writes(r, "assign")
    BY <1>8 DEF SetTeam
  <2>2. \/ UNCHANGED team
        \/ req[r].team \in teams \cup {NoTeam} /\ team' = [team EXCEPT ![req[r].id] = req[r].team]
    BY <1>8 DEF SetTeam
  <2>3. QED
    BY <2>1, <2>2 DEF AllKept, Kept, Asked, RowsOK
<1>9. ASSUME NEW r \in Requests, NEW S \in SUBSET Phones, ListAccount(r, S), UNCHANGED <<messages, lists>>,
      Watch PROVE AllKept
  BY <1>9 DEF ListAccount, AllKept, Kept, rows
<1>10. ASSUME NEW r \in Requests, TwilioFails(r), UNCHANGED <<messages, lists>>, Watch PROVE AllKept
  BY <1>10 DEF TwilioFails, AllKept, Kept, rows
<1>11. ASSUME NEW r \in Requests, BulkUpsert(r), UNCHANGED <<messages, lists>>, Watch PROVE AllKept
  <2> DEFINE S == req[r].list
  <2>1. PICK new \in [Missing(S) -> Fresh(Cardinality(Missing(S)))] :
          LET ids == {new[p] : p \in Missing(S)} IN
          /\ phone' = [i \in Ids |-> IF i \in ids THEN CHOOSE p \in Missing(S) : new[p] = i ELSE phone[i]]
          /\ team' = TeamsAfter(S, ids)
    BY <1>11 DEF BulkUpsert
  <2> DEFINE ids == {new[p] : p \in Missing(S)}
  <2>2. ids \subseteq Ids \ numbers
    BY FreshIsNew
  <2>3. \A i \in numbers : phone'[i] = phone[i] /\ team'[i] = team[i]
    BY <2>1, <2>2 DEF TeamsAfter, RowsOK
  <2>4. QED
    BY <2>3 DEF AllKept, Kept
<1>12. ASSUME NEW t \in Teams, DeleteTeam(t), UNCHANGED <<messages, visible, page, more>>, Watch PROVE AllKept
  <2>1. UNCHANGED phone /\ teams' = teams \ {t} /\ team' = Released(t)
    BY <1>12 DEF DeleteTeam
  <2>2. QED
    BY <2>1 DEF AllKept, Kept, Released, RowsOK
<1>13. ASSUME NEW u \in Members, NEW T \in SUBSET Teams, ChangeTeams(u, T), UNCHANGED <<messages, visible, page,
       more>>, Watch PROVE AllKept
  BY <1>13 DEF ChangeTeams, AllKept, Kept, rows
<1>14. ASSUME NEW i \in Ids, NEW t \in Teams \cup {NoTeam}, Moved(i, t), UNCHANGED <<messages, visible, page,
       more>>, Watch PROVE AllKept
  <2>1. UNCHANGED phone /\ team' = [team EXCEPT ![i] = t]
    BY <1>14 DEF Moved
  <2>2. team'[i] = t /\ \A k \in Ids \ {i} : team'[k] = team[k]
    BY <2>1 DEF RowsOK
  <2>3. QED
    BY <1>14, <2>1, <2>2 DEF AllKept, Kept, RowsOK
<1>15. ASSUME NEW r \in Requests, NEW u \in Users, NEW p \in Phones \cup {NoPhone},
       NEW t \in Teams \cup {NoTeam}, OpenList(r, u, p, t), UNCHANGED <<rows, due, messages>>, Watch PROVE AllKept
  BY <1>15 DEF AllKept, Kept, rows
<1>16. ASSUME NEW r \in Requests, VisibleNumbers(r), UNCHANGED <<rows, due, messages>>, Watch PROVE AllKept
  BY <1>16 DEF AllKept, Kept, rows
<1>17. ASSUME NEW r \in Requests, ListInbound(r), UNCHANGED <<rows, due, messages>>, Watch PROVE AllKept
  BY <1>17 DEF AllKept, Kept, rows
<1>18. ASSUME NEW r \in Requests, ShowPage(r), UNCHANGED <<rows, due, messages>>, Watch PROVE AllKept
  BY <1>18 DEF AllKept, Kept, rows
<1>19. ASSUME NEW r \in Requests, LosePage(r), UNCHANGED <<rows, due, messages>>, Watch PROVE AllKept
  BY <1>19 DEF AllKept, Kept, rows
<1>20. ASSUME NEW r \in Requests, ClickMore(r), UNCHANGED <<rows, due, messages>>, Watch PROVE AllKept
  BY <1>20 DEF AllKept, Kept, rows
<1>21. ASSUME NEW m \in Messages, NEW p \in Phones, NEW t \in Times, Receive(m, p, t), UNCHANGED <<rows, req,
       within, reach, due, lists>> PROVE AllKept
  BY <1>21 DEF AllKept, Kept, rows
<1>22. CASE UNCHANGED vars
  BY <1>22 DEF vars, lists, messages, AllKept, Kept, rows
<1>23. QED
  BY <1>1, <1>2, <1>3, <1>4, <1>5, <1>6, <1>7, <1>8, <1>9, <1>10, <1>11, <1>12, <1>13, <1>14, <1>15, <1>16,
    <1>17, <1>18, <1>19, <1>20, <1>21, <1>22 DEF Next, NumbersStep, RosterStep, ListStep

(* A row leaves its team only by an assignment or with the team: never by  *)
(* a synchronisation (ADR-0013, bulk_upsert_for_sync).                     *)
THEOREM AssignmentsAreKept == Spec => AssignmentsKept
<1>1. IInv /\ [Next]_vars => [\A i \in numbers \cap numbers' :
       /\ phone'[i] = phone[i]
       /\ team'[i] # team[i] => \/ Asked(i, "assign") /\ team'[i] \in teams \cup {NoTeam}
                                \/ team[i] \notin teams' /\ team'[i] = NoTeam
                                \/ Moved(i, team'[i])]_vars
  BY AssignStep DEF IInv, AllKept, Kept
<1>2. QED
  BY <1>1, Invariance, PTL DEF Spec, AssignmentsKept
====
