------------------------- MODULE TeamRosterTxProofs -------------------------
(***************************************************************************)
(* The types and the keys of TeamRosterTx, for any sets of users, teams    *)
(* and slots.  What a transaction sees is a fold over its statements.  The *)
(* first part finds the stages of a fold (by induction over sets of        *)
(* naturals), the second what a set of statements makes of a row, in       *)
(* whatever order it runs; the third, Merge, is why a COMMIT does not      *)
(* spoil what another transaction has seen and written: their locks.       *)
(***************************************************************************)
EXTENDS TeamRosterTx, WellFoundedInduction, TLAPS

-----------------------------------------------------------------------------
(* Folds *)

\* Every set of naturals has a least element.
LEMMA Least ==
  ASSUME NEW F, F \subseteq Nat, F # {}
  PROVE  \E n \in F : \A k \in F : ~(k < n)
<1>1. PICK n \in F : \A k \in F : ~(<<k, n>> \in OpToRel(<, Nat))
  BY NatLessThanWellFounded, WFMin, Zenon
<1>2. ASSUME NEW k \in F, k < n PROVE <<k, n>> \in OpToRel(<, Nat)
  BY <1>2, Zenon DEF OpToRel
<1> QED
  BY <1>1, <1>2, Zenon

\* Induction, for a set of naturals.
LEMMA Induction ==
  ASSUME NEW T, T \subseteq Nat, 0 \in T, \A n \in T : n + 1 \in T
  PROVE  T = Nat
<1>1. SUFFICES ASSUME Nat \ T # {} PROVE FALSE
  OBVIOUS
<1>2. PICK n \in Nat \ T : \A k \in Nat \ T : ~(k < n)
  BY <1>1, Least
<1>3. n - 1 \in Nat \ T
  BY <1>2
<1> QED
  BY <1>2, <1>3

\* the recursion that FoldLeft stands for
Unfolds(f, d, s, n) ==
  f = [x \in SUBSET (1..n) |-> IF x = {} THEN d ELSE Apply(f[x \ {Max(x)}], s[Max(x)])]

\* What the library's Max finds in a set that holds the last index.
LEMMA Largest ==
  ASSUME NEW n \in Nat, NEW x \in SUBSET (1..n+1), n + 1 \in x
  PROVE  Max(x) = n + 1
<1> DEFINE P(k) == \A y \in x : k >= y
<1>1. P(n + 1)
  OBVIOUS
<1>2. Max(x) = CHOOSE k \in x : P(k)
  BY DEF Max
<1> HIDE DEF P
<1>3. Max(x) \in x /\ P(Max(x))
  BY <1>1, <1>2, Zenon
<1>4. Max(x) >= n + 1
  BY <1>3 DEF P
<1>5. Max(x) \in 1..n+1
  BY <1>3
<1> QED
  BY <1>4, <1>5

\* The recursion of FoldLeft has a solution up to any index: what CHOOSE picks satisfies it.
LEMMA FoldsExist ==
  ASSUME NEW d, NEW s, NEW n \in Nat
  PROVE  \E f : Unfolds(f, d, s, n)
<1> DEFINE T == {k \in Nat : \E f : Unfolds(f, d, s, k)}
<1>1. 0 \in T
  <2> DEFINE f == [x \in SUBSET (1..0) |-> d]
  <2>1. \A x \in SUBSET (1..0) : x = {}
    OBVIOUS
  <2>2. Unfolds(f, d, s, 0)
    BY <2>1 DEF Unfolds
  <2> QED
    BY <2>2
<1>2. ASSUME NEW k \in T PROVE k + 1 \in T
  <2>1. PICK f : Unfolds(f, d, s, k)
    BY <1>2
  <2> DEFINE g == [x \in SUBSET (1..k+1) |->
                     IF k + 1 \in x THEN Apply(f[x \ {k + 1}], s[k + 1]) ELSE f[x]]
  <2>2. ASSUME NEW x \in SUBSET (1..k+1)
        PROVE  g[x] = IF x = {} THEN d ELSE Apply(g[x \ {Max(x)}], s[Max(x)])
    <3>1. CASE k + 1 \in x
      <4>1. Max(x) = k + 1
        BY <3>1, Largest
      <4>2. x \ {k + 1} \in SUBSET (1..k+1) /\ k + 1 \notin x \ {k + 1} /\ x # {}
        BY <3>1
      <4>3. g[x \ {k + 1}] = f[x \ {k + 1}]
        BY <4>2
      <4> QED
        BY <3>1, <4>1, <4>2, <4>3
    <3>2. CASE k + 1 \notin x
      <4>1. x \in SUBSET (1..k)
        BY <3>2
      <4>2. f[x] = IF x = {} THEN d ELSE Apply(f[x \ {Max(x)}], s[Max(x)])
        BY <2>1, <4>1 DEF Unfolds
      <4>3. g[x] = f[x] /\ g[x \ {Max(x)}] = f[x \ {Max(x)}]
        BY <3>2, <4>1
      <4> QED
        BY <4>2, <4>3
    <3> QED
      BY <3>1, <3>2
  <2>3. Unfolds(g, d, s, k + 1)
    <3> HIDE DEF g
    <3>1. g = [x \in SUBSET (1..k+1) |-> g[x]]
      BY DEF g
    <3> QED
      BY <2>2, <3>1 DEF Unfolds
  <2> QED
    BY <2>3
<1>3. T = Nat
  <2> HIDE DEF T
  <2> QED
  BY <1>1, <1>2, Induction DEF T
<1> QED
  BY <1>3

\* The tables after each of the statements, from the first to the last.
LEMMA Stages ==
  ASSUME NEW d, NEW s \in Seq(Statement)
  PROVE  \E v : /\ v[0] = d
                /\ \A k \in 0..Len(s)-1 : v[k + 1] = Apply(v[k], s[k + 1])
                /\ FoldLeft(Apply, d, s) = v[Len(s)]
<1> DEFINE f == CHOOSE g : Unfolds(g, d, s, Len(s))
<1>1. Unfolds(f, d, s, Len(s))
  BY FoldsExist
<1>2. FoldLeft(Apply, d, s) = f[1..Len(s)]
  <2>1. DOMAIN s = 1..Len(s)
    OBVIOUS
  <2> QED
    BY <2>1 DEF FoldLeft, MapThenFoldSet, Unfolds
<1> HIDE DEF f
<1> DEFINE v == [k \in 0..Len(s) |-> f[1..k]]
<1>3. v[0] = d
  <2>1. 1..0 = {} /\ 1..0 \in SUBSET (1..Len(s)) /\ 0 \in 0..Len(s)
    OBVIOUS
  <2> QED
    BY <1>1, <2>1 DEF Unfolds
<1>4. ASSUME NEW k \in 0..Len(s)-1 PROVE v[k + 1] = Apply(v[k], s[k + 1])
  <2>0. k \in Nat /\ k + 1 <= Len(s) /\ Len(s) \in Nat
    OBVIOUS
  <2>4a. k + 1 \in 1..k+1
    BY <2>0
  <2>4b. \A i \in 1..k+1 : i \in 1..Len(s)
    BY <2>0
  <2>1. k + 1 \in 1..k+1 /\ 1..k+1 \in SUBSET (1..Len(s)) /\ 1..k+1 # {}
    BY <2>4a, <2>4b
  <2>2. Max(1..k+1) = k + 1
    BY <2>1, Largest
  <2>3. (1..k+1) \ {k + 1} = 1..k
    OBVIOUS
  <2>4. f[1..k+1] = Apply(f[1..k], s[k + 1])
    BY <1>1, <2>1, <2>2, <2>3 DEF Unfolds
  <2>5. k \in 0..Len(s) /\ k + 1 \in 0..Len(s)
    OBVIOUS
  <2> QED
    BY <2>4, <2>5
<1>5. FoldLeft(Apply, d, s) = v[Len(s)]
  BY <1>2
<1> HIDE DEF v
<1> QED
  BY <1>3, <1>4, <1>5

\* From some statement on, every stage lies in S.
LEMMA FoldSince ==
  ASSUME NEW d, NEW s \in Seq(Statement), NEW T, NEW S, NEW i \in 0..Len(s),
         d \in T, i = 0 => d \in S,
         \A k \in 1..Len(s) : \A e \in T : Apply(e, s[k]) \in T,
         \A e \in T : i \in 1..Len(s) => Apply(e, s[i]) \in S,
         \A k \in 1..Len(s) : \A e \in T \cap S : k > i => Apply(e, s[k]) \in S
  PROVE  FoldLeft(Apply, d, s) \in S \cap T
<1>1. PICK v : /\ v[0] = d
               /\ \A k \in 0..Len(s)-1 : v[k + 1] = Apply(v[k], s[k + 1])
               /\ FoldLeft(Apply, d, s) = v[Len(s)]
  BY Stages
<1> DEFINE K == {k \in Nat : k <= Len(s) => v[k] \in T /\ (i <= k => v[k] \in S)}
<1>2. 0 \in K
  BY <1>1
<1>3. ASSUME NEW k \in K PROVE k + 1 \in K
  <2>1. SUFFICES ASSUME k + 1 <= Len(s)
                 PROVE  v[k + 1] \in T /\ (i <= k + 1 => v[k + 1] \in S)
    OBVIOUS
  <2>2. k \in 0..Len(s)-1 /\ k + 1 \in 1..Len(s) /\ v[k] \in T /\ (i <= k => v[k] \in S)
    BY <2>1
  <2>3. v[k + 1] = Apply(v[k], s[k + 1])
    BY <1>1, <2>2
  <2>4. v[k + 1] \in T
    BY <2>2, <2>3
  <2>5. ASSUME i <= k PROVE v[k + 1] \in S
    <3>1. v[k] \in T \cap S /\ k + 1 > i
      BY <2>2, <2>5
    <3> QED
      BY <2>2, <2>3, <3>1
  <2>6. ASSUME i = k + 1 PROVE v[k + 1] \in S
    BY <2>2, <2>3, <2>6
  <2> QED
    BY <2>4, <2>5, <2>6
<1>4. K = Nat
  <2> HIDE DEF K
  <2>1. K \subseteq Nat
    BY DEF K
  <2> QED
    BY <1>2, <1>3, <2>1, Induction
<1>5. Len(s) \in K
  BY <1>4
<1> QED
  BY <1>1, <1>5

\* What every statement keeps, the whole sequence keeps.
LEMMA FoldIn ==
  ASSUME NEW S, NEW d \in S, NEW s \in Seq(Statement),
         \A k \in 1..Len(s) : \A e \in S : Apply(e, s[k]) \in S
  PROVE  FoldLeft(Apply, d, s) \in S
<1>1. 0 \in 0..Len(s)
  OBVIOUS
<1>2. \A e \in S : 0 \in 1..Len(s) => Apply(e, s[0]) \in S
  OBVIOUS
<1>3. \A k \in 1..Len(s) : \A e \in S \cap S : k > 0 => Apply(e, s[k]) \in S
  OBVIOUS
<1>4. FoldLeft(Apply, d, s) \in S \cap S
  BY <1>1, <1>2, <1>3, FoldSince
<1> QED
  BY <1>4

\* Before its first statement a transaction sees what is committed.
LEMMA FoldNone ==
  ASSUME NEW d
  PROVE  FoldLeft(Apply, d, <<>>) = d
<1> DEFINE none == <<>>
           S == {d}
<1>1. none \in Seq(Statement) /\ \A k \in 1..Len(none) : FALSE
  OBVIOUS
<1>2. d \in S
  OBVIOUS
<1> HIDE DEF none, S
<1>3. FoldLeft(Apply, d, none) \in S
  BY <1>1, <1>2, FoldIn
<1> QED
  BY <1>3 DEF none, S

\* With one more statement, it sees what that statement makes of what it saw.
LEMMA FoldAppend ==
  ASSUME NEW d, NEW s \in Seq(Statement), NEW a \in Statement
  PROVE  FoldLeft(Apply, d, Append(s, a)) = Apply(FoldLeft(Apply, d, s), a)
<1> DEFINE b == Append(s, a)
<1>1. b \in Seq(Statement) /\ Len(b) = Len(s) + 1 /\ b[Len(s) + 1] = a
      /\ \A k \in 1..Len(s) : b[k] = s[k]
  OBVIOUS
<1>2. PICK v : /\ v[0] = d
               /\ \A k \in 0..Len(s)-1 : v[k + 1] = Apply(v[k], s[k + 1])
               /\ FoldLeft(Apply, d, s) = v[Len(s)]
  BY Stages
<1>3. PICK w : /\ w[0] = d
               /\ \A k \in 0..Len(b)-1 : w[k + 1] = Apply(w[k], b[k + 1])
               /\ FoldLeft(Apply, d, b) = w[Len(b)]
  BY <1>1, Stages
<1> DEFINE K == {k \in Nat : k <= Len(s) => v[k] = w[k]}
<1> HIDE DEF b
<1>4. 0 \in K
  BY <1>2, <1>3
<1>5. ASSUME NEW k \in K PROVE k + 1 \in K
  <2>1. SUFFICES ASSUME k + 1 <= Len(s) PROVE v[k + 1] = w[k + 1]
    OBVIOUS
  <2>2. k \in 0..Len(s)-1 /\ k \in 0..Len(b)-1 /\ v[k] = w[k] /\ b[k + 1] = s[k + 1]
    BY <1>1, <2>1
  <2> QED
    BY <1>2, <1>3, <2>2
<1>6. K = Nat
  <2>1. K \subseteq Nat
    OBVIOUS
  <2> HIDE DEF K
  <2> QED
    BY <1>4, <1>5, <2>1, Induction
<1>7. v[Len(s)] = w[Len(s)]
  BY <1>6
<1>8. w[Len(s) + 1] = Apply(w[Len(s)], a)
  BY <1>1, <1>3
<1> QED
  BY <1>1, <1>2, <1>3, <1>7, <1>8 DEF b

-----------------------------------------------------------------------------
(* What statements make of the tables *)

\* What the statements Z do.
Leads(Z, t, v)  == \E s \in Z : s.do = "lead" /\ s.team = t /\ s.user = v
Adds(Z, u, t)   == \E s \in Z : s.do = "add_member" /\ s.user = u /\ s.team = t
Arrives(Z, u)   == \E s \in Z : s.do \in {"insert_user", "rehome"} /\ s.user = u
Homes(Z)        == {s.team : s \in {r \in Z : r.do \in {"insert_user", "rehome"}}}
Founds(Z, t)    == \E s \in Z : s.do = "insert_team" /\ s.team = t
DropsUser(Z, u) == \E s \in Z : s.do = "delete_user" /\ s.user = u
DropsTeam(Z, t) == \E s \in Z : s.do = "delete_team" /\ s.team = t

\* A statement that has the user and the team it needs.
Sound(s) ==
  /\ s \in Statement
  /\ s.do \in {"insert_user", "delete_user", "rehome", "set_role", "add_member",
               "remove_member"} => s.user \in Users
  /\ s.do \in {"insert_team", "delete_team", "lead", "insert_user", "rehome", "add_member",
               "remove_member"} => s.team \in Teams

\* what becomes of a row: e is d after statement s
Changes(d, s, e) ==
  /\ \A t \in Teams :
       t \in e.teams <=> (s.do = "insert_team" /\ s.team = t)
                           \/ (t \in d.teams /\ ~(s.do = "delete_team" /\ s.team = t))
  /\ \A t \in Teams :
       e.leader[t] = IF s.do = "lead" /\ s.team = t THEN s.user
                     ELSE IF s.do = "delete_team" /\ s.team = t THEN NoUser
                     ELSE d.leader[t]
  /\ \A u \in Users :
       e.home[u] = IF s.do \in {"insert_user", "rehome"} /\ s.user = u THEN s.team
                   ELSE IF s.do = "delete_user" /\ s.user = u THEN NoTeam
                   ELSE d.home[u]
  /\ \A u \in Users, t \in Teams :
       <<u, t>> \in e.memberships <=>
         \/ s.do = "add_member" /\ s.user = u /\ s.team = t
         \/ /\ <<u, t>> \in d.memberships
            /\ ~(s.do = "delete_team" /\ s.team = t)
            /\ ~(s.do = "delete_user" /\ s.user = u)
            /\ ~(s.do = "remove_member" /\ s.user = u /\ s.team = t)

\* Apply keeps the tables to their types and changes just these rows (the repositories' writes).
LEMMA Effects ==
  ASSUME NEW d \in Tables, NEW s, Sound(s)
  PROVE  Apply(d, s) \in Tables /\ Changes(d, s, Apply(d, s))
<1> SUFFICES ASSUME NEW e, e = Apply(d, s)
             PROVE  e \in Tables /\ Changes(d, s, e)
  OBVIOUS
<1>0. /\ s.user \in Users \cup {NoUser} /\ s.team \in Teams \cup {NoTeam}
      /\ s.role \in {Leader, Member} /\ Member \in {Leader, Member}
  BY DEF Sound, Statement
<1>1. CASE s.do = "insert_team"
  <2>1. e = [d EXCEPT !.teams = @ \cup {s.team}]
    BY <1>1 DEF Apply
  <2> QED
    BY <1>0, <1>1, <2>1 DEF Sound, Tables, Changes
<1>2. CASE s.do = "delete_team"
  <2>1. e = [d EXCEPT !.teams = @ \ {s.team}, !.leader[s.team] = NoUser,
                      !.memberships = {m \in @ : m[2] # s.team}]
    BY <1>2 DEF Apply
  <2>2. e = [teams |-> d.teams \ {s.team},
              leader |-> [d.leader EXCEPT ![s.team] = NoUser],
              home |-> d.home,
              role |-> d.role,
              memberships |-> {m \in d.memberships : m[2] # s.team}]
    BY <2>1 DEF Tables
  <2>3. e \in Tables
    BY <1>0, <1>2, <2>2 DEF Sound, Tables
  <2>4. Changes(d, s, e)
    BY <1>0, <1>2, <2>2 DEF Sound, Tables, Changes
  <2> QED
    BY <2>3, <2>4
<1>3. CASE s.do = "lead"
  <2>1. e = [d EXCEPT !.leader[s.team] = s.user]
    BY <1>3 DEF Apply
  <2> QED
    BY <1>0, <1>3, <2>1 DEF Sound, Tables, Changes
<1>4. CASE s.do \in {"insert_user", "rehome"}
  <2>1. e = [d EXCEPT !.home[s.user] = s.team, !.role[s.user] = Member]
    BY <1>4 DEF Apply
  <2>2. e = [teams |-> d.teams,
              leader |-> d.leader,
              home |-> [d.home EXCEPT ![s.user] = s.team],
              role |-> [d.role EXCEPT ![s.user] = Member],
              memberships |-> d.memberships]
    BY <2>1 DEF Tables
  <2>3. e \in Tables
    BY <1>0, <1>4, <2>2 DEF Sound, Tables
  <2>4. Changes(d, s, e)
    BY <1>0, <1>4, <2>2 DEF Sound, Tables, Changes
  <2> QED
    BY <2>3, <2>4
<1>5. CASE s.do = "delete_user"
  <2>1. e = [d EXCEPT !.home[s.user] = NoTeam, !.role[s.user] = Member,
                      !.memberships = {m \in @ : m[1] # s.user}]
    BY <1>5 DEF Apply
  <2>2. e = [teams |-> d.teams,
              leader |-> d.leader,
              home |-> [d.home EXCEPT ![s.user] = NoTeam],
              role |-> [d.role EXCEPT ![s.user] = Member],
              memberships |-> {m \in d.memberships : m[1] # s.user}]
    BY <2>1 DEF Tables
  <2>3. e \in Tables
    BY <1>0, <1>5, <2>2 DEF Sound, Tables
  <2>4. Changes(d, s, e)
    BY <1>0, <1>5, <2>2 DEF Sound, Tables, Changes
  <2> QED
    BY <2>3, <2>4
<1>6. CASE s.do = "set_role"
  <2>1. e = [d EXCEPT !.role[s.user] = s.role]
    BY <1>6 DEF Apply
  <2> QED
    BY <1>0, <1>6, <2>1 DEF Sound, Tables, Changes
<1>7. CASE s.do = "add_member"
  <2>1. e = [d EXCEPT !.memberships = @ \cup {<<s.user, s.team>>}]
    BY <1>7 DEF Apply
  <2> QED
    BY <1>0, <1>7, <2>1 DEF Sound, Tables, Changes
<1>8. CASE s.do = "remove_member"
  <2>1. e = [d EXCEPT !.memberships = @ \ {<<s.user, s.team>>}]
    BY <1>8 DEF Apply
  <2> QED
    BY <1>0, <1>8, <2>1 DEF Sound, Tables, Changes
<1> QED
  BY <1>1, <1>2, <1>3, <1>4, <1>5, <1>6, <1>7, <1>8 DEF Sound, Statement

\* The statements of one request never contradict each other.
Shape(Z) ==
  /\ \A s \in Z : Sound(s)
  /\ \A s, r \in Z : s.do = "lead" /\ r.do = "lead" /\ s.team = r.team => s.user = r.user
  /\ \A s, r \in Z : s.do = "delete_team" => r = s
  /\ \A s, r \in Z : s.do = "delete_user" =>
       /\ r.do \in {"delete_user", "lead"}
       /\ r.do = "lead" => r.user = NoUser
  /\ \A s, r \in Z : s.do = "add_member" /\ r.do = "remove_member" => s.team # r.team

\* The statements of a request lead from tables to tables, one by one and together.
LEMMA InTables ==
  ASSUME NEW d \in Tables, NEW s \in Seq(Statement), Shape(ToSet(s))
  PROVE  /\ \A k \in 1..Len(s) : s[k] \in ToSet(s) /\ Sound(s[k])
         /\ \A z \in ToSet(s) : \E k \in 1..Len(s) : s[k] = z
         /\ \A k \in 1..Len(s) : \A e \in Tables :
              Apply(e, s[k]) \in Tables /\ Changes(e, s[k], Apply(e, s[k]))
         /\ FoldLeft(Apply, d, s) \in Tables
<1>1. /\ \A k \in 1..Len(s) : s[k] \in ToSet(s)
      /\ \A z \in ToSet(s) : \E k \in 1..Len(s) : s[k] = z
  BY DEF ToSet
<1>2. \A k \in 1..Len(s) : Sound(s[k])
  BY <1>1 DEF Shape
<1>3. \A k \in 1..Len(s) : \A e \in Tables :
        Apply(e, s[k]) \in Tables /\ Changes(e, s[k], Apply(e, s[k]))
  BY <1>2, Effects
<1>4. FoldLeft(Apply, d, s) \in Tables
  BY <1>3, FoldIn
<1> QED
  BY <1>1, <1>2, <1>3, <1>4

\* What a sequence of statements makes of a user's home, in whatever order they come.
LEMMA HomeRows ==
  ASSUME NEW d \in Tables, NEW s \in Seq(Statement), Shape(ToSet(s)), NEW u \in Users
  PROVE  LET Z == ToSet(s)
             h == FoldLeft(Apply, d, s).home[u]
         IN /\ h \in {NoTeam, d.home[u]} \/ (Arrives(Z, u) /\ h \in Homes(Z))
            /\ d.home[u] # NoTeam /\ ~DropsUser(Z, u) => h # NoTeam
            /\ Arrives(Z, u) => h # NoTeam
            /\ DropsUser(Z, u) => h = NoTeam
<1> DEFINE Z == ToSet(s)
           V == FoldLeft(Apply, d, s)
<1>1. /\ \A k \in 1..Len(s) : s[k] \in Z /\ Sound(s[k])
      /\ \A z \in Z : \E k \in 1..Len(s) : s[k] = z
      /\ \A k \in 1..Len(s) : \A e \in Tables :
           Apply(e, s[k]) \in Tables /\ Changes(e, s[k], Apply(e, s[k]))
  BY InTables
<1>2. \A k \in 1..Len(s) : \A e \in Tables :
        Apply(e, s[k]).home[u] =
          IF s[k].do \in {"insert_user", "rehome"} /\ s[k].user = u THEN s[k].team
          ELSE IF s[k].do = "delete_user" /\ s[k].user = u THEN NoTeam
          ELSE e.home[u]
  BY <1>1 DEF Changes
<1>3. V.home[u] \in {NoTeam, d.home[u]} \/ (Arrives(Z, u) /\ V.home[u] \in Homes(Z))
  <2> DEFINE S == {e \in Tables : e.home[u] \in {NoTeam, d.home[u]}
                                    \/ (Arrives(Z, u) /\ e.home[u] \in Homes(Z))}
  <2>1. d \in S
    OBVIOUS
  <2>2. ASSUME NEW k \in 1..Len(s), NEW e \in S PROVE Apply(e, s[k]) \in S
    <3>1. e \in Tables /\ s[k] \in Z /\ Apply(e, s[k]) \in Tables
      BY <1>1
    <3>2. Apply(e, s[k]).home[u] =
            IF s[k].do \in {"insert_user", "rehome"} /\ s[k].user = u THEN s[k].team
            ELSE IF s[k].do = "delete_user" /\ s[k].user = u THEN NoTeam
            ELSE e.home[u]
      BY <1>2, <3>1
    <3>3. CASE s[k].do \in {"insert_user", "rehome"} /\ s[k].user = u
      <4>1. Arrives(Z, u) /\ s[k].team \in Homes(Z)
        BY <3>1, <3>3 DEF Arrives, Homes
      <4> QED
        BY <3>1, <3>2, <3>3, <4>1
    <3>4. CASE ~(s[k].do \in {"insert_user", "rehome"} /\ s[k].user = u)
      BY <3>1, <3>2, <3>4
    <3> QED
      BY <3>3, <3>4
  <2> HIDE DEF S
  <2>3. V \in S
    BY <2>1, <2>2, FoldIn
  <2> QED
    BY <2>3 DEF S
<1> DEFINE S == {e \in Tables : e.home[u] # NoTeam}
<1>4. ASSUME NEW k \in 1..Len(s), NEW e \in S, ~DropsUser(Z, u) PROVE Apply(e, s[k]) \in S
  <2>1. e \in Tables /\ s[k] \in Z /\ Sound(s[k]) /\ Apply(e, s[k]) \in Tables
    BY <1>1
  <2>2. ~(s[k].do = "delete_user" /\ s[k].user = u)
    BY <1>4, <2>1 DEF DropsUser
  <2>3. s[k].do \in {"insert_user", "rehome"} => s[k].team # NoTeam
    BY <2>1, SentinelAssumption DEF Sound
  <2>4. Apply(e, s[k]).home[u] # NoTeam
    BY <1>2, <2>1, <2>2, <2>3
  <2> QED
    BY <2>1, <2>4
<1>5. ASSUME d.home[u] # NoTeam, ~DropsUser(Z, u) PROVE V.home[u] # NoTeam
  <2>1. d \in S
    BY <1>5
  <2> HIDE DEF S
  <2>2. V \in S
    BY <1>4, <1>5, <2>1, FoldIn
  <2> QED
    BY <2>2 DEF S
<1>6. ASSUME Arrives(Z, u) PROVE V.home[u] # NoTeam
  <2>1. PICK i \in 1..Len(s) : s[i].do \in {"insert_user", "rehome"} /\ s[i].user = u
    BY <1>1, <1>6 DEF Arrives
  <2>2. ~DropsUser(Z, u)
    BY <1>1, <2>1 DEF DropsUser, Shape
  <2>3. \A e \in Tables : Apply(e, s[i]) \in S
    <3>1. s[i].team # NoTeam
      BY <1>1, <2>1, SentinelAssumption DEF Sound
    <3> QED
      BY <1>1, <1>2, <2>1, <3>1
  <2>4. i \in 0..Len(s) /\ i # 0
    OBVIOUS
  <2>5. \A k \in 1..Len(s) : \A e \in Tables : Apply(e, s[k]) \in Tables
    BY <1>1
  <2> HIDE DEF S
  <2>6. V \in S
    BY <1>4, <2>2, <2>3, <2>4, <2>5, FoldSince
  <2> QED
    BY <2>6 DEF S
<1>7. ASSUME DropsUser(Z, u) PROVE V.home[u] = NoTeam
  <2> DEFINE G == {e \in Tables : e.home[u] = NoTeam}
  <2>1. PICK i \in 1..Len(s) : s[i].do = "delete_user" /\ s[i].user = u
    BY <1>1, <1>7 DEF DropsUser
  <2>2. \A k \in 1..Len(s) : s[k].do \in {"delete_user", "lead"}
    BY <1>1, <2>1 DEF Shape
  <2>3. \A e \in Tables : Apply(e, s[i]) \in G
    BY <1>1, <1>2, <2>1
  <2>4. i \in 0..Len(s) /\ i # 0
    OBVIOUS
  <2>5. \A k \in 1..Len(s) : \A e \in Tables : Apply(e, s[k]) \in Tables
    BY <1>1
  <2>6. \A k \in 1..Len(s) : \A e \in G : Apply(e, s[k]) \in G
    BY <1>1, <1>2, <2>2
  <2> HIDE DEF G
  <2>7. V \in G
    BY <2>3, <2>4, <2>5, <2>6, FoldSince
  <2> QED
    BY <2>7 DEF G
<1> QED
  BY <1>3, <1>5, <1>6, <1>7

\* What it makes of a team.
LEMMA TeamRows ==
  ASSUME NEW d \in Tables, NEW s \in Seq(Statement), Shape(ToSet(s)), NEW t \in Teams
  PROVE  LET Z == ToSet(s)
             V == FoldLeft(Apply, d, s)
         IN /\ t \in V.teams => t \in d.teams \/ Founds(Z, t)
            /\ (t \in d.teams \/ Founds(Z, t)) /\ ~DropsTeam(Z, t) => t \in V.teams
            /\ DropsTeam(Z, t) => t \notin V.teams
<1> DEFINE Z == ToSet(s)
           V == FoldLeft(Apply, d, s)
<1>1. /\ \A k \in 1..Len(s) : s[k] \in Z
      /\ \A z \in Z : \E k \in 1..Len(s) : s[k] = z
      /\ \A k \in 1..Len(s) : \A e \in Tables :
           Apply(e, s[k]) \in Tables /\ Changes(e, s[k], Apply(e, s[k]))
      /\ V \in Tables
  BY InTables
<1>2. \A k \in 1..Len(s) : \A e \in Tables :
        t \in Apply(e, s[k]).teams <=>
          (s[k].do = "insert_team" /\ s[k].team = t)
            \/ (t \in e.teams /\ ~(s[k].do = "delete_team" /\ s[k].team = t))
  BY <1>1 DEF Changes
<1> DEFINE S == {e \in Tables : t \in e.teams}
<1>3. ASSUME t \in V.teams PROVE t \in d.teams \/ Founds(Z, t)
  <2> DEFINE O == {e \in Tables : t \notin e.teams}
  <2>1. SUFFICES ASSUME d \in O, ~Founds(Z, t) PROVE V \in O
    BY <1>3
  <2>2. \A k \in 1..Len(s) : ~(s[k].do = "insert_team" /\ s[k].team = t)
    BY <1>1, <2>1 DEF Founds
  <2>3. \A k \in 1..Len(s) : \A e \in O : Apply(e, s[k]) \in O
    BY <1>1, <1>2, <2>2
  <2> HIDE DEF O
  <2> QED
    BY <2>1, <2>3, FoldIn
<1>4. ASSUME ~DropsTeam(Z, t) PROVE \A k \in 1..Len(s) : \A e \in S : Apply(e, s[k]) \in S
  <2>1. \A k \in 1..Len(s) : ~(s[k].do = "delete_team" /\ s[k].team = t)
    BY <1>1, <1>4 DEF DropsTeam
  <2> QED
    BY <1>1, <1>2, <2>1
<1>5. ASSUME t \in d.teams, ~DropsTeam(Z, t) PROVE t \in V.teams
  <2>1. d \in S
    BY <1>5
  <2> HIDE DEF S
  <2>2. V \in S
    BY <1>4, <1>5, <2>1, FoldIn
  <2> QED
    BY <2>2 DEF S
<1>6. ASSUME Founds(Z, t), ~DropsTeam(Z, t) PROVE t \in V.teams
  <2>1. PICK i \in 1..Len(s) : s[i].do = "insert_team" /\ s[i].team = t
    BY <1>1, <1>6 DEF Founds
  <2>2. \A e \in Tables : Apply(e, s[i]) \in S
    BY <1>1, <1>2, <2>1
  <2>3. i \in 0..Len(s) /\ i # 0
    OBVIOUS
  <2> HIDE DEF S
  <2>4. V \in S
    BY <1>1, <1>4, <1>6, <2>2, <2>3, FoldSince
  <2> QED
    BY <2>4 DEF S
<1>7. ASSUME DropsTeam(Z, t) PROVE t \notin V.teams
  <2> DEFINE O == {e \in Tables : t \notin e.teams}
  <2>1. PICK i \in 1..Len(s) : s[i].do = "delete_team" /\ s[i].team = t
    BY <1>1, <1>7 DEF DropsTeam
  <2>2. \A k \in 1..Len(s) : s[k].do = "delete_team"
    BY <1>1, <2>1 DEF Shape
  <2>3. \A e \in Tables : Apply(e, s[i]) \in O
    BY <1>1, <1>2, <2>1
  <2>4. i \in 0..Len(s) /\ i # 0
    OBVIOUS
  <2>5. \A k \in 1..Len(s) : \A e \in O : Apply(e, s[k]) \in O
    BY <1>1, <1>2, <2>2
  <2> HIDE DEF O
  <2>6. V \in O
    BY <1>1, <2>3, <2>4, <2>5, FoldSince
  <2> QED
    BY <2>6 DEF O
<1> QED
  BY <1>3, <1>5, <1>6, <1>7

\* What it makes of a team's leader: the one that a statement names stays, until the team goes.
LEMMA LeaderRows ==
  ASSUME NEW d \in Tables, NEW s \in Seq(Statement), Shape(ToSet(s)), NEW t \in Teams
  PROVE  LET Z == ToSet(s)
             v == FoldLeft(Apply, d, s).leader[t]
         IN /\ v \in {NoUser, d.leader[t]} \/ Leads(Z, t, v)
            /\ \A w : Leads(Z, t, w) => v = w
            /\ DropsTeam(Z, t) => v = NoUser
            /\ ~DropsTeam(Z, t) /\ (\A w : ~Leads(Z, t, w)) => v = d.leader[t]
<1> DEFINE Z == ToSet(s)
           V == FoldLeft(Apply, d, s)
<1>1. /\ \A k \in 1..Len(s) : s[k] \in Z
      /\ \A z \in Z : \E k \in 1..Len(s) : s[k] = z
      /\ \A k \in 1..Len(s) : \A e \in Tables :
           Apply(e, s[k]) \in Tables /\ Changes(e, s[k], Apply(e, s[k]))
      /\ V \in Tables
  BY InTables
<1>2. \A k \in 1..Len(s) : \A e \in Tables :
        Apply(e, s[k]).leader[t] =
          IF s[k].do = "lead" /\ s[k].team = t THEN s[k].user
          ELSE IF s[k].do = "delete_team" /\ s[k].team = t THEN NoUser
          ELSE e.leader[t]
  BY <1>1 DEF Changes
<1>3. ASSUME ~DropsTeam(Z, t), \A w : ~Leads(Z, t, w) PROVE V.leader[t] = d.leader[t]
  <2> DEFINE S == {e \in Tables : e.leader[t] = d.leader[t]}
  <2>1. d \in S
    OBVIOUS
  <2>2. \A k \in 1..Len(s) : ~(s[k].do \in {"lead", "delete_team"} /\ s[k].team = t)
    BY <1>1, <1>3 DEF Leads, DropsTeam
  <2>3. \A k \in 1..Len(s) : \A e \in S : Apply(e, s[k]) \in S
    BY <1>1, <1>2, <2>2
  <2> HIDE DEF S
  <2>4. V \in S
    BY <2>1, <2>3, FoldIn
  <2> QED
    BY <2>4 DEF S
<1>4. ASSUME NEW w, Leads(Z, t, w) PROVE V.leader[t] = w
  <2> DEFINE S == {e \in Tables : e.leader[t] = w}
  <2>1. PICK i \in 1..Len(s) : s[i].do = "lead" /\ s[i].team = t /\ s[i].user = w
    BY <1>1, <1>4 DEF Leads
  <2>2. \A k \in 1..Len(s) : /\ s[k].do = "lead" /\ s[k].team = t => s[k].user = w
                             /\ s[k].do # "delete_team"
    BY <1>1, <2>1 DEF Shape
  <2>3. \A e \in Tables : Apply(e, s[i]) \in S
    BY <1>1, <1>2, <2>1
  <2>4. i \in 0..Len(s) /\ i # 0
    OBVIOUS
  <2>5. ASSUME NEW k \in 1..Len(s), NEW e \in S PROVE Apply(e, s[k]) \in S
    <3>1. Apply(e, s[k]) \in Tables
      BY <1>1
    <3>2. Apply(e, s[k]).leader[t] \in {s[k].user, e.leader[t]}
          /\ (Apply(e, s[k]).leader[t] # e.leader[t] => s[k].do = "lead" /\ s[k].team = t)
      BY <1>2, <2>2
    <3> QED
      BY <2>2, <3>1, <3>2
  <2> HIDE DEF S
  <2>6. V \in S
    BY <1>1, <2>3, <2>4, <2>5, FoldSince
  <2> QED
    BY <2>6 DEF S
<1>5. ASSUME DropsTeam(Z, t) PROVE V.leader[t] = NoUser
  <2> DEFINE S == {e \in Tables : e.leader[t] = NoUser}
  <2>1. PICK i \in 1..Len(s) : s[i].do = "delete_team" /\ s[i].team = t
    BY <1>1, <1>5 DEF DropsTeam
  <2>2. \A k \in 1..Len(s) : s[k].do = "delete_team"
    BY <1>1, <2>1 DEF Shape
  <2>3. \A e \in Tables : Apply(e, s[i]) \in S
    BY <1>1, <1>2, <2>1
  <2>4. i \in 0..Len(s) /\ i # 0
    OBVIOUS
  <2>5. \A k \in 1..Len(s) : \A e \in S : Apply(e, s[k]) \in S
    BY <1>1, <1>2, <2>2
  <2> HIDE DEF S
  <2>6. V \in S
    BY <1>1, <2>3, <2>4, <2>5, FoldSince
  <2> QED
    BY <2>6 DEF S
<1>6. V.leader[t] \in {NoUser, d.leader[t]} \/ Leads(Z, t, V.leader[t])
  BY <1>3, <1>4, <1>5
<1> QED
  BY <1>3, <1>4, <1>5, <1>6

\* What it makes of a membership.
LEMMA MemberRows ==
  ASSUME NEW d \in Tables, NEW s \in Seq(Statement), Shape(ToSet(s)),
         NEW u \in Users, NEW t \in Teams
  PROVE  LET Z == ToSet(s)
             M == FoldLeft(Apply, d, s).memberships
         IN /\ <<u, t>> \in M => <<u, t>> \in d.memberships \/ Adds(Z, u, t)
            /\ Adds(Z, u, t) => <<u, t>> \in M
            /\ DropsUser(Z, u) \/ DropsTeam(Z, t) => <<u, t>> \notin M
<1> DEFINE Z == ToSet(s)
           V == FoldLeft(Apply, d, s)
           m == <<u, t>>
<1>1. /\ \A k \in 1..Len(s) : s[k] \in Z
      /\ \A z \in Z : \E k \in 1..Len(s) : s[k] = z
      /\ \A k \in 1..Len(s) : \A e \in Tables :
           Apply(e, s[k]) \in Tables /\ Changes(e, s[k], Apply(e, s[k]))
      /\ V \in Tables
  BY InTables
<1>2. \A k \in 1..Len(s) : \A e \in Tables :
        m \in Apply(e, s[k]).memberships <=>
          \/ s[k].do = "add_member" /\ s[k].user = u /\ s[k].team = t
          \/ /\ m \in e.memberships
             /\ ~(s[k].do = "delete_team" /\ s[k].team = t)
             /\ ~(s[k].do = "delete_user" /\ s[k].user = u)
             /\ ~(s[k].do = "remove_member" /\ s[k].user = u /\ s[k].team = t)
  BY <1>1 DEF Changes
<1> HIDE DEF m
<1> DEFINE S == {e \in Tables : m \in e.memberships}
           O == {e \in Tables : m \notin e.memberships}
<1>3. ASSUME m \in V.memberships PROVE m \in d.memberships \/ Adds(Z, u, t)
  <2>1. SUFFICES ASSUME d \in O, ~Adds(Z, u, t) PROVE V \in O
    BY <1>3
  <2>2. \A k \in 1..Len(s) : ~(s[k].do = "add_member" /\ s[k].user = u /\ s[k].team = t)
    BY <1>1, <2>1 DEF Adds
  <2>3. \A k \in 1..Len(s) : \A e \in O : Apply(e, s[k]) \in O
    BY <1>1, <1>2, <2>2
  <2> HIDE DEF O
  <2> QED
    BY <2>1, <2>3, FoldIn
<1>4. ASSUME Adds(Z, u, t) PROVE m \in V.memberships
  <2>1. PICK i \in 1..Len(s) : s[i].do = "add_member" /\ s[i].user = u /\ s[i].team = t
    BY <1>1, <1>4 DEF Adds
  <2>2. \A k \in 1..Len(s) : /\ s[k].do \notin {"delete_team", "delete_user"}
                             /\ ~(s[k].do = "remove_member" /\ s[k].team = t)
    <3>1. s[i] \in Z /\ s[i].do = "add_member"
      BY <1>1, <2>1
    <3>2. ASSUME NEW r \in Z
          PROVE  r.do \notin {"delete_team", "delete_user"} /\ ~(r.do = "remove_member" /\ r.team = t)
      <4>1. r.do # "delete_team"
        BY <3>1 DEF Shape
      <4>2. r.do # "delete_user"
        BY <3>1 DEF Shape
      <4>3. ~(r.do = "remove_member" /\ r.team = t)
        BY <2>1, <3>1 DEF Shape
      <4> QED
        BY <4>1, <4>2, <4>3
    <3> QED
      BY <1>1, <3>2
  <2>3. \A e \in Tables : Apply(e, s[i]) \in S
    BY <1>1, <1>2, <2>1
  <2>4. i \in 0..Len(s) /\ i # 0
    OBVIOUS
  <2>5. \A k \in 1..Len(s) : \A e \in S : Apply(e, s[k]) \in S
    BY <1>1, <1>2, <2>2
  <2> HIDE DEF S
  <2>6. V \in S
    BY <1>1, <2>3, <2>4, <2>5, FoldSince
  <2> QED
    BY <2>6 DEF S
<1>5. ASSUME DropsUser(Z, u) \/ DropsTeam(Z, t) PROVE m \notin V.memberships
  <2>1. PICK i \in 1..Len(s) : \/ s[i].do = "delete_user" /\ s[i].user = u
                               \/ s[i].do = "delete_team" /\ s[i].team = t
    BY <1>1, <1>5 DEF DropsUser, DropsTeam
  <2>2. \A k \in 1..Len(s) : s[k].do # "add_member"
    BY <1>1, <2>1 DEF Shape
  <2>3. \A e \in Tables : Apply(e, s[i]) \in O
    BY <1>1, <1>2, <2>1
  <2>4. i \in 0..Len(s) /\ i # 0
    OBVIOUS
  <2>5. \A k \in 1..Len(s) : \A e \in O : Apply(e, s[k]) \in O
    BY <1>1, <1>2, <2>2
  <2> HIDE DEF O
  <2>6. V \in O
    BY <1>1, <2>3, <2>4, <2>5, FoldSince
  <2> QED
    BY <2>6 DEF O
<1> QED
  BY <1>3, <1>4, <1>5 DEF m

-----------------------------------------------------------------------------
(* The keys, with transactions that overlap *)

\* The keys of the tables d; users at home in the teams of N have them still to be looked up
\* (fk_users_team_id is deferred).
Keys(d, N) ==
  /\ \A u \in Users : d.home[u] # NoTeam => d.home[u] \in d.teams \cup N
  /\ \A t \in Teams :
       d.leader[t] # NoUser => t \in d.teams /\ d.home[d.leader[t]] # NoTeam
  /\ \A u \in Users, t \in Teams :
       <<u, t>> \in d.memberships => d.home[u] # NoTeam /\ t \in d.teams
  /\ \A t1, t2 \in Teams :
       t1 # t2 /\ d.leader[t1] # NoUser => d.leader[t1] # d.leader[t2]

\* The locks of two transactions keep their statements from such conflicts.
Compatible(A, B) ==
  /\ \A u \in Users, t \in Teams : DropsUser(A, u) => ~Adds(B, u, t) /\ ~Leads(B, t, u)
  /\ \A u \in Users, t \in Teams : DropsTeam(A, t) => ~Adds(B, u, t) /\ ~Leads(B, t, u)
  /\ \A u \in Users, t1, t2 \in Teams : ~(Leads(A, t1, u) /\ Leads(B, t2, u))

\* A statement that violates no constraint keeps the keys, but for the homes it leaves to COMMIT.
LEMMA WriteKeys ==
  ASSUME NEW d \in Tables, NEW s, Sound(s), NEW N, Keys(d, N), Hits(d, s), ~Violates(d, s)
  PROVE  Keys(Apply(d, s), N \cup Homes({s}))
<1> DEFINE e == Apply(d, s)
<1>1. e \in Tables /\ Changes(d, s, e)
  BY Effects
<1>2. s.do \in {"insert_user", "rehome"} => s.team \in Homes({s})
  BY DEF Homes
<1>3. /\ s.do = "delete_team" => s.team \in Teams /\ \A u \in Users : d.home[u] # s.team
      /\ s.do = "delete_user" => s.user \in Users /\ \A t \in d.teams : d.leader[t] # s.user
      /\ s.do = "lead" =>
           /\ s.team \in d.teams /\ s.user \in Users \cup {NoUser}
           /\ s.user # NoUser => /\ d.home[s.user] # NoTeam
                                 /\ \A t \in d.teams \ {s.team} : d.leader[t] # s.user
      /\ s.do = "add_member" => d.home[s.user] # NoTeam /\ s.team \in d.teams
      /\ s.do \in {"insert_user", "rehome"} => s.user \in Users /\ s.team \in Teams
  BY DEF Hits, Violates, HomeMembers, Accounts, Sound, Statement
<1>4. d \in Tables /\ Keys(d, N) /\ NoTeam \notin Teams /\ NoUser \notin Users
  BY SentinelAssumption
<1> HIDE DEF e
<1>5. \A u \in Users : e.home[u] # NoTeam => e.home[u] \in e.teams \cup (N \cup Homes({s}))
  BY <1>1, <1>2, <1>3, <1>4 DEF Keys, Changes, Tables
<1>6. \A t \in Teams : e.leader[t] # NoUser => t \in e.teams /\ e.home[e.leader[t]] # NoTeam
  BY <1>1, <1>2, <1>3, <1>4 DEF Keys, Changes, Tables
<1>7. \A u \in Users, t \in Teams :
        <<u, t>> \in e.memberships => e.home[u] # NoTeam /\ t \in e.teams
  BY <1>1, <1>2, <1>3, <1>4 DEF Keys, Changes, Tables
<1>8. \A t1, t2 \in Teams :
        t1 # t2 /\ e.leader[t1] # NoUser => e.leader[t1] # e.leader[t2]
  BY <1>1, <1>2, <1>3, <1>4 DEF Keys, Changes, Tables
<1> QED
  BY <1>5, <1>6, <1>7, <1>8 DEF Keys, e

\* One transaction commits a while another, that has run b, is open.  What the other
\* one sees changes under it (READ COMMITTED), and keeps the keys nevertheless.
LEMMA Merge ==
  ASSUME NEW d \in Tables, NEW a \in Seq(Statement), NEW b \in Seq(Statement),
         Shape(ToSet(a)), Shape(ToSet(b)),
         Keys(FoldLeft(Apply, d, a), {}),
         Keys(FoldLeft(Apply, d, b), Homes(ToSet(b))),
         Compatible(ToSet(a), ToSet(b)), Compatible(ToSet(b), ToSet(a)),
         \A h \in Teams : DropsTeam(ToSet(b), h) => h \notin Homes(ToSet(a))
  PROVE  Keys(FoldLeft(Apply, FoldLeft(Apply, d, a), b), Homes(ToSet(b)))
<1> DEFINE A == ToSet(a)
           B == ToSet(b)
<1>1. PICK X \in Tables : X = FoldLeft(Apply, d, a)
  BY InTables
<1>2. PICK Y \in Tables : Y = FoldLeft(Apply, d, b)
  BY InTables
<1>3. PICK W \in Tables : W = FoldLeft(Apply, X, b)
  BY InTables
<1>4. Keys(X, {}) /\ Keys(Y, Homes(B))
  BY <1>1, <1>2
<1>5. Compatible(A, B) /\ Compatible(B, A) /\ Shape(A) /\ Shape(B)
      /\ \A h \in Teams : DropsTeam(B, h) => h \notin Homes(A)
  OBVIOUS
<1>6. NoTeam \notin Teams /\ NoUser \notin Users
  BY SentinelAssumption
\* the rows of each of the three, and how they come from those before
<1>7. ASSUME NEW u \in Users
      PROVE  /\ X.home[u] \in {NoTeam, d.home[u]} \/ (Arrives(A, u) /\ X.home[u] \in Homes(A))
             /\ d.home[u] # NoTeam /\ ~DropsUser(A, u) => X.home[u] # NoTeam
             /\ Y.home[u] \in {NoTeam, d.home[u]} \/ (Arrives(B, u) /\ Y.home[u] \in Homes(B))
             /\ d.home[u] # NoTeam /\ ~DropsUser(B, u) => Y.home[u] # NoTeam
             /\ DropsUser(B, u) => Y.home[u] = NoTeam
             /\ W.home[u] \in {NoTeam, X.home[u]} \/ (Arrives(B, u) /\ W.home[u] \in Homes(B))
             /\ X.home[u] # NoTeam /\ ~DropsUser(B, u) => W.home[u] # NoTeam
             /\ Arrives(B, u) => W.home[u] # NoTeam
  BY <1>1, <1>2, <1>3, HomeRows
<1>8. ASSUME NEW t \in Teams
      PROVE  /\ t \in d.teams /\ ~DropsTeam(A, t) => t \in X.teams
             /\ t \in Y.teams => t \in d.teams \/ Founds(B, t)
             /\ DropsTeam(B, t) => t \notin Y.teams
             /\ (t \in X.teams \/ Founds(B, t)) /\ ~DropsTeam(B, t) => t \in W.teams
  BY <1>1, <1>2, <1>3, TeamRows
<1>9. ASSUME NEW t \in Teams
      PROVE  /\ X.leader[t] \in {NoUser, d.leader[t]} \/ Leads(A, t, X.leader[t])
             /\ \A w : Leads(B, t, w) => Y.leader[t] = w
             /\ ~DropsTeam(B, t) /\ (\A w : ~Leads(B, t, w)) => Y.leader[t] = d.leader[t]
             /\ W.leader[t] \in {NoUser, X.leader[t]} \/ Leads(B, t, W.leader[t])
             /\ \A w : Leads(B, t, w) => W.leader[t] = w
             /\ DropsTeam(B, t) => W.leader[t] = NoUser
  BY <1>1, <1>2, <1>3, LeaderRows
<1>10. ASSUME NEW u \in Users, NEW t \in Teams
       PROVE  /\ Adds(B, u, t) => <<u, t>> \in Y.memberships
              /\ <<u, t>> \in W.memberships => <<u, t>> \in X.memberships \/ Adds(B, u, t)
              /\ DropsUser(B, u) \/ DropsTeam(B, t) => <<u, t>> \notin W.memberships
  BY <1>1, <1>2, <1>3, MemberRows
\* what the second one's statements refer to, the first one has not deleted
<1>11. ASSUME NEW u \in Users, Y.home[u] # NoTeam, ~DropsUser(A, u) PROVE W.home[u] # NoTeam
  BY <1>7, <1>11
<1>12. ASSUME NEW t \in Teams, t \in Y.teams, ~DropsTeam(A, t) PROVE t \in W.teams
  BY <1>8, <1>12
<1>13. ASSUME NEW u \in Users, W.home[u] # NoTeam
       PROVE  W.home[u] \in W.teams \cup Homes(B)
  <2>1. SUFFICES ASSUME W.home[u] \notin Homes(B), NEW h \in Teams, h = W.home[u]
                 PROVE  h \in W.teams
    BY <1>13 DEF Tables
  <2>2. X.home[u] = h /\ h \in X.teams
    BY <1>4, <1>6, <1>7, <2>1 DEF Keys
  <2>3. CASE ~DropsTeam(B, h)
    BY <1>8, <2>2, <2>3
  <2>4. CASE DropsTeam(B, h)
    <3>1. d.home[u] = h
      BY <1>5, <1>6, <1>7, <2>2, <2>4
    <3>2. ~DropsUser(B, u) /\ ~Arrives(B, u) /\ Homes(B) = {}
      BY <1>5, <2>4 DEF Shape, DropsTeam, DropsUser, Arrives, Homes
    <3>3. Y.home[u] = h
      BY <1>6, <1>7, <3>1, <3>2
    <3>4. h \in Y.teams
      BY <1>4, <1>6, <3>2, <3>3 DEF Keys
    <3> QED
      BY <1>8, <2>4, <3>4
  <2> QED
    BY <2>3, <2>4
<1>14. ASSUME NEW t \in Teams, NEW v \in Users, W.leader[t] = v
       PROVE  t \in W.teams /\ W.home[v] # NoTeam
  <2>1. CASE Leads(B, t, v)
    <3>1. Y.leader[t] = v
      BY <1>9, <2>1
    <3>2. t \in Y.teams /\ Y.home[v] # NoTeam
      BY <1>4, <1>6, <3>1 DEF Keys
    <3>3. ~DropsUser(A, v) /\ ~DropsTeam(A, t)
      BY <1>5, <2>1 DEF Compatible
    <3> QED
      BY <1>11, <1>12, <3>2, <3>3
  <2>2. CASE ~Leads(B, t, v)
    <3>1. X.leader[t] = v
      BY <1>6, <1>9, <1>14, <2>2
    <3>2. t \in X.teams /\ X.home[v] # NoTeam
      BY <1>4, <1>6, <3>1 DEF Keys
    <3>3. ~DropsTeam(B, t) /\ \A w : ~Leads(B, t, w)
      BY <1>6, <1>9, <1>14, <2>2
    <3>4. ASSUME DropsUser(B, v) PROVE FALSE
      <4>1. d.leader[t] = v
        BY <1>5, <1>6, <1>9, <3>1, <3>4 DEF Compatible
      <4>2. Y.leader[t] = v
        BY <1>9, <3>3, <4>1
      <4>3. Y.home[v] # NoTeam
        BY <1>4, <1>6, <4>2 DEF Keys
      <4> QED
        BY <1>7, <3>4, <4>3
    <3> QED
      BY <1>7, <1>8, <3>2, <3>3, <3>4
  <2> QED
    BY <2>1, <2>2
<1>15. ASSUME NEW u \in Users, NEW t \in Teams, <<u, t>> \in W.memberships
       PROVE  W.home[u] # NoTeam /\ t \in W.teams
  <2>1. ~DropsUser(B, u) /\ ~DropsTeam(B, t)
    BY <1>10, <1>15
  <2>2. CASE Adds(B, u, t)
    <3>1. Y.home[u] # NoTeam /\ t \in Y.teams
      BY <1>4, <1>10, <2>2 DEF Keys
    <3>2. ~DropsUser(A, u) /\ ~DropsTeam(A, t)
      BY <1>5, <2>2 DEF Compatible
    <3> QED
      BY <1>11, <1>12, <3>1, <3>2
  <2>3. CASE ~Adds(B, u, t)
    <3>1. X.home[u] # NoTeam /\ t \in X.teams
      BY <1>4, <1>10, <1>15, <2>3 DEF Keys
    <3> QED
      BY <1>7, <1>8, <2>1, <3>1
  <2> QED
    BY <2>2, <2>3
\* t1 as the second one wrote it, t2 as it found it
<1>16. ASSUME NEW t1 \in Teams, NEW t2 \in Teams, NEW v \in Users, t1 # t2,
              W.leader[t1] = v, W.leader[t2] = v, Leads(B, t1, v), ~Leads(B, t2, v)
       PROVE  FALSE
  <2>1. X.leader[t2] = v /\ ~DropsTeam(B, t2) /\ \A w : ~Leads(B, t2, w)
    BY <1>6, <1>9, <1>16
  <2>2. d.leader[t2] = v
    BY <1>5, <1>6, <1>9, <1>16, <2>1 DEF Compatible
  <2>3. Y.leader[t1] = v /\ Y.leader[t2] = v
    BY <1>9, <1>16, <2>1, <2>2
  <2> QED
    BY <1>4, <1>6, <1>16, <2>3 DEF Keys
<1>17. ASSUME NEW t1 \in Teams, NEW t2 \in Teams, NEW v \in Users, t1 # t2,
              W.leader[t1] = v, W.leader[t2] = v
       PROVE  FALSE
  <2>1. CASE Leads(B, t1, v) /\ Leads(B, t2, v)
    <3>1. Y.leader[t1] = v /\ Y.leader[t2] = v
      BY <1>9, <2>1
    <3> QED
      BY <1>4, <1>6, <1>17, <3>1 DEF Keys
  <2>2. CASE ~Leads(B, t1, v) /\ ~Leads(B, t2, v)
    <3>1. X.leader[t1] = v /\ X.leader[t2] = v
      BY <1>6, <1>9, <1>17, <2>2
    <3> QED
      BY <1>4, <1>6, <1>17, <3>1 DEF Keys
  <2> QED
    BY <1>16, <1>17, <2>1, <2>2
<1> QED
  <2>1. W \in Tables
    OBVIOUS
  <2>2. \A t \in Teams : W.leader[t] \in Users \cup {NoUser}
    BY <2>1 DEF Tables
  <2>3. Keys(W, Homes(B))
    BY <1>13, <1>14, <1>15, <1>17, <2>2 DEF Keys
  <2> QED
    BY <1>1, <1>3, <2>3

-----------------------------------------------------------------------------
(* The inductive invariant *)

\* What a request may have to read.
Kinds == {"user", "team", "count"}

\* The locks that statements take.
LockTypes ==
  [row: ({"user", "team", "leads"} \X (Users \cup Teams)) \cup ({"member"} \X Users \X Teams),
   mode: {"share", "update", "exclusive"}]

\* A transaction's record.
Transactions ==
  [req: Requests, reads: Seq(Kinds), was: [home: Teams \cup {NoTeam}, role: {Leader, Member}],
   leader: Users \cup {NoUser}, todo: Seq(Statement), done: Seq(Statement),
   held: SUBSET LockTypes]

\* what the reads so far have found out
Known(t) ==
  /\ \A i \in DOMAIN t.reads : /\ t.reads[i] = "user" => t.req.user \in Users
                               /\ t.reads[i] = "team" => t.req.team \in Teams
  /\ t.was.role = Leader => t.was.home \in Teams
  /\ t.req.op = "move_team" =>
       \/ t.reads \in {<<"user", "team", "count">>, <<>>}
       \/ t.reads \in {<<"team", "count">>, <<"team">>} /\ t.was.home \in Teams
       \/ t.reads = <<"count">> /\ t.was.home \in Teams \ {t.req.team}
  /\ t.reads # <<>> => t.todo = <<>> /\ t.done = <<>> /\ t.held = {}

\* the locks that protect what statement s refers to
Secured(s, held) ==
  /\ s.do = "delete_team" => Lock(<<"team", s.team>>, "exclusive") \in held
  /\ s.do = "delete_user" => Lock(<<"user", s.user>>, "exclusive") \in held
  /\ s.do = "lead" =>
       /\ Lock(<<"team", s.team>>, "update") \in held
       /\ s.user # NoUser => {Lock(<<"user", s.user>>, "share"),
                              Lock(<<"leads", s.user>>, "exclusive")} \subseteq held
  /\ s.do = "add_member" => {Lock(<<"user", s.user>>, "share"),
                             Lock(<<"team", s.team>>, "share")} \subseteq held

\* A transaction, on the committed tables d: its writes do not contradict each other, it
\* holds the locks for those it has done, and the tables it sees satisfy the keys.
TxOK(t, d) ==
  /\ Known(t)
  /\ Shape(ToSet(t.todo) \cup ToSet(t.done))
  /\ \A s \in ToSet(t.done) : Secured(s, t.held)
  /\ Keys(FoldLeft(Apply, d, t.done), Homes(ToSet(t.done)))

\* No two transactions hold conflicting locks.
LocksApart ==
  \A x, y \in Slots : x # y /\ tx[x] # NoTx /\ tx[y] # NoTx =>
    \A a \in tx[x].held, b \in tx[y].held : ~Conflict(a, b)

\* The inductive invariant.
IInv ==
  /\ db \in Tables
  /\ tx \in [Slots -> Transactions \cup {NoTx}]
  /\ Keys(db, {})
  /\ \A x \in Slots : tx[x] # NoTx => TxOK(tx[x], db)
  /\ LocksApart

-----------------------------------------------------------------------------
(* The writes of a request *)

\* The parameters that a request has.
LEMMA Requested ==
  ASSUME NEW r \in Requests
  PROVE  /\ r.op \in Ops
         /\ r.user \in Users \cup {NoUser} /\ r.team \in Teams \cup {NoTeam}
         /\ r.extra \in Teams \cup {NoTeam}
         /\ r.op \notin {"create_team", "delete_team"} => r.user \in Users
         /\ r.op # "delete_user" => r.team \in Teams
         /\ r.extra # NoTeam => r.op = "create_user" /\ r.extra # r.team
<1>1. r \in Request
  BY DEF Requests
<1> QED
  BY <1>1 DEF Requests, Request

\* The statements of two sequences in a row.
LEMMA Joined ==
  ASSUME NEW a \in Seq(Statement), NEW b \in Seq(Statement)
  PROVE  a \o b \in Seq(Statement) /\ ToSet(a \o b) = ToSet(a) \cup ToSet(b)
<1>1. a \o b \in Seq(Statement)
  OBVIOUS
<1>2. ASSUME NEW i \in DOMAIN (a \o b) PROVE (a \o b)[i] \in ToSet(a) \cup ToSet(b)
  <2>1. CASE i \in 1..Len(a)
    BY <2>1 DEF ToSet
  <2>2. CASE i \notin 1..Len(a)
    <3>1. i - Len(a) \in 1..Len(b) /\ (a \o b)[i] = b[i - Len(a)]
      BY <2>2
    <3> QED
      BY <3>1 DEF ToSet
  <2> QED
    BY <2>1, <2>2
<1>3. ASSUME NEW i \in 1..Len(a) PROVE a[i] \in ToSet(a \o b)
  <2>1. i \in DOMAIN (a \o b) /\ (a \o b)[i] = a[i]
    OBVIOUS
  <2> QED
    BY <2>1 DEF ToSet
<1>4. ASSUME NEW i \in 1..Len(b) PROVE b[i] \in ToSet(a \o b)
  <2>1. Len(a) + i \in DOMAIN (a \o b) /\ (a \o b)[Len(a) + i] = b[i]
    OBVIOUS
  <2> QED
    BY <2>1 DEF ToSet
<1>5. DOMAIN a = 1..Len(a) /\ DOMAIN b = 1..Len(b)
  OBVIOUS
<1> QED
  BY <1>1, <1>2, <1>3, <1>4, <1>5 DEF ToSet

\* No statements.
LEMMA Nothing ==
  <<>> \in Seq(Statement) /\ ToSet(<<>>) = {}
BY DEF ToSet

\* One, two or three statements.
LEMMA Few ==
  ASSUME NEW a \in Statement, NEW b \in Statement, NEW c \in Statement
  PROVE  /\ <<a>> \in Seq(Statement) /\ ToSet(<<a>>) = {a}
         /\ <<a, b>> \in Seq(Statement) /\ ToSet(<<a, b>>) = {a, b}
         /\ <<a, b, c>> \in Seq(Statement) /\ ToSet(<<a, b, c>>) = {a, b, c}
<1>2. <<a>> \in Seq(Statement) /\ ToSet(<<a>>) = {a}
  BY DEF ToSet
<1>3. <<a, b>> \in Seq(Statement) /\ ToSet(<<a, b>>) = {a, b}
  BY DEF ToSet
<1>4. <<a, b, c>> \in Seq(Statement) /\ ToSet(<<a, b, c>>) = {a, b, c}
  BY DEF ToSet
<1> QED
  BY <1>2, <1>3, <1>4

\* Statement s, recognised by its parts.
Is(s, do, u, t) == s \in Statement /\ Sound(s) /\ s.do = do /\ s.user = u /\ s.team = t

\* Each constructor makes the statement it is named for.
LEMMA Statements ==
  /\ \A t \in Teams : Is(InsertTeam(t), "insert_team", NoUser, t)
  /\ \A t \in Teams : Is(DropTeam(t), "delete_team", NoUser, t)
  /\ \A t \in Teams, v \in Users \cup {NoUser} : Is(Lead(t, v), "lead", v, t)
  /\ \A u \in Users : Is(DropUser(u), "delete_user", u, NoTeam)
  /\ \A u \in Users, r \in {Leader, Member} : Is(SetRole(u, r), "set_role", u, NoTeam)
  /\ \A u \in Users, t \in Teams : Is(InsertUser(u, t), "insert_user", u, t)
  /\ \A u \in Users, t \in Teams : Is(Rehome(u, t), "rehome", u, t)
  /\ \A u \in Users, t \in Teams : Is(AddMember(u, t), "add_member", u, t)
  /\ \A u \in Users, t \in Teams : Is(RemoveMember(u, t), "remove_member", u, t)
<1>1. Member \in {Leader, Member} /\ NoUser \in Users \cup {NoUser} /\ NoTeam \in Teams \cup {NoTeam}
  OBVIOUS
<1>3. \A do \in {"insert_team", "delete_team", "lead"} : \A t \in Teams, v \in Users \cup {NoUser} :
        Is(Stmt(do, v, t, Member), do, v, t)
  BY <1>1 DEF Is, Sound, Stmt, Statement
<1>4. \A do \in {"delete_user", "set_role"} : \A u \in Users, r \in {Leader, Member} :
        Is(Stmt(do, u, NoTeam, r), do, u, NoTeam)
  BY <1>1 DEF Is, Sound, Stmt, Statement
<1>5. \A do \in {"insert_user", "rehome", "add_member", "remove_member"} :
        \A u \in Users, t \in Teams : Is(Stmt(do, u, t, Member), do, u, t)
  BY <1>1 DEF Is, Sound, Stmt, Statement
<1> QED
  BY <1>1, <1>3, <1>4, <1>5
     DEF InsertTeam, DropTeam, Lead, DropUser, SetRole, InsertUser, Rehome, AddMember, RemoveMember

\* Fewer statements contradict each other less.
LEMMA ShapeBelow ==
  ASSUME NEW Y, NEW Z, Y \subseteq Z, Shape(Z)
  PROVE  Shape(Y)
BY DEF Shape

\* The writes of each service never contradict each other.  (A move is refused to the
\* team that the user is in: otherwise he would lose the membership he has just got.)
LEMMA PlanOK ==
  ASSUME NEW t \in Transactions,
         t.was.role = Leader => t.was.home \in Teams,
         t.req.op = "move_team" => t.was.home \in Teams \ {t.req.team}
  PROVE  Plan(t) \in Seq(Statement) /\ Shape(ToSet(Plan(t)))
<1> DEFINE u == t.req.user
           team == t.req.team
<1>1. /\ t.req.op \in Ops
      /\ t.req.extra \in Teams \cup {NoTeam}
      /\ t.req.op \notin {"create_team", "delete_team"} => u \in Users
      /\ t.req.op # "delete_user" => team \in Teams
      /\ t.leader \in Users \cup {NoUser} /\ t.was.home \in Teams \cup {NoTeam}
  BY Requested DEF Transactions
<1>2. ASSUME u \in Users, team \in Teams
      PROVE  Joins(t) \in Seq(Statement) /\ ToSet(Joins(t)) \subseteq {Lead(team, u), SetRole(u, Leader)}
  <2>1. Lead(team, u) \in Statement /\ SetRole(u, Leader) \in Statement
    BY <1>2, Statements DEF Is
  <2>2. <<Lead(team, u), SetRole(u, Leader)>> \in Seq(Statement)
        /\ ToSet(<<Lead(team, u), SetRole(u, Leader)>>) = {Lead(team, u), SetRole(u, Leader)}
    BY <2>1, Few
  <2>3. Joins(t) = <<Lead(team, u), SetRole(u, Leader)>> \/ Joins(t) = <<>>
    BY DEF Joins, When
  <2> QED
    BY <2>2, <2>3, Nothing
<1>3. /\ Leaves(t) \in Seq(Statement)
      /\ ToSet(Leaves(t)) \subseteq {Lead(t.was.home, NoUser)}
      /\ ToSet(Leaves(t)) # {} => t.was.home \in Teams
  <2>1. CASE t.was.role = Leader
    <3>1. Lead(t.was.home, NoUser) \in Statement
      BY <2>1, Statements DEF Is
    <3> QED
      BY <2>1, <3>1, Few DEF Leaves, When
  <2>2. CASE t.was.role # Leader
    BY <2>2, Nothing DEF Leaves, When
  <2> QED
    BY <2>1, <2>2
<1>4. ASSUME NEW s, s \in Statement, Sound(s), Plan(t) = <<s>>
      PROVE  Plan(t) \in Seq(Statement) /\ Shape(ToSet(Plan(t)))
  <2>1. <<s>> \in Seq(Statement) /\ ToSet(<<s>>) = {s}
    BY <1>4, Few
  <2>2. Shape({s})
    BY <1>4 DEF Shape, Sound
  <2> QED
    BY <1>4, <2>1, <2>2
<1>5. CASE t.req.op \in {"create_team", "delete_team", "add_membership", "remove_membership"}
  <2>1. team \in Teams /\ (t.req.op \in {"add_membership", "remove_membership"} => u \in Users)
    BY <1>1, <1>5
  <2>2. CASE t.req.op = "create_team"
    <3>1. Plan(t) = <<InsertTeam(team)>>
      BY <2>2 DEF Plan
    <3> QED
      BY <1>4, <2>1, <3>1, Statements DEF Is
  <2>3. CASE t.req.op = "delete_team"
    <3>1. Plan(t) = <<DropTeam(team)>>
      BY <2>3 DEF Plan
    <3> QED
      BY <1>4, <2>1, <3>1, Statements DEF Is
  <2>4. CASE t.req.op = "add_membership"
    <3>1. Plan(t) = <<AddMember(u, team)>>
      BY <2>4 DEF Plan
    <3> QED
      BY <1>4, <2>1, <2>4, <3>1, Statements DEF Is
  <2>5. CASE t.req.op = "remove_membership"
    <3>1. Plan(t) = <<RemoveMember(u, team)>>
      BY <2>5 DEF Plan
    <3> QED
      BY <1>4, <2>1, <2>5, <3>1, Statements DEF Is
  <2> QED
    BY <1>5, <2>2, <2>3, <2>4, <2>5
<1>6. CASE t.req.op = "create_user"
  <2> DEFINE extra == When(t.req.extra # NoTeam, <<AddMember(u, t.req.extra)>>)
             base == <<InsertUser(u, team), AddMember(u, team)>>
             P == {InsertUser(u, team), AddMember(u, team), Lead(team, u), SetRole(u, Leader)}
                    \cup IF t.req.extra # NoTeam THEN {AddMember(u, t.req.extra)} ELSE {}
  <2>1. u \in Users /\ team \in Teams
    BY <1>1, <1>6
  <2>2. /\ Is(InsertUser(u, team), "insert_user", u, team)
        /\ Is(AddMember(u, team), "add_member", u, team)
        /\ Is(Lead(team, u), "lead", u, team)
        /\ Is(SetRole(u, Leader), "set_role", u, NoTeam)
        /\ t.req.extra # NoTeam => Is(AddMember(u, t.req.extra), "add_member", u, t.req.extra)
    BY <1>1, <2>1, Statements
  <2>3. base \in Seq(Statement) /\ ToSet(base) = {InsertUser(u, team), AddMember(u, team)}
    BY <2>2, Few DEF Is
  <2>4. extra \in Seq(Statement)
        /\ ToSet(extra) = IF t.req.extra # NoTeam THEN {AddMember(u, t.req.extra)} ELSE {}
    <3>1. CASE t.req.extra # NoTeam
      BY <2>2, <3>1, Few DEF Is, When
    <3>2. CASE t.req.extra = NoTeam
      BY <3>2, Nothing DEF When
    <3> QED
      BY <3>1, <3>2
  <2>5. Plan(t) = base \o extra \o Joins(t)
    BY <1>6 DEF Plan
  <2> HIDE DEF base, extra
  <2>6. base \o extra \in Seq(Statement) /\ ToSet(base \o extra) = ToSet(base) \cup ToSet(extra)
    BY <2>3, <2>4, Joined
  <2>7. Plan(t) \in Seq(Statement) /\ ToSet(Plan(t)) = ToSet(base \o extra) \cup ToSet(Joins(t))
    BY <1>2, <2>1, <2>5, <2>6, Joined
  <2>8. ToSet(Plan(t)) \subseteq P
    BY <1>2, <2>1, <2>3, <2>4, <2>6, <2>7
  <2>9. Shape(P)
    BY <2>2 DEF Shape, Is
  <2> HIDE DEF P
  <2> QED
    BY <2>7, <2>8, <2>9, ShapeBelow
<1>7. CASE t.req.op = "delete_user"
  <2> DEFINE base == <<DropUser(u)>>
             P == {DropUser(u)} \cup
                    IF t.was.home \in Teams THEN {Lead(t.was.home, NoUser)} ELSE {}
  <2>1. u \in Users
    BY <1>1, <1>7
  <2>2. /\ Is(DropUser(u), "delete_user", u, NoTeam)
        /\ t.was.home \in Teams => Is(Lead(t.was.home, NoUser), "lead", NoUser, t.was.home)
    BY <2>1, Statements
  <2>3. base \in Seq(Statement) /\ ToSet(base) = {DropUser(u)}
    BY <2>2, Few DEF Is
  <2>4. Plan(t) = Leaves(t) \o base
    BY <1>7 DEF Plan
  <2> HIDE DEF base
  <2>5. Plan(t) \in Seq(Statement) /\ ToSet(Plan(t)) = ToSet(Leaves(t)) \cup {DropUser(u)}
    BY <1>3, <2>3, <2>4, Joined
  <2>6. ToSet(Plan(t)) \subseteq P
    BY <1>3, <2>5
  <2>7. Shape(P)
    BY <2>2 DEF Shape, Is
  <2> HIDE DEF P
  <2> QED
    BY <2>5, <2>6, <2>7, ShapeBelow
<1>8. CASE t.req.op = "move_team"
  <2> DEFINE h == t.was.home
             base == <<Rehome(u, team), RemoveMember(u, h), AddMember(u, team)>>
             P == {Lead(h, NoUser), Rehome(u, team), RemoveMember(u, h), AddMember(u, team),
                   Lead(team, u), SetRole(u, Leader)}
  <2>1. u \in Users /\ team \in Teams /\ h \in Teams /\ h # team
    BY <1>1, <1>8
  <2>2. /\ Is(Lead(h, NoUser), "lead", NoUser, h)
        /\ Is(Rehome(u, team), "rehome", u, team)
        /\ Is(RemoveMember(u, h), "remove_member", u, h)
        /\ Is(AddMember(u, team), "add_member", u, team)
        /\ Is(Lead(team, u), "lead", u, team)
        /\ Is(SetRole(u, Leader), "set_role", u, NoTeam)
    BY <2>1, Statements
  <2>3. base \in Seq(Statement)
        /\ ToSet(base) = {Rehome(u, team), RemoveMember(u, h), AddMember(u, team)}
    <3>1. /\ Rehome(u, team) \in Statement
          /\ RemoveMember(u, h) \in Statement
          /\ AddMember(u, team) \in Statement
      BY <2>2 DEF Is
    <3>2. \A a, b, c \in Statement :
            <<a, b, c>> \in Seq(Statement) /\ ToSet(<<a, b, c>>) = {a, b, c}
      BY Few
    <3> QED
      BY <3>1, <3>2, Zenon
  <2>4. Plan(t) = Leaves(t) \o base \o Joins(t)
    BY <1>8 DEF Plan
  <2> HIDE DEF base
  <2>5. Leaves(t) \o base \in Seq(Statement)
        /\ ToSet(Leaves(t) \o base) = ToSet(Leaves(t)) \cup ToSet(base)
    BY <1>3, <2>3, Joined
  <2>6. Plan(t) \in Seq(Statement)
        /\ ToSet(Plan(t)) = ToSet(Leaves(t) \o base) \cup ToSet(Joins(t))
    BY <1>2, <2>1, <2>4, <2>5, Joined
  <2>7. ToSet(Plan(t)) \subseteq P
    BY <1>2, <1>3, <2>1, <2>3, <2>5, <2>6
  <2>8. Shape(P)
    <3>1. \A s \in P : Sound(s)
      BY <2>2 DEF Is
    <3>2. \A s \in P : /\ s.do \notin {"delete_team", "delete_user"}
                       /\ s.do = "add_member" => s.team = team
                       /\ s.do = "remove_member" => s.team = h
      BY <2>2 DEF Is
    <3>3. \A s \in P : s.do = "lead" =>
            (s.team = h /\ s.user = NoUser) \/ (s.team = team /\ s.user = u)
      BY <2>2 DEF Is
    <3> HIDE DEF P
    <3> QED
      BY <2>1, <3>1, <3>2, <3>3 DEF Shape
  <2> HIDE DEF P
  <2> QED
    BY <2>6, <2>7, <2>8, ShapeBelow
<1>9. CASE t.req.op = "set_leader"
  <2> DEFINE former == When(t.leader \notin {NoUser, u}, <<SetRole(t.leader, Member)>>)
             base == <<SetRole(u, Leader), Lead(team, u)>>
             P == {SetRole(u, Leader), Lead(team, u)} \cup
                    IF t.leader # NoUser THEN {SetRole(t.leader, Member)} ELSE {}
  <2>1. u \in Users /\ team \in Teams
    BY <1>1, <1>9
  <2>2. /\ Is(Lead(team, u), "lead", u, team)
        /\ Is(SetRole(u, Leader), "set_role", u, NoTeam)
        /\ t.leader # NoUser => Is(SetRole(t.leader, Member), "set_role", t.leader, NoTeam)
    BY <1>1, <2>1, Statements
  <2>3. base \in Seq(Statement) /\ ToSet(base) = {SetRole(u, Leader), Lead(team, u)}
    BY <2>2, Few DEF Is
  <2>4. former \in Seq(Statement)
        /\ ToSet(former) \subseteq IF t.leader # NoUser THEN {SetRole(t.leader, Member)} ELSE {}
    <3>1. CASE t.leader \notin {NoUser, u}
      BY <2>2, <3>1, Few DEF Is, When
    <3>2. CASE t.leader \in {NoUser, u}
      BY <3>2, Nothing DEF When
    <3> QED
      BY <3>1, <3>2
  <2>5. Plan(t) = former \o base
    BY <1>9 DEF Plan
  <2> HIDE DEF base, former
  <2>6. Plan(t) \in Seq(Statement) /\ ToSet(Plan(t)) = ToSet(former) \cup ToSet(base)
    BY <2>3, <2>4, <2>5, Joined
  <2>7. ToSet(Plan(t)) \subseteq P
    BY <2>3, <2>4, <2>6
  <2>8. Shape(P)
    BY <2>2 DEF Shape, Is
  <2> HIDE DEF P
  <2> QED
    BY <2>6, <2>7, <2>8, ShapeBelow
<1> QED
  BY <1>1, <1>5, <1>6, <1>7, <1>8, <1>9 DEF Ops

\* A statement at the end of a sequence.
LEMMA OneMore ==
  ASSUME NEW s \in Seq(Statement), NEW a \in Statement
  PROVE  Append(s, a) \in Seq(Statement) /\ ToSet(Append(s, a)) = ToSet(s) \cup {a}
<1> DEFINE b == Append(s, a)
<1>1. /\ b \in Seq(Statement) /\ DOMAIN b = 1..Len(s)+1 /\ DOMAIN s = 1..Len(s)
      /\ b[Len(s) + 1] = a /\ \A i \in 1..Len(s) : b[i] = s[i]
  OBVIOUS
<1>2. \A i \in 1..Len(s)+1 : i \in 1..Len(s) \/ i = Len(s) + 1
  OBVIOUS
<1>3. Len(s) + 1 \in 1..Len(s)+1 /\ \A i \in 1..Len(s) : i \in 1..Len(s)+1
  OBVIOUS
<1> HIDE DEF b
<1>4. ToSet(b) = ToSet(s) \cup {a}
  BY <1>1, <1>2, <1>3, Zenon DEF ToSet
<1> QED
  BY <1>1, <1>4 DEF b

\* The first statement of a sequence, and the rest.
LEMMA FirstOff ==
  ASSUME NEW s \in Seq(Statement), s # <<>>
  PROVE  /\ Head(s) \in Statement /\ Tail(s) \in Seq(Statement)
         /\ ToSet(s) = {Head(s)} \cup ToSet(Tail(s))
<1> DEFINE b == Tail(s)
<1>1. /\ b \in Seq(Statement) /\ DOMAIN b = 1..Len(s)-1 /\ DOMAIN s = 1..Len(s)
      /\ Head(s) = s[1] /\ \A i \in 1..Len(s)-1 : b[i] = s[i + 1]
      /\ Head(s) \in Statement /\ Len(s) \in Nat /\ Len(s) > 0
  OBVIOUS
<1> HIDE DEF b
<1>2. ASSUME NEW i \in 1..Len(s) PROVE s[i] \in {Head(s)} \cup ToSet(b)
  <2>1. CASE i = 1
    BY <1>1, <2>1
  <2>2. CASE i # 1
    <3>1. i - 1 \in DOMAIN b /\ b[i - 1] = s[i]
      BY <1>1, <2>2
    <3> QED
      BY <3>1 DEF ToSet
  <2> QED
    BY <2>1, <2>2
<1>3. ASSUME NEW i \in 1..Len(s)-1 PROVE b[i] \in ToSet(s)
  <2>1. i + 1 \in DOMAIN s /\ b[i] = s[i + 1]
    BY <1>1
  <2> QED
    BY <2>1 DEF ToSet
<1>4. Head(s) \in ToSet(s)
  <2>1. 1 \in DOMAIN s /\ Head(s) = s[1]
    BY <1>1
  <2> QED
    BY <2>1 DEF ToSet
<1>5. ToSet(s) = {Head(s)} \cup ToSet(b)
  BY <1>1, <1>2, <1>3, <1>4, Zenon DEF ToSet
<1> QED
  BY <1>1, <1>5 DEF b

\* A statement's locks are those that protect what it refers to.
LEMMA LocksSecure ==
  ASSUME NEW d \in Tables, NEW s, Sound(s)
  PROVE  Locks(d, s) \subseteq LockTypes /\ Secured(s, Locks(d, s))
<1> DEFINE L == Locks(d, s)
           user == <<"user", s.user>>
           team == <<"team", s.team>>
           lost(M) == {Lock(<<"member", m[1], m[2]>>, "exclusive") : m \in M}
<1>1. /\ s \in Statement /\ s.user \in Users \cup {NoUser} /\ s.team \in Teams \cup {NoTeam}
      /\ d.memberships \subseteq Users \X Teams
  BY DEF Sound, Statement, Tables
<1>2. ASSUME NEW M, M \subseteq Users \X Teams
      PROVE  lost(M) \subseteq LockTypes
  <2>1. ASSUME NEW m \in M PROVE Lock(<<"member", m[1], m[2]>>, "exclusive") \in LockTypes
    <3>1. m[1] \in Users /\ m[2] \in Teams
      BY <1>2, <2>1
    <3> QED
      BY <3>1 DEF Lock, LockTypes
  <2> QED
    BY <2>1
<1>3. \A mode \in {"share", "update", "exclusive"} :
        /\ s.user \in Users => /\ Lock(user, mode) \in LockTypes
                               /\ Lock(<<"leads", s.user>>, mode) \in LockTypes
        /\ s.team \in Teams => Lock(team, mode) \in LockTypes
  BY DEF Lock, LockTypes
<1> HIDE DEF L
<1>4. CASE s.do \in {"insert_team", "insert_user"}
  BY <1>4 DEF L, Locks, Secured
<1>5. CASE s.do = "delete_team"
  <2>1. L = {Lock(team, "exclusive")} \cup lost({m \in d.memberships : m[2] = s.team})
    BY <1>5 DEF L, Locks
  <2>2. lost({m \in d.memberships : m[2] = s.team}) \subseteq LockTypes
    <3>1. {m \in d.memberships : m[2] = s.team} \subseteq Users \X Teams
      BY <1>1
    <3> HIDE DEF lost
    <3> QED
      BY <1>2, <3>1
  <2> HIDE DEF lost
  <2>3. s.team \in Teams
    BY <1>5 DEF Sound
  <2> HIDE DEF team
  <2>4. L \subseteq LockTypes
    BY <1>3, <2>1, <2>2, <2>3
  <2> QED
    BY <1>5, <2>1, <2>4 DEF Secured, L, team
<1>6. CASE s.do = "lead"
  <2>1. L = {Lock(team, "update")} \cup
              IF s.user = NoUser THEN {}
              ELSE {Lock(user, "share"), Lock(<<"leads", s.user>>, "exclusive")}
    BY <1>6 DEF L, Locks
  <2>2. s.team \in Teams /\ (s.user # NoUser => s.user \in Users)
    BY <1>1, <1>6 DEF Sound
  <2>3. L \subseteq LockTypes
    BY <1>3, <2>1, <2>2
  <2> QED
    BY <1>6, <2>1, <2>3 DEF Secured, L
<1>7. CASE s.do = "delete_user"
  <2>1. L = {Lock(user, "exclusive")} \cup lost({m \in d.memberships : m[1] = s.user})
    BY <1>7 DEF L, Locks
  <2>2. lost({m \in d.memberships : m[1] = s.user}) \subseteq LockTypes
    <3>1. {m \in d.memberships : m[1] = s.user} \subseteq Users \X Teams
      BY <1>1
    <3> HIDE DEF lost
    <3> QED
      BY <1>2, <3>1
  <2> HIDE DEF lost
  <2>3. s.user \in Users
    BY <1>7 DEF Sound
  <2> HIDE DEF user
  <2>4. L \subseteq LockTypes
    BY <1>3, <2>1, <2>2, <2>3
  <2> QED
    BY <1>7, <2>1, <2>4 DEF Secured, L, user
<1>8. CASE s.do \in {"rehome", "set_role"}
  <2>1. L = {Lock(user, "update")} /\ s.user \in Users
    BY <1>8 DEF L, Locks, Sound
  <2> QED
    BY <1>3, <1>8, <2>1 DEF L, Secured
<1>9. CASE s.do \in {"add_member", "remove_member"}
  <2>1. s.user \in Users /\ s.team \in Teams
    BY <1>9 DEF Sound
  <2>2. lost({<<s.user, s.team>>}) \subseteq LockTypes
    <3>1. {<<s.user, s.team>>} \subseteq Users \X Teams
      BY <2>1
    <3> HIDE DEF lost
    <3> QED
      BY <1>2, <3>1
  <2>3. CASE s.do = "add_member"
    <3>1. L = {Lock(user, "share"), Lock(team, "share")} \cup lost({<<s.user, s.team>>})
      BY <2>3 DEF L, Locks
    <3> HIDE DEF lost
    <3>2. L \subseteq LockTypes
      BY <1>3, <2>1, <2>2, <3>1
    <3> QED
      BY <2>3, <3>1, <3>2 DEF Secured, L
  <2>4. CASE s.do = "remove_member"
    <3>1. L = lost({<<s.user, s.team>>})
      BY <2>4 DEF L, Locks
    <3> HIDE DEF lost
    <3> QED
      BY <2>2, <2>4, <3>1 DEF Secured, L
  <2> QED
    BY <1>9, <2>3, <2>4
<1> QED
  BY <1>1, <1>4, <1>5, <1>6, <1>7, <1>8, <1>9 DEF Statement

\* An exclusive lock on a row conflicts with every other one, in both directions.
LEMMA Clash ==
  ASSUME NEW row
  PROVE  /\ \A m \in {"share", "update", "exclusive"} :
              /\ Conflict(Lock(row, "exclusive"), Lock(row, m))
              /\ Conflict(Lock(row, m), Lock(row, "exclusive"))
         /\ \A a, b : Conflict(a, b) <=> Conflict(b, a)
BY DEF Conflict, Lock

\* Transactions whose locks do not conflict have no conflicting statements.
LEMMA LocksKeepApart ==
  ASSUME NEW A, NEW B, NEW H, NEW K,
         \A s \in A : Secured(s, H), \A s \in B : Secured(s, K),
         \A a \in H, b \in K : ~Conflict(a, b)
  PROVE  Compatible(A, B)
<1>1. ASSUME NEW row, Lock(row, "exclusive") \in H
      PROVE  \A m \in {"share", "update", "exclusive"} : Lock(row, m) \notin K
  BY <1>1, Clash
<1>2. ASSUME NEW u \in Users, NEW t \in Teams, DropsUser(A, u)
      PROVE  ~Adds(B, u, t) /\ ~Leads(B, t, u)
  <2>1. Lock(<<"user", u>>, "exclusive") \in H
    BY <1>2 DEF DropsUser, Secured
  <2>2. Adds(B, u, t) => Lock(<<"user", u>>, "share") \in K
    BY DEF Adds, Secured
  <2>3. Leads(B, t, u) => Lock(<<"user", u>>, "share") \in K
    BY SentinelAssumption DEF Leads, Secured
  <2> QED
    BY <1>1, <2>1, <2>2, <2>3
<1>3. ASSUME NEW u \in Users, NEW t \in Teams, DropsTeam(A, t)
      PROVE  ~Adds(B, u, t) /\ ~Leads(B, t, u)
  <2>1. Lock(<<"team", t>>, "exclusive") \in H
    BY <1>3 DEF DropsTeam, Secured
  <2>2. Adds(B, u, t) => Lock(<<"team", t>>, "share") \in K
    BY DEF Adds, Secured
  <2>3. Leads(B, t, u) => Lock(<<"team", t>>, "update") \in K
    BY DEF Leads, Secured
  <2> QED
    BY <1>1, <2>1, <2>2, <2>3
<1>4. ASSUME NEW u \in Users, NEW t1 \in Teams, NEW t2 \in Teams
      PROVE  ~(Leads(A, t1, u) /\ Leads(B, t2, u))
  <2>1. Leads(A, t1, u) => Lock(<<"leads", u>>, "exclusive") \in H
    BY SentinelAssumption DEF Leads, Secured
  <2>2. Leads(B, t2, u) => Lock(<<"leads", u>>, "exclusive") \in K
    BY SentinelAssumption DEF Leads, Secured
  <2> QED
    BY <1>1, <2>1, <2>2
<1> QED
  BY <1>2, <1>3, <1>4 DEF Compatible

\* More locks protect no less.
LEMMA SecuredMore ==
  ASSUME NEW s, NEW H, NEW K, Secured(s, H), H \subseteq K
  PROVE  Secured(s, K)
BY DEF Secured

-----------------------------------------------------------------------------
(* The reads of a request *)

\* A request that reads a user or a team has one.
LEMMA ReadsOK ==
  ASSUME NEW r \in Requests
  PROVE  /\ Reads(r.op) \in Seq(Kinds)
         /\ \A i \in DOMAIN Reads(r.op) : /\ Reads(r.op)[i] = "user" => r.user \in Users
                                          /\ Reads(r.op)[i] = "team" => r.team \in Teams
         /\ r.op = "move_team" => Reads(r.op) = <<"user", "team", "count">>
<1>1. /\ r.op \in Ops
      /\ r.op \notin {"create_team", "delete_team"} => r.user \in Users
      /\ r.op # "delete_user" => r.team \in Teams
  BY Requested
<1>2. CASE r.op = "create_user"
  BY <1>1, <1>2 DEF Reads, Kinds
<1>3. CASE r.op = "delete_user"
  BY <1>1, <1>3 DEF Reads, Kinds
<1>4. CASE r.op = "move_team"
  BY <1>1, <1>4 DEF Reads, Kinds
<1>5. CASE r.op = "add_membership"
  BY <1>1, <1>5 DEF Reads, Kinds
<1>6. CASE r.op = "remove_membership"
  BY <1>1, <1>6 DEF Reads, Kinds
<1>7. CASE r.op = "create_team"
  BY <1>7 DEF Reads
<1>8. CASE r.op = "delete_team"
  BY <1>1, <1>8 DEF Reads, Kinds
<1>9. CASE r.op = "set_leader"
  BY <1>1, <1>9 DEF Reads, Kinds
<1> QED
  BY <1>1, <1>2, <1>3, <1>4, <1>5, <1>6, <1>7, <1>8, <1>9 DEF Ops

\* What is still to be read is part of what was to be read before.
LEMMA FollowingOK ==
  ASSUME NEW t, t.reads \in Seq(Kinds), t.reads # <<>>, NEW read
  PROVE  /\ Following(t, read) \in Seq(Kinds)
         /\ \A i \in DOMAIN Following(t, read) :
              i + 1 \in DOMAIN t.reads /\ Following(t, read)[i] = t.reads[i + 1]
<1> DEFINE rest == Tail(t.reads)
<1>1. /\ rest \in Seq(Kinds) /\ Len(rest) = Len(t.reads) - 1
      /\ \A i \in 1..Len(rest) : i + 1 \in DOMAIN t.reads /\ rest[i] = t.reads[i + 1]
  OBVIOUS
<1>2. rest # <<>> => /\ Front(rest) \in Seq(Kinds) /\ Len(Front(rest)) = Len(rest) - 1
                     /\ \A i \in 1..Len(rest)-1 : Front(rest)[i] = rest[i]
  BY <1>1 DEF Front
<1>3. Following(t, read) = rest \/ (rest # <<>> /\ Following(t, read) = Front(rest))
  BY DEF Following
<1> HIDE DEF rest
<1>4. CASE Following(t, read) = rest
  BY <1>1, <1>4
<1>5. CASE rest # <<>> /\ Following(t, read) = Front(rest)
  <2> DEFINE f == Front(rest)
  <2>1. f \in Seq(Kinds) /\ \A i \in 1..Len(f) : i \in 1..Len(rest) /\ f[i] = rest[i]
    BY <1>1, <1>2, <1>5
  <2> HIDE DEF f
  <2>2. ASSUME NEW i \in DOMAIN f PROVE i + 1 \in DOMAIN t.reads /\ f[i] = t.reads[i + 1]
    <3>1. i \in 1..Len(rest) /\ f[i] = rest[i]
      BY <2>1
    <3> QED
      BY <1>1, <3>1
  <2> QED
    BY <1>5, <2>1, <2>2 DEF f
<1> QED
  BY <1>3, <1>4, <1>5

\* When the last read is done, the writes are settled, and they do not contradict each other.
LEMMA PlannedOK ==
  ASSUME NEW t \in Transactions, NEW d \in Tables, Keys(d, {}),
         t.todo = <<>>, t.done = <<>>, t.held = {},
         \A i \in DOMAIN t.reads : /\ t.reads[i] = "user" => t.req.user \in Users
                                   /\ t.reads[i] = "team" => t.req.team \in Teams,
         t.was.role = Leader => t.was.home \in Teams,
         t.req.op = "move_team" =>
           \/ t.reads = <<"user", "team", "count">>
           \/ t.reads \in {<<"team", "count">>, <<"team">>} /\ t.was.home \in Teams
           \/ t.reads \in {<<"count">>, <<>>} /\ t.was.home \in Teams \ {t.req.team}
  PROVE  Planned(t) \in Transactions /\ TxOK(Planned(t), d) /\ Planned(t).held = {}
<1>1. /\ ToSet(t.done) = {} /\ ToSet(t.todo) = {}
      /\ \A e : FoldLeft(Apply, e, t.done) = e
  BY Nothing, FoldNone
<1>2. Homes({}) = {} /\ Shape({})
  BY DEF Homes, Shape
<1>3. CASE t.reads # <<>>
  <2>1. Planned(t) = t
    BY <1>3 DEF Planned
  <2>2. Known(t)
    BY <1>3 DEF Known
  <2>3. TxOK(t, d)
    BY <1>1, <1>2, <2>2 DEF TxOK
  <2> QED
    BY <2>1, <2>3
<1>4. CASE t.reads = <<>>
  <2> DEFINE p == [t EXCEPT !.todo = Plan(t), !.was = Unread, !.leader = NoUser]
  <2>1. Planned(t) = p
    BY <1>4 DEF Planned
  <2>2. t.req.op = "move_team" => t.was.home \in Teams \ {t.req.team}
    BY <1>4
  <2>3. Plan(t) \in Seq(Statement) /\ Shape(ToSet(Plan(t)))
    BY <2>2, PlanOK
  <2>4. Unread \in [home: Teams \cup {NoTeam}, role: {Leader, Member}] /\ Unread.role # Leader
    BY DEF Unread, Leader, Member
  <2>5. /\ p \in Transactions
        /\ p.req = t.req /\ p.reads = <<>> /\ p.was = Unread
        /\ p.todo = Plan(t) /\ p.done = t.done /\ p.held = {}
    BY <1>4, <2>3, <2>4 DEF Transactions
  <2> HIDE DEF p
  <2>6. Known(p)
    BY <2>4, <2>5 DEF Known
  <2>7. TxOK(p, d)
    BY <1>1, <1>2, <2>3, <2>5, <2>6 DEF TxOK
  <2> QED
    BY <2>1, <2>5, <2>7
<1> QED
  BY <1>3, <1>4

-----------------------------------------------------------------------------
(* The steps *)

\* A step that writes nothing to the tables, and leaves one transaction in order, keeps IInv.
LEMMA StepKeeps ==
  ASSUME IInv, NEW x \in Slots, NEW t,
         \/ t = NoTx
         \/ /\ t \in Transactions /\ TxOK(t, db)
            /\ \A y \in Slots \ {x} : tx[y] # NoTx =>
                 \A a \in t.held, b \in tx[y].held : ~Conflict(a, b),
         tx' = [tx EXCEPT ![x] = t], UNCHANGED db
  PROVE  IInv'
<1>1. /\ db \in Tables /\ Keys(db, {}) /\ db' = db
      /\ tx \in [Slots -> Transactions \cup {NoTx}]
      /\ \A y \in Slots : tx[y] # NoTx => TxOK(tx[y], db)
      /\ \A y, z \in Slots : y # z /\ tx[y] # NoTx /\ tx[z] # NoTx =>
           \A a \in tx[y].held, b \in tx[z].held : ~Conflict(a, b)
  BY DEF IInv, LocksApart
<1>2. tx'[x] = t /\ \A y \in Slots \ {x} : tx'[y] = tx[y]
  BY <1>1
<1>3. tx' \in [Slots -> Transactions \cup {NoTx}]
  BY <1>1
<1>4. ASSUME NEW y \in Slots, tx'[y] # NoTx PROVE TxOK(tx'[y], db')
  BY <1>1, <1>2, <1>4
<1>5. ASSUME NEW y \in Slots, NEW z \in Slots, y # z, tx'[y] # NoTx, tx'[z] # NoTx,
             NEW a \in tx'[y].held, NEW b \in tx'[z].held
      PROVE  ~Conflict(a, b)
  <2>1. CASE y = x
    BY <1>2, <1>5, <2>1
  <2>2. CASE z = x
    <3>1. ~Conflict(b, a)
      BY <1>2, <1>5, <2>2
    <3> QED
      BY <3>1, Clash
  <2>3. CASE y # x /\ z # x
    BY <1>1, <1>2, <1>5, <2>3
  <2> QED
    BY <2>1, <2>2, <2>3
<1>6. LocksApart'
  BY <1>5 DEF LocksApart
<1> QED
  BY <1>1, <1>3, <1>4, <1>6 DEF IInv

\* The empty tables satisfy IInv.
LEMMA InitKeeps ==
  ASSUME Init
  PROVE  IInv
<1>1. db \in Tables
  BY DEF Init, Tables, Leader, Member
<1>2. Keys(db, {})
  BY <1>1 DEF Init, Keys
<1>3. tx \in [Slots -> Transactions \cup {NoTx}] /\ \A x \in Slots : tx[x] = NoTx
  BY DEF Init
<1> QED
  BY <1>1, <1>2, <1>3 DEF IInv, LocksApart

\* A request that begins has read nothing and locked nothing.
LEMMA BeginKeeps ==
  ASSUME IInv, NEW x \in Slots, NEW r \in Requests, Begin(x, r)
  PROVE  IInv'
<1> DEFINE t == [req |-> r, reads |-> Reads(r.op), was |-> Unread, leader |-> NoUser,
                 todo |-> <<>>, done |-> <<>>, held |-> {}]
<1>1. db \in Tables /\ Keys(db, {}) /\ UNCHANGED db /\ tx' = [tx EXCEPT ![x] = Planned(t)]
  BY DEF IInv, Begin
<1>2. Unread \in [home: Teams \cup {NoTeam}, role: {Leader, Member}] /\ Unread.role # Leader
  BY DEF Unread, Leader, Member
<1>3. /\ t.req = r /\ t.reads = Reads(r.op) /\ t.was = Unread
      /\ t.todo = <<>> /\ t.done = <<>> /\ t.held = {}
  OBVIOUS
<1>4. t \in Transactions
  BY <1>2, ReadsOK DEF Transactions
<1> HIDE DEF t
<1>5. /\ \A i \in DOMAIN t.reads : /\ t.reads[i] = "user" => t.req.user \in Users
                                   /\ t.reads[i] = "team" => t.req.team \in Teams
      /\ t.req.op = "move_team" => t.reads = <<"user", "team", "count">>
  BY <1>3, ReadsOK
<1>6. Planned(t) \in Transactions /\ TxOK(Planned(t), db) /\ Planned(t).held = {}
  BY <1>1, <1>2, <1>3, <1>4, <1>5, PlannedOK
<1> QED
  BY <1>1, <1>6, StepKeeps

\* Whoever does not lead his team is moved without asking who else is at home.
LEMMA OnlyFirst ==
  Front(<<"team", "count">>) = <<"team">>
<1> DEFINE s == <<"team", "count">>
           f == Front(s)
<1>1. s \in Seq(Kinds) /\ Len(s) = 2 /\ s[1] = "team"
  BY DEF Kinds
<1> HIDE DEF s
<1>2. f \in Seq(Kinds) /\ Len(f) = 1 /\ f[1] = "team"
  BY <1>1 DEF Front
<1> HIDE DEF f
<1>3. f = <<"team">>
  BY <1>2
<1> QED
  BY <1>3 DEF f, s

\* A read finds a user's home among the teams, and it is not the one he moves to.
LEMMA ReadKeeps ==
  ASSUME IInv, NEW x \in Slots, Read(x)
  PROVE  IInv'
<1> DEFINE t == tx[x]
           read == Head(t.reads)
           w == IF read = "user"
                THEN [home |-> db.home[t.req.user], role |-> db.role[t.req.user]]
                ELSE t.was
           l == IF read = "team" THEN db.leader[t.req.team] ELSE t.leader
           rs == Following(t, read)
           n == [t EXCEPT !.reads = rs, !.was = w, !.leader = l]
<1>1. /\ db \in Tables /\ Keys(db, {}) /\ UNCHANGED db
      /\ t \in Transactions /\ t.reads # <<>> /\ Known(t)
  BY DEF IInv, Read, TxOK
<1>2. CASE Refused(t, read)
  <2>1. tx' = [tx EXCEPT ![x] = NoTx]
    BY <1>2 DEF Read, End
  <2> QED
    BY <1>1, <2>1, StepKeeps
<1>3. CASE ~Refused(t, read)
  <2>1. tx' = [tx EXCEPT ![x] = Planned(n)]
    BY <1>3 DEF Read
  <2>2. /\ t.reads \in Seq(Kinds) /\ t.req \in Requests
        /\ t.was \in [home: Teams \cup {NoTeam}, role: {Leader, Member}]
        /\ t.leader \in Users \cup {NoUser}
        /\ t.todo = <<>> /\ t.done = <<>> /\ t.held = {}
        /\ t.was.role = Leader => t.was.home \in Teams
        /\ \A i \in DOMAIN t.reads : /\ t.reads[i] = "user" => t.req.user \in Users
                                     /\ t.reads[i] = "team" => t.req.team \in Teams
    BY <1>1 DEF Transactions, Known
  <2>3. /\ read \in Kinds /\ read = t.reads[1] /\ 1 \in DOMAIN t.reads
        /\ read = "user" => t.req.user \in Users
        /\ read = "team" => t.req.team \in Teams
    BY <1>1, <2>2
  <2>4. Following(t, read) \in Seq(Kinds)
        /\ \A i \in DOMAIN Following(t, read) :
             i + 1 \in DOMAIN t.reads /\ Following(t, read)[i] = t.reads[i + 1]
    BY <1>1, <2>2, FollowingOK
  <2>5. read = "user" =>
          /\ db.home[t.req.user] \in Teams
          /\ db.role[t.req.user] \in {Leader, Member}
    BY <1>1, <1>3, <2>3 DEF Refused, Accounts, Tables
  <2>6. read = "team" => db.leader[t.req.team] \in Users \cup {NoUser}
    BY <1>1, <2>3 DEF Tables
  <2> HIDE DEF read
  <2>7. w \in [home: Teams \cup {NoTeam}, role: {Leader, Member}] /\ l \in Users \cup {NoUser}
    BY <2>2, <2>5, <2>6
  <2>8. /\ n \in Transactions
        /\ n.req = t.req /\ n.reads = Following(t, read) /\ n.was = w
        /\ n.todo = <<>> /\ n.done = <<>> /\ n.held = {}
    <3>1. rs \in Seq(Kinds) /\ t \in Transactions
      BY <1>1, <2>4
    <3> HIDE DEF t, w, l, rs
    <3>2. n \in Transactions
      BY <2>7, <3>1 DEF Transactions
    <3>3. /\ n.req = t.req /\ n.reads = rs /\ n.was = w
          /\ n.todo = t.todo /\ n.done = t.done /\ n.held = t.held
      BY <3>1 DEF Transactions
    <3> HIDE DEF n
    <3> QED
      BY <2>2, <3>2, <3>3 DEF rs
  <2> HIDE DEF n
  <2>9. /\ n.was.role = Leader => n.was.home \in Teams
        /\ read = "user" => n.was.home \in Teams
    BY <2>2, <2>5, <2>8
  <2>10. \A i \in DOMAIN n.reads : /\ n.reads[i] = "user" => n.req.user \in Users
                                   /\ n.reads[i] = "team" => n.req.team \in Teams
    BY <2>2, <2>4, <2>8
  <2>11. ASSUME n.req.op = "move_team"
         PROVE  \/ n.reads \in {<<"team", "count">>, <<"team">>} /\ n.was.home \in Teams
                \/ n.reads \in {<<"count">>, <<>>} /\ n.was.home \in Teams \ {n.req.team}
    <3>1. \/ t.reads = <<"user", "team", "count">>
          \/ t.reads \in {<<"team", "count">>, <<"team">>} /\ t.was.home \in Teams
          \/ t.reads = <<"count">> /\ t.was.home \in Teams \ {t.req.team}
      BY <1>1, <2>8, <2>11 DEF Known
    <3>2. CASE t.reads = <<"user", "team", "count">>
      <4>1. read = "user" /\ Tail(t.reads) = <<"team", "count">>
        BY <3>2 DEF read
      <4>2. n.reads \in {<<"team", "count">>, <<"team">>}
        BY <2>8, <4>1, OnlyFirst DEF Following
      <4> QED
        BY <2>9, <4>1, <4>2
    <3>3. CASE t.reads \in {<<"team", "count">>, <<"team">>} /\ t.was.home \in Teams
      <4>1. read = "team" /\ Tail(t.reads) \in {<<"count">>, <<>>}
        <5>1. CASE t.reads = <<"team", "count">>
          BY <5>1 DEF read
        <5>2. CASE t.reads = <<"team">>
          BY <5>2 DEF read
        <5> QED
          BY <3>3, <5>1, <5>2
      <4>2. n.reads \in {<<"count">>, <<>>}
        BY <2>8, <4>1 DEF Following
      <4>3. t.was.home # t.req.team
        BY <1>3, <2>8, <2>11, <4>1 DEF Refused
      <4> QED
        BY <2>8, <3>3, <4>1, <4>2, <4>3
    <3>4. CASE t.reads = <<"count">> /\ t.was.home \in Teams \ {t.req.team}
      <4>1. read = "count" /\ Tail(t.reads) = <<>>
        BY <3>4 DEF read
      <4>2. n.reads = <<>>
        BY <2>8, <4>1 DEF Following
      <4> QED
        BY <2>8, <3>4, <4>1, <4>2
    <3> QED
      BY <3>1, <3>2, <3>3, <3>4
  <2>12. Planned(n) \in Transactions /\ TxOK(Planned(n), db) /\ Planned(n).held = {}
    BY <1>1, <2>8, <2>9, <2>10, <2>11, PlannedOK
  <2> QED
    BY <1>1, <2>1, <2>12, StepKeeps
<1> QED
  BY <1>2, <1>3

\* A transaction that ends leaves the tables to the others (Rollback, and every refusal).
LEMMA EndKeeps ==
  ASSUME IInv, NEW x \in Slots, End(x), UNCHANGED db
  PROVE  IInv'
<1>1. tx' = [tx EXCEPT ![x] = NoTx]
  BY DEF End
<1> QED
  BY <1>1, StepKeeps

\* A write keeps the keys of what its transaction sees, and takes the locks for it.
LEMMA WriteKeeps ==
  ASSUME IInv, NEW x \in Slots, Write(x)
  PROVE  IInv'
<1> DEFINE t == tx[x]
           s == Head(t.todo)
           d == View(t)
           more == [t EXCEPT !.todo = Tail(@), !.done = Append(@, s),
                             !.held = @ \cup Locks(d, s)]
           less == [t EXCEPT !.todo = Tail(@)]
<1>1. /\ db \in Tables /\ UNCHANGED db
      /\ tx \in [Slots -> Transactions \cup {NoTx}]
      /\ t # NoTx /\ t \in Transactions /\ TxOK(t, db)
      /\ t.reads = <<>> /\ t.todo # <<>>
  BY DEF IInv, Write, Writing
<1>2. /\ t.todo \in Seq(Statement) /\ t.done \in Seq(Statement) /\ t.held \subseteq LockTypes
      /\ Known(t) /\ Shape(ToSet(t.todo) \cup ToSet(t.done))
      /\ \A r \in ToSet(t.done) : Secured(r, t.held)
      /\ d = FoldLeft(Apply, db, t.done) /\ Keys(d, Homes(ToSet(t.done)))
  BY <1>1 DEF Transactions, TxOK, View
<1>3. /\ s \in Statement /\ Tail(t.todo) \in Seq(Statement)
      /\ ToSet(t.todo) = {s} \cup ToSet(Tail(t.todo))
  BY <1>1, <1>2, FirstOff
<1>4. Sound(s) /\ d \in Tables
  <2>1. Shape(ToSet(t.done))
    BY <1>2, ShapeBelow
  <2>2. Sound(s)
    BY <1>2, <1>3 DEF Shape
  <2> QED
    BY <1>1, <1>2, <2>1, <2>2, InTables
<1>5. \/ /\ Hits(d, s) /\ ~Violates(d, s) /\ Free(x, Locks(d, s))
         /\ tx' = [tx EXCEPT ![x] = more]
      \/ tx' = [tx EXCEPT ![x] = less]
      \/ End(x)
  BY <1>1 DEF Write
<1>6. /\ \A r : Known([t EXCEPT !.todo = r])
      /\ \A q, r, h : Known([t EXCEPT !.todo = q, !.done = r, !.held = h])
  BY <1>1, <1>2 DEF Known, Transactions
<1> HIDE DEF s, d
<1>7. CASE tx' = [tx EXCEPT ![x] = less]
  <2>1. less \in Transactions /\ Known(less)
        /\ less.todo = Tail(t.todo) /\ less.done = t.done /\ less.held = t.held
    BY <1>1, <1>3, <1>6, Zenon DEF Transactions
  <2> HIDE DEF less
  <2>2. Shape(ToSet(less.todo) \cup ToSet(less.done))
    BY <1>2, <1>3, <2>1, ShapeBelow
  <2>3. TxOK(less, db)
    BY <1>2, <2>1, <2>2 DEF TxOK
  <2>4. \A y \in Slots \ {x} : tx[y] # NoTx =>
          \A a \in less.held, b \in tx[y].held : ~Conflict(a, b)
    BY <1>1, <2>1 DEF IInv, LocksApart
  <2> QED
    BY <1>1, <1>7, <2>1, <2>3, <2>4, StepKeeps
<1>8. CASE /\ Hits(d, s) /\ ~Violates(d, s) /\ Free(x, Locks(d, s))
           /\ tx' = [tx EXCEPT ![x] = more]
  <2>1. Locks(d, s) \subseteq LockTypes /\ Secured(s, Locks(d, s))
    BY <1>4, LocksSecure
  <2>2. Append(t.done, s) \in Seq(Statement) /\ ToSet(Append(t.done, s)) = ToSet(t.done) \cup {s}
    BY <1>2, <1>3, OneMore
  <2>3. /\ more \in Transactions /\ Known(more)
        /\ more.todo = Tail(t.todo) /\ more.done = Append(t.done, s)
        /\ more.held = t.held \cup Locks(d, s)
    BY <1>1, <1>2, <1>3, <1>6, <2>1, <2>2, Zenon DEF Transactions
  <2> HIDE DEF more
  <2>4. Shape(ToSet(more.todo) \cup ToSet(more.done))
    <3>1. ToSet(more.todo) \cup ToSet(more.done) = ToSet(t.todo) \cup ToSet(t.done)
      BY <1>3, <2>2, <2>3
    <3> QED
      BY <1>2, <3>1
  <2>5. \A r \in ToSet(more.done) : Secured(r, more.held)
    BY <1>2, <2>1, <2>2, <2>3, SecuredMore
  <2>6. Keys(FoldLeft(Apply, db, more.done), Homes(ToSet(more.done)))
    <3>1. FoldLeft(Apply, db, more.done) = Apply(d, s)
      <4>1. FoldLeft(Apply, db, Append(t.done, s)) = Apply(FoldLeft(Apply, db, t.done), s)
        BY <1>2, <1>3, FoldAppend
      <4> QED
        BY <1>2, <2>3, <4>1
    <3>2. Homes(ToSet(more.done)) = Homes(ToSet(t.done)) \cup Homes({s})
      BY <2>2, <2>3 DEF Homes
    <3>3. Keys(Apply(d, s), Homes(ToSet(t.done)) \cup Homes({s}))
      BY <1>2, <1>4, <1>8, WriteKeys
    <3> QED
      BY <3>1, <3>2, <3>3
  <2>7. TxOK(more, db)
    BY <2>3, <2>4, <2>5, <2>6 DEF TxOK
  <2>8. \A y \in Slots \ {x} : tx[y] # NoTx =>
          \A a \in more.held, b \in tx[y].held : ~Conflict(a, b)
    BY <1>1, <1>8, <2>3 DEF IInv, LocksApart, Free
  <2> QED
    BY <1>1, <1>8, <2>3, <2>7, <2>8, StepKeeps
<1> QED
  BY <1>1, <1>5, <1>7, <1>8, EndKeeps

\* A COMMIT makes what one transaction saw what the others start from; their locks allow it.
LEMMA CommitKeeps ==
  ASSUME IInv, NEW x \in Slots, Commit(x)
  PROVE  IInv'
<1> DEFINE t == tx[x]
           d == View(t)
<1>1. /\ db \in Tables /\ tx \in [Slots -> Transactions \cup {NoTx}]
      /\ t # NoTx /\ t \in Transactions /\ TxOK(t, db) /\ LocksApart
      /\ tx' = [tx EXCEPT ![x] = NoTx]
      /\ Free(x, {Lock(<<"team", h>>, "share") : h \in NewHomes(t)})
  BY DEF IInv, Commit, Writing, End
<1>2. UNCHANGED db \/ (db' = d /\ NewHomes(t) \subseteq d.teams)
  BY DEF Commit
<1>3. CASE UNCHANGED db
  BY <1>1, <1>3, StepKeeps
<1>4. CASE db' = d /\ NewHomes(t) \subseteq d.teams
  <2>1. /\ t.done \in Seq(Statement) /\ Shape(ToSet(t.done))
        /\ \A r \in ToSet(t.done) : Secured(r, t.held)
        /\ d = FoldLeft(Apply, db, t.done) /\ Keys(d, Homes(ToSet(t.done)))
    BY <1>1, ShapeBelow DEF Transactions, TxOK, View
  <2>2. NewHomes(t) = Homes(ToSet(t.done))
    BY DEF NewHomes, Homes, ToSet
  <2> HIDE DEF d
  <2>3. d \in Tables
    BY <1>1, <2>1, InTables
  <2>4. Keys(d, {})
    BY <1>4, <2>1, <2>2 DEF Keys
  <2>5. ASSUME NEW y \in Slots \ {x}, tx[y] # NoTx
        PROVE  TxOK(tx[y], d)
    <3> DEFINE r == tx[y]
    <3>1. /\ r \in Transactions /\ TxOK(r, db) /\ r.done \in Seq(Statement)
          /\ Shape(ToSet(r.done)) /\ \A z \in ToSet(r.done) : Secured(z, r.held)
          /\ Keys(FoldLeft(Apply, db, r.done), Homes(ToSet(r.done)))
      <4>1. r \in Transactions /\ TxOK(r, db)
        BY <2>5 DEF IInv
      <4> QED
        BY <4>1, ShapeBelow DEF Transactions, TxOK
    <3>2. \A a \in t.held, b \in r.held : ~Conflict(a, b)
      BY <1>1, <2>5 DEF LocksApart
    <3>3. \A b \in r.held, a \in t.held : ~Conflict(b, a)
      BY <3>2, Clash
    <3>4. \A h \in NewHomes(t) : \A b \in r.held : ~Conflict(Lock(<<"team", h>>, "share"), b)
      BY <1>1, <2>5 DEF Free
    <3> HIDE DEF t, r
    <3>5. Compatible(ToSet(t.done), ToSet(r.done))
      BY <2>1, <3>1, <3>2, LocksKeepApart
    <3>6. Compatible(ToSet(r.done), ToSet(t.done))
      BY <2>1, <3>1, <3>3, LocksKeepApart
    <3>7. ASSUME NEW h \in Teams, DropsTeam(ToSet(r.done), h)
          PROVE  h \notin Homes(ToSet(t.done))
      <4>1. Lock(<<"team", h>>, "exclusive") \in r.held
        BY <3>1, <3>7 DEF DropsTeam, Secured
      <4> QED
        BY <2>2, <3>4, <4>1, Clash
    <3>8. Keys(FoldLeft(Apply, d, r.done), Homes(ToSet(r.done)))
      BY <1>1, <2>1, <2>4, <3>1, <3>5, <3>6, <3>7, Merge
    <3> QED
      BY <3>1, <3>8 DEF TxOK, r
  <2>6. ASSUME NEW y \in Slots, tx'[y] # NoTx PROVE y # x /\ tx'[y] = tx[y] /\ tx[y] # NoTx
    BY <1>1, <2>6
  <2>7. \A y \in Slots : tx'[y] # NoTx => TxOK(tx'[y], db')
    BY <1>4, <2>5, <2>6
  <2>8. LocksApart'
    BY <1>1, <2>6 DEF LocksApart
  <2>9. tx' \in [Slots -> Transactions \cup {NoTx}]
    BY <1>1
  <2> QED
    BY <1>4, <2>3, <2>4, <2>7, <2>8, <2>9 DEF IInv
<1> QED
  BY <1>2, <1>3, <1>4

\* Every step keeps IInv.
LEMMA NextKeeps ==
  ASSUME IInv, [Next]_vars
  PROVE  IInv'
<1>1. ASSUME NEW x \in Slots, NEW r \in Requests, Begin(x, r) PROVE IInv'
  BY <1>1, BeginKeeps
<1>2. ASSUME NEW x \in Slots, Read(x) PROVE IInv'
  BY <1>2, ReadKeeps
<1>3. ASSUME NEW x \in Slots, Write(x) PROVE IInv'
  BY <1>3, WriteKeeps
<1>4. ASSUME NEW x \in Slots, Commit(x) PROVE IInv'
  BY <1>4, CommitKeeps
<1>5. ASSUME NEW x \in Slots, Rollback(x) PROVE IInv'
  BY <1>5, EndKeeps DEF Rollback
<1>6. CASE UNCHANGED vars
  BY <1>6 DEF vars, IInv, LocksApart
<1> QED
  BY <1>1, <1>2, <1>3, <1>4, <1>5, <1>6 DEF Next

\* What a transaction sees of the tables keeps their keys at every moment, whatever other
\* transactions commit under it, and locks of two transactions never conflict.
THEOREM Invariance == Spec => []IInv
BY InitKeeps, NextKeeps, PTL DEF Spec

\* The tables keep to their types and roles, and a transaction to its request.
THEOREM TypeCorrect == Spec => []TypeOK
<1>1. ASSUME IInv PROVE TypeOK
  <2>1. ASSUME NEW x \in Slots, tx[x] # NoTx
        PROVE  /\ tx[x].req \in Requests
               /\ tx[x].was \in [home: Teams \cup {NoTeam}, role: {Leader, Member}]
               /\ tx[x].leader \in Users \cup {NoUser}
               /\ ToSet(tx[x].todo \o tx[x].done) \subseteq Statement
    <3> DEFINE t == tx[x]
    <3>1. t \in Transactions
      BY <1>1, <2>1 DEF IInv
    <3>2. /\ t.todo \in Seq(Statement) /\ t.done \in Seq(Statement)
          /\ t.req \in Requests /\ t.leader \in Users \cup {NoUser}
          /\ t.was \in [home: Teams \cup {NoTeam}, role: {Leader, Member}]
      BY <3>1 DEF Transactions
    <3> HIDE DEF t
    <3>3. t.todo \o t.done \in Seq(Statement)
      BY <3>2, Joined
    <3>4. \A q \in Seq(Statement) : ToSet(q) \subseteq Statement
      BY DEF ToSet
    <3> QED
      BY <3>2, <3>3, <3>4 DEF t
  <2> QED
    BY <1>1, <2>1 DEF IInv, TypeOK
<1> QED
  BY <1>1, Invariance, PTL

\* However the administrator's requests overlap, no home, leader or membership refers to a
\* row that is gone, and nobody leads two teams (ON DELETE CASCADE and the keys of the schema).
THEOREM ReferencesHold == Spec => []NothingDangles
<1>1. ASSUME IInv PROVE NothingDangles
  <2>1. db \in Tables /\ Keys(db, {}) /\ NoUser \notin Users /\ NoTeam \notin Teams
    BY <1>1, SentinelAssumption DEF IInv
  <2>2. \A u \in Accounts(db) : db.home[u] \in db.teams
    BY <2>1 DEF Keys, Accounts
  <2>3. \A t \in db.teams : db.leader[t] # NoUser => db.leader[t] \in Accounts(db)
    BY <2>1 DEF Keys, Accounts, Tables
  <2>4. ASSUME NEW m \in db.memberships PROVE m[1] \in Accounts(db) /\ m[2] \in db.teams
    <3>1. m[1] \in Users /\ m[2] \in Teams /\ m = <<m[1], m[2]>>
      BY <2>1 DEF Tables
    <3> QED
      BY <2>1, <3>1 DEF Keys, Accounts
  <2>5. \A t1, t2 \in db.teams :
          t1 # t2 /\ db.leader[t1] # NoUser => db.leader[t1] # db.leader[t2]
    BY <2>1 DEF Keys, Tables
  <2> QED
    BY <2>2, <2>3, <2>4, <2>5 DEF NothingDangles
<1> QED
  BY <1>1, Invariance, PTL
=============================================================================
