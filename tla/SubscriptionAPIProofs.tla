------------------------ MODULE SubscriptionAPIProofs -------------------------
(***************************************************************************)
(* Proofs about SubscriptionAPI for any requests, users, names and cap.    *)
(* The invariant behind all of them: a create transaction that may still   *)
(* write has counted the rows as they are now, because every commit        *)
(* outdates the snapshots of the others, and only one writes at a time.    *)
(***************************************************************************)
EXTENDS SubscriptionAPI, FiniteSetTheorems, TLAPS

USE SubscriptionAPIAssumption

\* A transaction that has not been overtaken, or that writes, has room for its row.
Counted ==
  \A r \in Request :
    \/ requests[r].step = "insert" /\ r \notin outdated
    \/ requests[r].step = "commit"
    => Cardinality(Owned(requests[r].user)) < Cap

\* A transaction that writes is alone, and its name is free.
Writing ==
  \A r \in Request : requests[r].step = "commit" =>
    /\ \A q \in Request : requests[q].step = "commit" => q = r
    /\ ~NameTaken(requests[r].user, requests[r].name)
    /\ lastId < MaxId

Functional == requests \in [Request -> [step : {"idle"}] \cup
                 [step : {"count", "insert", "commit"}, user : User, name : Name]]

Inv == TypeOK /\ Functional /\ IsFiniteSet(subs) /\ Counted /\ Writing
         /\ CapRespected /\ NamesUnique /\ AnswersMatchTable

-------------------------------------------------------------------------------
\* What the user owns after the table was changed in one of the three ways.
LEMMA OwnedFinite ==
  ASSUME IsFiniteSet(subs), NEW u \in User
  PROVE  IsFiniteSet(Owned(u)) /\ Cardinality(Owned(u)) \in Nat
BY FS_Subset, FS_CardinalityType DEF Owned

LEMMA OneMore ==
  ASSUME NEW S, IsFiniteSet(S), NEW w
  PROVE  /\ IsFiniteSet(S \cup {w}) /\ Cardinality(S \cup {w}) \in Nat
         /\ Cardinality(S \cup {w}) <= Cardinality(S) + 1
<1>1. Cardinality(S) \in Nat
  BY FS_CardinalityType
<1>2. IsFiniteSet(S \cup {w})
      /\ Cardinality(S \cup {w}) = IF w \in S THEN Cardinality(S) ELSE Cardinality(S) + 1
  BY FS_AddElement
<1> QED BY <1>1, <1>2

LEMMA Inserted ==
  ASSUME IsFiniteSet(subs), CapRespected, NEW w, w.user \in User,
         Cardinality(Owned(w.user)) < Cap, subs' = subs \cup {w}
  PROVE  IsFiniteSet(subs') /\ CapRespected'
<1>1. IsFiniteSet(subs')
  BY FS_AddElement
<1>2. ASSUME NEW u \in User PROVE Cardinality(Owned(u)') <= Cap
  <2>1. CASE u = w.user
    <3>1. Owned(u)' = Owned(u) \cup {w}
      BY <2>1 DEF Owned
    <3>2. /\ Cardinality(Owned(u) \cup {w}) \in Nat
          /\ Cardinality(Owned(u) \cup {w}) <= Cardinality(Owned(u)) + 1
      BY OwnedFinite, OneMore
    <3> QED BY <2>1, <3>1, <3>2, OwnedFinite
  <2>2. CASE u # w.user
    <3>1. Owned(u)' = Owned(u)
      BY <2>2 DEF Owned
    <3> QED BY <3>1 DEF CapRespected
  <2> QED BY <2>1, <2>2
<1> QED BY <1>1, <1>2 DEF CapRespected

LEMMA Replaced ==
  ASSUME IsFiniteSet(subs), CapRespected, NEW s \in subs, NEW w, w.user = s.user,
         subs' = (subs \ {s}) \cup {w}
  PROVE  IsFiniteSet(subs') /\ CapRespected'
<1>1. IsFiniteSet(subs')
  BY FS_AddElement, FS_RemoveElement
<1>2. ASSUME NEW u \in User PROVE Cardinality(Owned(u)') <= Cap
  <2>1. CASE u = s.user
    <3>1. Owned(u)' = (Owned(u) \ {s}) \cup {w} /\ s \in Owned(u)
      BY <2>1 DEF Owned
    <3>2. IsFiniteSet(Owned(u) \ {s})
          /\ Cardinality(Owned(u) \ {s}) = Cardinality(Owned(u)) - 1
      BY <3>1, OwnedFinite, FS_RemoveElement
    <3>3. Cardinality((Owned(u) \ {s}) \cup {w}) <= Cardinality(Owned(u) \ {s}) + 1
          /\ Cardinality((Owned(u) \ {s}) \cup {w}) \in Nat
      BY <3>2, OneMore
    <3> QED BY <3>1, <3>2, <3>3, OwnedFinite DEF CapRespected
  <2>2. CASE u # s.user
    <3>1. Owned(u)' = Owned(u)
      BY <2>2 DEF Owned
    <3> QED BY <3>1 DEF CapRespected
  <2> QED BY <2>1, <2>2
<1> QED BY <1>1, <1>2 DEF CapRespected

LEMMA Shrunk ==
  ASSUME IsFiniteSet(subs), CapRespected, subs' \subseteq subs
  PROVE  IsFiniteSet(subs') /\ CapRespected'
<1>1. IsFiniteSet(subs')
  BY FS_Subset
<1>2. ASSUME NEW u \in User PROVE Cardinality(Owned(u)') <= Cap
  <2>1. Owned(u)' \subseteq Owned(u)
    BY DEF Owned
  <2>2. IsFiniteSet(Owned(u)') /\ Cardinality(Owned(u)') <= Cardinality(Owned(u))
    BY <2>1, OwnedFinite, FS_Subset
  <2> QED BY <2>2, OwnedFinite, FS_CardinalityType DEF CapRespected
<1> QED BY <1>1, <1>2 DEF CapRespected

-------------------------------------------------------------------------------
(* The invariant is inductive *)

LEMMA InitInv == Init => Inv
<1> SUFFICES ASSUME Init PROVE Inv
  OBVIOUS
<1>1. TypeOK /\ Functional /\ Counted /\ Writing /\ NamesUnique /\ AnswersMatchTable
  BY DEF Init, Idle, TypeOK, Functional, Counted, Writing, NamesUnique, AnswersMatchTable
<1>2. ASSUME NEW u \in User PROVE Cardinality(Owned(u)) <= Cap
  <2>1. Owned(u) = {}
    BY DEF Init, Owned
  <2> QED BY <2>1, FS_EmptySet
<1> QED BY <1>1, <1>2, FS_EmptySet DEF Init, Inv, CapRespected

LEMMA TypeStep == ASSUME Inv, Next PROVE TypeOK' /\ Functional'
<1> USE DEF Inv, TypeOK, Functional, Answer, Fault, Idle, Readers
<1>1. ASSUME NEW r \in Request, NEW u \in User, NEW n \in Name, Post(r, u, n) PROVE TypeOK' /\ Functional'
  BY <1>1 DEF Post
<1>2. ASSUME NEW r \in Request, Count(r) PROVE TypeOK' /\ Functional'
  BY <1>2 DEF Count
<1>3. ASSUME NEW r \in Request, LimitReached(r) PROVE TypeOK' /\ Functional'
  BY <1>3 DEF LimitReached
<1>4. ASSUME NEW r \in Request, Insert(r) PROVE TypeOK' /\ Functional'
  BY <1>4 DEF Insert
<1>5. ASSUME NEW r \in Request, DuplicateName(r) PROVE TypeOK' /\ Functional'
  BY <1>5 DEF DuplicateName
<1>6. ASSUME NEW r \in Request, InsertRejected(r) PROVE TypeOK' /\ Functional'
  BY <1>6 DEF InsertRejected
<1>7. ASSUME NEW r \in Request, Commit(r) PROVE TypeOK' /\ Functional'
  BY <1>7 DEF Commit, Written, Writing
<1>8. ASSUME NEW r \in Request, CommitFails(r) PROVE TypeOK' /\ Functional'
  BY <1>8 DEF CommitFails, Written, Writing
<1>9. ASSUME NEW r \in Request, StatementFails(r) PROVE TypeOK' /\ Functional'
  BY <1>9 DEF StatementFails
<1>10. ASSUME NEW u \in User, NEW id \in Id, NEW n \in Name, UpdateSubscription(u, id, n) PROVE TypeOK' /\ Functional'
  BY <1>10 DEF UpdateSubscription, RowsOf
<1>11. ASSUME NEW u \in User, NEW id \in Id, DeleteSubscription(u, id) PROVE TypeOK' /\ Functional'
  BY <1>11 DEF DeleteSubscription, RowsOf
<1>12. ASSUME OtherCommit PROVE TypeOK' /\ Functional'
  BY <1>12 DEF OtherCommit
<1>13. ASSUME Restart PROVE TypeOK' /\ Functional'
  BY <1>13 DEF Restart
<1> QED BY <1>1, <1>2, <1>3, <1>4, <1>5, <1>6, <1>7, <1>8, <1>9, <1>10, <1>11, <1>12, <1>13 DEF Next

LEMMA CountedStep == ASSUME Inv, Next PROVE Counted'
<1> USE DEF Inv, TypeOK, Functional, Answer, Idle, Readers, Counted, Owned
<1>1. ASSUME NEW r \in Request, NEW u \in User, NEW n \in Name, Post(r, u, n) PROVE Counted'
  BY <1>1 DEF Post
<1>2. ASSUME NEW r \in Request, Count(r) \/ Insert(r) PROVE Counted'
  <2>1. /\ \A q \in Request \ {r} : requests'[q] = requests[q]
        /\ requests'[r].user = requests[r].user /\ subs' = subs
        /\ \A q \in Request \ {r} : q \in outdated => q \in outdated'
    BY <1>2 DEF Count, Insert
  <2>2. Cardinality(Owned(requests[r].user)) < Cap
    BY <1>2 DEF Count, Insert, SnapshotCurrent
  <2>3. \A u : Owned(u)' = Owned(u)
    BY <2>1
  <2>4. ASSUME NEW q \in Request,
               \/ requests'[q].step = "insert" /\ q \notin outdated'
               \/ requests'[q].step = "commit"
        PROVE  Cardinality(Owned(requests[q].user)') < Cap
    <3>1. CASE q = r
      <4>1. Owned(requests[q].user)' = Owned(requests[r].user)
        BY <2>1, <3>1
      <4> QED BY <2>2, <4>1
    <3>2. CASE q # r
      <4>1. /\ requests'[q] = requests[q]
            /\ \/ requests[q].step = "insert" /\ q \notin outdated
               \/ requests[q].step = "commit"
        BY <2>1, <2>4, <3>2
      <4>2. Cardinality(Owned(requests[q].user)) < Cap
        BY <4>1
      <4>3. Owned(requests[q].user)' = Owned(requests[q].user)
        BY <2>1, <4>1
      <4> QED BY <4>2, <4>3
    <3> QED BY <3>1, <3>2
  <2> QED BY <2>4
<1>3. ASSUME NEW r \in Request,
             LimitReached(r) \/ DuplicateName(r) \/ InsertRejected(r) \/ StatementFails(r)
      PROVE  Counted'
  BY <1>3 DEF LimitReached, DuplicateName, InsertRejected, StatementFails
<1>4. ASSUME NEW r \in Request, Commit(r) \/ CommitFails(r) PROVE Counted'
  BY <1>4 DEF Commit, CommitFails, Writing
<1>5. ASSUME outdated' = Readers, requests' = requests, WriteLockFree PROVE Counted'
  BY <1>5 DEF WriteLockFree
<1>6. Restart => Counted'
  BY DEF Restart
<1> QED BY <1>1, <1>2, <1>3, <1>4, <1>5, <1>6
        DEF Next, UpdateSubscription, DeleteSubscription, OtherCommit

LEMMA WritingStep == ASSUME Inv, Next PROVE Writing'
<1> USE DEF Inv, TypeOK, Functional, Answer, Idle, Writing, NameTaken, Owned
<1>1. ASSUME NEW r \in Request, NEW u \in User, NEW n \in Name, Post(r, u, n) PROVE Writing'
  BY <1>1 DEF Post
<1>2. ASSUME NEW r \in Request, Insert(r) PROVE Writing'
  BY <1>2 DEF Insert, WriteLockFree
<1>3. ASSUME NEW r \in Request,
             Count(r) \/ LimitReached(r) \/ DuplicateName(r) \/ InsertRejected(r) \/ StatementFails(r)
      PROVE  Writing'
  BY <1>3 DEF Count, LimitReached, DuplicateName, InsertRejected, StatementFails
<1>4. ASSUME NEW r \in Request, Commit(r) \/ CommitFails(r) PROVE Writing'
  BY <1>4 DEF Commit, CommitFails
<1>5. ASSUME requests' = requests, WriteLockFree PROVE Writing'
  BY <1>5 DEF WriteLockFree
<1>6. Restart => Writing'
  BY DEF Restart
<1> QED BY <1>1, <1>2, <1>3, <1>4, <1>5, <1>6
        DEF Next, UpdateSubscription, DeleteSubscription, OtherCommit

\* The table changes in one of three ways, or not at all.
LEMMA TableSteps ==
  ASSUME Inv, Next
  PROVE  \/ \E r \in Request :
              /\ requests[r].step = "commit" /\ requests[r].user \in User
              /\ subs' = subs \cup {Written(r)} /\ lastId' = lastId + 1 /\ removed' = removed
              /\ \/ created' = created \cup {<<requests[r].user, lastId + 1>>}
                    /\ unanswered' = unanswered
                 \/ unanswered' = unanswered \cup {<<requests[r].user, lastId + 1>>}
                    /\ created' = created
         \/ \E s \in subs, n \in Name :
              /\ s.name = n \/ ~NameTaken(s.user, n)
              /\ subs' = (subs \ {s}) \cup {[s EXCEPT !.name = n]}
              /\ UNCHANGED <<lastId, created, unanswered, removed>>
         \/ \E u \in User, id \in Id :
              /\ subs' = subs \ RowsOf(u, id) /\ removed' = removed \cup {<<u, id>>}
              /\ UNCHANGED <<lastId, created, unanswered>>
         \/ UNCHANGED <<subs, lastId, created, unanswered, removed>>
<1>1. ASSUME NEW r \in Request, requests[r].step = "commit" PROVE requests[r].user \in User
  BY <1>1 DEF Inv, Functional
<1> QED BY <1>1 DEF Next, Post, Count, LimitReached, Insert, DuplicateName, InsertRejected, Commit,
        CommitFails, StatementFails, UpdateSubscription, DeleteSubscription, OtherCommit, Restart, RowsOf

LEMMA TableStep ==
  ASSUME Inv, Next
  PROVE  IsFiniteSet(subs') /\ CapRespected' /\ NamesUnique' /\ AnswersMatchTable'
<1> USE DEF Inv
<1>1. ASSUME NEW r \in Request,
             requests[r].step = "commit", requests[r].user \in User, subs' = subs \cup {Written(r)},
             lastId' = lastId + 1, removed' = removed,
             \/ created' = created \cup {<<requests[r].user, lastId + 1>>}
                /\ unanswered' = unanswered
             \/ unanswered' = unanswered \cup {<<requests[r].user, lastId + 1>>}
                /\ created' = created
      PROVE  IsFiniteSet(subs') /\ CapRespected' /\ NamesUnique' /\ AnswersMatchTable'
  <2>1. Written(r).user = requests[r].user /\ Written(r).name = requests[r].name
        /\ Written(r).id = lastId + 1
    BY DEF Written
  <2>2. IsFiniteSet(subs') /\ CapRespected'
    BY <1>1, <2>1, Inserted DEF Counted
  <2>3. NamesUnique'
    BY <1>1, <2>1 DEF NamesUnique, Writing, NameTaken, Owned
  <2>4. \A a \in removed : a # <<requests[r].user, lastId + 1>>
    BY DEF TypeOK
  <2>5. AnswersMatchTable'
    BY <1>1, <2>1, <2>4 DEF AnswersMatchTable
  <2> QED BY <2>2, <2>3, <2>5
<1>2. ASSUME NEW s \in subs, NEW n \in Name, s.name = n \/ ~NameTaken(s.user, n),
             subs' = (subs \ {s}) \cup {[s EXCEPT !.name = n]},
             UNCHANGED <<lastId, created, unanswered, removed>>
      PROVE  IsFiniteSet(subs') /\ CapRespected' /\ NamesUnique' /\ AnswersMatchTable'
  <2> DEFINE w == [s EXCEPT !.name = n]
  <2>1. s \in [id : 1..lastId, user : User, name : Name]
    BY DEF TypeOK
  <2>2. w.user = s.user /\ w.id = s.id /\ w.name = n /\ (s.name = n => w = s)
    BY <2>1
  <2>3. subs' = (subs \ {s}) \cup {w}
    BY <1>2
  <2> HIDE DEF w
  <2>4. IsFiniteSet(subs') /\ CapRespected'
    BY <2>2, <2>3, Replaced
  <2>5. NamesUnique'
    BY <1>2, <2>2, <2>3 DEF NamesUnique, NameTaken, Owned
  <2>6. AnswersMatchTable'
    BY <1>2, <2>2, <2>3 DEF AnswersMatchTable
  <2> QED BY <2>4, <2>5, <2>6
<1>3. ASSUME NEW u \in User, NEW id \in Id,
             subs' = subs \ RowsOf(u, id), removed' = removed \cup {<<u, id>>},
             UNCHANGED <<lastId, created, unanswered>>
      PROVE  IsFiniteSet(subs') /\ CapRespected' /\ NamesUnique' /\ AnswersMatchTable'
  BY <1>3, Shrunk DEF NamesUnique, AnswersMatchTable, RowsOf
<1>4. ASSUME UNCHANGED <<subs, lastId, created, unanswered, removed>>
      PROVE  IsFiniteSet(subs') /\ CapRespected' /\ NamesUnique' /\ AnswersMatchTable'
  BY <1>4 DEF CapRespected, Owned, NamesUnique, AnswersMatchTable
<1> QED BY <1>1, <1>2, <1>3, <1>4, TableSteps

LEMMA Invariance == Spec => []Inv
<1>1. Inv /\ Next => Inv'
  BY TypeStep, CountedStep, WritingStep, TableStep DEF Inv
<1>2. Inv /\ UNCHANGED vars => Inv'
  BY DEF vars, Inv, TypeOK, Functional, Counted, Writing, NameTaken, CapRespected, Owned,
         NamesUnique, AnswersMatchTable
<1> QED BY <1>1, <1>2, InitInv, PTL DEF Spec

-------------------------------------------------------------------------------
\* The handlers' steps, the table and the transactions are well typed.
THEOREM SubscriptionTypeCorrect == Spec => []TypeOK
BY Invariance, PTL DEF Inv

(***************************************************************************)
(* No user ever owns more subscriptions than the cap, however many create  *)
(* requests overlap (server.go:877-945).                                   *)
(***************************************************************************)
THEOREM CapKept == Spec => []CapRespected
BY Invariance, PTL DEF Inv

\* No two subscriptions of a user have the same name.
THEOREM NamesKept == Spec => []NamesUnique
BY Invariance, PTL DEF Inv

\* The table is what the answers said, up to commits that reported an error.
THEOREM AnswersKept == Spec => []AnswersMatchTable
BY Invariance, PTL DEF Inv
===============================================================================
