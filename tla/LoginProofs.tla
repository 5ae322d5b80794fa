----------------------------- MODULE LoginProofs ------------------------------
(***************************************************************************)
(* Proofs about Login for any requests, addresses, ages and bounds. The    *)
(* inductive invariant follows one link through its life: it is made by    *)
(* one handler and known to no one else before it is stored (Fresh); the   *)
(* rows are at most one per link and the unused ones are the newest (Rows);*)
(* it reaches the mailbox of its address only (Boxes); once consumed it is *)
(* in the hands of one handler until a session exists (Hands, Accounts);   *)
(* and an account goes back to a first sign-in that is past it (Founded).  *)
(***************************************************************************)
EXTENDS Login, TLAPS, SequenceTheorems

USE LoginAssumption

-------------------------------------------------------------------------------
(* Types *)

LEMMA Records ==
  /\ Idle \in Handling
  /\ \A q \in Working, s \in {"mail", "consume", "lookup", "save", "session"} :
       [q EXCEPT !.step = s] \in Working
  /\ \A q \in Handling : q.link \in Link \cup {NoLink}
BY DEF Handling, Idle, NoLink, Storing, Working

\* The part of the types that the steps below need.
LEMMA Typed ==
  ASSUME TypeOK
  PROVE  /\ users \in SUBSET Email /\ tokens \in SUBSET Token
         /\ requests \in [Request -> Handling] /\ inbox \in [Email -> SUBSET Link]
         /\ minted \in 0..MaxLinks /\ faults \in 0..MaxFaults
         /\ \A r \in Request : requests[r] \in Handling
BY DEF TypeOK

LEMMA Holds ==
  ASSUME TypeOK, NEW r \in Request
  PROVE  /\ requests[r].step = "store" => requests[r] \in Storing
         /\ requests[r].step \in {"mail", "consume", "lookup", "save", "session"} =>
              requests[r] \in Working
<1>1. requests[r] \in Handling
  BY DEF TypeOK
<1>2. Idle.step = "idle" /\ (\A q \in Storing : q.step = "store")
  BY DEF Idle, Storing
<1>3. \A q \in Working : q.step \in {"mail", "consume", "lookup", "save", "session"}
  BY DEF Working
<1> QED BY <1>1, <1>2, <1>3 DEF Handling

LEMMA Moved ==
  ASSUME TypeOK, NEW r \in Request, NEW v \in Handling, requests' = [requests EXCEPT ![r] = v]
  PROVE  /\ requests' \in [Request -> Handling] /\ requests'[r] = v
         /\ \A q \in Request \ {r} : requests'[q] = requests[q]
BY DEF TypeOK

LEMMA Gone ==
  ASSUME TypeOK, NEW r \in Request, NEW s \in {"lookup", "save", "session"}, Goto(r, s),
         requests[r] \in Working
  PROVE  /\ requests' \in [Request -> Handling]
         /\ requests'[r].step = s /\ requests'[r].link = requests[r].link
         /\ requests'[r].email = requests[r].email
         /\ \A q \in Request \ {r} : requests'[q] = requests[q]
<1>1. requests' = [requests EXCEPT ![r] = [requests[r] EXCEPT !.step = s]]
  BY DEF Goto, TypeOK
<1>2. [requests[r] EXCEPT !.step = s] \in Handling
  BY Records DEF Handling
<1>3. /\ [requests[r] EXCEPT !.step = s].step = s
      /\ [requests[r] EXCEPT !.step = s].link = requests[r].link
      /\ [requests[r] EXCEPT !.step = s].email = requests[r].email
  BY DEF Working
<1> QED BY <1>1, <1>2, <1>3, Moved

LEMMA Answered ==
  ASSUME TypeOK, NEW r \in Request, Answer(r)
  PROVE  /\ requests' \in [Request -> Handling] /\ requests'[r] = Idle
         /\ \A q \in Request \ {r} : requests'[q] = requests[q]
BY Records, Moved DEF Answer

\* Appending to a sequence that is known by its domain.
LEMMA Extended ==
  ASSUME NEW S, NEW n \in Nat, NEW f \in [1..n -> S], NEW x \in S
  PROVE  /\ Append(f, x) \in [1..(n + 1) -> S] /\ Append(f, x)[n + 1] = x
         /\ \A i \in 1..n : Append(f, x)[i] = f[i]
<1>1. f \in Seq(S) /\ Len(f) = n
  OBVIOUS
<1>2. Append(f, x) \in Seq(S) /\ Len(Append(f, x)) = n + 1
  BY <1>1
<1>3. Append(f, x) \in [1..Len(Append(f, x)) -> S]
  BY <1>2, LenProperties
<1> QED BY <1>1, <1>2, <1>3, AppendProperties

LEMMA InitType == Init => TypeOK
<1> SUFFICES ASSUME Init PROVE TypeOK
  OBVIOUS
<1>1. requests \in [Request -> Handling]
  BY Records DEF Init
<1>2. now \in Time /\ minted \in 0..MaxLinks /\ faults \in 0..MaxFaults
  BY DEF Init, Time
<1>3. issued \in Seq(Link)
  BY DEF Init
<1>4. /\ inbox \in [Email -> SUBSET Link] /\ newest \in [Email -> 0..MaxLinks]
      /\ deadline \in [Email -> Nat]
  BY DEF Init
<1>5. /\ users \in SUBSET Email /\ tokens \in SUBSET Token
      /\ sessions \in SUBSET [id : 1..Len(issued), email : Email, expires : Nat]
      /\ cleaning \in BOOLEAN /\ cookies \in SUBSET (1..Len(issued))
      /\ consumed \in SUBSET Link /\ newcomers \in SUBSET Link /\ hindered \in SUBSET Link
      /\ refusedLinks \in SUBSET Link /\ refusedSessions \in SUBSET (1..Len(issued))
      /\ misjudged \in SUBSET refusedSessions /\ loggedOut \in SUBSET refusedSessions
  BY DEF Init
<1>6. ends \in [1..Len(issued) -> Nat]
  BY DEF Init
<1> QED BY <1>1, <1>2, <1>3, <1>4, <1>5, <1>6 DEF TypeOK

LEMMA FaultCounted ==
  ASSUME TypeOK, Fault \/ UNCHANGED faults
  PROVE  faults' \in 0..MaxFaults
BY Typed DEF Fault

LEMMA TypeStep == ASSUME TypeOK, Next PROVE TypeOK'
<1> USE DEF tables, history, verdicts
<1>1. ASSUME NEW r \in Request, NEW e \in Email, RequestLink(r, e) PROVE TypeOK'
  <2>1. minted + 1 \in Link /\ now + LinkAge \in Nat
    BY <1>1 DEF RequestLink, TypeOK, Link, Time
  <2>2. [step |-> "store", link |-> minted + 1, email |-> e, expires |-> now + LinkAge] \in Handling
    BY <2>1 DEF Handling, Storing
  <2>3. requests' \in [Request -> Handling]
    BY <1>1, <2>2, Moved DEF RequestLink
  <2>4. minted' \in 0..MaxLinks
    BY <1>1, <2>1 DEF RequestLink, Link
  <2> QED BY <1>1, <2>3, <2>4 DEF RequestLink, TypeOK
<1>2. ASSUME NEW r \in Request, NEW e \in Email, NEW l \in Link, FollowLink(r, e, l) PROVE TypeOK'
  <2>1. [step |-> "consume", link |-> l, email |-> e] \in Handling
    BY DEF Handling, Working
  <2>2. requests' \in [Request -> Handling]
    BY <1>2, <2>1, Moved DEF FollowLink
  <2> QED BY <1>2, <2>2 DEF FollowLink, TypeOK
<1>3. ASSUME NEW r \in Request, StoreToken(r) PROVE TypeOK'
  <2> DEFINE q == requests[r]
  <2>1. q \in Storing
    BY <1>3, Holds DEF StoreToken
  <2>2. q.link \in Link /\ q.email \in Email /\ q.expires \in Nat
    BY <2>1 DEF Storing
  <2>3. /\ [link |-> q.link, email |-> q.email, expires |-> q.expires, used |-> FALSE] \in Token
        /\ [step |-> "mail", link |-> q.link, email |-> q.email] \in Handling
    BY <2>2 DEF Token, Handling, Working
  <2>4. requests' \in [Request -> Handling]
    BY <1>3, <2>3, Moved DEF StoreToken
  <2>5. tokens' \in SUBSET Token
    BY <1>3, <2>3 DEF StoreToken, TypeOK
  <2>6. newest' \in [Email -> 0..MaxLinks] /\ deadline' \in [Email -> Nat]
    BY <1>3, <2>2 DEF StoreToken, TypeOK, Link
  <2> QED BY <1>3, <2>4, <2>5, <2>6 DEF StoreToken, TypeOK
<1>4. ASSUME NEW r \in Request, SendMail(r) \/ MailFails(r) PROVE TypeOK'
  <2>1. requests[r].link \in Link
    BY <1>4, Holds DEF SendMail, MailFails, Working
  <2>2. inbox' \in [Email -> SUBSET Link]
    BY <1>4, <2>1, Typed DEF SendMail, MailFails
  <2>3. requests' \in [Request -> Handling]
    BY <1>4, Answered DEF SendMail, MailFails
  <2>4. faults' \in 0..MaxFaults
    BY <1>4, FaultCounted DEF SendMail, MailFails
  <2> QED BY <1>4, <2>2, <2>3, <2>4 DEF SendMail, MailFails, TypeOK
<1>5. ASSUME NEW r \in Request, ConsumeToken(r) PROVE TypeOK'
  <2>1. PICK t \in Consumable(requests[r].link) :
          /\ tokens' = (tokens \ {t}) \cup {[t EXCEPT !.used = TRUE]}
          /\ requests' = [requests EXCEPT ![r] = [step |-> "lookup", link |-> t.link, email |-> t.email]]
          /\ consumed' = consumed \cup {t.link}
    BY <1>5 DEF ConsumeToken
  <2>2. t \in Token
    BY DEF Consumable, UsableTokens, TypeOK
  <2>3. /\ [t EXCEPT !.used = TRUE] \in Token /\ t.link \in Link
        /\ [step |-> "lookup", link |-> t.link, email |-> t.email] \in Handling
    BY <2>2 DEF Token, Handling, Working
  <2>4. requests' \in [Request -> Handling] /\ tokens' \in SUBSET Token /\ consumed' \in SUBSET Link
    BY <2>1, <2>3, Moved DEF TypeOK
  <2> QED BY <1>5, <2>4 DEF ConsumeToken, TypeOK
<1>6. ASSUME NEW r \in Request, RefuseToken(r) PROVE TypeOK'
  <2>1. requests[r].link \in Link
    BY <1>6, Holds DEF RefuseToken, Working
  <2>2. requests' \in [Request -> Handling]
    BY <1>6, Answered DEF RefuseToken
  <2> QED BY <1>6, <2>1, <2>2 DEF RefuseToken, TypeOK
<1>7. ASSUME NEW r \in Request, LookUpUser(r) PROVE TypeOK'
  <2>1. requests[r] \in Working /\ requests[r].link \in Link
    BY <1>7, Holds DEF LookUpUser, Working
  <2>2. requests' \in [Request -> Handling]
    BY <1>7, <2>1, Gone DEF LookUpUser
  <2> QED BY <1>7, <2>1, <2>2 DEF LookUpUser, TypeOK
<1>8. ASSUME NEW r \in Request, SaveUser(r) PROVE TypeOK'
  <2>1. requests[r] \in Working /\ requests[r].email \in Email
    BY <1>8, Holds DEF SaveUser, Working
  <2>2. requests' \in [Request -> Handling]
    BY <1>8, <2>1, Gone DEF SaveUser
  <2> QED BY <1>8, <2>1, <2>2 DEF SaveUser, TypeOK
<1>9. ASSUME NEW r \in Request, SaveUserRejected(r) PROVE TypeOK'
  <2>1. requests' \in [Request -> Handling]
    BY <1>9, Answered DEF SaveUserRejected
  <2> QED BY <1>9, <2>1 DEF SaveUserRejected, TypeOK
<1>10. ASSUME NEW r \in Request, CreateSession(r) PROVE TypeOK'
  <2>1. requests[r].link \in Link /\ requests[r].email \in Email
    BY <1>10, Holds DEF CreateSession, Working
  <2>2. issued' \in Seq(Link) /\ Len(issued') = Len(issued) + 1 /\ Len(issued) \in Nat
    BY <1>10, <2>1 DEF CreateSession, TypeOK
  <2>3. 1..Len(issued) \subseteq 1..Len(issued') /\ NextSession \in 1..Len(issued')
    BY <2>2 DEF NextSession
  <2>4. now + SessionAge \in Nat
    BY DEF TypeOK, Time
  <2>5. sessions' \in SUBSET [id : 1..Len(issued'), email : Email, expires : Nat]
    <3> DEFINE Row(n) == [id : 1..n, email : Email, expires : Nat]
    <3>1. Row(Len(issued)) \subseteq Row(Len(issued'))
      BY <2>3
    <3>2. [id |-> NextSession, email |-> requests[r].email, expires |-> now + SessionAge] \in Row(Len(issued'))
      BY <2>1, <2>3, <2>4
    <3> QED BY <1>10, <3>1, <3>2 DEF CreateSession, TypeOK
  <2>6. /\ cookies' \in SUBSET (1..Len(issued')) /\ refusedSessions' \in SUBSET (1..Len(issued'))
        /\ misjudged' \in SUBSET refusedSessions' /\ loggedOut' \in SUBSET refusedSessions'
    BY <1>10, <2>3 DEF CreateSession, TypeOK
  <2>7. requests' \in [Request -> Handling] /\ faults' \in 0..MaxFaults
    BY <1>10, Answered, FaultCounted DEF CreateSession
  <2>8. ends' \in [1..Len(issued') -> Nat]
    BY <1>10, <2>2, <2>4, Extended DEF CreateSession, TypeOK
  <2> QED BY <1>10, <2>2, <2>5, <2>6, <2>7, <2>8 DEF CreateSession, TypeOK
<1>11. ASSUME NEW r \in Request, StatementFails(r) PROVE TypeOK'
  <2>1. requests[r].link \in Link
    BY <1>11, Holds DEF StatementFails, Working, Storing
  <2>2. requests' \in [Request -> Handling] /\ faults' \in 0..MaxFaults
    BY <1>11, Answered, FaultCounted DEF StatementFails
  <2> QED BY <1>11, <2>1, <2>2 DEF StatementFails, TypeOK
<1>12. ASSUME NEW s \in cookies, Authenticate(s) \/ Logout(s) PROVE TypeOK'
  BY <1>12 DEF Authenticate, Logout, RefuseSession, DeleteSession, TypeOK
<1>13. ASSUME NEW s \in cookies, AuthenticateFails(s) \/ LogoutFails(s) PROVE TypeOK'
  <2>1. faults' \in 0..MaxFaults
    BY <1>13, FaultCounted DEF AuthenticateFails, LogoutFails
  <2> QED BY <1>13, <2>1 DEF AuthenticateFails, LogoutFails, RefuseSession, RefuseByFault,
               DeleteSession, TypeOK
<1>14. CASE Cleanup
  BY <1>14 DEF Cleanup, DeleteExpiredAuthTokens, DeleteExpiredSessions, TypeOK
<1>15. CASE CleanupFails
  <2>1. faults' \in 0..MaxFaults /\ cleaning' \in BOOLEAN
    BY <1>15, FaultCounted DEF CleanupFails, TypeOK
  <2> QED BY <1>15, <2>1 DEF CleanupFails, TypeOK
<1>16. CASE Tick
  <2>1. now' \in Time
    BY <1>16 DEF Tick, Time, TypeOK
  <2> QED BY <1>16, <2>1 DEF Tick, TypeOK
<1>17. CASE Restart
  <2>1. requests' \in [Request -> Handling] /\ faults' \in 0..MaxFaults
    BY <1>17, Typed, Records, FaultCounted DEF Restart
  <2>2. hindered' \in SUBSET Link
    <3>1. \A r \in Request : requests[r].link \in Link \cup {NoLink}
      BY Typed, Records
    <3>2. hindered \in SUBSET Link
      BY DEF TypeOK
    <3> QED BY <1>17, <3>1, <3>2 DEF Restart
  <2> QED BY <1>17, <2>1, <2>2 DEF Restart, TypeOK
<1> QED BY <1>1, <1>2, <1>3, <1>4, <1>5, <1>6, <1>7, <1>8, <1>9, <1>10, <1>11, <1>12, <1>13,
           <1>14, <1>15, <1>16, <1>17 DEF Next, Handle

-------------------------------------------------------------------------------
(* What each action does to its request *)

Others(r) == \A q \in Request \ {r} : requests'[q] = requests[q]

LEMMA Requested ==
  ASSUME TypeOK, NEW r \in Request, NEW e \in Email, RequestLink(r, e)
  PROVE  requests'[r].step = "store" /\ requests'[r].link = minted + 1 /\ Others(r)
<1> DEFINE v == [step |-> "store", link |-> minted + 1, email |-> e, expires |-> now + LinkAge]
<1>1. v.step = "store" /\ v.link = minted + 1
  OBVIOUS
<1>2. requests' = [requests EXCEPT ![r] = v]
  BY DEF RequestLink
<1> HIDE DEF v
<1> QED BY <1>1, <1>2 DEF Others, TypeOK

LEMMA Stored ==
  ASSUME TypeOK, NEW r \in Request, StoreToken(r)
  PROVE  /\ requests[r].step = "store" /\ requests'[r].step = "mail"
         /\ requests'[r].link = requests[r].link /\ requests'[r].email = requests[r].email
         /\ requests[r].email \in Email /\ requests[r].link \in Link /\ Others(r)
         /\ newest' = [newest EXCEPT ![requests[r].email] = requests[r].link]
         /\ deadline' = [deadline EXCEPT ![requests[r].email] = requests[r].expires]
         /\ \E n : /\ n.link = requests[r].link /\ n.email = requests[r].email /\ ~n.used
                   /\ n.expires = requests[r].expires
                   /\ tokens' = (tokens \ Superseded(requests[r].email)) \cup {n}
<1> DEFINE q == requests[r]
           n == [link |-> q.link, email |-> q.email, expires |-> q.expires, used |-> FALSE]
           v == [step |-> "mail", link |-> q.link, email |-> q.email]
<1>1. n.link = q.link /\ n.email = q.email /\ ~n.used /\ n.expires = q.expires
  OBVIOUS
<1>2. v.step = "mail" /\ v.link = q.link /\ v.email = q.email
  OBVIOUS
<1>3. q.email \in Email /\ q.link \in Link
  BY Holds DEF StoreToken, Storing
<1>4. /\ requests' = [requests EXCEPT ![r] = v] /\ q.step = "store"
      /\ newest' = [newest EXCEPT ![q.email] = q.link]
      /\ deadline' = [deadline EXCEPT ![q.email] = q.expires]
      /\ tokens' = (tokens \ Superseded(q.email)) \cup {n}
  BY DEF StoreToken
<1> HIDE DEF v, n
<1>5. Others(r) /\ requests'[r] = v
  BY <1>4 DEF Others, TypeOK
<1> QED BY <1>1, <1>2, <1>3, <1>4, <1>5

LEMMA Mailed ==
  ASSUME TypeOK, NEW r \in Request, SendMail(r) \/ MailFails(r)
  PROVE  /\ requests[r].step = "mail" /\ requests'[r] = Idle /\ Others(r)
         /\ requests[r].email \in Email /\ requests[r].link \in Link
         /\ inbox' \in [Email -> SUBSET Link]
         /\ \A e \in Email : inbox[e] \subseteq inbox'[e]
         /\ \A e \in Email : \A l \in inbox'[e] \ inbox[e] :
              l = requests[r].link /\ e = requests[r].email
<1>1. requests[r].step = "mail" /\ requests'[r] = Idle /\ Others(r)
  BY Answered DEF SendMail, MailFails, Others
<1>2. requests[r].email \in Email /\ requests[r].link \in Link
  BY <1>1, Holds DEF Working
<1>3. CASE inbox' = inbox
  BY <1>1, <1>2, <1>3 DEF TypeOK
<1>4. CASE inbox' = [inbox EXCEPT ![requests[r].email] = @ \cup {requests[r].link}]
  <2>1. inbox' \in [Email -> SUBSET Link]
    BY <1>2, <1>4 DEF TypeOK
  <2>2. \A e \in Email : inbox'[e] = IF e = requests[r].email THEN inbox[e] \cup {requests[r].link}
                                     ELSE inbox[e]
    BY <1>2, <1>4 DEF TypeOK
  <2> QED BY <1>1, <1>2, <2>1, <2>2
<1> QED BY <1>3, <1>4 DEF SendMail, MailFails

LEMMA Followed ==
  ASSUME TypeOK, NEW r \in Request, NEW e \in Email, NEW l \in Link, FollowLink(r, e, l)
  PROVE  /\ requests'[r].step = "consume" /\ requests'[r].link = l /\ requests'[r].email = e
         /\ Others(r) /\ l \in inbox[e] /\ requests[r].step = "idle"
<1> DEFINE v == [step |-> "consume", link |-> l, email |-> e]
<1>1. v.step = "consume" /\ v.link = l /\ v.email = e
  OBVIOUS
<1>2. requests' = [requests EXCEPT ![r] = v]
  BY DEF FollowLink
<1> HIDE DEF v
<1> QED BY <1>1, <1>2 DEF Others, TypeOK, FollowLink, Idle

LEMMA Consumed ==
  ASSUME TypeOK, NEW r \in Request, ConsumeToken(r)
  PROVE  \E t \in tokens, u \in tokens' :
           /\ t.link = requests[r].link /\ ~t.used /\ t \in Token /\ Live(t)
           /\ u.link = t.link /\ u.email = t.email /\ u.used
           /\ tokens' = (tokens \ {t}) \cup {u} /\ consumed' = consumed \cup {t.link}
           /\ requests[r].step = "consume" /\ requests'[r].step = "lookup"
           /\ requests'[r].link = t.link /\ requests'[r].email = t.email /\ Others(r)
<1>1. PICK t \in Consumable(requests[r].link) :
          /\ tokens' = (tokens \ {t}) \cup {[t EXCEPT !.used = TRUE]}
          /\ requests' = [requests EXCEPT ![r] = [step |-> "lookup", link |-> t.link, email |-> t.email]]
          /\ consumed' = consumed \cup {t.link}
  BY DEF ConsumeToken
<1>2. t \in Token /\ t \in tokens /\ t.link = requests[r].link /\ ~t.used /\ Live(t)
  BY DEF Consumable, UsableTokens, TypeOK
<1> DEFINE u == [t EXCEPT !.used = TRUE]
           v == [step |-> "lookup", link |-> t.link, email |-> t.email]
<1>3. u.link = t.link /\ u.email = t.email /\ u.used
  BY <1>2 DEF Token
<1>4. v.step = "lookup" /\ v.link = t.link /\ v.email = t.email
  OBVIOUS
<1>5. tokens' = (tokens \ {t}) \cup {u} /\ requests' = [requests EXCEPT ![r] = v]
  BY <1>1
<1> HIDE DEF u, v
<1>6. requests'[r] = v /\ Others(r)
  BY <1>5 DEF TypeOK, Others
<1> QED BY <1>1, <1>2, <1>3, <1>4, <1>5, <1>6 DEF ConsumeToken

LEMMA Refused ==
  ASSUME TypeOK, NEW r \in Request, RefuseToken(r)
  PROVE  /\ requests[r].step = "consume" /\ requests'[r] = Idle /\ Others(r)
         /\ refusedLinks' = refusedLinks \cup {requests[r].link}
BY Answered DEF RefuseToken, Others

LEMMA LookedUp ==
  ASSUME TypeOK, NEW r \in Request, LookUpUser(r)
  PROVE  /\ requests[r].step = "lookup" /\ requests[r].link \in Link
         /\ requests'[r].link = requests[r].link /\ requests'[r].email = requests[r].email
         /\ Others(r)
         /\ \/ /\ requests[r].email \in users /\ requests'[r].step = "session"
               /\ newcomers' = newcomers
            \/ /\ requests'[r].step = "save"
               /\ newcomers' = newcomers \cup {requests[r].link}
<1>1. requests[r] \in Working /\ requests[r].link \in Link /\ requests[r].step = "lookup"
  BY Holds DEF LookUpUser, Working
<1>2. CASE requests[r].email \in users /\ Goto(r, "session") /\ UNCHANGED newcomers
  BY <1>1, <1>2, Gone DEF Others
<1>3. CASE Goto(r, "save") /\ newcomers' = newcomers \cup {requests[r].link}
  BY <1>1, <1>3, Gone DEF Others
<1> QED BY <1>2, <1>3 DEF LookUpUser

LEMMA Saved ==
  ASSUME TypeOK, NEW r \in Request, SaveUser(r)
  PROVE  /\ requests[r].step = "save" /\ requests'[r].step = "session"
         /\ requests'[r].link = requests[r].link /\ requests'[r].email = requests[r].email
         /\ requests[r].email \in Email /\ Others(r)
         /\ users' = users \cup {requests[r].email}
<1>1. requests[r] \in Working /\ requests[r].email \in Email
  BY Holds DEF SaveUser, Working
<1> QED BY <1>1, Gone DEF SaveUser, Others

LEMMA Created ==
  ASSUME TypeOK, NEW r \in Request, CreateSession(r)
  PROVE  /\ requests[r].step = "session" /\ requests'[r] = Idle /\ Others(r)
         /\ requests[r].link \in Link /\ requests[r].email \in Email
         /\ issued' = Append(issued, requests[r].link) /\ ends' = Append(ends, now + SessionAge)
         /\ \E s : /\ s.id = Len(issued) + 1 /\ s.email = requests[r].email
                   /\ s.expires = now + SessionAge /\ sessions' = sessions \cup {s}
<1>1. requests[r].link \in Link /\ requests[r].email \in Email
  BY Holds DEF CreateSession, Working
<1>2. requests'[r] = Idle /\ Others(r)
  BY Answered DEF CreateSession, Others
<1> DEFINE s == [id |-> NextSession, email |-> requests[r].email, expires |-> now + SessionAge]
<1>3. /\ s.id = Len(issued) + 1 /\ s.email = requests[r].email
      /\ s.expires = now + SessionAge /\ sessions' = sessions \cup {s}
  BY DEF CreateSession, NextSession
<1> HIDE DEF s
<1> QED BY <1>1, <1>2, <1>3 DEF CreateSession

\* Every other action only ends requests and takes rows away.
Fades ==
  /\ \A q \in Request : requests'[q] = requests[q] \/ requests'[q] = Idle
  /\ tokens' \subseteq tokens /\ sessions' \subseteq sessions
  /\ UNCHANGED <<users, minted, newest, issued, consumed, newcomers, inbox, refusedLinks>>

Rest ==
  \/ \E r \in Request : SaveUserRejected(r) \/ StatementFails(r)
  \/ \E s \in cookies : Authenticate(s) \/ AuthenticateFails(s) \/ Logout(s) \/ LogoutFails(s)
  \/ Cleanup \/ CleanupFails \/ Tick \/ Restart

LEMMA Fading == ASSUME TypeOK, Rest \/ UNCHANGED vars PROVE Fades
<1>1. ASSUME NEW r \in Request, SaveUserRejected(r) \/ StatementFails(r) PROVE Fades
  <2>1. \A q \in Request : requests'[q] = requests[q] \/ requests'[q] = Idle
    BY <1>1, Answered DEF SaveUserRejected, StatementFails
  <2> QED BY <1>1, <2>1 DEF SaveUserRejected, StatementFails, Fades, tables, history, verdicts
<1>2. ASSUME NEW s \in cookies, Authenticate(s) \/ AuthenticateFails(s) \/ Logout(s) \/ LogoutFails(s) PROVE Fades
  BY <1>2 DEF Authenticate, AuthenticateFails, Logout, LogoutFails, DeleteSession, Fades, tables, history, verdicts
<1>3. CASE Cleanup \/ CleanupFails \/ Tick
  BY <1>3 DEF Cleanup, CleanupFails, Tick, DeleteExpiredAuthTokens, DeleteExpiredSessions,
         Fades, tables, history, verdicts
<1>4. CASE Restart
  BY <1>4 DEF Restart, Fades, tables, TypeOK
<1>5. CASE UNCHANGED vars
  BY <1>5 DEF vars, Fades, tables, history, verdicts
<1> QED BY <1>1, <1>2, <1>3, <1>4, <1>5 DEF Rest

-------------------------------------------------------------------------------
(* The invariant: one link through its life. It is made by one request,    *)
(* stored once, mailed to one address, consumed once, and then in the      *)
(* hands of one request until a session exists.                            *)

\* The links that anybody but a handler has come across.
Seen == {l \in Link :
  (\E t \in tokens : t.link = l) \/ (\E e \in Email : l \in inbox[e]) \/ l \in consumed \/ l \in refusedLinks}

\* A link that is being stored is known to nobody else yet, and none is made twice.
Fresh ==
  /\ \A r \in Request : requests[r].step = "store" =>
       /\ requests[r].link \notin Seen \cup {0}
       /\ \A q \in Request \ {r} : requests[q].link # requests[r].link
  /\ \A l \in Seen : l <= minted
  /\ \A r \in Request : requests[r].link <= minted

\* The rows of auth_tokens.
Rows ==
  /\ \A t, u \in tokens : t.link = u.link => t = u
  /\ \A t \in tokens : ~t.used => t.link = newest[t.email]
  /\ \A t \in tokens : t.link \in consumed => t.used

Held(r) == requests[r].step \in {"lookup", "save", "session"}

\* A consumed link is in the hands of one request at most, before its session.
Hands ==
  /\ \A r \in Request : Held(r) =>
       /\ requests[r].link \in consumed /\ requests[r].link \notin Range(issued)
       /\ \A q \in Request \ {r} : Held(q) => requests[q].link # requests[r].link
  /\ Range(issued) \subseteq consumed
  /\ IsInjective(issued)

\* A link is in the mailbox of the address it was made for.
Boxes ==
  /\ \A t \in tokens, e \in Email : t.link \in inbox[e] => t.email = e
  /\ \A r \in Request, t \in tokens :
       requests[r].step = "mail" /\ t.link = requests[r].link => t.email = requests[r].email
  /\ \A r \in Request : requests[r].step = "consume" \/ Held(r) =>
       requests[r].email \in Email /\ requests[r].link \in inbox[requests[r].email]

Accounts ==
  /\ \A r \in Request : requests[r].step = "session" => requests[r].email \in users
  /\ SessionsOfMailboxOwner

\* The account of an address was created by a link that is looked up no more.
Founded ==
  /\ newcomers \subseteq consumed
  /\ \A r \in Request : requests[r].step = "save" => requests[r].link \in newcomers
  /\ \A e \in users : \E t \in newcomers :
       /\ t \in inbox[e]
       /\ \A r \in Request : requests[r].step \in {"lookup", "save"} => requests[r].link # t

\* The rows of what was given last exactly as long as they were given for.
KeptLinks ==
  \A e \in Email : newest[e] \notin consumed \cup {0} /\ now < deadline[e] =>
    \E t \in tokens : ~t.used /\ t.link = newest[e] /\ t.email = e /\ t.expires = deadline[e]

KeptSessions ==
  \A i \in 1..Len(issued) : now < ends[i] /\ i \notin loggedOut =>
    \E s \in sessions : s.id = i /\ s.expires = ends[i]

Inv == TypeOK /\ Fresh /\ Rows /\ Hands /\ Boxes /\ Accounts /\ Founded
         /\ RefusedForGood /\ LinkLostOnlyByFault /\ KeptLinks /\ KeptSessions

LEMMA Small ==
  ASSUME TypeOK
  PROVE  /\ minted \in Nat /\ \A l \in Link : l \in Nat
         /\ \A t \in tokens : t.link \in Link
         /\ \A r \in Request : requests[r].link \in Nat
         /\ Idle.step = "idle" /\ Idle.link = 0
<1>1. \A l \in Link : l \in Nat
  BY DEF Link
<1> QED BY <1>1, Typed, Records DEF Token, NoLink, Idle

\* A step that makes no link spreads only the link of its request.
LEMMA Spread ==
  ASSUME TypeOK, Fresh, NEW r \in Request, Others(r), requests'[r].step # "store",
         requests'[r].link \in {requests[r].link, 0} \cup Seen,
         Seen' \subseteq Seen \cup {requests[r].link}, minted' = minted
  PROVE  Fresh'
<1>1. ASSUME NEW q \in Request, requests'[q].step = "store"
      PROVE  /\ requests'[q].link \notin Seen' \cup {0}
             /\ \A p \in Request \ {q} : requests'[p].link # requests'[q].link
  <2>1. q # r /\ requests'[q] = requests[q]
    BY <1>1 DEF Others
  <2>2. /\ requests[q].link \notin Seen \cup {0}
        /\ \A p \in Request \ {q} : requests[p].link # requests[q].link
    BY <1>1, <2>1 DEF Fresh
  <2> QED BY <2>1, <2>2 DEF Others
<1>2. \A l \in Seen' : l <= minted'
  BY DEF Fresh
<1>3. \A q \in Request : requests'[q].link <= minted'
  BY Small DEF Fresh, Others
<1> QED BY <1>1, <1>2, <1>3 DEF Fresh

LEMMA FreshStep == ASSUME Inv, [Next]_vars PROVE Fresh'
<1> USE DEF Inv
<1>1. ASSUME NEW r \in Request, NEW e \in Email, RequestLink(r, e) PROVE Fresh'
  <2>1. minted' = minted + 1 /\ Seen' = Seen
    BY <1>1 DEF RequestLink, tables, Seen
  <2>2. requests'[r].link = minted + 1 /\ \A q \in Request \ {r} : requests'[q] = requests[q]
    BY <1>1, Requested DEF Others
  <2>3. minted \in Nat /\ \A l \in Seen : l <= minted
    BY Small DEF Fresh
  <2>4. minted + 1 \notin Seen \cup {0}
    BY <2>3
  <2>5. \A q \in Request : requests[q].link \in Nat /\ requests[q].link <= minted
    BY Small DEF Fresh
  <2>6. ASSUME NEW q \in Request, requests'[q].step = "store"
        PROVE  /\ requests'[q].link \notin Seen' \cup {0}
               /\ \A p \in Request \ {q} : requests'[p].link # requests'[q].link
    <3>1. CASE q = r
      BY <2>1, <2>2, <2>3, <2>4, <2>5, <3>1
    <3>2. CASE q # r
      BY <2>1, <2>2, <2>3, <2>5, <2>6, <3>2 DEF Fresh
    <3> QED BY <3>1, <3>2
  <2>7. \A l \in Seen : l \in Nat
    BY Small DEF Seen
  <2>8. \A l \in Seen' : l <= minted'
    BY <2>1, <2>3, <2>7
  <2>9. \A q \in Request : requests'[q].link <= minted'
    BY <2>1, <2>2, <2>3, <2>5
  <2> QED BY <2>6, <2>8, <2>9 DEF Fresh
<1>2. ASSUME NEW r \in Request, StoreToken(r) PROVE Fresh'
  <2>1. UNCHANGED <<minted, inbox, consumed, refusedLinks>>
    BY <1>2 DEF StoreToken
  <2>2. Seen' \subseteq Seen \cup {requests[r].link}
    BY <1>2, <2>1, Stored DEF Seen
  <2> QED BY <1>2, <2>1, <2>2, Stored, Spread
<1>3. ASSUME NEW r \in Request, SendMail(r) \/ MailFails(r) PROVE Fresh'
  <2>1. UNCHANGED <<minted, tokens, consumed, refusedLinks>>
    BY <1>3 DEF SendMail, MailFails, tables, history, verdicts
  <2>2. Seen' \subseteq Seen \cup {requests[r].link}
    BY <1>3, <2>1, Mailed DEF Seen
  <2> QED BY <1>3, <2>1, <2>2, Mailed, Small, Spread
<1>4. ASSUME NEW r \in Request, NEW e \in Email, NEW l \in Link, FollowLink(r, e, l) PROVE Fresh'
  <2>1. minted' = minted /\ Seen' = Seen
    BY <1>4 DEF FollowLink, tables, history, verdicts, Seen
  <2>2. l \in Seen
    BY <1>4, Followed DEF Seen
  <2> QED BY <1>4, <2>1, <2>2, Followed, Spread
<1>5. ASSUME NEW r \in Request, ConsumeToken(r) PROVE Fresh'
  <2>1. UNCHANGED <<minted, inbox, refusedLinks>>
    BY <1>5 DEF ConsumeToken
  <2>2. PICK t \in tokens, u \in tokens' :
           /\ t.link = requests[r].link /\ u.link = t.link
           /\ tokens' = (tokens \ {t}) \cup {u} /\ consumed' = consumed \cup {t.link}
           /\ requests'[r].step = "lookup" /\ requests'[r].link = t.link /\ Others(r)
    BY <1>5, Consumed
  <2>3. Seen' \subseteq Seen \cup {requests[r].link}
    BY <2>1, <2>2 DEF Seen
  <2> QED BY <2>1, <2>2, <2>3, Spread
<1>6. ASSUME NEW r \in Request, RefuseToken(r) PROVE Fresh'
  <2>1. UNCHANGED <<minted, tokens, inbox, consumed>>
    BY <1>6 DEF RefuseToken, tables
  <2>2. Seen' \subseteq Seen \cup {requests[r].link}
    BY <1>6, <2>1, Refused DEF Seen
  <2> QED BY <1>6, <2>1, <2>2, Refused, Small, Spread
<1>7. ASSUME NEW r \in Request, LookUpUser(r) \/ SaveUser(r) \/ CreateSession(r) PROVE Fresh'
  <2>1. minted' = minted /\ Seen' = Seen
    BY <1>7 DEF LookUpUser, SaveUser, CreateSession, tables, history, verdicts, Seen
  <2>2. requests'[r].link \in {requests[r].link, 0} /\ requests'[r].step # "store" /\ Others(r)
    BY <1>7, LookedUp, Saved, Created, Small
  <2> QED BY <2>1, <2>2, Spread
<1>8. CASE Rest \/ UNCHANGED vars
  <2>1. minted' = minted /\ Seen' \subseteq Seen
        /\ \A q \in Request : requests'[q] = requests[q] \/ requests'[q] = Idle
    BY <1>8, Fading DEF Fades, Seen
  <2>2. Idle.step # "store" /\ Idle.link = 0 /\ minted \in Nat
    BY Small
  <2> QED BY <2>1, <2>2 DEF Fresh
<1> QED BY <1>1, <1>2, <1>3, <1>4, <1>5, <1>6, <1>7, <1>8 DEF Next, Handle, Rest

LEMMA RowsStep == ASSUME Inv, [Next]_vars PROVE Rows'
<1> USE Small DEF Inv, Others
<1>1. ASSUME UNCHANGED <<tokens, newest, consumed>> PROVE Rows'
  BY <1>1 DEF Rows
<1>2. ASSUME NEW r \in Request, StoreToken(r) PROVE Rows'
  <2>1. UNCHANGED consumed
    BY <1>2 DEF StoreToken
  <2>2. /\ \A t \in tokens : t.link # requests[r].link
        /\ requests[r].link \notin consumed
    BY <1>2, Stored DEF Fresh, Seen
  <2>3. \A t \in tokens : t.email \in Email
    BY DEF TypeOK, Token
  <2>4. /\ newest'[requests[r].email] = requests[r].link
        /\ \A e \in Email \ {requests[r].email} : newest'[e] = newest[e]
    BY <1>2, Stored DEF TypeOK
  <2> QED BY <1>2, <2>1, <2>2, <2>3, <2>4, Stored DEF Rows, Superseded
<1>3. ASSUME NEW r \in Request, ConsumeToken(r) PROVE Rows'
  <2>1. UNCHANGED newest
    BY <1>3 DEF ConsumeToken
  <2> QED BY <1>3, <2>1, Consumed DEF Rows
<1>4. CASE Rest \/ UNCHANGED vars
  BY <1>4, Fading DEF Fades, Rows
<1>5. ASSUME NEW r \in Request, NEW e \in Email, NEW l \in Link, RequestLink(r, e) \/ FollowLink(r, e, l)
      PROVE  Rows'
  BY <1>1, <1>5 DEF RequestLink, FollowLink, tables, history, verdicts
<1>6. ASSUME NEW r \in Request,
             SendMail(r) \/ MailFails(r) \/ RefuseToken(r) \/ LookUpUser(r) \/ SaveUser(r) \/ CreateSession(r)
      PROVE  Rows'
  BY <1>1, <1>6 DEF SendMail, MailFails, RefuseToken, LookUpUser, SaveUser, CreateSession, tables, history, verdicts
<1>7. ASSUME NEW r \in Request, NEW e \in Email, RequestLink(r, e) PROVE Rows'
  BY <1>1, <1>7 DEF RequestLink, tables
<1> QED BY <1>2, <1>3, <1>4, <1>5, <1>6, <1>7 DEF Next, Handle, Rest

LEMMA Appended ==
  ASSUME NEW s \in Seq(Link), NEW x \in Link, x \notin Range(s)
  PROVE  /\ Range(Append(s, x)) = Range(s) \cup {x}
         /\ IsInjective(s) => IsInjective(Append(s, x))
         /\ Len(s) \in Nat /\ Append(s, x)[Len(s) + 1] = x
         /\ \A i \in 1..Len(s) : Append(s, x)[i] = s[i]
<1> DEFINE z == Append(s, x)
<1>1. /\ Len(s) \in Nat /\ DOMAIN s = 1..Len(s) /\ DOMAIN z = 1..(Len(s) + 1)
      /\ z[Len(s) + 1] = x /\ \A i \in 1..Len(s) : z[i] = s[i]
  OBVIOUS
<1> HIDE DEF z
<1>2. Range(z) = Range(s) \cup {x}
  BY <1>1 DEF Range
<1>3. ASSUME IsInjective(s), NEW i \in 1..(Len(s) + 1), NEW j \in 1..(Len(s) + 1), z[i] = z[j]
      PROVE  i = j
  <2>1. \A k \in 1..Len(s) : s[k] # x
    BY <1>1 DEF Range
  <2>2. CASE i \in 1..Len(s) /\ j \in 1..Len(s)
    BY <1>1, <1>3, <2>2 DEF IsInjective
  <2>3. CASE i = Len(s) + 1 \/ j = Len(s) + 1
    BY <1>1, <1>3, <2>1, <2>3
  <2> QED BY <1>1, <2>2, <2>3
<1>4. IsInjective(s) => IsInjective(z)
  BY <1>1, <1>3 DEF IsInjective
<1> QED BY <1>1, <1>2, <1>4 DEF z

LEMMA HandsStep == ASSUME Inv, [Next]_vars PROVE Hands'
<1> USE DEF Inv, Others
<1>1. ASSUME consumed' = consumed, issued' = issued,
             \A q \in Request : Held(q)' => Held(q) /\ requests'[q].link = requests[q].link
      PROVE  Hands'
  BY <1>1 DEF Hands
<1>2. ASSUME NEW r \in Request, NEW e \in Email, RequestLink(r, e) PROVE Hands'
  <2>1. consumed' = consumed /\ issued' = issued
    BY <1>2 DEF RequestLink
  <2> QED BY <1>1, <1>2, <2>1, Requested DEF Held
<1>3. ASSUME NEW r \in Request, StoreToken(r) PROVE Hands'
  <2>1. consumed' = consumed /\ issued' = issued
    BY <1>3 DEF StoreToken
  <2> QED BY <1>1, <1>3, <2>1, Stored DEF Held
<1>4. ASSUME NEW r \in Request, SendMail(r) \/ MailFails(r) PROVE Hands'
  <2>1. consumed' = consumed /\ issued' = issued
    BY <1>4 DEF SendMail, MailFails, history, verdicts
  <2> QED BY <1>1, <1>4, <2>1, Mailed, Small DEF Held
<1>5. ASSUME NEW r \in Request, NEW e \in Email, NEW l \in Link, FollowLink(r, e, l) PROVE Hands'
  <2>1. consumed' = consumed /\ issued' = issued
    BY <1>5 DEF FollowLink, history, verdicts
  <2> QED BY <1>1, <1>5, <2>1, Followed DEF Held
<1>6. ASSUME NEW r \in Request, ConsumeToken(r) PROVE Hands'
  <2>1. issued' = issued
    BY <1>6 DEF ConsumeToken
  <2>2. PICK t \in tokens :
           /\ ~t.used /\ consumed' = consumed \cup {t.link}
           /\ requests'[r].link = t.link /\ Others(r)
    BY <1>6, Consumed
  <2>3. t.link \notin consumed
    BY <2>2 DEF Rows
  <2> QED BY <2>1, <2>2, <2>3 DEF Hands, Held
<1>7. ASSUME NEW r \in Request, RefuseToken(r) PROVE Hands'
  <2>1. consumed' = consumed /\ issued' = issued
    BY <1>7 DEF RefuseToken
  <2> QED BY <1>1, <1>7, <2>1, Refused, Small DEF Held
<1>8. ASSUME NEW r \in Request, LookUpUser(r) \/ SaveUser(r) PROVE Hands'
  <2>1. consumed' = consumed /\ issued' = issued
    BY <1>8 DEF LookUpUser, SaveUser, history, verdicts
  <2>2. Held(r) /\ requests'[r].link = requests[r].link /\ Others(r)
    BY <1>8, LookedUp, Saved DEF Held
  <2> QED BY <1>1, <2>1, <2>2 DEF Held
<1>9. ASSUME NEW r \in Request, CreateSession(r) PROVE Hands'
  <2>1. consumed' = consumed
    BY <1>9 DEF CreateSession
  <2>2. /\ Held(r) /\ requests'[r] = Idle /\ requests[r].link \in Link
        /\ issued' = Append(issued, requests[r].link) /\ issued \in Seq(Link)
        /\ \A q \in Request \ {r} : requests'[q] = requests[q]
    BY <1>9, Created DEF Held, TypeOK
  <2>3. requests[r].link \in consumed /\ requests[r].link \notin Range(issued)
    BY <2>2 DEF Hands
  <2>4. Range(issued') = Range(issued) \cup {requests[r].link} /\ IsInjective(issued')
    BY <2>2, <2>3, Appended DEF Hands
  <2>5. ASSUME NEW q \in Request, Held(q)'
        PROVE  q # r /\ requests'[q] = requests[q] /\ Held(q) /\ requests[q].link # requests[r].link
    BY <2>2, <2>5, Small DEF Held, Hands
  <2> QED BY <2>1, <2>3, <2>4, <2>5 DEF Hands
<1>10. CASE Rest \/ UNCHANGED vars
  BY <1>1, <1>10, Fading, Small DEF Fades, Held
<1> QED BY <1>2, <1>3, <1>4, <1>5, <1>6, <1>7, <1>8, <1>9, <1>10 DEF Next, Handle, Rest

LEMMA BoxesStep == ASSUME Inv, [Next]_vars PROVE Boxes'
<1> USE DEF Inv, Others
<1>1. ASSUME inbox' = inbox, tokens' \subseteq tokens,
             \A q \in Request : requests'[q].step = "mail" => requests'[q] = requests[q],
             \A q \in Request : requests'[q].step = "consume" \/ Held(q)' =>
               /\ requests'[q].email \in Email
               /\ requests'[q].link \in inbox[requests'[q].email]
      PROVE  Boxes'
  BY <1>1 DEF Boxes
<1>2. ASSUME NEW r \in Request, NEW e \in Email, RequestLink(r, e) PROVE Boxes'
  <2>1. inbox' = inbox /\ tokens' = tokens
    BY <1>2 DEF RequestLink, tables
  <2> QED BY <1>1, <1>2, <2>1, Requested DEF Held, Boxes
<1>3. ASSUME NEW r \in Request, StoreToken(r) PROVE Boxes'
  <2>1. inbox' = inbox
    BY <1>3 DEF StoreToken
  <2>2. PICK n : /\ n.link = requests[r].link /\ n.email = requests[r].email
                 /\ tokens' \subseteq tokens \cup {n}
    BY <1>3, Stored
  <2>3. /\ requests'[r].step = "mail" /\ requests[r].step = "store" /\ requests[r].link \in Link
        /\ requests'[r].link = requests[r].link /\ requests'[r].email = requests[r].email
        /\ \A q \in Request \ {r} : requests'[q] = requests[q]
    BY <1>3, Stored
  <2>4. /\ \A t \in tokens : t.link # requests[r].link
        /\ \A e \in Email : requests[r].link \notin inbox[e]
        /\ \A q \in Request \ {r} : requests[q].link # requests[r].link
    BY <2>3 DEF Fresh, Seen
  <2>5. \A t \in tokens', e \in Email : t.link \in inbox'[e] => t.email = e
    BY <2>1, <2>2, <2>4 DEF Boxes
  <2>6. ASSUME NEW q \in Request, NEW t \in tokens', requests'[q].step = "mail",
               t.link = requests'[q].link
        PROVE  t.email = requests'[q].email
    BY <2>2, <2>3, <2>4, <2>6 DEF Boxes
  <2>7. ASSUME NEW q \in Request, requests'[q].step = "consume" \/ Held(q)'
        PROVE  requests'[q].email \in Email /\ requests'[q].link \in inbox'[requests'[q].email]
    BY <2>1, <2>3, <2>7 DEF Boxes, Held
  <2> QED BY <2>5, <2>6, <2>7 DEF Boxes
<1>4. ASSUME NEW r \in Request, SendMail(r) \/ MailFails(r) PROVE Boxes'
  <2>1. tokens' = tokens
    BY <1>4 DEF SendMail, MailFails, tables
  <2>2. /\ requests[r].step = "mail" /\ requests'[r].step = "idle"
        /\ \A q \in Request \ {r} : requests'[q] = requests[q]
        /\ \A e \in Email : inbox[e] \subseteq inbox'[e]
        /\ \A e \in Email : \A l \in inbox'[e] \ inbox[e] :
              l = requests[r].link /\ e = requests[r].email
    BY <1>4, Mailed, Small
  <2>3. \A t \in tokens', e \in Email : t.link \in inbox'[e] => t.email = e
    BY <2>1, <2>2 DEF Boxes
  <2>4. \A q \in Request : requests'[q].step # "idle" => requests'[q] = requests[q]
    BY <2>2
  <2> QED BY <2>1, <2>2, <2>3, <2>4 DEF Boxes, Held
<1>5. ASSUME NEW r \in Request, NEW e \in Email, NEW l \in Link, FollowLink(r, e, l) PROVE Boxes'
  <2>1. inbox' = inbox /\ tokens' = tokens
    BY <1>5 DEF FollowLink, tables
  <2> QED BY <1>1, <1>5, <2>1, Followed DEF Held, Boxes
<1>6. ASSUME NEW r \in Request, ConsumeToken(r) PROVE Boxes'
  <2>1. inbox' = inbox
    BY <1>6 DEF ConsumeToken
  <2>2. PICK t \in tokens, u \in tokens' :
           /\ t.link = requests[r].link /\ u.link = t.link /\ u.email = t.email
           /\ tokens' = (tokens \ {t}) \cup {u}
           /\ requests[r].step = "consume" /\ requests'[r].step = "lookup"
           /\ requests'[r].link = t.link /\ requests'[r].email = t.email
           /\ \A q \in Request \ {r} : requests'[q] = requests[q]
    BY <1>6, Consumed
  <2>3. requests[r].email \in Email /\ t.link \in inbox[requests[r].email]
    BY <2>2 DEF Boxes
  <2>4. t.email = requests[r].email
    BY <2>3 DEF Boxes
  <2>5. \A w \in tokens' : \E o \in tokens : w.link = o.link /\ w.email = o.email
    BY <2>2
  <2>6. \A q \in Request : requests'[q].step = "mail" => requests'[q] = requests[q]
    BY <2>2
  <2>7. ASSUME NEW q \in Request, requests'[q].step = "consume" \/ Held(q)'
        PROVE  requests'[q].email \in Email /\ requests'[q].link \in inbox'[requests'[q].email]
    BY <2>1, <2>2, <2>3, <2>4, <2>7 DEF Boxes, Held
  <2> QED BY <2>1, <2>5, <2>6, <2>7 DEF Boxes
<1>7. ASSUME NEW r \in Request, RefuseToken(r) PROVE Boxes'
  <2>1. inbox' = inbox /\ tokens' = tokens
    BY <1>7 DEF RefuseToken, tables
  <2> QED BY <1>1, <1>7, <2>1, Refused, Small DEF Held, Boxes
<1>8. ASSUME NEW r \in Request, LookUpUser(r) \/ SaveUser(r) \/ CreateSession(r) PROVE Boxes'
  <2>1. inbox' = inbox /\ tokens' = tokens
    BY <1>8 DEF LookUpUser, SaveUser, CreateSession, tables, history, verdicts
  <2>2. /\ Held(r) /\ Others(r)
        /\ \/ requests'[r] = Idle
           \/ /\ Held(r)' /\ requests'[r].step # "mail"
              /\ requests'[r].link = requests[r].link /\ requests'[r].email = requests[r].email
    BY <1>8, LookedUp, Saved, Created DEF Held
  <2> QED BY <1>1, <2>1, <2>2, Small DEF Held, Boxes
<1>9. CASE Rest \/ UNCHANGED vars
  BY <1>1, <1>9, Fading, Small DEF Fades, Held, Boxes
<1> QED BY <1>2, <1>3, <1>4, <1>5, <1>6, <1>7, <1>8, <1>9 DEF Next, Handle, Rest

\* Mailboxes only fill.
LEMMA Filling == ASSUME TypeOK, [Next]_vars PROVE \A e \in Email : inbox[e] \subseteq inbox'[e]
<1>1. ASSUME NEW r \in Request, SendMail(r) \/ MailFails(r)
      PROVE  \A e \in Email : inbox[e] \subseteq inbox'[e]
  BY <1>1, Mailed
<1>2. ASSUME NEW r \in Request, Handle(r), ~SendMail(r) PROVE inbox' = inbox
  BY <1>2 DEF Handle, StoreToken, ConsumeToken, RefuseToken, LookUpUser, SaveUser,
         SaveUserRejected, CreateSession
<1>3. CASE Rest \/ UNCHANGED vars
  BY <1>3, Fading DEF Fades
<1>4. ASSUME NEW r \in Request, NEW e \in Email, NEW l \in Link, RequestLink(r, e) \/ FollowLink(r, e, l)
      PROVE  inbox' = inbox
  BY <1>4 DEF RequestLink, FollowLink
<1>5. ASSUME NEW r \in Request, NEW e \in Email, RequestLink(r, e) PROVE inbox' = inbox
  BY <1>5 DEF RequestLink
<1> QED BY <1>1, <1>2, <1>3, <1>4, <1>5 DEF Next, Rest

LEMMA AccountsStep == ASSUME Inv, [Next]_vars PROVE Accounts'
<1> USE DEF Inv, Others
<1>1. \A e \in Email : inbox[e] \subseteq inbox'[e]
  BY Filling
<1>2. ASSUME sessions' \subseteq sessions, issued' = issued, users \subseteq users',
             \A q \in Request : requests'[q].step = "session" => requests'[q].email \in users'
      PROVE  Accounts'
  BY <1>1, <1>2 DEF Accounts, SessionsOfMailboxOwner, TypeOK
<1>3. ASSUME NEW r \in Request, NEW e \in Email, RequestLink(r, e) PROVE Accounts'
  <2>1. UNCHANGED <<sessions, issued, users>>
    BY <1>3 DEF RequestLink, tables
  <2> QED BY <1>2, <1>3, <2>1, Requested DEF Accounts
<1>4. ASSUME NEW r \in Request, StoreToken(r) PROVE Accounts'
  <2>1. UNCHANGED <<sessions, issued, users>>
    BY <1>4 DEF StoreToken
  <2> QED BY <1>2, <1>4, <2>1, Stored DEF Accounts
<1>5. ASSUME NEW r \in Request, SendMail(r) \/ MailFails(r) PROVE Accounts'
  <2>1. UNCHANGED <<sessions, issued, users>>
    BY <1>5 DEF SendMail, MailFails, tables, history, verdicts
  <2> QED BY <1>2, <1>5, <2>1, Mailed, Small DEF Accounts
<1>6. ASSUME NEW r \in Request, NEW e \in Email, NEW l \in Link, FollowLink(r, e, l) PROVE Accounts'
  <2>1. UNCHANGED <<sessions, issued, users>>
    BY <1>6 DEF FollowLink, tables, history, verdicts
  <2> QED BY <1>2, <1>6, <2>1, Followed DEF Accounts
<1>7. ASSUME NEW r \in Request, ConsumeToken(r) PROVE Accounts'
  <2>1. UNCHANGED <<sessions, issued, users>>
    BY <1>7 DEF ConsumeToken
  <2>2. requests'[r].step = "lookup" /\ Others(r)
    BY <1>7, Consumed
  <2> QED BY <1>2, <2>1, <2>2 DEF Accounts
<1>8. ASSUME NEW r \in Request, RefuseToken(r) PROVE Accounts'
  <2>1. UNCHANGED <<sessions, issued, users>>
    BY <1>8 DEF RefuseToken, tables
  <2> QED BY <1>2, <1>8, <2>1, Refused, Small DEF Accounts
<1>9. ASSUME NEW r \in Request, LookUpUser(r) PROVE Accounts'
  <2>1. UNCHANGED <<sessions, issued, users>>
    BY <1>9 DEF LookUpUser, tables
  <2> QED BY <1>2, <1>9, <2>1, LookedUp DEF Accounts
<1>10. ASSUME NEW r \in Request, SaveUser(r) PROVE Accounts'
  <2>1. UNCHANGED <<sessions, issued>>
    BY <1>10 DEF SaveUser, history, verdicts
  <2> QED BY <1>2, <1>10, <2>1, Saved DEF Accounts
<1>11. ASSUME NEW r \in Request, CreateSession(r) PROVE Accounts'
  <2>1. users' = users /\ inbox' = inbox
    BY <1>11 DEF CreateSession
  <2>2. PICK s : s.id = Len(issued) + 1 /\ s.email = requests[r].email /\ sessions' = sessions \cup {s}
    BY <1>11, Created
  <2>3. /\ requests[r].step = "session" /\ requests'[r] = Idle /\ requests[r].link \in Link
        /\ \A q \in Request \ {r} : requests'[q] = requests[q]
        /\ issued' = Append(issued, requests[r].link) /\ issued \in Seq(Link)
    BY <1>11, Created DEF TypeOK
  <2>4. requests[r].link \notin Range(issued)
    BY <2>3 DEF Hands, Held
  <2>5. /\ issued'[Len(issued) + 1] = requests[r].link
        /\ \A i \in 1..Len(issued) : issued'[i] = issued[i]
    BY <2>3, <2>4, Appended
  <2>6. requests[r].email \in users /\ requests[r].link \in inbox[requests[r].email]
    BY <2>3 DEF Accounts, Boxes, Held
  <2>7. \A o \in sessions : o.id \in 1..Len(issued)
    BY DEF TypeOK
  <2>8. \A o \in sessions' : o.email \in users' /\ issued'[o.id] \in inbox'[o.email]
    BY <2>1, <2>2, <2>5, <2>6, <2>7 DEF Accounts, SessionsOfMailboxOwner
  <2>9. \A q \in Request : requests'[q].step = "session" => requests'[q].email \in users'
    BY <2>1, <2>3, Small DEF Accounts
  <2> QED BY <2>8, <2>9 DEF Accounts, SessionsOfMailboxOwner
<1>12. CASE Rest \/ UNCHANGED vars
  BY <1>2, <1>12, Fading, Small DEF Fades, Accounts
<1> QED BY <1>3, <1>4, <1>5, <1>6, <1>7, <1>8, <1>9, <1>10, <1>11, <1>12 DEF Next, Handle, Rest

Founding(r) == requests[r].step \in {"lookup", "save"}

LEMMA FoundedStep == ASSUME Inv, [Next]_vars PROVE Founded'
<1> USE DEF Inv, Others
<1>1. \A e \in Email : inbox[e] \subseteq inbox'[e]
  BY Filling
<1>2. ASSUME newcomers' = newcomers, consumed' = consumed, users' = users,
             \A q \in Request : Founding(q)' => requests'[q] = requests[q]
      PROVE  Founded'
  BY <1>1, <1>2, Typed DEF Founded, Founding
<1>3. ASSUME NEW r \in Request, NEW e \in Email, RequestLink(r, e) PROVE Founded'
  <2>1. UNCHANGED <<newcomers, consumed, users>>
    BY <1>3 DEF RequestLink, tables
  <2> QED BY <1>2, <1>3, <2>1, Requested DEF Founding
<1>4. ASSUME NEW r \in Request, StoreToken(r) PROVE Founded'
  <2>1. UNCHANGED <<newcomers, consumed, users>>
    BY <1>4 DEF StoreToken
  <2> QED BY <1>2, <1>4, <2>1, Stored DEF Founding
<1>5. ASSUME NEW r \in Request, SendMail(r) \/ MailFails(r) PROVE Founded'
  <2>1. UNCHANGED <<newcomers, consumed, users>>
    BY <1>5 DEF SendMail, MailFails, tables, history, verdicts
  <2> QED BY <1>2, <1>5, <2>1, Mailed, Small DEF Founding
<1>6. ASSUME NEW r \in Request, NEW e \in Email, NEW l \in Link, FollowLink(r, e, l) PROVE Founded'
  <2>1. UNCHANGED <<newcomers, consumed, users>>
    BY <1>6 DEF FollowLink, tables, history, verdicts
  <2> QED BY <1>2, <1>6, <2>1, Followed DEF Founding
<1>7. ASSUME NEW r \in Request, ConsumeToken(r) PROVE Founded'
  <2>1. UNCHANGED <<newcomers, users>>
    BY <1>7 DEF ConsumeToken
  <2>2. PICK t \in tokens :
           /\ ~t.used /\ consumed' = consumed \cup {t.link}
           /\ requests'[r].step = "lookup" /\ requests'[r].link = t.link
           /\ \A q \in Request \ {r} : requests'[q] = requests[q]
    BY <1>7, Consumed
  <2>3. t.link \notin newcomers
    BY <2>2 DEF Rows, Founded
  <2>4. \A q \in Request : Founding(q)' =>
          requests'[q].link = t.link \/ (Founding(q) /\ requests'[q].link = requests[q].link)
    BY <2>2 DEF Founding
  <2>5. \A e \in users' : \E w \in newcomers' :
          w \in inbox'[e] /\ \A q \in Request : Founding(q)' => requests'[q].link # w
    BY <1>1, <2>1, <2>3, <2>4, Typed DEF Founded, Founding
  <2>6. \A q \in Request : requests'[q].step = "save" => requests'[q].link \in newcomers'
    BY <2>1, <2>2 DEF Founded
  <2>7. newcomers' \subseteq consumed'
    BY <2>1, <2>2 DEF Founded
  <2> QED BY <2>5, <2>6, <2>7 DEF Founded, Founding
<1>8. ASSUME NEW r \in Request, RefuseToken(r) PROVE Founded'
  <2>1. UNCHANGED <<newcomers, consumed, users>>
    BY <1>8 DEF RefuseToken, tables
  <2> QED BY <1>2, <1>8, <2>1, Refused, Small DEF Founding
<1>9. ASSUME NEW r \in Request, LookUpUser(r) PROVE Founded'
  <2>1. UNCHANGED <<consumed, users>>
    BY <1>9 DEF LookUpUser, tables
  <2>2. /\ requests[r].step = "lookup" /\ requests'[r].link = requests[r].link
        /\ \A q \in Request \ {r} : requests'[q] = requests[q]
        /\ \/ requests'[r].step = "session" /\ newcomers' = newcomers
           \/ requests'[r].step = "save" /\ newcomers' = newcomers \cup {requests[r].link}
    BY <1>9, LookedUp
  <2>3. requests[r].link \in consumed
    BY <2>2 DEF Hands, Held
  <2>4. \A q \in Request : Founding(q)' => Founding(q) /\ requests'[q].link = requests[q].link
    BY <2>2 DEF Founding
  <2>5. newcomers' \subseteq consumed'
    BY <2>1, <2>2, <2>3 DEF Founded
  <2>6. \A q \in Request : requests'[q].step = "save" => requests'[q].link \in newcomers'
    BY <2>2 DEF Founded
  <2>7. \A e \in users' : \E t \in newcomers' :
          t \in inbox'[e] /\ \A q \in Request : Founding(q)' => requests'[q].link # t
    BY <1>1, <2>1, <2>2, <2>4, Typed DEF Founded, Founding
  <2> QED BY <2>5, <2>6, <2>7 DEF Founded, Founding
<1>10. ASSUME NEW r \in Request, SaveUser(r) PROVE Founded'
  <2>1. UNCHANGED <<newcomers, consumed, inbox>>
    BY <1>10 DEF SaveUser, history, verdicts
  <2>2. /\ requests[r].step = "save" /\ requests'[r].step = "session"
        /\ \A q \in Request \ {r} : requests'[q] = requests[q]
        /\ users' = users \cup {requests[r].email}
    BY <1>10, Saved
  <2>3. \A q \in Request : Founding(q)' => q # r /\ Founding(q) /\ requests'[q] = requests[q]
    BY <2>2 DEF Founding
  <2>4. /\ requests[r].link \in newcomers /\ requests[r].link \in inbox[requests[r].email]
        /\ \A q \in Request : Founding(q)' => requests'[q].link # requests[r].link
    BY <2>2, <2>3 DEF Founded, Boxes, Hands, Held, Founding
  <2>5. \A e \in users' : \E t \in newcomers :
          t \in inbox[e] /\ \A q \in Request : Founding(q)' => requests'[q].link # t
    BY <2>2, <2>3, <2>4 DEF Founded, Founding
  <2>6. \A q \in Request : requests'[q].step = "save" => requests'[q].link \in newcomers
    BY <2>3 DEF Founded, Founding
  <2> QED BY <2>1, <2>5, <2>6 DEF Founded, Founding
<1>11. ASSUME NEW r \in Request, CreateSession(r) PROVE Founded'
  <2>1. UNCHANGED <<newcomers, consumed, users>>
    BY <1>11 DEF CreateSession
  <2> QED BY <1>2, <1>11, <2>1, Created, Small DEF Founding
<1>12. CASE Rest \/ UNCHANGED vars
  BY <1>2, <1>12, Fading, Small DEF Fades, Founding
<1> QED BY <1>3, <1>4, <1>5, <1>6, <1>7, <1>8, <1>9, <1>10, <1>11, <1>12 DEF Next, Handle, Rest

\* A dead row stays dead: the clock only moves forward.
LEMMA Dying ==
  ASSUME TypeOK, Rest \/ UNCHANGED vars
  PROVE  \A row \in tokens \cup sessions : Live(row)' => Live(row)
<1>1. \A row \in tokens \cup sessions : row.expires \in Nat
  BY DEF TypeOK, Token
<1>2. now' = now \/ now' = now + 1
  BY DEF Rest, SaveUserRejected, StatementFails, Authenticate, AuthenticateFails, Logout, LogoutFails,
         Cleanup, CleanupFails, DeleteExpiredAuthTokens, DeleteExpiredSessions, Tick, Restart, vars
<1>3. now \in Nat
  BY DEF TypeOK, Time
<1> QED BY <1>1, <1>2, <1>3 DEF Live

\* Of the sessions that are valid, only misjudged ones were refused.
Judged == \A v \in ValidSessions : v.id \in refusedSessions => v.id \in misjudged

LEMMA JudgedStep ==
  ASSUME TypeOK, Judged, Rest \/ UNCHANGED vars
  PROVE  Judged'
<1>1. ValidSessions' \subseteq ValidSessions
  BY Fading, Dying DEF Fades, ValidSessions
<1>2. ASSUME UNCHANGED <<refusedSessions, misjudged>> PROVE Judged'
  BY <1>1, <1>2 DEF Judged
<1>3. ASSUME NEW s, RefuseSession(s), \A v \in ValidSessions' : v.id # s PROVE Judged'
  BY <1>1, <1>3 DEF Judged, RefuseSession
<1>4. ASSUME NEW s, RefuseByFault(s) PROVE Judged'
  BY <1>1, <1>4 DEF Judged, RefuseByFault
<1>5. ASSUME NEW s, DeleteSession(s) PROVE \A v \in ValidSessions' : v.id # s
  BY <1>5 DEF DeleteSession, ValidSessions
<1>6. ASSUME NEW s \in cookies, Authenticate(s) PROVE Judged'
  <2>1. CASE \E v \in ValidSessions : v.id = s
    <3>1. UNCHANGED <<refusedSessions, misjudged>>
      BY <1>6, <2>1, Zenon DEF Authenticate
    <3> QED BY <1>2, <3>1
  <2>2. CASE \A v \in ValidSessions : v.id # s
    <3>1. RefuseSession(s)
      BY <1>6, <2>2, Zenon DEF Authenticate
    <3> QED BY <1>1, <1>3, <2>2, <3>1
  <2> QED BY <2>1, <2>2
<1>7. ASSUME NEW s \in cookies, AuthenticateFails(s) PROVE Judged'
  BY <1>4, <1>7 DEF AuthenticateFails
<1>8. ASSUME NEW s \in cookies, Logout(s) PROVE Judged'
  BY <1>3, <1>5, <1>8 DEF Logout
<1>9. ASSUME NEW s \in cookies, LogoutFails(s) PROVE Judged'
  BY <1>3, <1>4, <1>5, <1>9 DEF LogoutFails
<1>10. ASSUME NEW r \in Request, SaveUserRejected(r) \/ StatementFails(r) PROVE Judged'
  BY <1>2, <1>10 DEF SaveUserRejected, StatementFails, history, verdicts
<1>11. CASE Cleanup \/ CleanupFails \/ Tick \/ Restart \/ UNCHANGED vars
  BY <1>2, <1>11 DEF Cleanup, CleanupFails, DeleteExpiredAuthTokens, DeleteExpiredSessions, Tick,
         Restart, vars, history, verdicts
<1> QED BY <1>6, <1>7, <1>8, <1>9, <1>10, <1>11 DEF Rest

LEMMA RefusedStep == ASSUME Inv, [Next]_vars PROVE RefusedForGood'
<1> USE DEF Inv, Others
<1>1. ASSUME UsableTokens' \subseteq UsableTokens, refusedLinks' = refusedLinks,
             ValidSessions' \subseteq ValidSessions, UNCHANGED <<refusedSessions, misjudged>>
      PROVE  RefusedForGood'
  BY <1>1 DEF RefusedForGood
<1>2. ASSUME NEW r \in Request, NEW e \in Email, RequestLink(r, e) PROVE RefusedForGood'
  BY <1>1, <1>2 DEF RequestLink, tables, verdicts, UsableTokens, ValidSessions, Live
<1>3. ASSUME NEW r \in Request, StoreToken(r) PROVE RefusedForGood'
  <2>1. UNCHANGED <<now, users, sessions, refusedLinks, refusedSessions, misjudged>>
    BY <1>3 DEF StoreToken, verdicts
  <2>2. PICK n : n.link = requests[r].link /\ tokens' \subseteq tokens \cup {n}
    BY <1>3, Stored
  <2>3. requests[r].link \notin refusedLinks
    BY <1>3, Stored DEF Fresh, Seen
  <2>4. UsableTokens' \subseteq UsableTokens \cup {n} /\ ValidSessions' = ValidSessions
    BY <2>1, <2>2 DEF UsableTokens, ValidSessions, Live
  <2> QED BY <2>1, <2>2, <2>3, <2>4 DEF RefusedForGood
<1>4. ASSUME NEW r \in Request, SendMail(r) \/ MailFails(r) PROVE RefusedForGood'
  BY <1>1, <1>4 DEF SendMail, MailFails, tables, history, verdicts, UsableTokens, ValidSessions, Live
<1>5. ASSUME NEW r \in Request, NEW e \in Email, NEW l \in Link, FollowLink(r, e, l) PROVE RefusedForGood'
  BY <1>1, <1>5 DEF FollowLink, tables, history, verdicts, UsableTokens, ValidSessions, Live
<1>6. ASSUME NEW r \in Request, ConsumeToken(r) PROVE RefusedForGood'
  <2>1. UNCHANGED <<now, users, sessions, refusedLinks, refusedSessions, misjudged>>
    BY <1>6 DEF ConsumeToken, verdicts
  <2>2. PICK u : u.used /\ tokens' \subseteq tokens \cup {u}
    BY <1>6, Consumed
  <2>3. UsableTokens' \subseteq UsableTokens /\ ValidSessions' = ValidSessions
    BY <2>1, <2>2 DEF UsableTokens, ValidSessions, Live
  <2> QED BY <1>1, <2>1, <2>3
<1>7. ASSUME NEW r \in Request, RefuseToken(r) PROVE RefusedForGood'
  <2>1. UNCHANGED <<now, users, tokens, sessions, refusedSessions, misjudged>>
    BY <1>7 DEF RefuseToken, tables, verdicts
  <2>2. UsableTokens' = UsableTokens /\ ValidSessions' = ValidSessions
    BY <2>1 DEF UsableTokens, ValidSessions, Live
  <2>3. \A t \in UsableTokens : t.link # requests[r].link
    BY <1>7 DEF RefuseToken, Consumable
  <2> QED BY <1>7, <2>1, <2>2, <2>3, Refused DEF RefusedForGood
<1>8. ASSUME NEW r \in Request, LookUpUser(r) PROVE RefusedForGood'
  BY <1>1, <1>8 DEF LookUpUser, tables, verdicts, UsableTokens, ValidSessions, Live
<1>9. ASSUME NEW r \in Request, SaveUser(r) PROVE RefusedForGood'
  <2>1. UNCHANGED <<now, tokens, sessions, refusedLinks, refusedSessions, misjudged>>
    BY <1>9 DEF SaveUser, history, verdicts
  <2>2. UsableTokens' = UsableTokens /\ ValidSessions' \subseteq ValidSessions
    BY <2>1 DEF UsableTokens, ValidSessions, Live, Accounts, SessionsOfMailboxOwner
  <2> QED BY <1>1, <2>1, <2>2
<1>10. ASSUME NEW r \in Request, CreateSession(r) PROVE RefusedForGood'
  <2>1. UNCHANGED <<now, users, tokens, refusedLinks, refusedSessions, misjudged>>
    BY <1>10 DEF CreateSession, verdicts
  <2>2. PICK s : s.id = Len(issued) + 1 /\ sessions' = sessions \cup {s}
    BY <1>10, Created
  <2>3. s.id \notin refusedSessions
    <3>1. Len(issued) \in Nat /\ refusedSessions \subseteq 1..Len(issued)
      BY DEF TypeOK
    <3> QED BY <2>2, <3>1
  <2>4. UsableTokens' = UsableTokens /\ ValidSessions' \subseteq ValidSessions \cup {s}
    BY <2>1, <2>2 DEF UsableTokens, ValidSessions, Live
  <2> QED BY <2>1, <2>3, <2>4 DEF RefusedForGood
<1>11. CASE Rest \/ UNCHANGED vars
  <2>1. UsableTokens' \subseteq UsableTokens /\ ValidSessions' \subseteq ValidSessions
        /\ refusedLinks' = refusedLinks
    BY <1>11, Fading, Dying DEF Fades, UsableTokens, ValidSessions
  <2>2. Judged'
    BY <1>11, JudgedStep DEF RefusedForGood, Judged
  <2> QED BY <2>1, <2>2 DEF RefusedForGood, Judged
<1> QED BY <1>2, <1>3, <1>4, <1>5, <1>6, <1>7, <1>8, <1>9, <1>10, <1>11 DEF Next, Handle, Rest

Strayed(l) == l \in newcomers /\ \E t \in newcomers \ {l}, e \in users : {l, t} \subseteq inbox[e]
Ended(l) == l \in Range(issued) \cup hindered \/ Strayed(l)

\* The last property of a link that was consumed, with its alternatives named.
LEMMA Ways == LinkLostOnlyByFault <=> \A l \in consumed : Ended(l) \/ InHand(l)
BY DEF LinkLostOnlyByFault, Ended, Strayed

LEMMA LostStep == ASSUME Inv, [Next]_vars PROVE LinkLostOnlyByFault'
<1> USE DEF Inv, Others
<1>1. \A e \in Email : inbox[e] \subseteq inbox'[e]
  BY Filling
<1>2. ASSUME newcomers \subseteq newcomers', users \subseteq users'
      PROVE  \A l : Strayed(l) => Strayed(l)'
  <2> SUFFICES ASSUME NEW l, Strayed(l) PROVE Strayed(l)'
    OBVIOUS
  <2>1. PICK t \in newcomers \ {l}, e \in users : {l, t} \subseteq inbox[e]
    BY DEF Strayed
  <2>2. e \in users' /\ {l, t} \subseteq inbox'[e]
    BY <1>1, <1>2, <2>1, Typed
  <2>3. l \in newcomers' /\ t \in newcomers' \ {l}
    BY <1>2, <2>1 DEF Strayed
  <2> QED BY <2>2, <2>3 DEF Strayed
<1>3. ASSUME newcomers \subseteq newcomers', users \subseteq users', hindered \subseteq hindered',
             Range(issued) \subseteq Range(issued)', consumed' = consumed,
             \A q \in Request : \A l : Held(q) /\ requests[q].link = l =>
               (Held(q)' /\ requests'[q].link = l) \/ Ended(l)'
      PROVE  LinkLostOnlyByFault'
  <2>1. \A l : Ended(l) => Ended(l)'
    BY <1>2, <1>3 DEF Ended
  <2>2. ASSUME NEW l \in consumed, InHand(l) PROVE Ended(l)' \/ InHand(l)'
    BY <1>3, <2>2 DEF InHand, Held
  <2>3. \A l \in consumed' : Ended(l)' \/ InHand(l)'
    BY <1>3, <2>1, <2>2, Ways
  <2> QED BY <2>3 DEF LinkLostOnlyByFault, Ended, Strayed
<1>4. ASSUME NEW r \in Request, NEW e \in Email, RequestLink(r, e) PROVE LinkLostOnlyByFault'
  <2>1. UNCHANGED <<newcomers, users, hindered, issued, consumed>>
    BY <1>4 DEF RequestLink, tables
  <2>2. ~Held(r)
    BY <1>4, Small DEF RequestLink, Held
  <2> QED BY <1>3, <1>4, <2>1, <2>2, Requested DEF Held
<1>5. ASSUME NEW r \in Request, StoreToken(r) PROVE LinkLostOnlyByFault'
  <2>1. UNCHANGED <<newcomers, users, hindered, issued, consumed>>
    BY <1>5 DEF StoreToken
  <2> QED BY <1>3, <1>5, <2>1, Stored DEF Held
<1>6. ASSUME NEW r \in Request, SendMail(r) \/ MailFails(r) PROVE LinkLostOnlyByFault'
  <2>1. UNCHANGED <<newcomers, users, hindered, issued, consumed>>
    BY <1>6 DEF SendMail, MailFails, tables, history, verdicts
  <2> QED BY <1>3, <1>6, <2>1, Mailed DEF Held
<1>7. ASSUME NEW r \in Request, NEW e \in Email, NEW l \in Link, FollowLink(r, e, l)
      PROVE  LinkLostOnlyByFault'
  <2>1. UNCHANGED <<newcomers, users, hindered, issued, consumed>>
    BY <1>7 DEF FollowLink, tables, history, verdicts
  <2> QED BY <1>3, <1>7, <2>1, Followed DEF Held
<1>8. ASSUME NEW r \in Request, ConsumeToken(r) PROVE LinkLostOnlyByFault'
  <2>1. UNCHANGED <<newcomers, users, hindered, issued>>
    BY <1>8 DEF ConsumeToken
  <2>2. PICK t \in tokens :
           /\ consumed' = consumed \cup {t.link} /\ requests[r].step = "consume"
           /\ requests'[r].step = "lookup" /\ requests'[r].link = t.link
           /\ \A q \in Request \ {r} : requests'[q] = requests[q]
    BY <1>8, Consumed
  <2>3. \A l : Ended(l) => Ended(l)'
    BY <1>2, <2>1 DEF Ended
  <2>4. \A l : InHand(l) => InHand(l)'
    BY <2>2 DEF InHand
  <2>5. InHand(t.link)'
    BY <2>2 DEF InHand
  <2>6. \A l \in consumed' : Ended(l)' \/ InHand(l)'
    BY <2>2, <2>3, <2>4, <2>5, Ways
  <2> QED BY <2>6 DEF LinkLostOnlyByFault, Ended, Strayed
<1>9. ASSUME NEW r \in Request, RefuseToken(r) PROVE LinkLostOnlyByFault'
  <2>1. UNCHANGED <<newcomers, users, hindered, issued, consumed>>
    BY <1>9 DEF RefuseToken, tables
  <2> QED BY <1>3, <1>9, <2>1, Refused DEF Held
<1>10. ASSUME NEW r \in Request, LookUpUser(r) PROVE LinkLostOnlyByFault'
  <2>1. UNCHANGED <<users, hindered, issued, consumed>>
    BY <1>10 DEF LookUpUser, tables
  <2> QED BY <1>3, <1>10, <2>1, LookedUp DEF Held
<1>11. ASSUME NEW r \in Request, SaveUser(r) PROVE LinkLostOnlyByFault'
  <2>1. UNCHANGED <<newcomers, hindered, issued, consumed>>
    BY <1>11 DEF SaveUser, history, verdicts
  <2> QED BY <1>3, <1>11, <2>1, Saved DEF Held
<1>12. ASSUME NEW r \in Request, SaveUserRejected(r) PROVE LinkLostOnlyByFault'
  <2>1. /\ UNCHANGED <<newcomers, users, hindered, issued, consumed, inbox>>
        /\ requests[r].step = "save" /\ requests[r].email \in users
    BY <1>12 DEF SaveUserRejected, tables, history, verdicts
  <2>2. \A q \in Request \ {r} : requests'[q] = requests[q]
    BY <1>12, Answered DEF SaveUserRejected
  <2>3. /\ requests[r].link \in newcomers
        /\ requests[r].link \in inbox[requests[r].email]
    BY <2>1 DEF Founded, Boxes, Held
  <2>4. \E t \in newcomers : t \in inbox[requests[r].email] /\ requests[r].link # t
    BY <2>1 DEF Founded
  <2>5. \A l : l = requests[r].link => Strayed(l)'
    BY <2>1, <2>3, <2>4 DEF Strayed
  <2> QED BY <1>3, <2>1, <2>2, <2>5 DEF Held, Ended
<1>13. ASSUME NEW r \in Request, CreateSession(r) PROVE LinkLostOnlyByFault'
  <2>1. UNCHANGED <<newcomers, users, hindered, consumed>>
    BY <1>13 DEF CreateSession
  <2>2. /\ requests[r].step = "session" /\ requests[r].link \in Link /\ issued \in Seq(Link)
        /\ issued' = Append(issued, requests[r].link)
        /\ \A q \in Request \ {r} : requests'[q] = requests[q]
    BY <1>13, Created DEF TypeOK
  <2>3. requests[r].link \notin Range(issued)
    BY <2>2 DEF Hands, Held
  <2>4. Range(issued') = Range(issued) \cup {requests[r].link}
    BY <2>2, <2>3, Appended
  <2>5. \A l : l = requests[r].link => Ended(l)'
    BY <2>4 DEF Ended
  <2> QED BY <1>3, <2>1, <2>2, <2>4, <2>5 DEF Held
<1>14. ASSUME NEW r \in Request, StatementFails(r) PROVE LinkLostOnlyByFault'
  <2>1. /\ UNCHANGED <<newcomers, users, issued, consumed>>
        /\ hindered' = hindered \cup {requests[r].link}
    BY <1>14 DEF StatementFails, tables
  <2>2. \A q \in Request \ {r} : requests'[q] = requests[q]
    BY <1>14, Answered DEF StatementFails
  <2>3. \A l : l = requests[r].link => Ended(l)'
    BY <2>1 DEF Ended
  <2> QED BY <1>3, <2>1, <2>2, <2>3 DEF Held
<1>15. ASSUME UNCHANGED <<newcomers, users, hindered, issued, consumed, requests>>
       PROVE  LinkLostOnlyByFault'
  BY <1>3, <1>15 DEF Held
<1>16. ASSUME NEW s \in cookies, Authenticate(s) \/ AuthenticateFails(s) \/ Logout(s) \/ LogoutFails(s)
       PROVE  LinkLostOnlyByFault'
  BY <1>15, <1>16 DEF Authenticate, AuthenticateFails, Logout, LogoutFails, tables, history, verdicts
<1>17. CASE Cleanup \/ CleanupFails \/ Tick \/ UNCHANGED vars
  BY <1>15, <1>17 DEF Cleanup, CleanupFails, Tick, DeleteExpiredAuthTokens, DeleteExpiredSessions,
         vars, tables, history, verdicts
<1>18. CASE Restart
  <2>1. UNCHANGED <<newcomers, users, issued, consumed>>
    BY <1>18 DEF Restart, tables
  <2>2. /\ hindered \subseteq hindered'
        /\ \A q \in Request : requests[q].link # NoLink => requests[q].link \in hindered'
    BY <1>18 DEF Restart
  <2>3. \A q \in Request : Held(q) => requests[q].link \in Link
    BY DEF Hands, TypeOK
  <2>4. \A q \in Request : \A l : Held(q) /\ requests[q].link = l => Ended(l)'
    BY <2>2, <2>3 DEF Ended, Link, NoLink
  <2> QED BY <1>3, <2>1, <2>2, <2>4
<1> QED BY <1>4, <1>5, <1>6, <1>7, <1>8, <1>9, <1>10, <1>11, <1>12, <1>13, <1>14, <1>16, <1>17, <1>18
        DEF Next, Handle

\* The clock does not go back.
LEMMA Clock == ASSUME TypeOK, [Next]_vars PROVE now' \in Nat /\ now \in Nat /\ now <= now'
<1>1. now \in Nat
  BY DEF TypeOK, Time
<1>2. now' = now \/ now' = now + 1
  BY DEF Next, Handle, RequestLink, FollowLink, StoreToken, SendMail, MailFails, ConsumeToken, RefuseToken,
         LookUpUser, SaveUser, SaveUserRejected, CreateSession, StatementFails, Authenticate,
         AuthenticateFails, Logout, LogoutFails, Cleanup, CleanupFails, DeleteExpiredAuthTokens,
         DeleteExpiredSessions, Tick, Restart, vars
<1> QED BY <1>1, <1>2

LEMMA KeptLinksStep == ASSUME Inv, [Next]_vars PROVE KeptLinks'
<1> USE DEF Inv
<1>1. now' \in Nat /\ now \in Nat /\ now <= now' /\ \A e \in Email : deadline[e] \in Nat
  BY Clock DEF TypeOK
<1>2. ASSUME UNCHANGED <<newest, deadline>>, consumed \subseteq consumed',
             \A t \in tokens : ~t.used /\ t.expires > now /\ t.link \notin consumed' => t \in tokens'
      PROVE  KeptLinks'
  <2> SUFFICES ASSUME NEW e \in Email, newest[e] \notin consumed' \cup {0}, now' < deadline[e]
               PROVE  \E t \in tokens' : ~t.used /\ t.link = newest[e] /\ t.email = e /\ t.expires = deadline[e]
    BY <1>2 DEF KeptLinks
  <2>1. now < deadline[e]
    BY <1>1
  <2>2. PICK t \in tokens : ~t.used /\ t.link = newest[e] /\ t.email = e /\ t.expires = deadline[e]
    BY <1>2, <2>1 DEF KeptLinks
  <2>3. t \in tokens'
    BY <1>1, <1>2, <2>1, <2>2
  <2> QED BY <2>2, <2>3
<1>3. ASSUME NEW r \in Request, StoreToken(r) PROVE KeptLinks'
  <2> DEFINE a == requests[r].email
  <2>1. consumed' = consumed
    BY <1>3 DEF StoreToken
  <2>2. PICK n : /\ n.link = requests[r].link /\ n.email = a /\ ~n.used /\ n.expires = requests[r].expires
                 /\ tokens' = (tokens \ Superseded(a)) \cup {n}
    BY <1>3, Stored
  <2>3. /\ a \in Email /\ newest'[a] = requests[r].link /\ deadline'[a] = requests[r].expires
        /\ \A e \in Email \ {a} : newest'[e] = newest[e] /\ deadline'[e] = deadline[e]
    BY <1>3, Stored DEF TypeOK
  <2> HIDE DEF a
  <2> SUFFICES ASSUME NEW e \in Email, newest'[e] \notin consumed \cup {0}, now' < deadline'[e]
               PROVE  \E t \in tokens' : ~t.used /\ t.link = newest'[e] /\ t.email = e /\ t.expires = deadline'[e]
    BY <2>1 DEF KeptLinks
  <2>4. CASE e = a
    BY <2>2, <2>3, <2>4
  <2>5. CASE e # a
    <3>1. now < deadline[e]
      BY <1>1, <2>3, <2>5
    <3>2. PICK t \in tokens : ~t.used /\ t.link = newest[e] /\ t.email = e /\ t.expires = deadline[e]
      BY <2>3, <2>5, <3>1 DEF KeptLinks
    <3>3. t \in tokens'
      BY <2>2, <2>5, <3>2 DEF Superseded
    <3> QED BY <2>3, <2>5, <3>2, <3>3
  <2> QED BY <2>4, <2>5
<1>4. ASSUME NEW r \in Request, ConsumeToken(r) PROVE KeptLinks'
  <2>1. UNCHANGED <<newest, deadline>>
    BY <1>4 DEF ConsumeToken
  <2> QED BY <1>2, <1>4, <2>1, Consumed
<1>5. ASSUME UNCHANGED <<tokens, newest, deadline, consumed>> PROVE KeptLinks'
  BY <1>2, <1>5
<1>6. CASE DeleteExpiredAuthTokens
  <2>1. \A t \in tokens : ~t.used /\ t.expires > now => t \in tokens'
    BY <1>6 DEF DeleteExpiredAuthTokens, Live
  <2>2. UNCHANGED <<newest, deadline, consumed>>
    BY <1>6 DEF DeleteExpiredAuthTokens, history
  <2> QED BY <1>2, <2>1, <2>2
<1>7. ASSUME NEW r \in Request,
             \/ \E e \in Email : RequestLink(r, e) \/ \E l \in Link : FollowLink(r, e, l)
             \/ SendMail(r) \/ MailFails(r) \/ RefuseToken(r) \/ LookUpUser(r) \/ SaveUser(r)
             \/ SaveUserRejected(r) \/ CreateSession(r) \/ StatementFails(r)
      PROVE  KeptLinks'
  <2>1. UNCHANGED <<tokens, newest, deadline, consumed>>
    BY <1>7 DEF RequestLink, FollowLink, SendMail, MailFails, RefuseToken, LookUpUser, SaveUser,
           SaveUserRejected, CreateSession, StatementFails, tables, history
  <2> QED BY <1>5, <2>1
<1>8. CASE \/ \E s \in cookies : Authenticate(s) \/ AuthenticateFails(s) \/ Logout(s) \/ LogoutFails(s)
           \/ DeleteExpiredSessions \/ CleanupFails \/ Tick \/ Restart \/ UNCHANGED vars
  <2>1. UNCHANGED <<tokens, newest, deadline, consumed>>
    BY <1>8 DEF Authenticate, AuthenticateFails, Logout, LogoutFails, DeleteSession,
           DeleteExpiredSessions, CleanupFails, Tick, Restart, vars, tables, history
  <2> QED BY <1>5, <2>1
<1> QED BY <1>3, <1>4, <1>6, <1>7, <1>8 DEF Next, Handle, Cleanup

LEMMA KeptSessionsStep == ASSUME Inv, [Next]_vars PROVE KeptSessions'
<1> USE DEF Inv
<1>1. /\ now' \in Nat /\ now \in Nat /\ now <= now'
      /\ Len(issued) \in Nat /\ ends \in [1..Len(issued) -> Nat]
  BY Clock DEF TypeOK
<1>2. ASSUME UNCHANGED <<issued, ends>>, loggedOut \subseteq loggedOut',
             \A s \in sessions : s.expires > now => s \in sessions' \/ s.id \in loggedOut'
      PROVE  KeptSessions'
  <2> SUFFICES ASSUME NEW i \in 1..Len(issued), now' < ends[i], i \notin loggedOut'
               PROVE  \E s \in sessions' : s.id = i /\ s.expires = ends[i]
    BY <1>2 DEF KeptSessions
  <2>1. ends[i] \in Nat /\ now < ends[i]
    BY <1>1
  <2>2. PICK s \in sessions : s.id = i /\ s.expires = ends[i]
    BY <1>2, <2>1 DEF KeptSessions
  <2>3. s \in sessions'
    BY <1>1, <1>2, <2>1, <2>2
  <2> QED BY <2>2, <2>3
<1>3. ASSUME NEW r \in Request, CreateSession(r) PROVE KeptSessions'
  <2>1. PICK s : s.id = Len(issued) + 1 /\ s.expires = now + SessionAge /\ sessions' = sessions \cup {s}
    BY <1>3, Created
  <2>2. ends' = Append(ends, now + SessionAge) /\ loggedOut' = loggedOut /\ issued' = Append(issued, requests[r].link)
    BY <1>3 DEF CreateSession, verdicts
  <2>3. Len(issued') = Len(issued) + 1
    BY <2>2 DEF TypeOK
  <2>4. ends'[Len(issued) + 1] = now + SessionAge /\ \A i \in 1..Len(issued) : ends'[i] = ends[i]
    BY <1>1, <2>2, Extended
  <2> SUFFICES ASSUME NEW i \in 1..(Len(issued) + 1), now' < ends'[i], i \notin loggedOut
               PROVE  \E o \in sessions' : o.id = i /\ o.expires = ends'[i]
    BY <2>2, <2>3 DEF KeptSessions
  <2>5. CASE i = Len(issued) + 1
    BY <2>1, <2>4, <2>5
  <2>6. CASE i \in 1..Len(issued)
    <3>1. ends'[i] = ends[i] /\ ends[i] \in Nat
      BY <1>1, <2>4, <2>6
    <3>2. now < ends[i]
      BY <1>1, <3>1
    <3> QED BY <2>1, <2>6, <3>1, <3>2 DEF KeptSessions
  <2> QED BY <1>1, <2>5, <2>6
<1>4. ASSUME UNCHANGED <<sessions, issued, ends, loggedOut>> PROVE KeptSessions'
  BY <1>2, <1>4
<1>5. CASE DeleteExpiredSessions
  <2>1. \A s \in sessions : s.expires > now => s \in sessions'
    BY <1>5 DEF DeleteExpiredSessions, Live
  <2>2. UNCHANGED <<issued, ends, loggedOut>>
    BY <1>5 DEF DeleteExpiredSessions, history, verdicts
  <2> QED BY <1>2, <2>1, <2>2
<1>6. ASSUME NEW i \in cookies, DeleteSession(i), UNCHANGED <<issued, ends>> PROVE KeptSessions'
  BY <1>2, <1>6 DEF DeleteSession
<1>7. ASSUME NEW i \in cookies, Logout(i) \/ LogoutFails(i) PROVE KeptSessions'
  BY <1>4, <1>6, <1>7 DEF Logout, LogoutFails
<1>8. ASSUME NEW r \in Request,
             \/ \E e \in Email : RequestLink(r, e) \/ \E l \in Link : FollowLink(r, e, l)
             \/ StoreToken(r) \/ SendMail(r) \/ MailFails(r) \/ ConsumeToken(r) \/ RefuseToken(r)
             \/ LookUpUser(r) \/ SaveUser(r) \/ SaveUserRejected(r) \/ StatementFails(r)
      PROVE  KeptSessions'
  <2>1. UNCHANGED <<sessions, issued, ends, loggedOut>>
    BY <1>8 DEF RequestLink, FollowLink, StoreToken, SendMail, MailFails, ConsumeToken, RefuseToken,
           LookUpUser, SaveUser, SaveUserRejected, StatementFails, tables, history, verdicts
  <2> QED BY <1>4, <2>1
<1>9. CASE \/ \E s \in cookies : Authenticate(s) \/ AuthenticateFails(s)
           \/ DeleteExpiredAuthTokens \/ CleanupFails \/ Tick \/ Restart \/ UNCHANGED vars
  <2>1. UNCHANGED <<sessions, issued, ends, loggedOut>>
    BY <1>9 DEF Authenticate, AuthenticateFails, DeleteExpiredAuthTokens, CleanupFails, Tick, Restart,
           vars, tables, history, verdicts
  <2> QED BY <1>4, <2>1
<1> QED BY <1>3, <1>5, <1>7, <1>8, <1>9 DEF Next, Handle, Cleanup

-------------------------------------------------------------------------------
(* The invariant and what follows from it *)

LEMMA InitInv == Init => Inv
<1> SUFFICES ASSUME Init PROVE Inv
  OBVIOUS
<1>1. \A r \in Request : requests[r].step = "idle" /\ requests[r].link = 0
  BY DEF Init, Idle, NoLink
<1>2. Seen = {}
  BY DEF Init, Seen
<1>3. Fresh
  BY <1>1, <1>2 DEF Init, Fresh
<1>4. Rows /\ Boxes
  BY <1>1 DEF Init, Rows, Boxes, Held
<1>5. Range(issued) = {} /\ IsInjective(issued)
  BY DEF Init, Range, IsInjective
<1>6. Hands
  BY <1>1, <1>5 DEF Init, Hands, Held
<1>7. Accounts /\ Founded
  BY <1>1 DEF Init, Accounts, Founded, SessionsOfMailboxOwner
<1>8. RefusedForGood /\ LinkLostOnlyByFault
  BY DEF Init, RefusedForGood, UsableTokens, ValidSessions, LinkLostOnlyByFault
<1>9. KeptLinks /\ KeptSessions
  BY DEF Init, KeptLinks, KeptSessions
<1> QED BY <1>3, <1>4, <1>6, <1>7, <1>8, <1>9, InitType DEF Inv

LEMMA NextInv == Inv /\ [Next]_vars => Inv'
<1> SUFFICES ASSUME Inv, [Next]_vars PROVE Inv'
  OBVIOUS
<1>1. TypeOK'
  <2>1. CASE Next
    BY <2>1, TypeStep DEF Inv
  <2>2. CASE UNCHANGED vars
    BY <2>2 DEF Inv, TypeOK, vars, tables, history, verdicts
  <2> QED BY <2>1, <2>2
<1> QED BY <1>1, FreshStep, RowsStep, HandsStep, BoxesStep, AccountsStep, FoundedStep,
           RefusedStep, LostStep, KeptLinksStep, KeptSessionsStep DEF Inv

\* The invariant holds in every reachable state.
THEOREM Invariance == Spec => []Inv
<1> QED BY InitInv, NextInv, PTL DEF Spec

\* Every variable keeps its type.
THEOREM TypeCorrect == Spec => []TypeOK
<1>1. Inv => TypeOK
  BY DEF Inv
<1> QED BY <1>1, Invariance, PTL

\* A magic link signs in once, for any number of requests, links and faults.
THEOREM SignsInOnce == Spec => []LinkSignsInOnce
<1>1. Inv => LinkSignsInOnce
  BY DEF Inv, Hands, LinkSignsInOnce
<1> QED BY <1>1, Invariance, PTL

\* Only the link stored last for an address can be used.
THEOREM NewestOnly == Spec => []OnlyNewestLinkWorks
<1>1. Inv => OnlyNewestLinkWorks
  BY DEF Inv, Rows, OnlyNewestLinkWorks, UsableTokens
<1> QED BY <1>1, Invariance, PTL

\* A session belongs to the mailbox its link was sent to.
THEOREM MailboxOwner == Spec => []SessionsOfMailboxOwner
<1>1. Inv => SessionsOfMailboxOwner
  BY DEF Inv, Accounts
<1> QED BY <1>1, Invariance, PTL

\* A link or a session that was refused is never accepted later, a session that was
\* called over only because a statement failed excepted.
THEOREM StaysRefused == Spec => []RefusedForGood
<1>1. Inv => RefusedForGood
  BY DEF Inv
<1> QED BY <1>1, Invariance, PTL

\* A consumed link ends in a session, or met a fault or the first sign-in of another.
THEOREM LostOnlyByFault == Spec => []LinkLostOnlyByFault
<1>1. Inv => LinkLostOnlyByFault
  BY DEF Inv
<1> QED BY <1>1, Invariance, PTL

(***************************************************************************)
(* The newest link of an address works until it expires or is used, and a  *)
(* session until it expires or is logged out, for any number of handlers,  *)
(* faults and restarts, and whenever the cleanup runs.                     *)
(***************************************************************************)
THEOREM Kept == Spec => []WorksUntilExpiry
<1>1. ASSUME Inv PROVE WorksUntilExpiry
  <2>1. ASSUME NEW e \in Email, newest[e] \notin consumed \cup {NoLink}, now < deadline[e]
        PROVE  \E t \in UsableTokens : t.link = newest[e] /\ t.email = e
    <3>1. PICK t \in tokens : ~t.used /\ t.link = newest[e] /\ t.email = e /\ t.expires = deadline[e]
      BY <1>1, <2>1 DEF Inv, KeptLinks, NoLink
    <3> QED BY <2>1, <3>1 DEF UsableTokens, Live, Inv
  <2>2. ASSUME NEW i \in DOMAIN ends, now < ends[i], i \notin loggedOut
        PROVE  \E s \in ValidSessions : s.id = i
    <3>1. i \in 1..Len(issued)
      BY <1>1 DEF Inv, TypeOK
    <3>2. PICK s \in sessions : s.id = i /\ s.expires = ends[i]
      BY <1>1, <2>2, <3>1 DEF Inv, KeptSessions
    <3>3. s.email \in users
      BY <1>1 DEF Inv, Accounts, SessionsOfMailboxOwner
    <3> QED BY <2>2, <3>2, <3>3 DEF ValidSessions, Live
  <2> QED BY <2>1, <2>2 DEF WorksUntilExpiry
<1> QED BY <1>1, Invariance, PTL

===============================================================================
