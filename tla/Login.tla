-------------------------------- MODULE Login ---------------------------------
(***************************************************************************)
(* The magic-link login of rekor_watch: the handlers of                    *)
(* cmd/rekor_watch/web/server.go over the tables users, auth_tokens and    *)
(* sessions of the SQLite store. A request is served by a handler that     *)
(* runs one statement after another, concurrently with the other requests  *)
(* and with the hourly cleanup. A token and the link that carries it are   *)
(* one thing (the store keeps the token's hash), and so are a session and  *)
(* its cookie. Rate limits only turn requests away (RateLimiter).          *)
(***************************************************************************)
EXTENDS Naturals, Sequences, FiniteSets, Functions

CONSTANTS
  Request,            \* the requests that can be served at the same time
  Email,              \* the addresses, trimmed and in lower case
  LinkAge,            \* how long a link is valid: 15 minutes
  SessionAge,         \* how long a session is valid: 24 hours
  MaxLinks,           \* bound on the links requested
  MaxTime,            \* bound on the clock
  MaxFaults           \* bound on failed statements, failed mails, lost answers, restarts

Link == 1..MaxLinks
NoLink == 0
Time == 0..MaxTime

ASSUME LoginAssumption ==
  /\ LinkAge \in Nat \ {0} /\ SessionAge \in Nat \ {0}
  /\ MaxLinks \in Nat /\ MaxTime \in Nat /\ MaxFaults \in Nat

VARIABLES
  now,                \* the clock
  users,              \* the addresses in the table users, whose email is UNIQUE
  tokens,             \* the table auth_tokens
  sessions,           \* the table sessions
  requests,           \* what each handler is at, and the token it works with
  cleaning,           \* is runCleanup between its two statements?
  inbox,              \* the links in the mailbox of each address
  cookies,            \* the sessions whose cookie a browser holds
  (* observations *)
  minted,             \* number of links made so far
  newest, deadline,   \* the link stored last for each address, and when it expires
  issued, ends,       \* the link of each session, in the order of creation, and when it expires
  consumed,           \* the links that were accepted
  newcomers,          \* those of them whose address had no account yet
  hindered,           \* the links whose request met a fault
  refusedLinks,       \* the links that were answered "Invalid or expired token"
  refusedSessions,    \* the sessions a browser was told are over, or that were deleted
  misjudged,          \* those of them that were told so for no reason but a failed statement
  loggedOut,          \* the sessions a logout deleted
  faults

tables == <<users, tokens, sessions>>
verdicts == <<refusedSessions, misjudged, loggedOut>>
history == <<minted, newest, deadline, issued, ends, consumed, newcomers, hindered, refusedLinks, verdicts>>
vars == <<now, tables, requests, cleaning, inbox, cookies, history, faults>>

Idle == [step |-> "idle", link |-> NoLink]
Token == [link : Link, email : Email, expires : Nat, used : BOOLEAN]
Storing == [step : {"store"}, link : Link, email : Email, expires : Nat]
Working == [step : {"mail", "consume", "lookup", "save", "session"}, link : Link, email : Email]
Handling == {Idle} \cup Storing \cup Working

TypeOK ==
  /\ now \in Time
  /\ users \in SUBSET Email
  /\ tokens \in SUBSET Token
  /\ sessions \in SUBSET [id : 1..Len(issued), email : Email, expires : Nat]
  /\ requests \in [Request -> Handling]
  /\ cleaning \in BOOLEAN
  /\ inbox \in [Email -> SUBSET Link] /\ cookies \in SUBSET (1..Len(issued))
  /\ minted \in 0..MaxLinks /\ newest \in [Email -> 0..MaxLinks]
  /\ deadline \in [Email -> Nat]
  /\ issued \in Seq(Link) /\ ends \in [1..Len(issued) -> Nat]
  /\ consumed \in SUBSET Link /\ newcomers \in SUBSET Link /\ hindered \in SUBSET Link
  /\ refusedLinks \in SUBSET Link /\ refusedSessions \in SUBSET (1..Len(issued))
  /\ misjudged \in SUBSET refusedSessions /\ loggedOut \in SUBSET refusedSessions
  /\ faults \in 0..MaxFaults

Init ==
  /\ now = 0
  /\ users = {} /\ tokens = {} /\ sessions = {}
  /\ requests = [r \in Request |-> Idle] /\ cleaning = FALSE
  /\ inbox = [e \in Email |-> {}] /\ cookies = {}
  /\ minted = 0 /\ newest = [e \in Email |-> 0] /\ deadline = [e \in Email |-> 0]
  /\ issued = <<>> /\ ends = <<>>
  /\ consumed = {} /\ newcomers = {} /\ hindered = {}
  /\ refusedLinks = {} /\ refusedSessions = {} /\ misjudged = {} /\ loggedOut = {}
  /\ faults = 0

\* Rows that count: those of links that still work and of sessions that still authenticate.
Live(row) == row.expires > now
UsableTokens == {t \in tokens : ~t.used /\ Live(t)}
ValidSessions == {s \in sessions : Live(s) /\ s.email \in users}

-------------------------------------------------------------------------------
Fault == faults < MaxFaults /\ faults' = faults + 1

Goto(r, step) == requests' = [requests EXCEPT ![r].step = step]
Answer(r) == requests' = [requests EXCEPT ![r] = Idle]

(* POST /login *)

\* handleLoginPost, up to the token and its expiry.
RequestLink(r, e) ==
  /\ requests[r] = Idle /\ minted < MaxLinks
  /\ minted' = minted + 1
  /\ requests' = [requests EXCEPT ![r] =
       [step |-> "store", link |-> minted + 1, email |-> e, expires |-> now + LinkAge]]
  /\ UNCHANGED <<now, tables, cleaning, inbox, cookies, faults>>
  /\ UNCHANGED <<newest, deadline, issued, ends, consumed, newcomers, hindered, refusedLinks, verdicts>>

\* CreateAuthToken: one transaction that replaces the address's unused tokens.
\* Mutant: only the expired ones.
SupersededExpired(e) == {t \in tokens : t.email = e /\ ~t.used /\ ~Live(t)}

Superseded(e) == {t \in tokens : t.email = e /\ ~t.used}

StoreToken(r) ==
  /\ requests[r].step = "store"
  /\ LET q == requests[r] IN
       /\ tokens' = (tokens \ Superseded(q.email)) \cup
            {[link |-> q.link, email |-> q.email, expires |-> q.expires, used |-> FALSE]}
       /\ newest' = [newest EXCEPT ![q.email] = q.link]
       /\ deadline' = [deadline EXCEPT ![q.email] = q.expires]
       /\ requests' = [requests EXCEPT ![r] =
            [step |-> "mail", link |-> q.link, email |-> q.email]]
  /\ UNCHANGED <<now, users, sessions, cleaning, inbox, cookies, faults>>
  /\ UNCHANGED <<minted, issued, ends, consumed, newcomers, hindered, refusedLinks, verdicts>>

\* smtp.Send: the address the handler was given, with the link it made.
SendMail(r) ==
  /\ requests[r].step = "mail"
  /\ inbox' = [inbox EXCEPT ![requests[r].email] = @ \cup {requests[r].link}]
  /\ Answer(r)
  /\ UNCHANGED <<now, tables, cleaning, cookies, history, faults>>

\* The server refuses the mail, or its acceptance is lost: the stored token stays.
MailFails(r) ==
  /\ requests[r].step = "mail" /\ Fault
  /\ \/ inbox' = [inbox EXCEPT ![requests[r].email] = @ \cup {requests[r].link}]
     \/ UNCHANGED inbox
  /\ Answer(r)
  /\ UNCHANGED <<now, tables, cleaning, cookies, history>>

(* POST /auth/callback; the GET only shows a page *)

\* The owner of a mailbox follows a link, perhaps twice.
FollowLink(r, e, l) ==
  /\ requests[r] = Idle /\ l \in inbox[e]
  /\ requests' = [requests EXCEPT ![r] = [step |-> "consume", link |-> l, email |-> e]]
  /\ UNCHANGED <<now, tables, cleaning, inbox, cookies, history, faults>>

\* ConsumeAuthToken: one UPDATE that finds an unused, unexpired token and marks it.
\* Mutants: a used token is accepted again; the token of another request is taken.
ConsumableAgain(l) == {t \in tokens : t.link = l /\ Live(t)}
ConsumableAny(l) == UsableTokens

Consumable(l) == {t \in UsableTokens : t.link = l}

ConsumeToken(r) ==
  /\ requests[r].step = "consume"
  /\ \E t \in Consumable(requests[r].link) :
       /\ tokens' = (tokens \ {t}) \cup {[t EXCEPT !.used = TRUE]}
       /\ requests' = [requests EXCEPT ![r] =
            [step |-> "lookup", link |-> t.link, email |-> t.email]]
       /\ consumed' = consumed \cup {t.link}
  /\ UNCHANGED <<now, users, sessions, cleaning, inbox, cookies, faults>>
  /\ UNCHANGED <<minted, newest, deadline, issued, ends, newcomers, hindered, refusedLinks, verdicts>>

\* 400: "Invalid or expired token".
RefuseToken(r) ==
  /\ requests[r].step = "consume"
  /\ Consumable(requests[r].link) = {}
  /\ refusedLinks' = refusedLinks \cup {requests[r].link}
  /\ Answer(r)
  /\ UNCHANGED <<now, tables, cleaning, inbox, cookies, faults>>
  /\ UNCHANGED <<minted, newest, deadline, issued, ends, consumed, newcomers, hindered, verdicts>>

\* Mutant: the account is always created.
LookUpNothing(r) ==
  /\ requests[r].step = "lookup" /\ Goto(r, "save")
  /\ newcomers' = IF requests[r].email \in users THEN newcomers
                  ELSE newcomers \cup {requests[r].link}
  /\ UNCHANGED <<now, tables, cleaning, inbox, cookies, faults>>
  /\ UNCHANGED <<minted, newest, deadline, issued, ends, consumed, hindered, refusedLinks, verdicts>>

\* GetUserByEmail.
LookUpUser(r) ==
  /\ requests[r].step = "lookup"
  /\ \/ requests[r].email \in users /\ Goto(r, "session") /\ UNCHANGED newcomers
     \/ /\ requests[r].email \notin users /\ Goto(r, "save")
        /\ newcomers' = newcomers \cup {requests[r].link}
  /\ UNCHANGED <<now, tables, cleaning, inbox, cookies, faults>>
  /\ UNCHANGED <<minted, newest, deadline, issued, ends, consumed, hindered, refusedLinks, verdicts>>

\* SaveUser.
SaveUser(r) ==
  /\ requests[r].step = "save" /\ requests[r].email \notin users
  /\ users' = users \cup {requests[r].email}
  /\ Goto(r, "session")
  /\ UNCHANGED <<now, tokens, sessions, cleaning, inbox, cookies, history, faults>>

\* 500: another request created the account after the lookup; the email is UNIQUE.
SaveUserRejected(r) ==
  /\ requests[r].step = "save" /\ requests[r].email \in users
  /\ Answer(r)
  /\ UNCHANGED <<now, tables, cleaning, inbox, cookies, history, faults>>

NextSession == Len(issued) + 1

\* CreateSession and the answer, whose cookie may be lost on its way to the browser.
CreateSession(r) ==
  /\ requests[r].step = "session"
  /\ LET id == NextSession IN
       /\ sessions' = sessions \cup
            {[id |-> id, email |-> requests[r].email, expires |-> now + SessionAge]}
       /\ \/ cookies' = cookies \cup {id} /\ UNCHANGED faults
          \/ UNCHANGED cookies /\ Fault
  /\ issued' = Append(issued, requests[r].link) /\ ends' = Append(ends, now + SessionAge)
  /\ Answer(r)
  /\ UNCHANGED <<now, users, tokens, cleaning, inbox>>
  /\ UNCHANGED <<minted, newest, deadline, consumed, newcomers, hindered, refusedLinks, verdicts>>

\* 500: a statement fails, or the client is gone and the context ends; nothing is undone.
StatementFails(r) ==
  /\ requests[r].step \in {"store", "consume", "lookup", "save", "session"} /\ Fault
  /\ hindered' = hindered \cup {requests[r].link}
  /\ Answer(r)
  /\ UNCHANGED <<now, tables, cleaning, inbox, cookies>>
  /\ UNCHANGED <<minted, newest, deadline, issued, ends, consumed, newcomers, refusedLinks, verdicts>>

-------------------------------------------------------------------------------
(* Requests with a session cookie *)

\* The browser is told that the session is over, and it is; or a statement failed.
RefuseSession(s) ==
  /\ refusedSessions' = refusedSessions \cup {s}
  /\ misjudged' = misjudged \ {s}

RefuseByFault(s) ==
  /\ refusedSessions' = refusedSessions \cup {s}
  /\ misjudged' = IF s \in refusedSessions THEN misjudged ELSE misjudged \cup {s}

\* authenticatedUser, behind requireAuth, the landing and login pages and the poll.
Authenticate(s) ==
  /\ s \in cookies
  /\ IF \E v \in ValidSessions : v.id = s THEN UNCHANGED <<refusedSessions, misjudged>>
     ELSE RefuseSession(s)
  /\ UNCHANGED <<now, tables, requests, cleaning, inbox, cookies, faults>>
  /\ UNCHANGED <<minted, newest, deadline, issued, ends, consumed, newcomers, hindered, refusedLinks, loggedOut>>

\* The session cannot be read, which is answered like a session that is over.
AuthenticateFails(s) ==
  /\ s \in cookies /\ Fault
  /\ RefuseByFault(s)
  /\ UNCHANGED <<now, tables, requests, cleaning, inbox, cookies>>
  /\ UNCHANGED <<minted, newest, deadline, issued, ends, consumed, newcomers, hindered, refusedLinks, loggedOut>>

\* handleLogout, behind requireAuth: the row goes, then the cookie.
Authenticated(s) == s \in cookies /\ \E v \in ValidSessions : v.id = s

DeleteSession(s) ==
  /\ sessions' = {v \in sessions : v.id # s}
  /\ loggedOut' = loggedOut \cup {s}

\* Mutant: only the cookie goes.
LogoutOfBrowser(s) ==
  /\ Authenticated(s)
  /\ cookies' = cookies \ {s} /\ RefuseSession(s)
  /\ loggedOut' = loggedOut \cup {s}
  /\ UNCHANGED <<now, tables, requests, cleaning, inbox, faults>>
  /\ UNCHANGED <<minted, newest, deadline, issued, ends, consumed, newcomers, hindered, refusedLinks>>

Logout(s) ==
  /\ Authenticated(s)
  /\ DeleteSession(s) /\ cookies' = cookies \ {s} /\ RefuseSession(s)
  /\ UNCHANGED <<now, users, tokens, requests, cleaning, inbox, faults>>
  /\ UNCHANGED <<minted, newest, deadline, issued, ends, consumed, newcomers, hindered, refusedLinks>>

\* The row cannot be deleted, which is only logged: the browser is told that the user
\* is logged out, and the session stays. Or the row goes and the answer is lost.
LogoutFails(s) ==
  /\ Authenticated(s) /\ Fault
  /\ \/ cookies' = cookies \ {s} /\ RefuseByFault(s) /\ UNCHANGED <<sessions, loggedOut>>
     \/ DeleteSession(s) /\ RefuseSession(s) /\ UNCHANGED cookies
  /\ UNCHANGED <<now, users, tokens, requests, cleaning, inbox>>
  /\ UNCHANGED <<minted, newest, deadline, issued, ends, consumed, newcomers, hindered, refusedLinks>>

-------------------------------------------------------------------------------
(* runCleanup; a failing statement is logged and the next one runs *)

DeleteExpiredAuthTokens ==
  /\ ~cleaning /\ cleaning' = TRUE
  /\ tokens' = {t \in tokens : ~t.used /\ Live(t)}
  /\ UNCHANGED <<now, users, sessions, requests, inbox, cookies, history, faults>>

\* Mutant: rows that expire with the next tick go too.
DeleteExpiringSessions ==
  /\ cleaning /\ cleaning' = FALSE
  /\ sessions' = {s \in sessions : s.expires > now + 1}
  /\ UNCHANGED <<now, users, tokens, requests, inbox, cookies, history, faults>>

DeleteExpiredSessions ==
  /\ cleaning /\ cleaning' = FALSE
  /\ sessions' = {s \in sessions : Live(s)}
  /\ UNCHANGED <<now, users, tokens, requests, inbox, cookies, history, faults>>

CleanupFails ==
  /\ Fault /\ cleaning' = ~cleaning
  /\ UNCHANGED <<now, tables, requests, inbox, cookies, history>>

-------------------------------------------------------------------------------
\* The clock moves between any two statements.
Tick ==
  /\ now < MaxTime /\ now' = now + 1
  /\ UNCHANGED <<tables, requests, cleaning, inbox, cookies, history, faults>>

\* The process ends in the middle of its requests and is started again.
Restart ==
  /\ Fault
  /\ hindered' = hindered \cup ({requests[r].link : r \in Request} \ {NoLink})
  /\ requests' = [r \in Request |-> Idle] /\ cleaning' = FALSE
  /\ UNCHANGED <<now, tables, inbox, cookies>>
  /\ UNCHANGED <<minted, newest, deadline, issued, ends, consumed, newcomers, refusedLinks, verdicts>>

Handle(r) ==
  \/ StoreToken(r) \/ SendMail(r)
  \/ ConsumeToken(r) \/ RefuseToken(r) \/ LookUpUser(r)
  \/ SaveUser(r) \/ SaveUserRejected(r) \/ CreateSession(r)

Cleanup == DeleteExpiredAuthTokens \/ DeleteExpiredSessions

Next ==
  \/ \E r \in Request, e \in Email : RequestLink(r, e)
  \/ \E r \in Request, e \in Email, l \in Link : FollowLink(r, e, l)
  \/ \E r \in Request : Handle(r) \/ MailFails(r) \/ StatementFails(r)
  \/ \E s \in cookies : Authenticate(s) \/ AuthenticateFails(s) \/ Logout(s) \/ LogoutFails(s)
  \/ Cleanup \/ CleanupFails \/ Tick \/ Restart

Spec == Init /\ [][Next]_vars

-------------------------------------------------------------------------------
\* The requests that hold a link between its consumption and their answer.
InHand(l) == \E r \in Request :
  requests[r].step \in {"lookup", "save", "session"} /\ requests[r].link = l

(***************************************************************************)
(* A magic link signs in once, however many requests carry it at the same  *)
(* time and whatever the cleanup does to its row: no two sessions were     *)
(* ever created for one link.                                              *)
(***************************************************************************)
LinkSignsInOnce == IsInjective(issued)

(***************************************************************************)
(* "Only the most recent magic link is valid": of the links asked for an   *)
(* address by concurrent requests, only the one stored last can be used.   *)
(***************************************************************************)
OnlyNewestLinkWorks ==
  \A t \in UsableTokens : t.link = newest[t.email]

(***************************************************************************)
(* Nobody is signed in without the mailbox: a session belongs to the       *)
(* address its link was mailed to, and to an account that exists.          *)
(***************************************************************************)
SessionsOfMailboxOwner ==
  \A s \in sessions : s.email \in users /\ issued[s.id] \in inbox[s.email]

(***************************************************************************)
(* What the store refused stays refused. A link that was answered "invalid *)
(* or expired" never works later. A session that a logout deleted, or that *)
(* was found invalid, is never accepted again: the clock, the cleanup and  *)
(* the handlers agree on when a row is dead. Only a session that was       *)
(* called over because a statement failed can come back: the database      *)
(* error of authenticatedUser is answered like an invalid session, and a   *)
(* logout whose DELETE fails is still answered as a logout.                *)
(***************************************************************************)
RefusedForGood ==
  /\ \A t \in UsableTokens : t.link \notin refusedLinks
  /\ \A s \in ValidSessions : s.id \in refusedSessions => s.id \in misjudged

(***************************************************************************)
(* The token is used up before the session exists, so that a link can be   *)
(* lost. That happens only if its request met a fault, or if it was the    *)
(* first sign-in of its address and another link of the same address       *)
(* created the account in between; a link of an existing account is never  *)
(* lost to a race.                                                         *)
(***************************************************************************)
LinkLostOnlyByFault ==
  \A l \in consumed :
    \/ l \in Range(issued) \cup hindered
    \/ InHand(l)
    \/ l \in newcomers /\ \E t \in newcomers \ {l}, e \in users : {l, t} \subseteq inbox[e]

(***************************************************************************)
(* What was given works until it expires, whatever concurrent requests,    *)
(* the cleanup, faults and restarts do in the meantime: the newest stored  *)
(* link of an address, until it is used, and a session, until it is logged *)
(* out. No request of another address or on another session ends it.       *)
(***************************************************************************)
WorksUntilExpiry ==
  /\ \A e \in Email : newest[e] \notin consumed \cup {NoLink} /\ now < deadline[e] =>
       \E t \in UsableTokens : t.link = newest[e] /\ t.email = e
  /\ \A i \in DOMAIN ends : now < ends[i] =>
       i \in loggedOut \/ \E s \in ValidSessions : s.id = i
==============================================================================
