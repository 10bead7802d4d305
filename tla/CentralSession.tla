--------------------------- MODULE CentralSession ---------------------------
(* The browser's side of Orbita: the cookie of the central session, the       *)
(* cookie that keeps a pending handoff while its user logs in, the temporary  *)
(* password that confines a local session, and the two ways out, /auth/logout *)
(* and the one-time ticket of /auth/end-session.  A request carries the       *)
(* cookies as they were when it was sent, and its response sets them when it  *)
(* arrives.  Whether a user may enter an app is the subject of SsoHandoff.    *)

CONSTANTS
    Users, Browsers,
    States,     \* handoffs that apps ask for, each with a "state" of its own
    Tickets,    \* rows of logout_tickets
    AppSessions,\* bound: exchanges in flight and live rows of app_sessions, at a time
    Requests,   \* requests in flight
    Logins,     \* bound: the ways in that are tried
    None

Methods == {"local", "moodle", "microsoft"}

ASSUME CentralSessionAssumption ==
    /\ None \notin Users \cup Browsers \cup States \cup Tickets \cup AppSessions
    /\ Logins \subseteq Methods

VARIABLES
    account,    \* per user: is it available, and is its local password temporary
    cookie,     \* per browser: the access token
    pending,    \* per browser: pending_authorize
    asked,      \* per handoff: the browser that was sent to /auth/authorize
    codes,      \* per handoff: the codes issued for it
    raced,      \* history: browsers with overlapping requests, or a lost response
    ticket,
    spent,      \* history: per ticket, the requests that have consumed it
    appSession, \* an exchange that records a session, then its row while it is live
    disabling,  \* users that an open transaction is disabling
    req

opened == <<appSession, disabling>>

vars == <<account, cookie, pending, asked, codes, raced, ticket, spent, opened, req>>

NoCookie == [user |-> None, method |-> "none"]

Cookies == [user: Users, method: Methods] \cup {NoCookie}

\* A session is checked while its exchange has found the user available and has not
\* committed.  "hit" is it while an open disabling has revoked it; "overtaken" is history:
\* it was committed while its user was disabled, or too late for the disabling to find.
AppSession == [state: {"none", "checked", "live"}, user: Users \cup {None},
               hit: BOOLEAN, overtaken: BOOLEAN]

NoAppSession == [state |-> "none", user |-> None, hit |-> FALSE, overtaken |-> FALSE]

Steps == {"idle", "authorize", "resume", "identify", "issue", "password", "write",
          "redeem", "spend", "logout", "revoke", "respond"}

\* "cookie" and "sent" are the cookies that came with the request, "pending" is
\* what its handler has made of the second, "sets" what the response does to the first.
\* "owed" is history, of a logout: the app sessions of the user that were live when it
\* was sent and are not revoked yet.
Request == [step: Steps, op: Methods \cup {"none", "browse"},
            browser: Browsers \cup {None}, user: Users \cup {None},
            state: States \cup {None}, ticket: Tickets \cup {None}, cookie: Cookies,
            sent: States \cup {None}, pending: States \cup {None},
            sets: Cookies \cup {[user |-> None, method |-> "keep"]}, owed: SUBSET AppSessions]

Keep == [user |-> None, method |-> "keep"]

NoRequest == [step |-> "idle", op |-> "none", browser |-> None, user |-> None,
              state |-> None, ticket |-> None, cookie |-> NoCookie, sent |-> None,
              pending |-> None, sets |-> Keep, owed |-> {}]

\* Codes are counted as none, one and more.  What a response sets is a cookie of a
\* user, or nothing, or no cookie.
TypeOK ==
    /\ account \in [Users -> [available: BOOLEAN, temporary: BOOLEAN]]
    /\ cookie \in [Browsers -> Cookies]
    /\ pending \in [Browsers -> States \cup {None}]
    /\ asked \in [States -> Browsers \cup {None}]
    /\ codes \in [States -> {"none", "one", "more"}]
    /\ raced \in SUBSET Browsers
    /\ ticket \in [Tickets -> {"none", "issued", "used", "lapsed"}]
    /\ spent \in [Tickets -> SUBSET Requests]
    /\ appSession \in [AppSessions -> AppSession]
    /\ disabling \in SUBSET Users
    /\ req \in [Requests -> Request]

Init ==
    /\ account \in [Users -> [available: {TRUE}, temporary: BOOLEAN]]
    /\ cookie = [b \in Browsers |-> NoCookie]
    /\ pending = [b \in Browsers |-> None]
    /\ asked = [s \in States |-> None]
    /\ codes = [s \in States |-> "none"]
    /\ raced = {}
    /\ ticket = [k \in Tickets |-> "none"]
    /\ spent = [k \in Tickets |-> {}]
    /\ appSession = [j \in AppSessions |-> NoAppSession]
    /\ disabling = {}
    /\ req = [t \in Requests |-> NoRequest]

-----------------------------------------------------------------------------

Running(t) == req[t].step # "idle"

Goto(t, step) == req' = [req EXCEPT ![t].step = step]

\* The handler is done: the session as it leaves it, and the cookie that is set.
Answered(t, session, sets) ==
    [req EXCEPT ![t] = [NoRequest EXCEPT !.step = "respond", !.browser = req[t].browser,
                            !.sent = req[t].sent, !.pending = session, !.sets = sets,
                            !.owed = req[t].owed]]

Answer(t) == req' = Answered(t, req[t].pending, req[t].sets)

LiveOf(u) == {j \in AppSessions : appSession[j].state = "live" /\ appSession[j].user = u}

\* The browser sends a request, of fields r beside its cookies; a login does not look at
\* the access token.
Send(t, b, r) ==
    LET carried == IF r.step = "identify" THEN NoCookie ELSE cookie[b]
        owed    == IF r.step \in {"logout", "redeem"} THEN LiveOf(cookie[b].user) ELSE {}
    IN
    /\ ~Running(t)
    /\ req' = [req EXCEPT ![t] = [r EXCEPT !.browser = b, !.cookie = carried, !.owed = owed,
                                           !.sent = pending[b], !.pending = pending[b]]]
    /\ raced' = IF \E q \in Requests : req[q].browser = b THEN raced \cup {b} ELSE raced
    /\ UNCHANGED <<account, cookie, pending, codes, ticket, spent, opened>>

\* get_optional_current_user: the cookie is of a user who is available now.
SignedIn(t) == req[t].cookie # NoCookie /\ account[req[t].cookie.user].available

PasswordChangeRequired(t) ==
    req[t].cookie.method = "local" /\ account[req[t].cookie.user].temporary

\* The session middleware sends the session that the handler has changed; one that
\* it has not changed, and is not empty, it may send again.
SessionSent(t) ==
    IF req[t].pending # req[t].sent THEN {req[t].pending}
    ELSE {pending[req[t].browser]} \cup ({req[t].sent} \ {None})

\* Mutant: every response writes the cookie.
RespondAlways(t) ==
    LET b == req[t].browser IN
    /\ req[t].step = "respond"
    /\ cookie' = [cookie EXCEPT ![b] = req[t].sets]
    /\ \E s \in SessionSent(t) : pending' = [pending EXCEPT ![b] = s]
    /\ req' = [req EXCEPT ![t] = NoRequest]
    /\ UNCHANGED <<account, asked, codes, raced, ticket, spent, opened>>

Respond(t) ==
    LET b == req[t].browser IN
    /\ req[t].step = "respond"
    /\ cookie' = IF req[t].sets = Keep THEN cookie ELSE [cookie EXCEPT ![b] = req[t].sets]
    /\ \E s \in SessionSent(t) : pending' = [pending EXCEPT ![b] = s]
    /\ req' = [req EXCEPT ![t] = NoRequest]
    /\ UNCHANGED <<account, asked, codes, raced, ticket, spent, opened>>

\* The request fails, or its response never reaches the browser.
Fail(t) ==
    /\ Running(t)
    /\ raced' = raced \cup {req[t].browser}
    /\ req' = [req EXCEPT ![t] = NoRequest]
    /\ UNCHANGED <<account, cookie, pending, asked, codes, ticket, spent, opened>>

\* The sessions of J are revoked, while the requests are those of R.
Revoke(J, R) ==
    /\ appSession' = [j \in AppSessions |-> IF j \in J THEN NoAppSession ELSE appSession[j]]
    /\ req' = [q \in Requests |-> [R[q] EXCEPT !.owed = @ \ J]]

\* revoke_all_for_user: an UPDATE, which waits for an open disabling that has updated a
\* row of the same session, and a commit.
RevokeAllOf(u, R) ==
    /\ \A j \in LiveOf(u) : ~appSession[j].hit
    /\ Revoke(LiveOf(u), R)
    /\ UNCHANGED disabling

-----------------------------------------------------------------------------
(* The handoff *)

\* An app sends the browser to /auth/authorize, with a state it has not used before.
Ask(t, b, s) ==
    /\ asked[s] = None
    /\ asked' = [asked EXCEPT ![s] = b]
    /\ Send(t, b, [NoRequest EXCEPT !.step = "authorize", !.op = "browse", !.state = s])

\* A client or a URI that is not valid is answered with an error.
Authorize(t) ==
    /\ req[t].step = "authorize"
    /\ \/ Answer(t)
       \/ ~SignedIn(t) /\ req' = Answered(t, req[t].state, Keep)
       \/ SignedIn(t) /\ PasswordChangeRequired(t) /\ Answer(t)
       \/ SignedIn(t) /\ ~PasswordChangeRequired(t) /\ Goto(t, "issue")
    /\ UNCHANGED <<account, cookie, pending, asked, codes, raced, ticket, spent, opened>>

\* The pending handoff is taken out of the session and answered.
PopPending(t) ==
    req' = [req EXCEPT ![t].step = "issue", ![t].state = req[t].pending, ![t].pending = None]

\* Mutants: the pending handoff stays where it is; a temporary password is no obstacle.
ResumeInPlace(t) ==
    /\ req[t].step = "resume"
    /\ IF req[t].pending # None /\ SignedIn(t) /\ ~PasswordChangeRequired(t)
       THEN req' = [req EXCEPT ![t].step = "issue", ![t].state = req[t].pending]
       ELSE Answer(t)
    /\ UNCHANGED <<account, cookie, pending, asked, codes, raced, ticket, spent, opened>>

ResumeUngated(t) ==
    /\ req[t].step = "resume"
    /\ IF req[t].pending # None /\ SignedIn(t) THEN PopPending(t) ELSE Answer(t)
    /\ UNCHANGED <<account, cookie, pending, asked, codes, raced, ticket, spent, opened>>

Resume(t) ==
    /\ req[t].step = "resume"
    /\ IF req[t].pending # None /\ SignedIn(t) /\ ~PasswordChangeRequired(t)
       THEN PopPending(t)
       ELSE Answer(t)
    /\ UNCHANGED <<account, cookie, pending, asked, codes, raced, ticket, spent, opened>>

\* build_authorize_redirect: a code is committed, or the user is refused.
IssueCode(t) ==
    LET s == req[t].state IN
    /\ req[t].step = "issue"
    /\ \/ codes' = [codes EXCEPT ![s] = IF @ = "none" THEN "one" ELSE "more"]
       \/ UNCHANGED codes
    /\ Answer(t)
    /\ UNCHANGED <<account, cookie, pending, asked, raced, ticket, spent, opened>>

-----------------------------------------------------------------------------
(* Logins and the password *)

\* The user is found and is available, or the login is refused.  The callback of
\* Microsoft resumes a pending handoff itself.
Identify(t) ==
    LET u == req[t].user
        signed == [user |-> u, method |-> req[t].op]
    IN
    /\ req[t].step = "identify"
    /\ \/ Answer(t)
       \/ /\ account[u].available
          /\ req' = IF req[t].op = "microsoft" /\ req[t].pending # None
                    THEN [req EXCEPT ![t].step = "issue", ![t].state = req[t].pending,
                                     ![t].pending = None, ![t].sets = signed]
                    ELSE Answered(t, req[t].pending, signed)
    /\ UNCHANGED <<account, cookie, pending, asked, codes, raced, ticket, spent, opened>>

\* The current password does not match, or it does.
LoadPassword(t) ==
    /\ req[t].step = "password"
    /\ Answer(t) \/ (SignedIn(t) /\ Goto(t, "write"))
    /\ UNCHANGED <<account, cookie, pending, asked, codes, raced, ticket, spent, opened>>

ChangePassword(t) ==
    /\ req[t].step = "write"
    /\ req[t].cookie.user \notin disabling
    /\ account' = [account EXCEPT ![req[t].cookie.user].temporary = FALSE]
    /\ RevokeAllOf(req[t].cookie.user, Answered(t, req[t].pending, Keep))
    /\ UNCHANGED <<cookie, pending, asked, codes, raced, ticket, spent>>

-----------------------------------------------------------------------------
(* The ways out *)

\* Mutant: the row of the ticket is not locked.
TicketUnlocked(t) == TRUE

\* Row lock: no other request has updated the ticket and not yet committed.
TicketLocked(t) ==
    \A q \in Requests : req[q].step = "spend" => req[q].ticket # req[t].ticket

RedeemTicket(t) ==
    /\ req[t].step = "redeem"
    /\ TicketLocked(t)
    /\ IF ticket[req[t].ticket] = "issued" THEN Goto(t, "spend") ELSE Answer(t)
    /\ UNCHANGED <<account, cookie, pending, asked, codes, raced, ticket, spent, opened>>

\* The ticket is spent, in a transaction of its own, before anything is revoked.
CommitTicket(t) ==
    LET k == req[t].ticket IN
    /\ req[t].step = "spend"
    /\ ticket' = [ticket EXCEPT ![k] = "used"]
    /\ spent' = [spent EXCEPT ![k] = @ \cup {t}]
    /\ req' = [req EXCEPT ![t].step = "logout", ![t].ticket = None]
    /\ UNCHANGED <<account, cookie, pending, asked, codes, raced, opened>>

LoadUser(t) ==
    /\ req[t].step = "logout"
    /\ IF SignedIn(t) THEN Goto(t, "revoke")
       ELSE req' = Answered(t, req[t].pending, NoCookie)
    /\ UNCHANGED <<account, cookie, pending, asked, codes, raced, ticket, spent, opened>>

RevokeAll(t) ==
    /\ req[t].step = "revoke"
    /\ RevokeAllOf(req[t].cookie.user, Answered(t, req[t].pending, NoCookie))
    /\ UNCHANGED <<account, cookie, pending, asked, codes, raced, ticket, spent>>

-----------------------------------------------------------------------------

Call(t, b) ==
    \/ \E s \in States : Ask(t, b, s)
    \/ /\ \/ \E step \in {"resume", "password", "logout"} :
                Send(t, b, [NoRequest EXCEPT !.step = step, !.op = "browse"])
          \/ \E m \in Logins, u \in Users :
                Send(t, b, [NoRequest EXCEPT !.step = "identify", !.op = m, !.user = u])
          \/ \E k \in Tickets :
                /\ ticket[k] # "none"
                /\ Send(t, b, [NoRequest EXCEPT !.step = "redeem", !.op = "browse", !.ticket = k])
       /\ UNCHANGED asked

Step(t) ==
    \/ Authorize(t)
    \/ Resume(t)
    \/ IssueCode(t)
    \/ Identify(t)
    \/ LoadPassword(t)
    \/ ChangePassword(t)
    \/ RedeemTicket(t)
    \/ CommitTicket(t)
    \/ LoadUser(t)
    \/ RevokeAll(t)
    \/ Respond(t)

\* POST /auth/logout-ticket, from an app's backend.
IssueTicket(k) ==
    /\ ticket[k] = "none"
    /\ ticket' = [ticket EXCEPT ![k] = "issued"]
    /\ UNCHANGED <<account, cookie, pending, asked, codes, raced, spent, opened, req>>

LapseTicket(k) ==
    /\ ticket[k] = "issued"
    /\ ticket' = [ticket EXCEPT ![k] = "lapsed"]
    /\ UNCHANGED <<account, cookie, pending, asked, codes, raced, spent, opened, req>>

\* Either cookie of a browser reaches its max_age.
LapseCookie(b) ==
    /\ \/ cookie' = [cookie EXCEPT ![b] = NoCookie] /\ UNCHANGED pending
       \/ pending' = [pending EXCEPT ![b] = None] /\ UNCHANGED cookie
    /\ UNCHANGED <<account, asked, codes, raced, ticket, spent, opened, req>>

\* A code of the user is exchanged: the user is looked at ...
CheckUser(j, u) ==
    /\ appSession[j].state = "none"
    /\ account[u].available
    /\ appSession' = [appSession EXCEPT ![j].state = "checked", ![j].user = u]
    /\ UNCHANGED <<account, cookie, pending, asked, codes, raced, ticket, spent, disabling, req>>

\* ... and later its session is committed, or the exchange fails.
OpenAppSession(j) ==
    /\ appSession[j].state = "checked"
    /\ \/ appSession' = [appSession EXCEPT ![j].state = "live",
                              ![j].overtaken = ~account[appSession[j].user].available]
       \/ appSession' = [appSession EXCEPT ![j] = NoAppSession]
    /\ UNCHANGED <<account, cookie, pending, asked, codes, raced, ticket, spent, disabling, req>>

\* An administrator disables the user: the UPDATE of app_sessions finds the sessions that
\* are committed, and its transaction locks them and the user ...
BeginDisabling(u) ==
    /\ account[u].available
    /\ u \notin disabling
    /\ disabling' = disabling \cup {u}
    /\ appSession' = [j \in AppSessions |->
           IF j \in LiveOf(u) THEN [appSession[j] EXCEPT !.hit = TRUE] ELSE appSession[j]]
    /\ UNCHANGED <<account, cookie, pending, asked, codes, raced, ticket, spent, req>>

\* Mutant: disabling revokes nothing.
DisableOnly(u) ==
    /\ u \in disabling
    /\ disabling' = disabling \ {u}
    /\ account' = [account EXCEPT ![u].available = FALSE]
    /\ UNCHANGED <<cookie, pending, asked, codes, raced, ticket, spent, appSession, req>>

\* ... and it commits.  A session that was committed meanwhile stays live.
Disable(u) ==
    LET missed == {j \in LiveOf(u) : ~appSession[j].hit} IN
    /\ u \in disabling
    /\ disabling' = disabling \ {u}
    /\ account' = [account EXCEPT ![u].available = FALSE]
    /\ appSession' = [j \in AppSessions |->
           IF j \in missed THEN [appSession[j] EXCEPT !.overtaken = TRUE]
           ELSE IF j \in LiveOf(u) THEN NoAppSession ELSE appSession[j]]
    /\ req' = [q \in Requests |-> [req[q] EXCEPT !.owed = @ \ (LiveOf(u) \ missed)]]
    /\ UNCHANGED <<cookie, pending, asked, codes, raced, ticket, spent>>

\* The transaction fails.
AbandonDisabling(u) ==
    /\ u \in disabling
    /\ disabling' = disabling \ {u}
    /\ appSession' = [j \in AppSessions |->
           IF appSession[j].user = u THEN [appSession[j] EXCEPT !.hit = FALSE]
           ELSE appSession[j]]
    /\ UNCHANGED <<account, cookie, pending, asked, codes, raced, ticket, spent, req>>

Enable(u) ==
    /\ ~account[u].available
    /\ account' = [account EXCEPT ![u].available = TRUE]
    /\ UNCHANGED <<cookie, pending, asked, codes, raced, ticket, spent, opened, req>>

Next ==
    \/ \E t \in Requests, b \in Browsers : Call(t, b)
    \/ \E t \in Requests : Step(t) \/ Fail(t)
    \/ \E k \in Tickets : IssueTicket(k) \/ LapseTicket(k)
    \/ \E b \in Browsers : LapseCookie(b)
    \/ \E j \in AppSessions : OpenAppSession(j) \/ \E u \in Users : CheckUser(j, u)
    \/ \E u \in Users : BeginDisabling(u) \/ Disable(u) \/ AbandonDisabling(u) \/ Enable(u)

Spec == Init /\ [][Next]_vars

Grant == INSTANCE OneTimeGrant WITH
    Grants <- Tickets,
    Deliveries <- Tickets \X Requests,
    state <- [k \in Tickets |-> CASE ticket[k] = "none"                 -> "none"
                                  [] ticket[k] \in {"issued", "lapsed"} -> "issued"
                                  [] ticket[k] = "used"                 -> "redeemed"],
    delivered <- [k \in Tickets |-> {k} \X spent[k]]

-----------------------------------------------------------------------------

\* A local session that was opened with a temporary password hands off to no app,
\* neither from /auth/authorize nor from /auth/resume, until the password has been
\* replaced; sessions by Moodle and Microsoft of the same user are not affected.
TemporaryPasswordNeverHandsOff ==
    [][\A t \in Requests :
          IssueCode(t) /\ codes' # codes /\ req[t].op = "browse" =>
              ~PasswordChangeRequired(t)]_vars

\* One request of an app is answered with one code, over the whole way from
\* /auth/authorize through a login and /auth/resume, unless requests of its browser
\* overlapped or a response was lost.
HandoffsAreAnsweredOnce ==
    \A s \in States : codes[s] = "more" => asked[s] \in raced

\* A logout ticket is consumed by one request only, whichever present it together.
TicketsAreOneTimeGrants == Grant!Spec

\* A logout, or an end of session with a ticket, that gets to its response leaves live
\* no app session of its user that was live when it was sent: it has revoked them, or
\* found the user disabled, and then the disabling had.  Only a session whose exchange a
\* disabling overtook stays: no logout revokes it while its user is disabled.
LogoutsLeaveNoSession ==
    \A t \in Requests :
        req[t].step = "respond" /\ req[t].sets = NoCookie =>
            \A j \in req[t].owed : appSession[j].overtaken
=============================================================================
