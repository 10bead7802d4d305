------------------------ MODULE CentralSessionProofs ------------------------
(* Theorems of CentralSession for any number of users, browsers, handoffs,    *)
(* tickets and concurrent requests.  Shapes come first; what a logout leaves, *)
(* what a temporary password opens, how often a handoff is answered and how   *)
(* often a ticket is spent are four invariants of their own on top of them.   *)
EXTENDS CentralSession, TLAPS

-----------------------------------------------------------------------------
(* Shapes                                                                     *)

\* The fields that a request has set by the step it is at.  Only a logout takes the
\* cookie away, and with it the request is over.
Shaped(r) ==
    /\ r.step = "idle" => r.browser = None /\ r.pending = None /\ r.sent = None /\ r.owed = {}
    /\ r.step # "idle" => r.browser \in Browsers
    /\ r.step \in {"authorize", "issue"} => r.state \in States
    /\ r.step = "identify" => r.user \in Users /\ r.op \in Methods
    /\ r.step \in {"redeem", "spend"} => r.ticket \in Tickets
    /\ r.step # "respond" => r.sets # NoCookie

\* Every request has the fields of its step.
Shape == TypeOK /\ \A t \in Requests : Shaped(req[t])

\* A cookie of a user is not one of nobody.
LEMMA CookiesDiffer ==
    /\ Keep # NoCookie
    /\ \A u \in Users, m \in Methods : [user |-> u, method |-> m] # NoCookie
    /\ \A c \in Cookies : c # NoCookie => c.user \in Users /\ c.method \in Methods
    /\ NoCookie.user = None /\ NoCookie.method = "none"
  BY CentralSessionAssumption DEF Keep, NoCookie, Cookies, Methods

\* A request that is over has the shape of one that is not there (Init, Respond).
LEMMA NoRequestShape == NoRequest \in Request /\ Shaped(NoRequest)
  BY CookiesDiffer
  DEF NoRequest, Request, Shaped, Steps, Keep, NoCookie, Cookies, Methods

\* What a request becomes that is answered: r before, s after.
Ended(r, s, session, sets) ==
    /\ s.step = "respond" /\ s.browser = r.browser /\ s.sent = r.sent
    /\ s.pending = session /\ s.sets = sets /\ s.op = "none" /\ s.owed = r.owed

\* What an answer makes of its request (Answered).
LEMMA AnsweredFields ==
    ASSUME Shape, NEW t \in Requests, Running(t), NEW session \in States \cup {None},
           NEW sets \in Cookies \cup {Keep}
    PROVE  /\ Answered(t, session, sets) \in [Requests -> Request]
           /\ Shaped(Answered(t, session, sets)[t])
           /\ \A q \in Requests \ {t} : Answered(t, session, sets)[q] = req[q]
           /\ Ended(req[t], Answered(t, session, sets)[t], session, sets)
  <1>1. req[t] \in Request /\ req[t].browser \in Browsers
    BY DEF Shape, TypeOK, Shaped, Running
  <1> DEFINE r == [NoRequest EXCEPT !.step = "respond", !.browser = req[t].browser,
                       !.sent = req[t].sent, !.pending = session, !.sets = sets,
                       !.owed = req[t].owed]
  <1>2. Answered(t, session, sets) = [req EXCEPT ![t] = r]
    BY DEF Answered
  <1>3. Ended(req[t], r, session, sets)
    BY DEF NoRequest, Ended
  <1>4. r \in Request
    <2>1. "respond" \in Steps /\ sets \in Cookies \cup {[user |-> None, method |-> "keep"]}
      BY DEF Steps, Keep
    <2>2. /\ req[t].browser \in Browsers \cup {None} /\ req[t].sent \in States \cup {None}
          /\ req[t].owed \in SUBSET AppSessions
      BY <1>1 DEF Request
    <2> QED
      BY <2>1, <2>2, NoRequestShape DEF Request
  <1> HIDE DEF r
  <1>5. Shaped(r)
    BY <1>1, <1>3 DEF Shaped, Ended
  <1>6. /\ Answered(t, session, sets) \in [Requests -> Request]
        /\ Answered(t, session, sets)[t] = r
        /\ \A q \in Requests \ {t} : Answered(t, session, sets)[q] = req[q]
    BY <1>2, <1>4 DEF Shape, TypeOK
  <1> QED
    BY <1>3, <1>5, <1>6

\* The requests r and s say the same, except perhaps for what they owe (Revoke).
Like(r, s) ==
    /\ r.step = s.step /\ r.op = s.op /\ r.browser = s.browser /\ r.user = s.user
    /\ r.state = s.state /\ r.ticket = s.ticket /\ r.cookie = s.cookie
    /\ r.sent = s.sent /\ r.pending = s.pending /\ r.sets = s.sets

\* A revocation changes nothing of the requests but what they owe (Revoke, Disable).
LEMMA RevokeFields ==
    ASSUME NEW J, NEW R \in [Requests -> Request], \A q \in Requests : Shaped(R[q]),
           req' = [q \in Requests |-> [R[q] EXCEPT !.owed = @ \ J]]
    PROVE  /\ req' \in [Requests -> Request]
           /\ \A q \in Requests :
                  Shaped(req'[q]) /\ Like(req'[q], R[q]) /\ req'[q].owed = R[q].owed \ J
  <1>1. ASSUME NEW q \in Requests
        PROVE  /\ req'[q] \in Request /\ Shaped(req'[q]) /\ Like(req'[q], R[q])
               /\ req'[q].owed = R[q].owed \ J
    <2>1. R[q] \in Request /\ Shaped(R[q])
      OBVIOUS
    <2> DEFINE r == [R[q] EXCEPT !.owed = R[q].owed \ J]
    <2>2. r \in Request /\ Like(r, R[q]) /\ r.owed = R[q].owed \ J
      BY <2>1 DEF Request, Like
    <2>3. req'[q] = r
      OBVIOUS
    <2> HIDE DEF r
    <2>4. Shaped(r)
      BY <2>1, <2>2 DEF Shaped, Like
    <2> QED
      BY <2>2, <2>3, <2>4
  <1> QED
    BY <1>1

\* So does a disabling (Disable).
LEMMA DisableFields ==
    ASSUME Shape, NEW u, Disable(u)
    PROVE  \A q \in Requests :
               /\ Like(req'[q], req[q])
               /\ req'[q].owed = req[q].owed \ {j \in LiveOf(u) : appSession[j].hit}
  <1> DEFINE J == LiveOf(u) \ {j \in LiveOf(u) : ~appSession[j].hit}
  <1>1. req' = [q \in Requests |-> [req[q] EXCEPT !.owed = @ \ J]]
    BY DEF Disable
  <1>2. J = {j \in LiveOf(u) : appSession[j].hit}
    OBVIOUS
  <1> HIDE DEF J
  <1>3. req \in [Requests -> Request] /\ \A q \in Requests : Shaped(req[q])
    BY DEF Shape, TypeOK
  <1>4. \A q \in Requests : Like(req'[q], req[q]) /\ req'[q].owed = req[q].owed \ J
    BY <1>1, <1>3, RevokeFields
  <1> QED
    BY <1>2, <1>4

\* A request that goes on with what it has (Goto).
LEMMA GotoFields ==
    ASSUME Shape, NEW t \in Requests, NEW step \in Steps \ {"idle"}, Goto(t, step),
           Running(t), req[t].step # "respond",
           step \in {"authorize", "issue"} => req[t].state \in States,
           step \notin {"identify", "redeem"},
           step = "spend" => req[t].ticket \in Tickets
    PROVE  /\ req' \in [Requests -> Request]
           /\ Shaped(req'[t])
           /\ \A q \in Requests \ {t} : req'[q] = req[q]
           /\ req'[t] = [req[t] EXCEPT !.step = step]
  <1>1. req[t] \in Request /\ Shaped(req[t]) /\ req[t].step # "idle"
    BY DEF Shape, TypeOK, Running
  <1> DEFINE r == [req[t] EXCEPT !.step = step]
  <1>2. /\ r \in Request /\ r.step = step /\ r.browser = req[t].browser
        /\ r.state = req[t].state /\ r.ticket = req[t].ticket /\ r.sets = req[t].sets
    BY <1>1 DEF Request
  <1>3. req' = [req EXCEPT ![t] = r]
    BY DEF Goto
  <1> HIDE DEF r
  <1>4. Shaped(r)
    BY <1>1, <1>2 DEF Shaped
  <1>5. req'[t] = r /\ \A q \in Requests \ {t} : req'[q] = req[q]
    BY <1>3 DEF Shape, TypeOK
  <1>6. req' \in [Requests -> Request]
    BY <1>2, <1>3 DEF Shape, TypeOK
  <1> QED
    BY <1>4, <1>5, <1>6 DEF r

\* A request that has spent its ticket (CommitTicket).
LEMMA SpentFields ==
    ASSUME Shape, NEW t \in Requests, CommitTicket(t)
    PROVE  /\ req' \in [Requests -> Request]
           /\ Shaped(req'[t])
           /\ \A q \in Requests \ {t} : req'[q] = req[q]
           /\ req'[t].step = "logout" /\ req'[t].browser = req[t].browser
           /\ req'[t].cookie = req[t].cookie /\ req'[t].sent = req[t].sent
           /\ req'[t].pending = req[t].pending /\ req'[t].sets = req[t].sets
           /\ req'[t].owed = req[t].owed
  <1>1. req[t] \in Request /\ Shaped(req[t]) /\ req[t].step = "spend"
    BY DEF Shape, TypeOK, CommitTicket
  <1> DEFINE r == [req[t] EXCEPT !.step = "logout", !.ticket = None]
  <1>2. /\ r \in Request /\ r.step = "logout" /\ r.browser = req[t].browser
        /\ r.cookie = req[t].cookie /\ r.sent = req[t].sent /\ r.pending = req[t].pending
        /\ r.sets = req[t].sets /\ r.owed = req[t].owed
    BY <1>1 DEF Request, Steps
  <1>3. req' = [req EXCEPT ![t] = r]
    BY DEF CommitTicket
  <1> HIDE DEF r
  <1>4. Shaped(r)
    BY <1>1, <1>2 DEF Shaped
  <1>5. req'[t] = r /\ \A q \in Requests \ {t} : req'[q] = req[q]
    BY <1>3 DEF Shape, TypeOK
  <1>6. req' \in [Requests -> Request]
    BY <1>2, <1>3 DEF Shape, TypeOK
  <1> QED
    BY <1>2, <1>4, <1>5, <1>6

\* What a request becomes that takes up its pending handoff: r before, s after.
Popped(r, s) ==
    /\ s.step = "issue" /\ s.op = r.op /\ s.browser = r.browser /\ s.state = r.pending
    /\ s.cookie = r.cookie /\ s.sent = r.sent /\ s.pending = None
    /\ s.owed = r.owed

\* A pending handoff is taken up (PopPending, Identify).
LEMMA PopFields ==
    ASSUME Shape, NEW t \in Requests, req[t].step \in {"resume", "identify"},
           req[t].pending # None,
           \/ PopPending(t)
           \/ \E sets \in Cookies \ {NoCookie} :
                 req' = [req EXCEPT ![t].step = "issue", ![t].state = req[t].pending,
                                    ![t].pending = None, ![t].sets = sets]
    PROVE  /\ req' \in [Requests -> Request]
           /\ Shaped(req'[t])
           /\ \A q \in Requests \ {t} : req'[q] = req[q]
           /\ Popped(req[t], req'[t])
  <1>1. req[t] \in Request /\ Shaped(req[t])
    BY DEF Shape, TypeOK
  <1>2. req[t].pending \in States /\ req[t].browser \in Browsers /\ req[t].sets # NoCookie
    BY <1>1 DEF Request, Shaped
  <1>3. ASSUME NEW r \in Request, req' = [req EXCEPT ![t] = r], Popped(req[t], r),
               r.sets # NoCookie
        PROVE  /\ req' \in [Requests -> Request]
               /\ Shaped(req'[t])
               /\ \A q \in Requests \ {t} : req'[q] = req[q]
               /\ Popped(req[t], req'[t])
    <2>1. req'[t] = r /\ \A q \in Requests \ {t} : req'[q] = req[q]
      BY <1>3 DEF Shape, TypeOK
    <2>2. req' \in [Requests -> Request]
      BY <1>3 DEF Shape, TypeOK
    <2>3. Shaped(r)
      BY <1>2, <1>3 DEF Shaped, Popped
    <2> QED
      BY <1>3, <2>1, <2>2, <2>3
  <1>4. CASE PopPending(t)
    <2> DEFINE r == [req[t] EXCEPT !.step = "issue", !.state = req[t].pending, !.pending = None]
    <2>1. r \in Request
      BY <1>1, <1>2 DEF Request, Steps
    <2>2. Popped(req[t], r) /\ r.sets = req[t].sets
      BY <1>1 DEF Request, Popped
    <2>3. req' = [req EXCEPT ![t] = r]
      BY <1>4 DEF PopPending
    <2> QED
      BY <1>2, <1>3, <2>1, <2>2, <2>3
  <1>5. ASSUME NEW sets \in Cookies \ {NoCookie},
               req' = [req EXCEPT ![t].step = "issue", ![t].state = req[t].pending,
                                  ![t].pending = None, ![t].sets = sets]
        PROVE  \E r \in Request : req' = [req EXCEPT ![t] = r] /\ Popped(req[t], r)
                                   /\ r.sets # NoCookie
    <2> DEFINE r == [req[t] EXCEPT !.step = "issue", !.state = req[t].pending,
                                   !.pending = None, !.sets = sets]
    <2>1. r \in Request
      BY <1>1, <1>2 DEF Request, Steps
    <2>2. Popped(req[t], r) /\ r.sets = sets
      BY <1>1 DEF Request, Popped
    <2>3. req' = [req EXCEPT ![t] = r]
      BY <1>5
    <2> HIDE DEF r
    <2> QED
      BY <2>1, <2>2, <2>3
  <1> QED
    BY <1>3, <1>4, <1>5

\* The kinds of request that a browser sends.
Sendable(r) ==
    /\ r \in Request
    /\ r.step \in {"authorize", "resume", "password", "logout", "identify", "redeem"}
    /\ r.sets = Keep
    /\ r.step = "authorize" => r.state \in States
    /\ r.step = "identify" => r.user \in Users /\ r.op \in Methods
    /\ r.step = "redeem" => r.ticket \in Tickets

\* A handoff that is asked for is a new one.
Asks(r, b) ==
    IF r.step = "authorize" THEN asked[r.state] = None /\ asked' = [asked EXCEPT ![r.state] = b]
    ELSE UNCHANGED asked

\* A request of a browser is of one of these kinds (Call).
LEMMA CallForm ==
    ASSUME NEW t \in Requests, NEW b \in Browsers, Call(t, b)
    PROVE  \E r : Sendable(r) /\ Asks(r, b) /\ Send(t, b, r)
  <1>a. NoRequest \in Request /\ NoRequest.sets = Keep
    BY NoRequestShape DEF NoRequest
  <1>1. ASSUME NEW s \in States, Ask(t, b, s)
        PROVE  \E r : Sendable(r) /\ Asks(r, b) /\ Send(t, b, r)
    <2> DEFINE r == [NoRequest EXCEPT !.step = "authorize", !.op = "browse", !.state = s]
    <2>1. r \in Request
      BY <1>a DEF Request, Steps
    <2>2. r.step = "authorize" /\ r.state = s /\ r.sets = Keep
      BY <1>a DEF NoRequest
    <2>3. Send(t, b, r) /\ asked[s] = None /\ asked' = [asked EXCEPT ![s] = b]
      BY <1>1 DEF Ask
    <2> HIDE DEF r
    <2> QED
      BY <2>1, <2>2, <2>3 DEF Sendable, Asks
  <1>2. ASSUME NEW step \in {"resume", "password", "logout"}, UNCHANGED asked,
               Send(t, b, [NoRequest EXCEPT !.step = step, !.op = "browse"])
        PROVE  \E r : Sendable(r) /\ Asks(r, b) /\ Send(t, b, r)
    <2> DEFINE r == [NoRequest EXCEPT !.step = step, !.op = "browse"]
    <2>1. r \in Request
      BY <1>a DEF Request, Steps
    <2>2. r.step = step /\ r.sets = Keep
      BY <1>a DEF NoRequest
    <2>3. Send(t, b, r)
      BY <1>2
    <2> HIDE DEF r
    <2> QED
      BY <1>2, <2>1, <2>2, <2>3 DEF Sendable, Asks
  <1>3. ASSUME NEW m \in Logins, NEW u \in Users, UNCHANGED asked,
               Send(t, b, [NoRequest EXCEPT !.step = "identify", !.op = m, !.user = u])
        PROVE  \E r : Sendable(r) /\ Asks(r, b) /\ Send(t, b, r)
    <2> DEFINE r == [NoRequest EXCEPT !.step = "identify", !.op = m, !.user = u]
    <2>1. m \in Methods
      BY CentralSessionAssumption
    <2>2. r \in Request
      BY <1>a, <2>1 DEF Request, Steps
    <2>3. r.step = "identify" /\ r.user = u /\ r.op = m /\ r.sets = Keep
      BY <1>a DEF NoRequest
    <2>4. Send(t, b, r)
      BY <1>3
    <2> HIDE DEF r
    <2> QED
      BY <1>3, <2>1, <2>2, <2>3, <2>4 DEF Sendable, Asks
  <1>4. ASSUME NEW k \in Tickets, UNCHANGED asked,
               Send(t, b, [NoRequest EXCEPT !.step = "redeem", !.op = "browse", !.ticket = k])
        PROVE  \E r : Sendable(r) /\ Asks(r, b) /\ Send(t, b, r)
    <2> DEFINE r == [NoRequest EXCEPT !.step = "redeem", !.op = "browse", !.ticket = k]
    <2>1. r \in Request
      BY <1>a DEF Request, Steps
    <2>2. r.step = "redeem" /\ r.ticket = k /\ r.sets = Keep
      BY <1>a DEF NoRequest
    <2>3. Send(t, b, r)
      BY <1>4
    <2> HIDE DEF r
    <2> QED
      BY <1>4, <2>1, <2>2, <2>3 DEF Sendable, Asks
  <1> QED
    BY <1>1, <1>2, <1>3, <1>4 DEF Call

\* What is sent carries the cookies of the browser (Send).
LEMMA SendFields ==
    ASSUME Shape, NEW t \in Requests, NEW b \in Browsers, NEW r, Sendable(r), Send(t, b, r)
    PROVE  /\ req' \in [Requests -> Request]
           /\ Shaped(req'[t])
           /\ \A q \in Requests \ {t} : req'[q] = req[q]
           /\ req'[t].step = r.step /\ req'[t].browser = b
           /\ req'[t].state = r.state /\ req'[t].op = r.op
           /\ r.step # "identify" => req'[t].cookie = cookie[b]
           /\ req'[t].sent = pending[b] /\ req'[t].pending = pending[b]
           /\ req'[t].sets = Keep
           /\ req'[t].owed \subseteq LiveOf(cookie[b].user)
           /\ r.step = "identify" => req'[t].owed = {}
  <1> DEFINE carried == IF r.step = "identify" THEN NoCookie ELSE cookie[b]
             owed == IF r.step \in {"logout", "redeem"} THEN LiveOf(cookie[b].user) ELSE {}
             s == [r EXCEPT !.browser = b, !.cookie = carried, !.owed = owed,
                            !.sent = pending[b], !.pending = pending[b]]
  <1>1. carried \in Cookies /\ pending[b] \in States \cup {None}
    BY DEF Shape, TypeOK, Cookies
  <1>a. r \in Request
    BY DEF Sendable
  <1>b. /\ owed \subseteq LiveOf(cookie[b].user) /\ owed \in SUBSET AppSessions
        /\ r.step = "identify" => owed = {}
        /\ r.step # "identify" => carried = cookie[b]
    BY DEF LiveOf
  <1> HIDE DEF carried, owed
  <1>2. s \in Request
    BY <1>1, <1>a, <1>b DEF Request
  <1>3. /\ s.step = r.step /\ s.op = r.op /\ s.browser = b /\ s.user = r.user
        /\ s.state = r.state /\ s.ticket = r.ticket /\ s.cookie = carried
        /\ s.sent = pending[b] /\ s.pending = pending[b]
        /\ s.sets = Keep /\ s.owed = owed
    BY <1>a DEF Request, Sendable
  <1>4. req' = [req EXCEPT ![t] = s]
    BY DEF Send, carried, owed
  <1> HIDE DEF s
  <1>5. Shaped(s)
    BY <1>3, CookiesDiffer DEF Shaped, Sendable
  <1>6. req'[t] = s /\ \A q \in Requests \ {t} : req'[q] = req[q]
    BY <1>4 DEF Shape, TypeOK
  <1>7. req' \in [Requests -> Request]
    BY <1>2, <1>4 DEF Shape, TypeOK
  <1> QED
    BY <1>b, <1>3, <1>5, <1>6, <1>7

\* Every request of every state has its shape.
ReqShape == req \in [Requests -> Request] /\ \A q \in Requests : Shaped(req[q])

\* An answer, with or without a revocation, keeps the shapes (Answered, Revoke).
LEMMA AnswerShape ==
    ASSUME Shape, NEW t \in Requests, Running(t), NEW session \in States \cup {None},
           NEW sets \in Cookies \cup {Keep},
           \/ req' = Answered(t, session, sets)
           \/ \E u : RevokeAllOf(u, Answered(t, session, sets))
    PROVE  ReqShape'
  <1>1. /\ Answered(t, session, sets) \in [Requests -> Request]
        /\ \A q \in Requests : Shaped(Answered(t, session, sets)[q])
    <2> DEFINE R == Answered(t, session, sets)
    <2>1. /\ R \in [Requests -> Request] /\ Shaped(R[t])
          /\ \A q \in Requests \ {t} : R[q] = req[q]
      BY AnsweredFields
    <2> HIDE DEF R
    <2>2. \A q \in Requests : Shaped(R[q])
      BY <2>1 DEF Shape
    <2> QED
      BY <2>1, <2>2 DEF R
  <1> QED
    BY <1>1, RevokeFields DEF ReqShape, RevokeAllOf, Revoke

\* A request that goes on with what it has keeps the shapes (Goto).
LEMMA GotoShape ==
    ASSUME Shape, NEW t \in Requests, NEW step \in {"issue", "write", "spend", "revoke"},
           Goto(t, step), Running(t), req[t].step # "respond",
           step = "issue" => req[t].state \in States,
           step = "spend" => req[t].ticket \in Tickets
    PROVE  ReqShape'
  <1>1. /\ step \in Steps \ {"idle"} /\ step \notin {"identify", "redeem"}
        /\ step \in {"authorize", "issue"} => req[t].state \in States
    BY DEF Steps
  <1>2. /\ req' \in [Requests -> Request] /\ Shaped(req'[t])
        /\ \A q \in Requests \ {t} : req'[q] = req[q]
    BY <1>1, GotoFields
  <1> QED
    BY <1>2 DEF Shape, ReqShape

\* The session of a request, and the cookie that its answer sets.
LEMMA AnswerType ==
    ASSUME Shape, NEW t \in Requests
    PROVE  /\ req[t].pending \in States \cup {None}
           /\ req[t].sets \in Cookies \cup {Keep}
           /\ req[t].cookie.user \in Users \cup {None}
           /\ req[t].cookie # NoCookie => req[t].cookie.user \in Users
  <1>1. req[t] \in Request
    BY DEF Shape, TypeOK
  <1> QED
    BY <1>1, CookiesDiffer DEF Request, Keep

\* A request that is over (Respond, Fail).
LEMMA EndFields ==
    ASSUME Shape, NEW t \in Requests, req' = [req EXCEPT ![t] = NoRequest]
    PROVE  /\ ReqShape'
           /\ req'[t] = NoRequest /\ \A q \in Requests \ {t} : req'[q] = req[q]
  BY NoRequestShape DEF Shape, TypeOK, ReqShape

\* The steps of a handler keep the shapes of requests (Step).
LEMMA HandlerShape ==
    ASSUME Shape, NEW t \in Requests, Step(t) \/ Fail(t)
    PROVE  ReqShape'
  <1>a. Running(t) /\ Shaped(req[t]) /\ req[t] \in Request
    BY DEF Step, Fail, Authorize, Resume, IssueCode, Identify, LoadPassword, ChangePassword,
           RedeemTicket, CommitTicket, LoadUser, RevokeAll, Respond, Running, Shape, TypeOK
  <1>b. \A q \in Requests : Shaped(req[q])
    BY DEF Shape
  <1>1. CASE Answer(t)
    BY <1>1, <1>a, AnswerShape, AnswerType DEF Answer
  <1>2. CASE Authorize(t)
    <2>1. CASE req' = Answered(t, req[t].state, Keep)
      BY <1>a, <1>2, <2>1, AnswerShape DEF Authorize, Shaped
    <2>2. CASE Goto(t, "issue")
      BY <1>2, <1>a, <2>2, GotoShape DEF Authorize, Shaped
    <2> QED
      BY <1>1, <1>2, <2>1, <2>2 DEF Authorize
  <1>3. CASE Resume(t)
    <2>1. CASE PopPending(t) /\ req[t].pending # None
      BY <1>3, <1>b, <2>1, PopFields DEF Resume, ReqShape
    <2> QED
      BY <1>1, <1>3, <2>1 DEF Resume
  <1>4. CASE Identify(t)
    <2> DEFINE signed == [user |-> req[t].user, method |-> req[t].op]
    <2>1. signed \in Cookies \ {NoCookie}
      BY <1>4, <1>a, CookiesDiffer DEF Identify, Shaped, Cookies
    <2>2. CASE req' = Answered(t, req[t].pending, signed)
      BY <1>a, <2>1, <2>2, AnswerShape, AnswerType
    <2>3. CASE req[t].pending # None /\
               req' = [req EXCEPT ![t].step = "issue", ![t].state = req[t].pending,
                                  ![t].pending = None, ![t].sets = signed]
      BY <1>4, <1>b, <2>1, <2>3, PopFields DEF Identify, ReqShape
    <2> QED
      BY <1>1, <1>4, <2>2, <2>3 DEF Identify
  <1>5. CASE Goto(t, "write") /\ LoadPassword(t)
    BY <1>5, <1>a, GotoShape DEF LoadPassword
  <1>6. CASE ChangePassword(t)
    BY <1>6, <1>a, AnswerShape, AnswerType DEF ChangePassword
  <1>7. CASE Goto(t, "spend") /\ RedeemTicket(t)
    BY <1>7, <1>a, GotoShape DEF RedeemTicket, Shaped
  <1>8. CASE CommitTicket(t)
    BY <1>8, <1>b, SpentFields DEF ReqShape
  <1>9. CASE LoadUser(t)
    <2>1. CASE Goto(t, "revoke")
      BY <1>9, <1>a, <2>1, GotoShape DEF LoadUser
    <2>2. CASE req' = Answered(t, req[t].pending, NoCookie)
      BY <1>a, <2>2, AnswerShape, AnswerType DEF Cookies
    <2> QED
      BY <1>9, <2>1, <2>2 DEF LoadUser
  <1>10. CASE RevokeAll(t)
    BY <1>10, <1>a, AnswerShape, AnswerType DEF RevokeAll, Cookies
  <1>11. CASE Respond(t) \/ Fail(t)
    BY <1>11, EndFields DEF Respond, Fail
  <1> QED
    BY <1>1, <1>2, <1>3, <1>4, <1>5, <1>6, <1>7, <1>8, <1>9, <1>10, <1>11
    DEF Step, IssueCode, LoadPassword, RedeemTicket

\* The variables beside the requests keep their types (Next).
OtherTypes ==
    /\ account \in [Users -> [available: BOOLEAN, temporary: BOOLEAN]]
    /\ cookie \in [Browsers -> Cookies]
    /\ pending \in [Browsers -> States \cup {None}]
    /\ asked \in [States -> Browsers \cup {None}]
    /\ codes \in [States -> {"none", "one", "more"}]
    /\ raced \in SUBSET Browsers
    /\ ticket \in [Tickets -> {"none", "issued", "used", "lapsed"}]
    /\ spent \in [Tickets -> SUBSET Requests]
    /\ appSession \in [AppSessions -> AppSession]
    /\ disabling \in SUBSET Users

\* The parts of Shape, which is kept as the two of them are.
LEMMA ShapeParts == Shape <=> OtherTypes /\ ReqShape
  BY DEF Shape, TypeOK, OtherTypes, ReqShape

\* A place for a session that is free again has its type.
LEMMA FreedType ==
    ASSUME OtherTypes, NEW J
    PROVE  [j \in AppSessions |-> IF j \in J THEN NoAppSession ELSE appSession[j]]
               \in [AppSessions -> AppSession]
  <1>1. NoAppSession \in AppSession
    BY DEF NoAppSession, AppSession
  <1> QED
    BY <1>1 DEF OtherTypes

\* A revocation keeps the types of the sessions (RevokeAllOf).
LEMMA RevokedTypes ==
    ASSUME OtherTypes, NEW u, NEW R, RevokeAllOf(u, R)
    PROVE  appSession' \in [AppSessions -> AppSession] /\ disabling' \in SUBSET Users
  <1>1. disabling' \in SUBSET Users
    BY DEF OtherTypes, RevokeAllOf
  <1>2. appSession' = [j \in AppSessions |->
                          IF j \in LiveOf(u) THEN NoAppSession ELSE appSession[j]]
    BY DEF RevokeAllOf, Revoke
  <1> QED
    BY <1>1, <1>2, FreedType

\* A request sent to Orbita keeps the types and the shapes (Call).
LEMMA CallShape ==
    ASSUME Shape, NEW t \in Requests, NEW b \in Browsers, Call(t, b)
    PROVE  Shape'
  <1>1. PICK r : Sendable(r) /\ Asks(r, b) /\ Send(t, b, r)
    BY CallForm
  <1>2. ReqShape'
    BY <1>1, SendFields DEF ReqShape, Shape
  <1>3. OtherTypes
    BY ShapeParts
  <1>4. asked' \in [States -> Browsers \cup {None}]
    BY <1>1, <1>3 DEF OtherTypes, Asks, Sendable
  <1>5. raced' \in SUBSET Browsers
    BY <1>1, <1>3 DEF OtherTypes, Send
  <1>6. OtherTypes'
    BY <1>1, <1>3, <1>4, <1>5 DEF OtherTypes, Send, opened
  <1> QED
    BY <1>2, <1>6, ShapeParts DEF Shape, TypeOK, ReqShape, OtherTypes

\* The step of a handler keeps the types of what is not a request (Step, Fail).
LEMMA HandlerTypes ==
    ASSUME Shape, NEW t \in Requests, Step(t) \/ Fail(t)
    PROVE  OtherTypes'
  <1>a. OtherTypes /\ req[t] \in Request /\ Shaped(req[t])
    BY ShapeParts DEF ReqShape
  <1>1. CASE UNCHANGED <<account, cookie, pending, asked, codes, raced, ticket, spent, opened>>
    BY <1>a, <1>1 DEF OtherTypes, opened
  <1>2. CASE IssueCode(t)
    <2>1. codes' \in [States -> {"none", "one", "more"}]
      BY <1>a, <1>2 DEF IssueCode, OtherTypes
    <2> QED
      BY <1>a, <1>2, <2>1 DEF IssueCode, OtherTypes, opened
  <1>3. CASE ChangePassword(t)
    <2>1. account' \in [Users -> [available: BOOLEAN, temporary: BOOLEAN]]
      BY <1>a, <1>3 DEF ChangePassword, OtherTypes
    <2> QED
      BY <1>a, <1>3, <2>1, RevokedTypes DEF ChangePassword, OtherTypes
  <1>4. CASE CommitTicket(t)
    <2>1. ticket' \in [Tickets -> {"none", "issued", "used", "lapsed"}]
      BY <1>a, <1>4 DEF CommitTicket, OtherTypes
    <2>2. spent' \in [Tickets -> SUBSET Requests]
      BY <1>a, <1>4 DEF CommitTicket, OtherTypes
    <2> QED
      BY <1>a, <1>4, <2>1, <2>2 DEF CommitTicket, OtherTypes, opened
  <1>5. CASE RevokeAll(t)
    BY <1>a, <1>5, RevokedTypes DEF RevokeAll, OtherTypes
  <1>6. CASE Respond(t)
    <2>1. req[t].browser \in Browsers /\ req[t].sets \in Cookies \cup {Keep}
          /\ SessionSent(t) \subseteq States \cup {None}
      BY <1>a, <1>6 DEF Respond, Shaped, Request, Keep, SessionSent, OtherTypes
    <2>2. cookie' \in [Browsers -> Cookies]
      BY <1>a, <1>6, <2>1 DEF Respond, OtherTypes
    <2>3. pending' \in [Browsers -> States \cup {None}]
      BY <1>a, <1>6, <2>1 DEF Respond, OtherTypes
    <2> QED
      BY <1>a, <1>6, <2>2, <2>3 DEF Respond, OtherTypes, opened
  <1>7. CASE Fail(t)
    <2>1. raced' \in SUBSET Browsers
      BY <1>a, <1>7 DEF Fail, Running, Shaped, OtherTypes
    <2> QED
      BY <1>a, <1>7, <2>1 DEF Fail, OtherTypes, opened
  <1> QED
    BY <1>1, <1>2, <1>3, <1>4, <1>5, <1>6, <1>7
    DEF Step, Authorize, Resume, Identify, LoadPassword, RedeemTicket, LoadUser

\* What happens to the sessions keeps the types and the shapes (CheckUser,
\* OpenAppSession, BeginDisabling, Disable, AbandonDisabling).
LEMMA SessionsShape ==
    ASSUME Shape,
           \/ \E j \in AppSessions : OpenAppSession(j) \/ \E u \in Users : CheckUser(j, u)
           \/ \E u \in Users : BeginDisabling(u) \/ Disable(u) \/ AbandonDisabling(u)
    PROVE  OtherTypes' /\ ReqShape'
  <1>a. OtherTypes /\ ReqShape
    BY ShapeParts
  <1>b. appSession \in [AppSessions -> AppSession] /\ NoAppSession \in AppSession
    BY <1>a DEF OtherTypes, NoAppSession, AppSession
  <1>1. ASSUME NEW j \in AppSessions, NEW u \in Users, CheckUser(j, u)
        PROVE  OtherTypes' /\ ReqShape'
    <2>1. [appSession[j] EXCEPT !.state = "checked", !.user = u] \in AppSession
      BY <1>b DEF AppSession
    <2>2. appSession' = [appSession EXCEPT
                            ![j] = [appSession[j] EXCEPT !.state = "checked", !.user = u]]
      BY <1>b, <1>1 DEF CheckUser
    <2>3. appSession' \in [AppSessions -> AppSession]
      BY <1>b, <2>1, <2>2
    <2> QED
      BY <1>a, <1>1, <2>3 DEF CheckUser, OtherTypes, ReqShape
  <1>2. ASSUME NEW j \in AppSessions, OpenAppSession(j)
        PROVE  OtherTypes' /\ ReqShape'
    <2> DEFINE overtaken == ~account[appSession[j].user].available
    <2>1. [appSession[j] EXCEPT !.state = "live", !.overtaken = overtaken] \in AppSession
      BY <1>b DEF AppSession
    <2>2. \/ appSession' = [appSession EXCEPT
                ![j] = [appSession[j] EXCEPT !.state = "live", !.overtaken = overtaken]]
          \/ appSession' = [appSession EXCEPT ![j] = NoAppSession]
      BY <1>b, <1>2 DEF OpenAppSession
    <2>3. appSession' \in [AppSessions -> AppSession]
      BY <1>b, <2>1, <2>2
    <2> QED
      BY <1>a, <1>2, <2>3 DEF OpenAppSession, OtherTypes, ReqShape
  <1>3. ASSUME NEW u \in Users, BeginDisabling(u)
        PROVE  OtherTypes' /\ ReqShape'
    <2>1. \A j \in AppSessions : [appSession[j] EXCEPT !.hit = TRUE] \in AppSession
      BY <1>b DEF AppSession
    <2>2. appSession' \in [AppSessions -> AppSession]
      BY <1>b, <1>3, <2>1 DEF BeginDisabling
    <2> QED
      BY <1>a, <1>3, <2>2 DEF BeginDisabling, OtherTypes, ReqShape
  <1>4. ASSUME NEW u \in Users, Disable(u)
        PROVE  OtherTypes' /\ ReqShape'
    <2>1. account' \in [Users -> [available: BOOLEAN, temporary: BOOLEAN]]
      BY <1>a, <1>4 DEF Disable, OtherTypes
    <2>2. \A j \in AppSessions : [appSession[j] EXCEPT !.overtaken = TRUE] \in AppSession
      BY <1>b DEF AppSession
    <2>3. appSession' \in [AppSessions -> AppSession]
      BY <1>b, <1>4, <2>2 DEF Disable
    <2>4. ReqShape'
      BY <1>a, <1>4, RevokeFields DEF Disable, ReqShape
    <2> QED
      BY <1>a, <1>4, <2>1, <2>3, <2>4 DEF Disable, OtherTypes
  <1>5. ASSUME NEW u \in Users, AbandonDisabling(u)
        PROVE  OtherTypes' /\ ReqShape'
    <2>1. \A j \in AppSessions : [appSession[j] EXCEPT !.hit = FALSE] \in AppSession
      BY <1>b DEF AppSession
    <2>2. appSession' \in [AppSessions -> AppSession]
      BY <1>b, <1>5, <2>1 DEF AbandonDisabling
    <2> QED
      BY <1>a, <1>5, <2>2 DEF AbandonDisabling, OtherTypes, ReqShape
  <1> QED
    BY <1>1, <1>2, <1>3, <1>4, <1>5

\* So does what else happens beside the requests (IssueTicket, LapseTicket,
\* LapseCookie, Enable).
LEMMA BesideShape ==
    ASSUME Shape,
           \/ \E k \in Tickets : IssueTicket(k) \/ LapseTicket(k)
           \/ \E b \in Browsers : LapseCookie(b)
           \/ \E u \in Users : Enable(u)
    PROVE  OtherTypes' /\ ReqShape'
  <1>a. OtherTypes /\ ReqShape
    BY ShapeParts
  <1>1. ASSUME NEW k \in Tickets, IssueTicket(k) \/ LapseTicket(k)
        PROVE  OtherTypes' /\ ReqShape'
    <2>1. ticket' \in [Tickets -> {"none", "issued", "used", "lapsed"}]
      BY <1>a, <1>1 DEF IssueTicket, LapseTicket, OtherTypes
    <2> QED
      BY <1>a, <1>1, <2>1 DEF IssueTicket, LapseTicket, OtherTypes, ReqShape, opened
  <1>2. ASSUME NEW b \in Browsers, LapseCookie(b)
        PROVE  OtherTypes' /\ ReqShape'
    <2>0. NoCookie \in Cookies
      BY DEF Cookies
    <2>1. cookie' \in [Browsers -> Cookies] /\ pending' \in [Browsers -> States \cup {None}]
      BY <1>a, <1>2, <2>0 DEF LapseCookie, OtherTypes
    <2> QED
      BY <1>a, <1>2, <2>1 DEF LapseCookie, OtherTypes, ReqShape, opened
  <1>3. ASSUME NEW u \in Users, Enable(u)
        PROVE  OtherTypes' /\ ReqShape'
    <2>1. account' \in [Users -> [available: BOOLEAN, temporary: BOOLEAN]]
      <3>1. account[u] \in [available: BOOLEAN, temporary: BOOLEAN]
        BY <1>a DEF OtherTypes
      <3>2. [account[u] EXCEPT !.available = TRUE] \in [available: BOOLEAN, temporary: BOOLEAN]
        BY <3>1
      <3>3. account' = [account EXCEPT ![u] = [account[u] EXCEPT !.available = TRUE]]
        BY <1>3 DEF Enable
      <3> QED
        BY <1>a, <3>2, <3>3 DEF OtherTypes
    <2> QED
      BY <1>a, <1>3, <2>1 DEF Enable, OtherTypes, ReqShape, opened
  <1> QED
    BY <1>1, <1>2, <1>3

\* Every step keeps the types and the shapes (Next).
LEMMA ShapeStep == Shape /\ [Next]_vars => Shape'
  <1> SUFFICES ASSUME Shape, [Next]_vars PROVE Shape'
    OBVIOUS
  <1>1. CASE \E t \in Requests, b \in Browsers : Call(t, b)
    BY <1>1, CallShape
  <1>2. CASE \E t \in Requests : Step(t) \/ Fail(t)
    <2>1. OtherTypes' /\ ReqShape'
      BY <1>2, HandlerShape, HandlerTypes
    <2> QED
      BY <2>1 DEF Shape, TypeOK, ReqShape, OtherTypes
  <1>3. CASE UNCHANGED vars
    BY <1>3 DEF vars, opened, Shape, TypeOK
  <1>4. CASE OtherTypes' /\ ReqShape'
    BY <1>4 DEF Shape, TypeOK, ReqShape, OtherTypes
  <1> QED
    BY <1>1, <1>2, <1>3, <1>4, SessionsShape, BesideShape DEF Next

\* The first state has the shapes (Init).
LEMMA ShapeInit == Init => Shape
  <1> SUFFICES ASSUME Init PROVE Shape
    OBVIOUS
  <1>1. ReqShape
    BY NoRequestShape DEF Init, ReqShape
  <1>2. OtherTypes
    BY DEF Init, OtherTypes, Cookies, NoAppSession, AppSession
  <1> QED
    BY <1>1, <1>2, ShapeParts

\* The shapes hold in every state (Spec).
LEMMA ShapeAlways == Spec => []Shape
  <1> QED
    BY ShapeInit, ShapeStep, PTL DEF Spec

\* Every state has the types of the cookies, the session and the tables.
THEOREM TypeCorrect == Spec => []TypeOK
  <1>1. Shape => TypeOK
    BY DEF Shape
  <1> QED
    BY <1>1, ShapeAlways, PTL

-----------------------------------------------------------------------------
(* What the later invariants need of a handler's step                         *)

\* The handoff s is the one that the request r holds: its response may keep it, or
\* it is about to be answered.
Holds(r, s) == r.pending = s \/ (r.step \in {"authorize", "issue"} /\ r.state = s)

\* A handler goes on with its request: it takes up no handoff that it did not hold,
\* issues only past the check of the password, spends only a ticket that it has
\* locked, and what it still owes has been revoked by nobody.
Moves(t) ==
    LET r == req[t]
        s == req'[t]
    IN
    /\ \A q \in Requests : (q # t => Like(req'[q], req[q])) /\ req'[q].owed \subseteq req[q].owed
    /\ s.browser = r.browser /\ s.sent = r.sent /\ s.step \notin {"idle", "authorize"}
    /\ \A h \in States : Holds(s, h) => Holds(r, h)
    /\ s.step = "issue" => s.pending # s.state
    /\ s.step = "issue" /\ s.op = "browse" =>
           r.op = "browse" /\ s.cookie = r.cookie /\ ~PasswordChangeRequired(t)
    /\ s.step = "spend" =>
           s.ticket = r.ticket /\ r.ticket \in Tickets /\ ticket[r.ticket] = "issued" /\ TicketLocked(t)
    /\ s.step # "respond" => s.cookie = r.cookie /\ r.step # "respond"
    /\ s.sets = NoCookie => ~SignedIn(t) \/ s.owed \cap LiveOf(r.cookie.user) = {}

\* An answer is such a step (Answered), unless it takes the cookie away and the
\* user is signed in.
LEMMA AnswerMoves ==
    ASSUME Shape, NEW t \in Requests, Running(t), NEW session \in States \cup {None},
           NEW sets \in Cookies \cup {Keep}, req' = Answered(t, session, sets),
           session = req[t].pending \/ (req[t].step = "authorize" /\ session = req[t].state),
           sets = NoCookie => ~SignedIn(t)
    PROVE  Moves(t)
  <1>1. Ended(req[t], req'[t], session, sets) /\ \A q \in Requests \ {t} : req'[q] = req[q]
    BY AnsweredFields
  <1>2. \A q \in Requests : (q # t => Like(req'[q], req[q])) /\ req'[q].owed \subseteq req[q].owed
    BY <1>1 DEF Like, Ended
  <1>3. \A h \in States : Holds(req'[t], h) => Holds(req[t], h)
    BY <1>1 DEF Holds, Ended
  <1> QED
    BY <1>1, <1>2, <1>3 DEF Moves, Ended

\* So is an answer with a revocation, which leaves nobody owed what it revokes
\* (RevokeAllOf).
LEMMA RevokeMoves ==
    ASSUME Shape, NEW t \in Requests, Running(t), NEW sets \in Cookies \cup {Keep},
           RevokeAllOf(req[t].cookie.user, Answered(t, req[t].pending, sets))
    PROVE  /\ Moves(t)
           /\ \A q \in Requests : req'[q].owed \cap LiveOf(req[t].cookie.user) = {}
  <1> DEFINE R == Answered(t, req[t].pending, sets)
             J == LiveOf(req[t].cookie.user)
  <1>1. /\ R \in [Requests -> Request] /\ Shaped(R[t])
        /\ Ended(req[t], R[t], req[t].pending, sets)
        /\ \A q \in Requests \ {t} : R[q] = req[q]
    BY AnsweredFields, AnswerType
  <1>2. req' = [q \in Requests |-> [R[q] EXCEPT !.owed = @ \ J]]
    BY DEF RevokeAllOf, Revoke
  <1> HIDE DEF R, J
  <1>3. ASSUME NEW q \in Requests
        PROVE  Shaped(R[q])
    <2>1. CASE q = t
      BY <1>1, <2>1
    <2>2. CASE q # t
      BY <1>1, <2>2 DEF Shape
    <2> QED
      BY <2>1, <2>2
  <1>4. \A q \in Requests : Like(req'[q], R[q]) /\ req'[q].owed = R[q].owed \ J
    <2>1. R \in [Requests -> Request] /\ \A q \in Requests : Shaped(R[q])
      BY <1>1, <1>3
    <2> QED
      BY <1>2, <2>1, RevokeFields
  <1>5. \A q \in Requests : (q # t => Like(req'[q], req[q])) /\ req'[q].owed \subseteq req[q].owed
    BY <1>1, <1>4 DEF Ended
  <1>6. \A q \in Requests : req'[q].owed \cap J = {}
    BY <1>4
  <1>7. /\ req'[t].browser = req[t].browser /\ req'[t].sent = req[t].sent
        /\ req'[t].step = "respond" /\ req'[t].pending = req[t].pending
    BY <1>1, <1>4 DEF Ended, Like
  <1>8. \A h \in States : Holds(req'[t], h) => Holds(req[t], h)
    BY <1>7 DEF Holds
  <1> QED
    BY <1>5, <1>6, <1>7, <1>8 DEF Moves, J

\* So is going on with what the request has (Goto).
LEMMA GotoMoves ==
    ASSUME Shape, NEW t \in Requests, NEW step \in {"issue", "write", "spend", "revoke"},
           Goto(t, step), Running(t), req[t].step # "respond",
           step = "issue" => /\ req[t].step = "authorize" /\ ~PasswordChangeRequired(t)
                             /\ req[t].pending # req[t].state,
           step = "spend" => /\ req[t].step = "redeem" /\ TicketLocked(t)
                             /\ ticket[req[t].ticket] = "issued"
    PROVE  Moves(t)
  <1>1. req[t] \in Request /\ Shaped(req[t])
    BY DEF Shape, TypeOK
  <1>2. /\ step \in Steps \ {"idle"} /\ step \notin {"identify", "redeem"}
        /\ step \in {"authorize", "issue"} => req[t].state \in States
        /\ step = "spend" => req[t].ticket \in Tickets
    BY <1>1 DEF Steps, Shaped
  <1>3. /\ req' \in [Requests -> Request] /\ Shaped(req'[t])
        /\ \A q \in Requests \ {t} : req'[q] = req[q]
        /\ req'[t] = [req[t] EXCEPT !.step = step]
    BY <1>2, GotoFields
  <1>4. /\ req'[t].step = step /\ req'[t].op = req[t].op /\ req'[t].browser = req[t].browser
        /\ req'[t].state = req[t].state /\ req'[t].ticket = req[t].ticket
        /\ req'[t].cookie = req[t].cookie /\ req'[t].sent = req[t].sent
        /\ req'[t].pending = req[t].pending /\ req'[t].sets = req[t].sets
        /\ req'[t].owed = req[t].owed
    BY <1>1, <1>3 DEF Request
  <1>5. \A q \in Requests : (q # t => Like(req'[q], req[q])) /\ req'[q].owed \subseteq req[q].owed
    BY <1>3, <1>4 DEF Like
  <1>6. \A h \in States : Holds(req'[t], h) => Holds(req[t], h)
    BY <1>4 DEF Holds
  <1>7. req'[t].sets # NoCookie
    BY <1>1, <1>4 DEF Shaped
  <1> QED
    BY <1>2, <1>4, <1>5, <1>6, <1>7 DEF Moves

\* So is taking up the pending handoff (PopPending, Identify).
LEMMA PopMoves ==
    ASSUME Shape, NEW t \in Requests, req[t].pending # None, req[t].step # "respond",
           \A q \in Requests \ {t} : req'[q] = req[q], Shaped(req'[t]),
           Popped(req[t], req'[t]),
           req[t].op = "browse" => ~PasswordChangeRequired(t)
    PROVE  Moves(t)
  <1>1. \A q \in Requests : (q # t => Like(req'[q], req[q])) /\ req'[q].owed \subseteq req[q].owed
    BY DEF Popped, Like
  <1>2. \A h \in States : Holds(req'[t], h) => Holds(req[t], h)
    BY CentralSessionAssumption DEF Popped, Holds
  <1>3. req'[t].sets # NoCookie
    BY DEF Popped, Shaped
  <1> QED
    BY <1>1, <1>2, <1>3 DEF Popped, Moves

\* Every step of a handler but the response is of this kind (Step).
LEMMA HandlerMoves ==
    ASSUME Shape, NEW t \in Requests, Step(t), ~Respond(t),
           req[t].step = "authorize" => req[t].pending # req[t].state
    PROVE  Moves(t)
  <1>a. Running(t) /\ Shaped(req[t]) /\ req[t] \in Request /\ req[t].step # "respond"
    BY DEF Step, Authorize, Resume, IssueCode, Identify, LoadPassword, ChangePassword,
           RedeemTicket, CommitTicket, LoadUser, RevokeAll, Running, Shape, TypeOK
  <1>1. CASE Answer(t)
    BY <1>1, <1>a, AnswerMoves, AnswerType DEF Answer, Shaped
  <1>2. CASE Authorize(t)
    <2>1. CASE req' = Answered(t, req[t].state, Keep)
      BY <1>a, <1>2, <2>1, AnswerMoves, CookiesDiffer DEF Authorize, Shaped
    <2>2. CASE Goto(t, "issue") /\ ~PasswordChangeRequired(t)
      BY <1>2, <1>a, <2>2, GotoMoves DEF Authorize
    <2> QED
      BY <1>1, <1>2, <2>1, <2>2 DEF Authorize
  <1>3. CASE Resume(t)
    <2>1. CASE PopPending(t) /\ req[t].pending # None /\ ~PasswordChangeRequired(t)
      BY <1>3, <1>a, <2>1, PopFields, PopMoves DEF Resume
    <2> QED
      BY <1>1, <1>3, <2>1 DEF Resume
  <1>4. CASE Identify(t)
    <2> DEFINE signed == [user |-> req[t].user, method |-> req[t].op]
    <2>1. signed \in Cookies \ {NoCookie}
      BY <1>4, <1>a, CookiesDiffer DEF Identify, Shaped, Cookies
    <2>2. CASE req' = Answered(t, req[t].pending, signed)
      BY <1>a, <2>1, <2>2, AnswerMoves, AnswerType
    <2>3. CASE req[t].op = "microsoft" /\ req[t].pending # None /\
               req' = [req EXCEPT ![t].step = "issue", ![t].state = req[t].pending,
                                  ![t].pending = None, ![t].sets = signed]
      <3>1. /\ \A q \in Requests \ {t} : req'[q] = req[q]
            /\ Shaped(req'[t]) /\ Popped(req[t], req'[t])
        BY <1>4, <2>1, <2>3, PopFields DEF Identify
      <3> QED
        BY <1>a, <2>3, <3>1, PopMoves
    <2> QED
      BY <1>1, <1>4, <2>2, <2>3 DEF Identify
  <1>5. CASE Goto(t, "write") /\ LoadPassword(t)
    BY <1>5, <1>a, GotoMoves DEF LoadPassword
  <1>6. CASE ChangePassword(t)
    BY <1>6, <1>a, RevokeMoves DEF ChangePassword
  <1>7. CASE Goto(t, "spend") /\ RedeemTicket(t) /\ ticket[req[t].ticket] = "issued"
    BY <1>7, <1>a, GotoMoves DEF RedeemTicket
  <1>8. CASE CommitTicket(t)
    <2>1. /\ \A q \in Requests : /\ q # t => Like(req'[q], req[q])
                                 /\ req'[q].owed \subseteq req[q].owed
          /\ \A h \in States : Holds(req'[t], h) => Holds(req[t], h)
      BY <1>8, SpentFields DEF Like, Holds
    <2>2. req[t].sets # NoCookie
      BY <1>a DEF Shaped
    <2> QED
      BY <1>8, <1>a, <2>1, <2>2, SpentFields DEF Moves
  <1>9. CASE LoadUser(t)
    <2>1. CASE Goto(t, "revoke")
      BY <1>9, <1>a, <2>1, GotoMoves DEF LoadUser
    <2>2. CASE req' = Answered(t, req[t].pending, NoCookie) /\ ~SignedIn(t)
      BY <1>a, <2>2, AnswerMoves, AnswerType DEF Cookies
    <2> QED
      BY <1>9, <2>1, <2>2 DEF LoadUser
  <1>10. CASE RevokeAll(t)
    BY <1>10, <1>a, RevokeMoves DEF RevokeAll, Cookies
  <1> QED
    BY <1>1, <1>2, <1>3, <1>4, <1>5, <1>6, <1>7, <1>8, <1>9, <1>10
    DEF Step, IssueCode, LoadPassword, RedeemTicket

-----------------------------------------------------------------------------
(* What a logout leaves                                                       *)

\* A session is somebody's, and is overtaken while it is live and its user disabled.
SessionsInv ==
    \A j \in AppSessions :
        /\ appSession[j].state # "none" => appSession[j].user \in Users
        /\ appSession[j].state = "live" /\ ~account[appSession[j].user].available =>
               appSession[j].overtaken

\* What a request owes is live, and until it responds the user's own.
OwedInv ==
    \A t \in Requests : \A j \in req[t].owed :
        /\ appSession[j].state = "live"
        /\ req[t].step # "respond" => appSession[j].user = req[t].cookie.user

\* The inductive invariant of the logouts.
LogoutInv == SessionsInv /\ OwedInv /\ LogoutsLeaveNoSession

\* It is kept when what is still owed stays a live session, and of whom it was.
LEMMA LogoutFrame ==
    ASSUME Shape, Shape', LogoutInv, SessionsInv',
           \A t \in Requests :
               /\ req'[t].owed \subseteq req[t].owed
               /\ req'[t].step # "respond" => req[t].step # "respond" /\ req'[t].cookie = req[t].cookie
               /\ req'[t].sets = NoCookie /\ req[t].sets # NoCookie =>
                      \A j \in req'[t].owed : appSession[j].overtaken
               /\ \A j \in req'[t].owed :
                      /\ appSession'[j].state = "live"
                      /\ appSession'[j].user = appSession[j].user
                      /\ appSession[j].overtaken => appSession'[j].overtaken
    PROVE  LogoutInv'
  <1>1. OwedInv'
    BY DEF LogoutInv, OwedInv
  <1>2. \A t \in Requests : req[t].sets = NoCookie => req[t].step = "respond"
    BY DEF Shape, Shaped
  <1>3. LogoutsLeaveNoSession'
    BY <1>2 DEF LogoutInv, LogoutsLeaveNoSession
  <1> QED
    BY <1>1, <1>3 DEF LogoutInv

\* A handler keeps it (Step, Fail).
LEMMA LogoutHandler ==
    ASSUME Shape, Shape', LogoutInv, NEW t \in Requests, Step(t) \/ Fail(t),
           req[t].step = "authorize" => req[t].pending # req[t].state
    PROVE  LogoutInv'
  <1>a. Running(t) /\ Shaped(req[t]) /\ req[t] \in Request
    BY DEF Step, Fail, Authorize, Resume, IssueCode, Identify, LoadPassword, ChangePassword,
           RedeemTicket, CommitTicket, LoadUser, RevokeAll, Respond, Running, Shape, TypeOK
  <1>b. \A q \in Requests : req[q].owed \subseteq AppSessions
    BY DEF Shape, TypeOK, Request
  <1>1. CASE Respond(t) \/ Fail(t)
    <2>1. /\ req'[t] = NoRequest /\ \A q \in Requests \ {t} : req'[q] = req[q]
          /\ UNCHANGED <<account, appSession>>
      BY <1>1, EndFields DEF Respond, Fail, opened
    <2>2. NoRequest.owed = {} /\ NoRequest.sets = Keep
      BY DEF NoRequest
    <2>3. SessionsInv'
      BY <2>1 DEF LogoutInv, SessionsInv
    <2>4. OwedInv'
      BY <2>1, <2>2 DEF LogoutInv, OwedInv
    <2>5. LogoutsLeaveNoSession'
      BY <2>1, <2>2 DEF LogoutInv, LogoutsLeaveNoSession
    <2> QED
      BY <2>3, <2>4, <2>5 DEF LogoutInv
  <1>2. ASSUME Moves(t), req[t].step # "respond", SessionsInv',
               \A q \in Requests : \A j \in req'[q].owed : appSession'[j] = appSession[j]
        PROVE  LogoutInv'
    <2>1. \A j \in req[t].owed :
              /\ appSession[j].state = "live" /\ appSession[j].user = req[t].cookie.user
              /\ appSession[j].user \in Users
      BY <1>2, <1>b DEF LogoutInv, OwedInv, SessionsInv
    <2>2. req'[t].owed \subseteq LiveOf(req[t].cookie.user)
      BY <1>2, <1>b, <2>1 DEF LiveOf, Moves
    <2>3. ASSUME req'[t].sets = NoCookie
          PROVE  \A j \in req'[t].owed : appSession[j].overtaken
      <3>1. CASE req'[t].owed \cap LiveOf(req[t].cookie.user) = {}
        BY <2>2, <3>1
      <3>2. CASE ~SignedIn(t)
        <4> SUFFICES ASSUME NEW j \in req'[t].owed PROVE appSession[j].overtaken
          OBVIOUS
        <4>1. j \in req[t].owed /\ j \in AppSessions
          BY <1>2, <1>b DEF Moves
        <4>2. req[t].cookie # NoCookie
          BY <2>1, <4>1, CookiesDiffer, CentralSessionAssumption
        <4>3. ~account[appSession[j].user].available
          BY <2>1, <3>2, <4>1, <4>2 DEF SignedIn
        <4> QED
          BY <2>1, <4>1, <4>3 DEF LogoutInv, SessionsInv
      <3> QED
        BY <1>2, <2>3, <3>1, <3>2 DEF Moves
    <2> QED
      BY <1>2, <2>1, <2>3, LogoutFrame DEF Moves, Like, LogoutInv, OwedInv
  <1>3. ASSUME NEW sets \in Cookies \cup {Keep}, req[t].step # "respond",
               RevokeAllOf(req[t].cookie.user, Answered(t, req[t].pending, sets)),
               \A u \in Users : account'[u].available = account[u].available
        PROVE  LogoutInv'
    <2>1. Moves(t) /\ \A q \in Requests : req'[q].owed \cap LiveOf(req[t].cookie.user) = {}
      BY <1>3, <1>a, RevokeMoves
    <2>2. appSession' = [j \in AppSessions |->
              IF j \in LiveOf(req[t].cookie.user) THEN NoAppSession ELSE appSession[j]]
      BY <1>3 DEF RevokeAllOf, Revoke
    <2>3. \A q \in Requests : \A j \in req'[q].owed : appSession'[j] = appSession[j]
      BY <1>b, <2>1, <2>2 DEF Moves
    <2>4. SessionsInv'
      BY <1>3, <2>2 DEF LogoutInv, SessionsInv, NoAppSession
    <2> QED
      BY <1>2, <1>3, <2>1, <2>3, <2>4
  <1>4. CASE ChangePassword(t)
    <2>1. \A u \in Users : account'[u].available = account[u].available
      <3>1. account \in [Users -> [available: BOOLEAN, temporary: BOOLEAN]]
        BY DEF Shape, TypeOK
      <3> QED
        BY <1>4, <3>1 DEF ChangePassword
    <2> QED
      BY <1>3, <1>4, <2>1 DEF ChangePassword
  <1>5. CASE RevokeAll(t)
    BY <1>3, <1>5 DEF RevokeAll, Cookies
  <1>6. CASE Step(t) /\ ~Respond(t) /\ ~ChangePassword(t) /\ ~RevokeAll(t)
    <2>1. UNCHANGED <<account, appSession>> /\ req[t].step # "respond"
      BY <1>6 DEF Step, Authorize, Resume, IssueCode, Identify, LoadPassword, RedeemTicket,
                  CommitTicket, LoadUser, opened
    <2>2. SessionsInv'
      BY <2>1 DEF LogoutInv, SessionsInv
    <2> QED
      BY <1>2, <1>6, <2>1, <2>2, HandlerMoves
  <1> QED
    BY <1>1, <1>4, <1>5, <1>6

\* What happens to the sessions keeps it (CheckUser, OpenAppSession, BeginDisabling,
\* Disable, AbandonDisabling).
LEMMA LogoutSessions ==
    ASSUME Shape, Shape', LogoutInv,
           \/ \E j \in AppSessions : OpenAppSession(j) \/ \E u \in Users : CheckUser(j, u)
           \/ \E u \in Users : BeginDisabling(u) \/ Disable(u) \/ AbandonDisabling(u)
    PROVE  LogoutInv'
  <1>a. /\ appSession \in [AppSessions -> AppSession] /\ req \in [Requests -> Request]
        /\ account \in [Users -> [available: BOOLEAN, temporary: BOOLEAN]]
        /\ \A q \in Requests : req[q].owed \subseteq AppSessions
    BY DEF Shape, TypeOK, Request
  <1>b. \A q \in Requests : \A j \in req[q].owed : appSession[j].state = "live"
    BY DEF LogoutInv, OwedInv
  <1>1. ASSUME UNCHANGED req, SessionsInv',
               \A j \in AppSessions : appSession[j].state = "live" =>
                   /\ appSession'[j].state = "live" /\ appSession'[j].user = appSession[j].user
                   /\ appSession'[j].overtaken = appSession[j].overtaken
        PROVE  LogoutInv'
    BY <1>1, <1>a, <1>b, LogoutFrame DEF LogoutInv, OwedInv, LogoutsLeaveNoSession
  <1>2. ASSUME NEW j \in AppSessions, NEW u \in Users, CheckUser(j, u)
        PROVE  LogoutInv'
    <2>1. /\ appSession'[j].state = "checked" /\ appSession'[j].user = u
          /\ \A i \in AppSessions \ {j} : appSession'[i] = appSession[i]
          /\ appSession[j].state = "none" /\ UNCHANGED <<req, account>>
      BY <1>a, <1>2 DEF CheckUser, AppSession
    <2>2. SessionsInv'
      BY <2>1 DEF LogoutInv, SessionsInv
    <2> QED
      BY <1>1, <2>1, <2>2
  <1>3. ASSUME NEW j \in AppSessions, OpenAppSession(j)
        PROVE  LogoutInv'
    <2>1. /\ \A i \in AppSessions \ {j} : appSession'[i] = appSession[i]
          /\ appSession[j].state = "checked" /\ UNCHANGED <<req, account>>
      BY <1>a, <1>3 DEF OpenAppSession
    <2>2. \/ appSession'[j] = NoAppSession
          \/ /\ appSession'[j].state = "live" /\ appSession'[j].user = appSession[j].user
             /\ appSession'[j].overtaken = ~account[appSession[j].user].available
      BY <1>a, <1>3 DEF OpenAppSession, AppSession
    <2>3. ASSUME NEW i \in AppSessions
          PROVE  /\ appSession'[i].state # "none" => appSession'[i].user \in Users
                 /\ appSession'[i].state = "live" /\ ~account'[appSession'[i].user].available =>
                        appSession'[i].overtaken
      <3>1. CASE appSession'[i] = NoAppSession
        BY <3>1 DEF NoAppSession
      <3>2. CASE i = j /\ appSession'[j] # NoAppSession
        BY <2>1, <2>2, <3>2 DEF LogoutInv, SessionsInv
      <3>3. CASE i # j
        BY <2>1, <3>3 DEF LogoutInv, SessionsInv
      <3> QED
        BY <3>1, <3>2, <3>3
    <2>4. SessionsInv'
      BY <2>3 DEF SessionsInv
    <2> QED
      BY <1>1, <2>1, <2>4
  <1>4. ASSUME NEW u \in Users, BeginDisabling(u) \/ AbandonDisabling(u)
        PROVE  LogoutInv'
    <2>1. \A j \in AppSessions :
              /\ appSession'[j].state = appSession[j].state /\ appSession'[j].user = appSession[j].user
              /\ appSession'[j].overtaken = appSession[j].overtaken
      BY <1>a, <1>4 DEF BeginDisabling, AbandonDisabling, AppSession
    <2>2. UNCHANGED <<req, account>>
      BY <1>4 DEF BeginDisabling, AbandonDisabling
    <2>3. SessionsInv'
      BY <2>1, <2>2 DEF LogoutInv, SessionsInv
    <2> QED
      BY <1>1, <2>1, <2>2, <2>3
  <1>5. ASSUME NEW u \in Users, Disable(u)
        PROVE  LogoutInv'
    <2> DEFINE missed == {j \in LiveOf(u) : ~appSession[j].hit}
    <2>2. /\ \A j \in missed : /\ appSession'[j].state = "live" /\ appSession'[j].overtaken
                               /\ appSession'[j].user = appSession[j].user
          /\ \A j \in LiveOf(u) \ missed : appSession'[j] = NoAppSession
          /\ \A j \in AppSessions \ LiveOf(u) : appSession'[j] = appSession[j]
      BY <1>a, <1>5 DEF Disable, AppSession, LiveOf
    <2>3. \A v \in Users \ {u} : account'[v] = account[v]
      BY <1>a, <1>5 DEF Disable
    <2> HIDE DEF missed
    <2>4. \A q \in Requests :
              Like(req'[q], req[q]) /\ req'[q].owed = req[q].owed \ (LiveOf(u) \ missed)
      <3>1. LiveOf(u) \ missed = {j \in LiveOf(u) : appSession[j].hit}
        BY DEF missed
      <3> QED
        BY <1>5, <3>1, DisableFields
    <2>5. ASSUME NEW j \in AppSessions
          PROVE  /\ appSession'[j].state # "none" => appSession'[j].user \in Users
                 /\ appSession'[j].state = "live" /\ ~account'[appSession'[j].user].available =>
                        appSession'[j].overtaken
      <3>1. CASE j \in missed
        BY <2>2, <3>1 DEF LogoutInv, SessionsInv, missed, LiveOf
      <3>2. CASE j \in LiveOf(u) \ missed
        BY <2>2, <3>2 DEF NoAppSession
      <3>3. CASE j \notin LiveOf(u)
        BY <2>2, <2>3, <3>3 DEF LogoutInv, SessionsInv, LiveOf
      <3> QED
        BY <3>1, <3>2, <3>3
    <2>6. SessionsInv'
      BY <2>5 DEF SessionsInv
    <2>7. \A q \in Requests : \A j \in req'[q].owed :
              /\ appSession'[j].state = "live" /\ appSession'[j].user = appSession[j].user
              /\ appSession[j].overtaken => appSession'[j].overtaken
      BY <1>a, <1>b, <2>2, <2>4
    <2> QED
      BY <2>4, <2>6, <2>7, LogoutFrame DEF Like
  <1> QED
    BY <1>2, <1>3, <1>4, <1>5

\* Every step keeps it (Next).
LEMMA LogoutStep ==
    ASSUME Shape, LogoutInv, [Next]_vars,
           \A t \in Requests : req[t].step = "authorize" => req[t].pending # req[t].state
    PROVE  LogoutInv'
  <1>a. Shape'
    BY ShapeStep
  <1>1. ASSUME NEW t \in Requests, NEW b \in Browsers, Call(t, b)
        PROVE  LogoutInv'
    <2>1. PICK r : Sendable(r) /\ Asks(r, b) /\ Send(t, b, r)
      BY <1>1, CallForm
    <2>2. /\ req'[t].owed = {} \/ req'[t].cookie = cookie[b]
          /\ req'[t].owed \subseteq LiveOf(cookie[b].user)
          /\ req'[t].sets = Keep /\ \A q \in Requests \ {t} : req'[q] = req[q]
      BY <2>1, SendFields
    <2>3. UNCHANGED <<account, appSession>>
      BY <2>1 DEF Send, opened
    <2>4. SessionsInv'
      BY <2>3 DEF LogoutInv, SessionsInv
    <2>5. OwedInv'
      BY <2>2, <2>3 DEF LogoutInv, OwedInv, LiveOf
    <2>6. LogoutsLeaveNoSession'
      BY <2>2, <2>3, CookiesDiffer DEF LogoutInv, LogoutsLeaveNoSession
    <2> QED
      BY <2>4, <2>5, <2>6 DEF LogoutInv
  <1>2. ASSUME NEW u \in Users, Enable(u)
        PROVE  LogoutInv'
    <2>1. /\ account \in [Users -> [available: BOOLEAN, temporary: BOOLEAN]]
          /\ account' = [account EXCEPT ![u].available = TRUE] /\ UNCHANGED <<appSession, req>>
      BY <1>2 DEF Enable, Shape, TypeOK, opened
    <2>2. \A v \in Users : ~account'[v].available => ~account[v].available
      BY <2>1
    <2> QED
      BY <2>1, <2>2 DEF LogoutInv, SessionsInv, OwedInv, LogoutsLeaveNoSession
  <1>3. CASE UNCHANGED <<account, appSession, req>>
    BY <1>3 DEF LogoutInv, SessionsInv, OwedInv, LogoutsLeaveNoSession
  <1> QED
    BY <1>a, <1>1, <1>2, <1>3, LogoutHandler, LogoutSessions
    DEF Next, vars, opened, IssueTicket, LapseTicket, LapseCookie

-----------------------------------------------------------------------------
(* What a temporary password opens                                            *)

\* A handoff that a browser asked for, or resumes, is past the check of the password.
GateInv ==
    \A t \in Requests :
        req[t].step = "issue" /\ req[t].op = "browse" => ~PasswordChangeRequired(t)

\* A password that has been replaced is not temporary again (ChangePassword).
LEMMA TemporaryShrinks ==
    ASSUME Shape, [Next]_vars, NEW u \in Users, account'[u].temporary
    PROVE  account[u].temporary
  <1>1. account \in [Users -> [available: BOOLEAN, temporary: BOOLEAN]]
    BY DEF Shape, TypeOK
  <1>2. ASSUME NEW v, account' = [account EXCEPT ![v].temporary = FALSE]
        PROVE  account[u].temporary
    BY <1>1, <1>2
  <1>3. ASSUME NEW v, NEW a, account' = [account EXCEPT ![v].available = a]
        PROVE  account[u].temporary
    BY <1>1, <1>3
  <1>4. \/ UNCHANGED account
        \/ \E v : account' = [account EXCEPT ![v].temporary = FALSE]
        \/ \E v, a : account' = [account EXCEPT ![v].available = a]
    <2>1. ASSUME NEW t \in Requests, NEW b \in Browsers, Call(t, b)
          PROVE  UNCHANGED account
      <3>1. PICK r : Send(t, b, r)
        BY <2>1, CallForm
      <3> QED
        BY <3>1 DEF Send
    <2> QED
      BY <2>1 DEF Next, vars, Step, Fail, Authorize, Resume, IssueCode, Identify, LoadPassword,
           ChangePassword, RedeemTicket, CommitTicket, LoadUser, RevokeAll, Respond,
           IssueTicket, LapseTicket, LapseCookie, CheckUser, OpenAppSession, BeginDisabling,
           Disable, AbandonDisabling, Enable
  <1> QED
    BY <1>2, <1>3, <1>4

\* Every step keeps it (Next).
LEMMA GateStep ==
    ASSUME Shape, GateInv, [Next]_vars,
           \A t \in Requests : req[t].step = "authorize" => req[t].pending # req[t].state
    PROVE  GateInv'
  <1>1. ASSUME NEW q \in Requests, req'[q].cookie = req[q].cookie, ~PasswordChangeRequired(q)
        PROVE  ~PasswordChangeRequired(q)'
    <2>1. req[q].cookie.method = "local" => req[q].cookie.user \in Users
      <3>1. req[q].cookie \in Cookies
        BY DEF Shape, TypeOK, Request
      <3> QED
        BY <3>1, CookiesDiffer
    <2> QED
      BY <1>1, <2>1, TemporaryShrinks DEF PasswordChangeRequired
  <1>2. ASSUME NEW t \in Requests, Moves(t)
        PROVE  GateInv'
    <2>1. ASSUME NEW q \in Requests, req'[q].step = "issue", req'[q].op = "browse"
          PROVE  req'[q].cookie = req[q].cookie /\ ~PasswordChangeRequired(q)
      BY <1>2, <2>1 DEF Moves, Like, GateInv
    <2> QED
      BY <1>1, <2>1 DEF GateInv
  <1>3. ASSUME NEW t \in Requests, req'[t].step # "issue",
               \A q \in Requests \ {t} : req'[q] = req[q]
        PROVE  GateInv'
    BY <1>1, <1>3 DEF GateInv
  <1>4. ASSUME NEW t \in Requests, NEW b \in Browsers, Call(t, b)
        PROVE  GateInv'
    <2>1. PICK r : Sendable(r) /\ Asks(r, b) /\ Send(t, b, r)
      BY <1>4, CallForm
    <2>2. req'[t].step # "issue" /\ \A q \in Requests \ {t} : req'[q] = req[q]
      BY <2>1, SendFields DEF Sendable
    <2> QED
      BY <1>3, <2>2
  <1>5. ASSUME NEW t \in Requests, Step(t) \/ Fail(t)
        PROVE  GateInv'
    <2>1. CASE Respond(t) \/ Fail(t)
      <3>1. req'[t] = NoRequest /\ \A q \in Requests \ {t} : req'[q] = req[q]
        BY <2>1, EndFields DEF Respond, Fail
      <3> QED
        BY <1>3, <3>1 DEF NoRequest
    <2> QED
      BY <1>2, <1>5, <2>1, HandlerMoves
  <1>6. ASSUME NEW u \in Users, Disable(u)
        PROVE  GateInv'
    <2>1. \A q \in Requests : Like(req'[q], req[q])
      BY <1>6, DisableFields
    <2> QED
      BY <1>1, <2>1 DEF GateInv, Like
  <1>7. CASE UNCHANGED req
    BY <1>1, <1>7 DEF GateInv
  <1> QED
    BY <1>4, <1>5, <1>6, <1>7
    DEF Next, vars, IssueTicket, LapseTicket, LapseCookie, CheckUser, OpenAppSession,
        BeginDisabling, AbandonDisabling, Enable

-----------------------------------------------------------------------------
(* How often a ticket is spent                                                *)

\* A ticket that is being spent has not been, nobody else is spending it, and what
\* has not been used has been spent by nobody.
TicketInv ==
    /\ \A t \in Requests : req[t].step = "spend" => ticket[req[t].ticket] \in {"issued", "lapsed"}
    /\ \A t, q \in Requests :
           req[t].step = "spend" /\ req[q].step = "spend" /\ req[t].ticket = req[q].ticket => t = q
    /\ \A k \in Tickets : ticket[k] # "used" => spent[k] = {}

\* Every step keeps it (Next).
LEMMA TicketStep ==
    ASSUME Shape, TicketInv, [Next]_vars,
           \A t \in Requests : req[t].step = "authorize" => req[t].pending # req[t].state
    PROVE  TicketInv'
  <1>a. ticket \in [Tickets -> {"none", "issued", "used", "lapsed"}]
        /\ spent \in [Tickets -> SUBSET Requests]
    BY DEF Shape, TypeOK
  <1>b. \A t \in Requests : req[t].step = "spend" => req[t].ticket \in Tickets
    BY DEF Shape, Shaped
  <1>1. ASSUME NEW t \in Requests, UNCHANGED <<ticket, spent>>,
               req'[t].step # "spend", \A q \in Requests \ {t} : Like(req'[q], req[q])
        PROVE  TicketInv'
    BY <1>1 DEF TicketInv, Like
  <1>2. ASSUME NEW t \in Requests, Moves(t), UNCHANGED <<ticket, spent>>
        PROVE  TicketInv'
    <2>1. CASE req'[t].step = "spend"
      <3>1. ASSUME NEW q \in Requests, req'[q].step = "spend"
            PROVE  ticket[req'[q].ticket] \in {"issued", "lapsed"}
        BY <1>2, <2>1, <3>1 DEF Moves, Like, TicketInv
      <3>2. \A q \in Requests \ {t} : req'[q].step = "spend" => req'[q].ticket # req'[t].ticket
        BY <1>2, <2>1 DEF Moves, Like, TicketLocked
      <3>3. ASSUME NEW p \in Requests, NEW q \in Requests, req'[p].step = "spend",
                   req'[q].step = "spend", req'[p].ticket = req'[q].ticket
            PROVE  p = q
        BY <1>2, <3>2, <3>3 DEF Moves, Like, TicketInv
      <3> QED
        BY <1>2, <3>1, <3>3 DEF TicketInv
    <2> QED
      BY <1>1, <1>2, <2>1 DEF Moves
  <1>3. ASSUME NEW t \in Requests, CommitTicket(t)
        PROVE  TicketInv'
    <2>1. /\ req[t].step = "spend" /\ req[t].ticket \in Tickets
          /\ ticket' = [ticket EXCEPT ![req[t].ticket] = "used"]
          /\ spent' = [spent EXCEPT ![req[t].ticket] = @ \cup {t}]
      BY <1>3, <1>b DEF CommitTicket
    <2>2. req'[t].step = "logout" /\ \A q \in Requests \ {t} : req'[q] = req[q]
      BY <1>3, SpentFields
    <2>3. \A q \in Requests : req'[q].step = "spend" => q # t /\ req'[q] = req[q]
      BY <2>2
    <2>4. \A q \in Requests : req'[q].step = "spend" => req[q].ticket # req[t].ticket
      BY <2>1, <2>3 DEF TicketInv
    <2>5. \A q \in Requests : req'[q].step = "spend" => ticket'[req'[q].ticket] \in {"issued", "lapsed"}
      BY <1>a, <1>b, <2>1, <2>3, <2>4 DEF TicketInv
    <2>6. \A k \in Tickets : ticket'[k] # "used" => spent'[k] = {}
      BY <1>a, <2>1 DEF TicketInv
    <2> QED
      BY <2>3, <2>5, <2>6 DEF TicketInv
  <1>4. ASSUME NEW t \in Requests, NEW b \in Browsers, Call(t, b)
        PROVE  TicketInv'
    <2>1. PICK r : Sendable(r) /\ Asks(r, b) /\ Send(t, b, r)
      BY <1>4, CallForm
    <2>2. req'[t].step # "spend" /\ \A q \in Requests \ {t} : req'[q] = req[q]
      BY <2>1, SendFields DEF Sendable
    <2> QED
      BY <1>1, <2>1, <2>2 DEF Send, Like
  <1>5. ASSUME NEW t \in Requests, Step(t) \/ Fail(t)
        PROVE  TicketInv'
    <2>1. CASE Respond(t) \/ Fail(t)
      <3>1. req'[t] = NoRequest /\ \A q \in Requests \ {t} : req'[q] = req[q]
        BY <2>1, EndFields DEF Respond, Fail
      <3> QED
        BY <1>1, <2>1, <3>1 DEF NoRequest, Like, Respond, Fail
    <2>2. CASE Step(t) /\ ~Respond(t) /\ ~CommitTicket(t)
      <3>1. UNCHANGED <<ticket, spent>>
        BY <2>2 DEF Step, Authorize, Resume, IssueCode, Identify, LoadPassword, ChangePassword,
                    RedeemTicket, LoadUser, RevokeAll
      <3> QED
        BY <1>2, <2>2, <3>1, HandlerMoves
    <2> QED
      BY <1>3, <1>5, <2>1, <2>2
  <1>6. ASSUME NEW u \in Users, Disable(u)
        PROVE  TicketInv'
    <2>1. \A q \in Requests : Like(req'[q], req[q])
      BY <1>6, DisableFields
    <2>2. UNCHANGED <<ticket, spent>>
      BY <1>6 DEF Disable
    <2> QED
      BY <2>1, <2>2 DEF TicketInv, Like
  <1>7. ASSUME NEW k \in Tickets, IssueTicket(k)
        PROVE  TicketInv'
    BY <1>a, <1>b, <1>7 DEF TicketInv, IssueTicket
  <1>8. ASSUME NEW k \in Tickets, LapseTicket(k)
        PROVE  TicketInv'
    BY <1>a, <1>b, <1>8 DEF TicketInv, LapseTicket
  <1>9. CASE UNCHANGED <<req, ticket, spent>>
    BY <1>9 DEF TicketInv
  <1> QED
    BY <1>4, <1>5, <1>6, <1>7, <1>8, <1>9
    DEF Next, vars, LapseCookie, CheckUser, OpenAppSession, BeginDisabling, AbandonDisabling, Enable

-----------------------------------------------------------------------------
(* How often a handoff is answered                                            *)

\* A cookie or a request holds only handoffs that its own browser was sent for.
Owned ==
    /\ \A b \in Browsers : pending[b] # None => asked[pending[b]] = b
    /\ \A t \in Requests, s \in States :
           Holds(req[t], s) \/ req[t].sent = s => asked[s] = req[t].browser
    /\ \A s \in States : codes[s] # "none" => asked[s] \in Browsers

\* What is about to be answered is not also pending.
Fresh == \A t \in Requests :
             req[t].step \in {"authorize", "issue"} => req[t].pending # req[t].state

\* A browser that sends one request at a time, and receives its responses, has the
\* session that the request came with, or has seen it lapse.
Orderly ==
    /\ \A t, q \in Requests :
           Running(t) /\ req[t].browser = req[q].browser /\ req[t].browser \notin raced => t = q
    /\ \A t \in Requests :
           Running(t) /\ req[t].browser \notin raced =>
               pending[req[t].browser] \in {req[t].sent, None}

\* What it was sent for and has been answered is held by nobody any more.
Settled ==
    \A s \in States : codes[s] # "none" /\ asked[s] \notin raced =>
        /\ \A t \in Requests : ~Holds(req[t], s)
        /\ (\A t \in Requests : req[t].browser # asked[s]) => pending[asked[s]] # s

\* The inductive invariant of the handoffs.
OnceInv == Owned /\ Fresh /\ Orderly /\ Settled /\ HandoffsAreAnsweredOnce

\* The types that the steps below need.
LEMMA OnceTypes ==
    ASSUME Shape
    PROVE  /\ \A t \in Requests : Running(t) => req[t].browser \in Browsers
           /\ \A t \in Requests : ~Running(t) => req[t].browser = None /\ req[t].pending = None /\ req[t].sent = None
           /\ \A t \in Requests : req[t].sent \in States \cup {None} /\ req[t].pending \in States \cup {None}
           /\ \A t \in Requests : req[t].step = "issue" => req[t].state \in States
           /\ \A b \in Browsers : pending[b] \in States \cup {None}
           /\ asked \in [States -> Browsers \cup {None}]
           /\ codes \in [States -> {"none", "one", "more"}]
           /\ None \notin Browsers /\ None \notin States
  <1>1. \A t \in Requests : req[t] \in Request /\ Shaped(req[t])
    BY DEF Shape, TypeOK
  <1>2. /\ \A b \in Browsers : pending[b] \in States \cup {None}
        /\ asked \in [States -> Browsers \cup {None}]
        /\ codes \in [States -> {"none", "one", "more"}]
    BY DEF Shape, TypeOK
  <1> QED
    BY <1>1, <1>2, CentralSessionAssumption DEF Running, Shaped, Request

\* Nothing is held that was not, no browser's session has changed but by lapsing, and
\* no code was issued: a handler's step between the first and the last, or a lapse.
LEMMA OnceFrame ==
    ASSUME Shape, Shape', OnceInv, UNCHANGED <<asked, codes, raced>>,
           \A b \in Browsers : pending'[b] \in {pending[b], None},
           \A q \in Requests :
               /\ req'[q].browser = req[q].browser /\ req'[q].sent = req[q].sent
               /\ Running(q)' <=> Running(q)
               /\ \A s \in States : Holds(req'[q], s) => Holds(req[q], s)
               /\ req'[q].step \in {"authorize", "issue"} => req'[q].pending # req'[q].state
    PROVE  OnceInv'
  <1>1. Owned'
    BY OnceTypes DEF OnceInv, Owned
  <1>2. Fresh'
    BY DEF Fresh
  <1>3. Orderly'
    BY OnceTypes DEF OnceInv, Orderly
  <1>4. Settled'
    BY OnceTypes DEF OnceInv, Settled, Owned
  <1>5. HandoffsAreAnsweredOnce'
    BY DEF OnceInv, HandoffsAreAnsweredOnce
  <1> QED
    BY <1>1, <1>2, <1>3, <1>4, <1>5 DEF OnceInv

\* A request is sent (Call).
LEMMA OnceCall ==
    ASSUME Shape, Shape', OnceInv, NEW t \in Requests, NEW b \in Browsers, Call(t, b)
    PROVE  OnceInv'
  <1>1. PICK r : Sendable(r) /\ Asks(r, b) /\ Send(t, b, r)
    BY CallForm
  <1>2. /\ \A q \in Requests \ {t} : req'[q] = req[q]
        /\ req'[t].step = r.step /\ req'[t].browser = b /\ req'[t].state = r.state
        /\ req'[t].sent = pending[b] /\ req'[t].pending = pending[b]
    BY <1>1, SendFields
  <1>3. /\ raced' = IF \E q \in Requests : req[q].browser = b THEN raced \cup {b} ELSE raced
        /\ UNCHANGED <<pending, codes>> /\ ~Running(t)
    BY <1>1 DEF Send
  <1>4. r.step # "issue" /\ r.step # "idle" /\ (r.step = "authorize" => r.state \in States)
    BY <1>1 DEF Sendable
  <1>5. \A s \in States : /\ asked[s] # None => asked'[s] = asked[s]
                          /\ asked'[s] # asked[s] => r.step = "authorize" /\ s = r.state /\ asked'[s] = b
    BY <1>1, <1>4, OnceTypes DEF Asks
  <1>6. r.step = "authorize" => asked[r.state] = None /\ asked'[r.state] = b
    BY <1>1, <1>4, OnceTypes DEF Asks
  <1>7. \A s \in States : Holds(req'[t], s) => pending[b] = s \/ (r.step = "authorize" /\ s = r.state)
    BY <1>2, <1>4 DEF Holds
  <1>8. Owned'
    <2>1. \A c \in Browsers : pending'[c] # None => asked'[pending'[c]] = c
      BY <1>3, <1>5, OnceTypes DEF OnceInv, Owned
    <2>2. ASSUME NEW q \in Requests, NEW s \in States, Holds(req'[q], s) \/ req'[q].sent = s
          PROVE  asked'[s] = req'[q].browser
      <3>1. CASE q = t
        BY <1>2, <1>3, <1>6, <1>7, <2>1, <2>2, <3>1, OnceTypes
      <3>2. CASE q # t
        <4>1. asked[s] = req[q].browser /\ req'[q] = req[q]
          BY <1>2, <2>2, <3>2 DEF OnceInv, Owned
        <4>2. Running(q)
          BY <2>2, <4>1, OnceTypes DEF Holds, Running
        <4> QED
          BY <1>5, <4>1, <4>2, OnceTypes
      <3> QED
        BY <3>1, <3>2
    <2>3. \A s \in States : codes'[s] # "none" => asked'[s] \in Browsers
      BY <1>3, <1>5, OnceTypes DEF OnceInv, Owned
    <2> QED
      BY <2>1, <2>2, <2>3 DEF Owned
  <1>9. Fresh'
    <2>1. req'[t].step \in {"authorize", "issue"} => req'[t].pending # req'[t].state
      BY <1>2, <1>4, <1>6, OnceTypes DEF OnceInv, Owned
    <2> QED
      BY <1>2, <2>1 DEF OnceInv, Fresh
  <1>10. \A q \in Requests : q # t /\ b \notin raced' => req[q].browser # b
    BY <1>3
  <1>11. Orderly'
    BY <1>2, <1>3, <1>4, <1>10, OnceTypes DEF OnceInv, Orderly, Running
  <1>12. Settled'
    <2> SUFFICES ASSUME NEW s \in States, codes'[s] # "none", asked'[s] \notin raced'
                 PROVE  /\ \A q \in Requests : ~Holds(req'[q], s)
                        /\ (\A q \in Requests : req'[q].browser # asked'[s]) =>
                               pending'[asked'[s]] # s
      BY DEF Settled
    <2>1. /\ asked[s] \in Browsers /\ asked'[s] = asked[s] /\ asked[s] \notin raced
          /\ \A q \in Requests : ~Holds(req[q], s)
          /\ (\A q \in Requests : req[q].browser # asked[s]) => pending[asked[s]] # s
      BY <1>3, <1>5, OnceTypes DEF OnceInv, Owned, Settled
    <2>2. ASSUME Holds(req'[t], s)
          PROVE  FALSE
      <3>1. r.step = "authorize" => s # r.state
        BY <1>6, <2>1, OnceTypes
      <3>2. pending[b] = s
        BY <1>7, <2>2, <3>1
      <3>3. asked[s] = b
        BY <3>2, OnceTypes DEF OnceInv, Owned
      <3>4. \A q \in Requests : req[q].browser # b
        BY <1>3, <2>1, <3>3
      <3> QED
        BY <2>1, <3>2, <3>3, <3>4
    <2>3. \A q \in Requests : ~Holds(req'[q], s)
      BY <1>2, <2>1, <2>2
    <2>4. ASSUME \A q \in Requests : req'[q].browser # asked[s]
          PROVE  pending[asked[s]] # s
      <3>1. \A q \in Requests : req[q].browser # asked[s]
        BY <1>2, <1>3, <2>1, <2>4, OnceTypes
      <3> QED
        BY <2>1, <3>1
    <2> QED
      BY <1>3, <2>1, <2>3, <2>4
  <1>13. HandoffsAreAnsweredOnce'
    BY <1>3, <1>5, OnceTypes DEF OnceInv, Owned, HandoffsAreAnsweredOnce
  <1> QED
    BY <1>8, <1>9, <1>11, <1>12, <1>13 DEF OnceInv

\* A request is over, and what it held is held by nobody else, unless its browser
\* raced (Respond, Fail).
LEMMA OnceEnd ==
    ASSUME Shape, Shape', OnceInv, NEW t \in Requests, Respond(t) \/ Fail(t)
    PROVE  OnceInv'
  <1>1. /\ req'[t] = NoRequest /\ \A q \in Requests \ {t} : req'[q] = req[q]
        /\ UNCHANGED <<asked, codes>> /\ Running(t)
    BY EndFields DEF Respond, Fail, Running
  <1>2. /\ NoRequest.step = "idle" /\ NoRequest.pending = None /\ NoRequest.sent = None
        /\ NoRequest.browser = None
    BY DEF NoRequest
  <1>3. \A s \in States : ~Holds(req'[t], s) /\ req'[t].sent # s
    BY <1>1, <1>2, OnceTypes DEF Holds
  <1>4. Fresh'
    BY <1>1, <1>2 DEF OnceInv, Fresh
  <1>5. req[t].browser \in Browsers
    BY <1>1, OnceTypes
  <1>6. CASE Fail(t)
    <2>1. raced' = raced \cup {req[t].browser} /\ UNCHANGED pending
      BY <1>6 DEF Fail
    <2>2. Owned'
      BY <1>1, <1>3, <2>1 DEF OnceInv, Owned
    <2>3. Orderly'
      BY <1>1, <1>2, <1>5, <2>1, OnceTypes DEF OnceInv, Orderly, Running
    <2>4. Settled'
      BY <1>1, <1>2, <1>3, <2>1 DEF OnceInv, Settled
    <2>5. HandoffsAreAnsweredOnce'
      BY <1>1, <2>1 DEF OnceInv, HandoffsAreAnsweredOnce
    <2> QED
      BY <1>4, <2>2, <2>3, <2>4, <2>5 DEF OnceInv
  <1>7. CASE Respond(t)
    <2>1. PICK s \in SessionSent(t) : pending' = [pending EXCEPT ![req[t].browser] = s]
      BY <1>7 DEF Respond
    <2>2. UNCHANGED raced
      BY <1>7 DEF Respond
    <2>3. \/ s = req[t].pending
          \/ req[t].pending = req[t].sent /\ (s = pending[req[t].browser] \/ s = req[t].sent)
      BY <2>1 DEF SessionSent
    <2>4. pending \in [Browsers -> States \cup {None}]
      BY DEF Shape, TypeOK
    <2>5. /\ pending'[req[t].browser] = s
          /\ \A b \in Browsers \ {req[t].browser} : pending'[b] = pending[b]
      BY <1>5, <2>1, <2>4
    <2>6. s # None => asked[s] = req[t].browser
      BY <1>5, <2>3, OnceTypes DEF OnceInv, Owned, Holds
    <2>7. Owned'
      BY <1>1, <1>3, <2>5, <2>6 DEF OnceInv, Owned
    <2>8. Orderly'
      BY <1>1, <1>2, <1>5, <2>2, <2>5, OnceTypes DEF OnceInv, Orderly, Running
    <2>9. Settled'
      <3> SUFFICES ASSUME NEW h \in States, codes[h] # "none", asked[h] \notin raced
                   PROVE  /\ \A q \in Requests : ~Holds(req'[q], h)
                          /\ (\A q \in Requests : req'[q].browser # asked[h]) =>
                                 pending'[asked[h]] # h
        BY <1>1, <2>2 DEF Settled
      <3>1. /\ asked[h] \in Browsers /\ \A q \in Requests : ~Holds(req[q], h)
            /\ (\A q \in Requests : req[q].browser # asked[h]) => pending[asked[h]] # h
        BY DEF OnceInv, Owned, Settled
      <3>2. \A q \in Requests : ~Holds(req'[q], h)
        BY <1>1, <1>3, <3>1
      <3>3. CASE asked[h] = req[t].browser
        <4>1. req[t].pending # h
          BY <3>1 DEF Holds
        <4>2. pending[req[t].browser] \in {req[t].sent, None}
          BY <1>1, <3>3 DEF OnceInv, Orderly
        <4>3. s # h
          BY <2>3, <4>1, <4>2, OnceTypes
        <4> QED
          BY <2>5, <3>2, <3>3, <4>3
      <3>4. CASE asked[h] # req[t].browser
        <4>1. ASSUME \A q \in Requests : req'[q].browser # asked[h]
              PROVE  pending'[asked[h]] # h
          <5>1. \A q \in Requests : req[q].browser # asked[h]
            BY <1>1, <3>4, <4>1
          <5> QED
            BY <2>5, <3>1, <3>4, <5>1
        <4> QED
          BY <3>2, <4>1
      <3> QED
        BY <3>3, <3>4
    <2>10. HandoffsAreAnsweredOnce'
      BY <1>1, <2>2 DEF OnceInv, HandoffsAreAnsweredOnce
    <2> QED
      BY <1>4, <2>7, <2>8, <2>9, <2>10 DEF OnceInv
  <1> QED
    BY <1>6, <1>7

\* The code of a handoff is issued, or refused (IssueCode).
LEMMA OnceIssue ==
    ASSUME Shape, Shape', OnceInv, NEW t \in Requests, IssueCode(t)
    PROVE  OnceInv'
  <1> DEFINE h == req[t].state
  <1>1. /\ req[t].step = "issue" /\ h \in States /\ Running(t) /\ req[t].browser \in Browsers
        /\ UNCHANGED <<pending, asked, raced>>
        /\ \A s \in States : s # h => codes'[s] = codes[s]
        /\ codes[h] = "none" => codes'[h] # "more"
    BY OnceTypes DEF IssueCode, Running
  <1>2. req' = Answered(t, req[t].pending, req[t].sets)
    BY DEF IssueCode, Answer
  <1>3. /\ \A q \in Requests \ {t} : req'[q] = req[q]
        /\ Ended(req[t], req'[t], req[t].pending, req[t].sets)
    BY <1>1, <1>2, AnsweredFields, AnswerType
  <1>4. /\ req'[t].step = "respond" /\ req'[t].browser = req[t].browser
        /\ req'[t].sent = req[t].sent /\ req'[t].pending = req[t].pending
    BY <1>3 DEF Ended
  <1>5. asked[h] = req[t].browser /\ req[t].pending # h
    BY <1>1 DEF OnceInv, Owned, Holds, Fresh
  <1>6. \A s \in States : Holds(req'[t], s) => s # h /\ Holds(req[t], s)
    BY <1>4, <1>5 DEF Holds
  <1>7. Owned'
    <2>1. \A s \in States : codes'[s] # "none" => asked'[s] \in Browsers
      BY <1>1, <1>5 DEF OnceInv, Owned
    <2> QED
      BY <1>1, <1>3, <1>4, <1>6, <2>1 DEF OnceInv, Owned
  <1>8. Fresh'
    BY <1>3, <1>4 DEF OnceInv, Fresh
  <1>9. Orderly'
    BY <1>1, <1>3, <1>4, OnceTypes DEF OnceInv, Orderly, Running
  <1>10. Settled'
    <2> SUFFICES ASSUME NEW s \in States, codes'[s] # "none", asked[s] \notin raced
                 PROVE  /\ \A q \in Requests : ~Holds(req'[q], s)
                        /\ (\A q \in Requests : req'[q].browser # asked[s]) => pending[asked[s]] # s
      BY <1>1 DEF Settled
    <2>1. CASE s # h
      <3>1. /\ \A q \in Requests : ~Holds(req[q], s)
            /\ (\A q \in Requests : req[q].browser # asked[s]) => pending[asked[s]] # s
        BY <1>1, <2>1 DEF OnceInv, Settled
      <3> QED
        BY <1>3, <1>4, <1>6, <3>1
    <2>2. CASE s = h
      <3>1. ASSUME NEW q \in Requests, q # t
            PROVE  ~Holds(req'[q], s)
        <4>1. req'[q] = req[q] /\ req[q].browser # req[t].browser
          BY <1>1, <1>3, <1>5, <2>2, <3>1 DEF OnceInv, Orderly
        <4> QED
          BY <1>5, <2>2, <4>1 DEF OnceInv, Owned
      <3>2. req'[t].browser = asked[s]
        BY <1>4, <1>5, <2>2
      <3> QED
        BY <1>6, <2>2, <3>1, <3>2
    <2> QED
      BY <2>1, <2>2
  <1>11. HandoffsAreAnsweredOnce'
    <2>1. codes[h] # "none" => asked[h] \in raced
      BY <1>1 DEF OnceInv, Settled, Holds
    <2> QED
      BY <1>1, <2>1 DEF OnceInv, HandoffsAreAnsweredOnce
  <1> QED
    BY <1>7, <1>8, <1>9, <1>10, <1>11 DEF OnceInv

\* Every step keeps it (Next).
LEMMA OnceStep ==
    ASSUME Shape, OnceInv, [Next]_vars
    PROVE  OnceInv'
  <1>a. Shape'
    BY ShapeStep
  <1>b. \A q \in Requests :
            req[q].step \in {"authorize", "issue"} => req[q].pending # req[q].state
    BY DEF OnceInv, Fresh
  <1>1. ASSUME NEW t \in Requests, Step(t), ~Respond(t), ~IssueCode(t)
        PROVE  OnceInv'
    <2>1. Moves(t)
      BY <1>1, <1>b, HandlerMoves
    <2>2. UNCHANGED <<pending, asked, codes, raced>>
      BY <1>1 DEF Step, Authorize, Resume, Identify, LoadPassword, ChangePassword, RedeemTicket,
                  CommitTicket, LoadUser, RevokeAll
    <2>3. Running(t)
      BY <1>1 DEF Step, Authorize, Resume, Identify, LoadPassword, ChangePassword, RedeemTicket,
                  CommitTicket, LoadUser, RevokeAll, Running
    <2>4. ASSUME NEW q \in Requests
          PROVE  /\ req'[q].browser = req[q].browser /\ req'[q].sent = req[q].sent
                 /\ Running(q)' <=> Running(q)
                 /\ \A s \in States : Holds(req'[q], s) => Holds(req[q], s)
                 /\ req'[q].step \in {"authorize", "issue"} => req'[q].pending # req'[q].state
      <3>1. CASE q = t
        BY <2>1, <2>3, <3>1 DEF Moves, Running
      <3>2. CASE q # t
        BY <1>b, <2>1, <3>2 DEF Moves, Like, Running, Holds
      <3> QED
        BY <3>1, <3>2
    <2> QED
      BY <1>a, <2>2, <2>4, OnceFrame
  <1>2. ASSUME NEW b \in Browsers, LapseCookie(b)
        PROVE  OnceInv'
    <2>1. UNCHANGED <<asked, codes, raced, req>>
      BY <1>2 DEF LapseCookie
    <2>2. \A c \in Browsers : pending'[c] \in {pending[c], None}
      BY <1>2 DEF LapseCookie, Shape, TypeOK
    <2> QED
      BY <1>a, <1>b, <2>1, <2>2, OnceFrame DEF Running
  <1>3. ASSUME NEW u \in Users, Disable(u)
        PROVE  OnceInv'
    <2>1. \A q \in Requests : Like(req'[q], req[q])
      BY <1>3, DisableFields
    <2>2. UNCHANGED <<pending, asked, codes, raced>>
      BY <1>3 DEF Disable
    <2> QED
      BY <1>a, <1>b, <2>1, <2>2, OnceFrame DEF Like, Running, Holds
  <1>4. CASE UNCHANGED <<pending, asked, codes, raced, req>>
    BY <1>a, <1>b, <1>4, OnceFrame DEF Running
  <1> QED
    BY <1>a, <1>1, <1>2, <1>3, <1>4, OnceCall, OnceEnd, OnceIssue
    DEF Next, vars, Step, IssueTicket, LapseTicket, CheckUser, OpenAppSession, BeginDisabling,
        AbandonDisabling, Enable

-----------------------------------------------------------------------------
(* The theorems                                                               *)

\* The inductive invariant, in the parts that the sections above keep.
SessionInv == Shape /\ OnceInv /\ LogoutInv /\ GateInv /\ TicketInv

\* In the first state nobody is signed in and nothing is asked for (Init).
LEMMA SessionInit == Init => SessionInv
  <1> SUFFICES ASSUME Init PROVE OnceInv /\ LogoutInv /\ GateInv /\ TicketInv
    BY ShapeInit DEF SessionInv
  <1>1. /\ NoRequest.step = "idle" /\ NoRequest.pending = None /\ NoRequest.sent = None
        /\ NoRequest.owed = {}
    BY DEF NoRequest
  <1>2. None \notin States
    BY CentralSessionAssumption
  <1>3. \A t \in Requests : req[t] = NoRequest
    BY DEF Init
  <1>4. \A t \in Requests, s \in States : ~Holds(req[t], s) /\ req[t].sent # s
    BY <1>1, <1>2, <1>3 DEF Holds
  <1>5. OnceInv
    BY <1>1, <1>3, <1>4
    DEF Init, OnceInv, Owned, Fresh, Orderly, Settled, HandoffsAreAnsweredOnce, Running
  <1>6. LogoutInv
    BY <1>1, <1>3
    DEF Init, LogoutInv, SessionsInv, OwedInv, LogoutsLeaveNoSession, NoAppSession
  <1>7. GateInv /\ TicketInv
    BY <1>1, <1>3 DEF Init, GateInv, TicketInv
  <1> QED
    BY <1>5, <1>6, <1>7

\* Every step keeps the invariants together (Next).
LEMMA SessionStep == SessionInv /\ [Next]_vars => SessionInv'
  <1> SUFFICES ASSUME SessionInv, [Next]_vars PROVE SessionInv'
    OBVIOUS
  <1>1. \A t \in Requests : req[t].step = "authorize" => req[t].pending # req[t].state
    BY DEF SessionInv, OnceInv, Fresh
  <1> QED
    BY <1>1, ShapeStep, OnceStep, LogoutStep, GateStep, TicketStep DEF SessionInv

\* The invariants hold in every state (Spec).
LEMMA SessionAlways == Spec => []SessionInv
  <1> QED
    BY SessionInit, SessionStep, PTL DEF Spec

\* A handoff of a browser that sends one request at a time, and loses no response, is
\* answered with one code at most (HandoffsAreAnsweredOnce).
THEOREM OneCodePerHandoff == Spec => []HandoffsAreAnsweredOnce
  <1>1. SessionInv => HandoffsAreAnsweredOnce
    BY DEF SessionInv, OnceInv
  <1> QED
    BY <1>1, SessionAlways, PTL

\* A logout that gets to its response leaves no session of its user that was live
\* when it was sent, whatever is disabled, enabled and exchanged meanwhile, but those
\* that a disabling of their user overtook (LogoutsLeaveNoSession).
THEOREM LogoutsAreComplete == Spec => []LogoutsLeaveNoSession
  <1>1. SessionInv => LogoutsLeaveNoSession
    BY DEF SessionInv, LogoutInv
  <1> QED
    BY <1>1, SessionAlways, PTL

\* A code is issued to no local session whose password is still temporary
\* (TemporaryPasswordNeverHandsOff).
THEOREM TemporaryPasswordsStayHome == Spec => TemporaryPasswordNeverHandsOff
  <1>1. SessionInv /\ [Next]_vars =>
            [\A t \in Requests :
                IssueCode(t) /\ codes' # codes /\ req[t].op = "browse" =>
                    ~PasswordChangeRequired(t)]_vars
    BY DEF SessionInv, GateInv, IssueCode
  <1> QED
    BY <1>1, SessionAlways, PTL DEF Spec, TemporaryPasswordNeverHandsOff

\* Every step issues a ticket, spends one, or leaves them as they are (Next).
LEMMA TicketSimulation == SessionInv /\ [Next]_vars => [Grant!Next]_(Grant!vars)
  <1> SUFFICES ASSUME SessionInv, [Next]_vars
               PROVE  [Grant!Next]_Grant!vars
    OBVIOUS
  <1>a. /\ ticket \in [Tickets -> {"none", "issued", "used", "lapsed"}]
        /\ spent \in [Tickets -> SUBSET Requests]
        /\ \A t \in Requests : req[t].step = "spend" => req[t].ticket \in Tickets
    BY DEF SessionInv, Shape, TypeOK, Shaped
  <1>1. ASSUME NEW t \in Requests, CommitTicket(t)
        PROVE  \E k \in Tickets : \E d \in Tickets \X Requests : Grant!Redeem(k, d)
    <2>1. /\ req[t].ticket \in Tickets
          /\ ticket[req[t].ticket] \in {"issued", "lapsed"} /\ spent[req[t].ticket] = {}
          /\ ticket' = [ticket EXCEPT ![req[t].ticket] = "used"]
          /\ spent' = [spent EXCEPT ![req[t].ticket] = @ \cup {t}]
      BY <1>a, <1>1 DEF CommitTicket, SessionInv, TicketInv
    <2>2. PICK k \in Tickets :
             /\ ticket[k] \in {"issued", "lapsed"} /\ spent[k] = {}
             /\ ticket' = [ticket EXCEPT ![k] = "used"]
             /\ spent' = [spent EXCEPT ![k] = {t}]
      BY <1>a, <2>1
    <2> DEFINE state(f) == [h \in Tickets |->
                    CASE f[h] = "none"                 -> "none"
                      [] f[h] \in {"issued", "lapsed"} -> "issued"
                      [] f[h] = "used"                 -> "redeemed"]
               delivered(f) == [h \in Tickets |-> {h} \X f[h]]
    <2>4. state(ticket)[k] = "issued" /\ \A h \in Tickets : <<k, t>> \notin delivered(spent)[h]
      BY <1>a, <2>2
    <2>5. state(ticket') = [state(ticket) EXCEPT ![k] = "redeemed"]
      BY <1>a, <2>2
    <2>6. delivered(spent') = [delivered(spent) EXCEPT ![k] = {<<k, t>>}]
      <3>1. {k} \X {t} = {<<k, t>>}
        OBVIOUS
      <3> QED
        BY <1>a, <2>2, <3>1
    <2>7. Grant!Redeem(k, <<k, t>>)
      BY <2>4, <2>5, <2>6 DEF Grant!Redeem
    <2> QED
      BY <2>7
  <1>2. ASSUME NEW k \in Tickets, IssueTicket(k)
        PROVE  Grant!Issue(k)
    BY <1>a, <1>2 DEF IssueTicket, Grant!Issue
  <1>3. ASSUME NEW k \in Tickets, LapseTicket(k)
        PROVE  UNCHANGED Grant!vars
    BY <1>a, <1>3 DEF LapseTicket, Grant!vars
  <1>4. CASE UNCHANGED <<ticket, spent>>
    BY <1>4 DEF Grant!vars
  <1>5. ASSUME NEW t \in Requests, NEW b \in Browsers, Call(t, b)
        PROVE  UNCHANGED <<ticket, spent>>
    <2>1. PICK r : Send(t, b, r)
      BY <1>5, CallForm
    <2> QED
      BY <2>1 DEF Send
  <1>6. ASSUME NEW t \in Requests, Step(t) \/ Fail(t), ~CommitTicket(t)
        PROVE  UNCHANGED <<ticket, spent>>
    BY <1>6
    DEF Step, Fail, Authorize, Resume, IssueCode, Identify, LoadPassword, ChangePassword,
        RedeemTicket, LoadUser, RevokeAll, Respond
  <1>7. ASSUME NEW t \in Requests, Step(t) \/ Fail(t)
        PROVE  [Grant!Next]_Grant!vars
    BY <1>1, <1>4, <1>6, <1>7 DEF Grant!Next
  <1>8. CASE UNCHANGED vars
    BY <1>4, <1>8 DEF vars
  <1>9. ASSUME NEW u \in Users, Disable(u) \/ Enable(u)
        PROVE  UNCHANGED <<ticket, spent>>
    BY <1>9 DEF Disable, Enable
  <1> QED
    BY <1>2, <1>3, <1>4, <1>5, <1>7, <1>8, <1>9
    DEF Grant!Next, Next, LapseCookie, CheckUser, OpenAppSession, BeginDisabling, AbandonDisabling

\* The tickets of /auth/end-session implement grants that are redeemed once
\* (TicketsAreOneTimeGrants).
THEOREM TicketsImplementGrants == Spec => TicketsAreOneTimeGrants
  <1>1. Init => Grant!Init
    BY DEF Init, Grant!Init
  <1> QED
    BY <1>1, TicketSimulation, SessionAlways, PTL DEF Spec, TicketsAreOneTimeGrants, Grant!Spec

\* A step of the grant leaves what is redeemed redeemed (Grant!Next).
LEMMA GrantKeepsRedeemed == [Grant!Next]_(Grant!vars) => Grant!KeepsRedeemed
  <1> DEFINE state == [k \in Tickets |->
                 CASE ticket[k] = "none"                 -> "none"
                   [] ticket[k] \in {"issued", "lapsed"} -> "issued"
                   [] ticket[k] = "used"                 -> "redeemed"]
             delivered == [k \in Tickets |-> {k} \X spent[k]]
  <1>0. DOMAIN state = Tickets /\ DOMAIN delivered = Tickets
    OBVIOUS
  <1>1. ASSUME NEW k \in Tickets, state[k] = "redeemed", [Grant!Next]_(Grant!vars)
        PROVE  state'[k] = "redeemed" /\ delivered'[k] = delivered[k]
    <2>1. CASE UNCHANGED Grant!vars
      BY <1>1, <2>1 DEF Grant!vars
    <2>2. ASSUME NEW h \in Tickets, Grant!Issue(h)
          PROVE  state'[k] = state[k] /\ delivered'[k] = delivered[k]
      <3>1. /\ h # k /\ state' = [state EXCEPT ![h] = "issued"] /\ delivered' = delivered
        BY <1>1, <2>2 DEF Grant!Issue
      <3> HIDE DEF state, delivered
      <3> QED
        BY <1>0, <3>1
    <2>3. ASSUME NEW h \in Tickets, NEW d \in Tickets \X Requests, Grant!Redeem(h, d)
          PROVE  state'[k] = state[k] /\ delivered'[k] = delivered[k]
      <3>1. /\ h # k /\ state' = [state EXCEPT ![h] = "redeemed"]
            /\ delivered' = [delivered EXCEPT ![h] = {d}]
        BY <1>1, <2>3 DEF Grant!Redeem
      <3> HIDE DEF state, delivered
      <3> QED
        BY <1>0, <3>1
    <2> QED
      BY <1>1, <2>1, <2>2, <2>3 DEF Grant!Next
  <1> QED
    BY <1>1 DEF Grant!KeepsRedeemed

\* So a ticket that a request has spent is that request's for ever: it is never
\* spendable again, nor spent by another (Grant!StaysRedeemed).
THEOREM SpentTicketsStaySpent == Spec => Grant!StaysRedeemed
  <1> QED
    BY TicketSimulation, GrantKeepsRedeemed, SessionAlways, PTL DEF Spec, Grant!StaysRedeemed
=============================================================================
