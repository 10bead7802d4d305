----------------------- MODULE IdentityLinkingProofs -----------------------
(* Theorems of IdentityLinking for any number of users, accounts, addresses   *)
(* and concurrent requests: types, the unique keys, and what a login that     *)
(* nothing runs beside can rely on.                                           *)
EXTENDS IdentityLinking, TLAPS

-----------------------------------------------------------------------------
(* The inductive invariant                                                    *)

Resolving == {"find_link", "owner", "other", "refresh", "find_user", "other_link", "link",
              "create"}

Found == {"owner", "other", "refresh", "other_link", "link"}

Addressed == {"other", "refresh", "find_user", "other_link", "link", "create", "find_local",
              "create_local"}

\* The fields that a request has set by the step it is at.  A user once found has an
\* address, as no address is taken away again.
RequestShape ==
    \A t \in Requests :
        LET r == req[t] IN
        /\ r.step \in Resolving => r.provider \in Providers /\ r.subject \in Subjects
        /\ r.step \in Found => r.user \in Users /\ email[r.user] # None
        /\ r.step \in Addressed => r.email \in Emails
        /\ r.step # "idle" => r.answer = "none"

\* The unique keys of users and external_identities; a link is to a user who is there.
KeysInv ==
    /\ \A u, v \in Users : email[u] # None /\ email[u] = email[v] => u = v
    /\ \A u, v \in Users, p \in Providers :
           link[<<u, p>>] # None /\ link[<<u, p>>] = link[<<v, p>>] => u = v
    /\ \A u \in Users, p \in Providers : link[<<u, p>>] # None => email[u] # None

\* A request that nothing runs beside is the only one.
Lone ==
    \A t, q \in Requests : Running(t) /\ req[t].alone /\ Running(q) => q = t

\* What such a request has read is so still.
Current(t) ==
    LET r == req[t] IN
    /\ r.step \in {"other", "refresh"} => r.canonical = email[r.user]
    /\ r.step = "refresh" => HasEmail(r.email) \subseteq {r.user}
    /\ r.step \in {"find_user", "other_link", "link", "create"} =>
           Linked(r.provider, r.subject) = {}
    /\ r.step \in {"other_link", "link"} => email[r.user] = r.email
    /\ r.step = "link" => link[<<r.user, r.provider>>] = None
    /\ r.step = "create" => HasEmail(r.email) = {}

\* The inductive invariant: the keys, and what a login that runs alone has found.
LinkingInv ==
    /\ TypeOK
    /\ RequestShape
    /\ KeysInv
    /\ Lone
    /\ \A t \in Requests : Running(t) /\ req[t].alone => Current(t)
    /\ SoloLoginsNeverRaise

-----------------------------------------------------------------------------
(* Requests                                                                   *)

\* No address is taken away, so that the requests a step leaves alone keep their
\* shape; and if there is one that nothing runs beside, the step was not of another.
LEMMA OthersKeep ==
    ASSUME LinkingInv, NEW t \in Requests, Running(t), NEW r \in Request,
           req' = [req EXCEPT ![t] = r],
           email' \in [Users -> Emails \cup {None}],
           link' \in [Users \X Providers -> Subjects \cup {None}],
           KeysInv',
           \A u \in Users : email[u] # None => email'[u] # None,
           r.alone = req[t].alone,
           r.step \in Resolving => r.provider \in Providers /\ r.subject \in Subjects,
           r.step \in Found => r.user \in Users /\ email'[r.user] # None,
           r.step \in Addressed => r.email \in Emails,
           r.step # "idle" => r.answer = "none",
           r.alone => r.answer # "raised",
           r.step # "idle" /\ r.alone => Current(t)'
    PROVE  LinkingInv'
  <1>1. req'[t] = r /\ \A q \in Requests \ {t} : req'[q] = req[q]
    BY DEF LinkingInv, TypeOK
  <1>2. TypeOK'
    BY DEF LinkingInv, TypeOK
  <1>3. RequestShape'
    BY <1>1 DEF LinkingInv, RequestShape
  <1>4. Lone'
    BY <1>1 DEF LinkingInv, Lone, Running
  <1>5. ASSUME NEW q \in Requests, Running(q)', req'[q].alone
        PROVE  Current(q)'
    <2>1. q = t
      BY <1>1, <1>5 DEF LinkingInv, Lone, Running
    <2> QED
      BY <1>1, <1>5, <2>1 DEF Running
  <1>6. SoloLoginsNeverRaise'
    BY <1>1 DEF LinkingInv, SoloLoginsNeverRaise
  <1> QED
    BY <1>2, <1>3, <1>4, <1>5, <1>6 DEF LinkingInv

\* A request reads and goes on, or reads and ends (Goto, End).
LEMMA ReadKeeps ==
    ASSUME LinkingInv, NEW t \in Requests, Running(t), UNCHANGED <<email, link>>,
           NEW r \in Request, req' = [req EXCEPT ![t] = r],
           r.alone = req[t].alone,
           r.step \in Resolving => r.provider \in Providers /\ r.subject \in Subjects,
           r.step \in Found => r.user \in Users /\ email[r.user] # None,
           r.step \in Addressed => r.email \in Emails,
           r.step # "idle" => r.answer = "none",
           r.alone => r.answer # "raised",
           r.step # "idle" /\ r.alone => Current(t)'
    PROVE  LinkingInv'
  <1>1. /\ email' \in [Users -> Emails \cup {None}]
        /\ link' \in [Users \X Providers -> Subjects \cup {None}]
        /\ KeysInv'
        /\ \A u \in Users : email[u] # None => email'[u] # None
        /\ r.step \in Found => r.user \in Users /\ email'[r.user] # None
    BY DEF LinkingInv, TypeOK, KeysInv
  <1> QED
    BY <1>1, OthersKeep

\* The end of a request, with what it has written (End).
LEMMA EndKeeps ==
    ASSUME LinkingInv, NEW t \in Requests, Running(t), NEW answer \in Answers, End(t, answer),
           email' \in [Users -> Emails \cup {None}],
           link' \in [Users \X Providers -> Subjects \cup {None}],
           KeysInv',
           \A u \in Users : email[u] # None => email'[u] # None,
           req[t].alone => answer # "raised"
    PROVE  LinkingInv'
  <1> DEFINE r == [NoRequest EXCEPT !.answer = answer, !.alone = req[t].alone,
                                    !.provider = req[t].provider]
  <1>1. req[t] \in Request
    BY DEF LinkingInv, TypeOK
  <1>2. /\ r \in Request /\ r.step = "idle" /\ r.alone = req[t].alone /\ r.answer = answer
    BY <1>1 DEF NoRequest, Request, Steps
  <1>3. req' = [req EXCEPT ![t] = r]
    BY DEF End
  <1> HIDE DEF r
  <1> QED
    BY <1>2, <1>3, OthersKeep DEF Resolving, Found, Addressed

\* An end that has written nothing, and is no exception.
LEMMA EndReading ==
    ASSUME LinkingInv, NEW t \in Requests, Running(t), NEW answer \in Answers \ {"raised"},
           End(t, answer), UNCHANGED <<email, link>>
    PROVE  LinkingInv'
  <1>1. /\ email' \in [Users -> Emails \cup {None}]
        /\ link' \in [Users \X Providers -> Subjects \cup {None}]
        /\ KeysInv'
        /\ \A u \in Users : email[u] # None => email'[u] # None
    BY DEF LinkingInv, TypeOK, KeysInv
  <1> QED
    BY <1>1, EndKeeps

\* A request begins: it runs alone when it finds nobody, and nobody else does now.
LEMMA BeginStep ==
    ASSUME LinkingInv, NEW t \in Requests, NEW step \in {"find_link", "find_local"},
           NEW p \in Providers \cup {None}, NEW s \in Subjects \cup {None},
           NEW e \in Emails \cup {None}, Begin(t, step, p, s, e),
           step = "find_link" => p \in Providers /\ s \in Subjects,
           step = "find_local" => e \in Emails
    PROVE  LinkingInv'
  <1>1. PICK solo \in BOOLEAN : solo <=> \A v \in Requests : ~Running(v)
    OBVIOUS
  <1> DEFINE r == [NoRequest EXCEPT !.step = step, !.provider = p, !.subject = s, !.email = e,
                                    !.alone = solo]
  <1>2. req' = [q \in Requests |-> IF q = t THEN r
                    ELSE IF Running(q) THEN [req[q] EXCEPT !.alone = FALSE] ELSE req[q]]
    BY <1>1 DEF Begin
  <1>3. /\ r \in Request /\ r.step = step /\ r.provider = p /\ r.subject = s /\ r.email = e
        /\ r.alone = solo /\ r.answer = "none"
    BY DEF NoRequest, Request, Steps, Answers
  <1>4. req'[t] = r
    BY <1>2
  <1> HIDE DEF r
  <1>5. ASSUME NEW q \in Requests \ {t}
        PROVE  /\ req'[q] \in Request
               /\ Running(q) => ~req'[q].alone
               /\ ~Running(q) => req'[q].alone = req[q].alone
               /\ req'[q].step = req[q].step /\ req'[q].provider = req[q].provider
               /\ req'[q].subject = req[q].subject /\ req'[q].user = req[q].user
               /\ req'[q].email = req[q].email /\ req'[q].answer = req[q].answer
    <2>1. req[q] \in Request
      BY DEF LinkingInv, TypeOK
    <2> QED
      BY <1>2, <2>1 DEF Request
  <1>6. UNCHANGED <<email, link>>
    BY DEF Begin
  <1>7. TypeOK'
    BY <1>2, <1>3, <1>4, <1>5, <1>6 DEF LinkingInv, TypeOK
  <1>8. RequestShape'
    BY <1>3, <1>4, <1>5, <1>6 DEF LinkingInv, RequestShape, Resolving, Found, Addressed
  <1>9. KeysInv'
    BY <1>6 DEF LinkingInv, KeysInv
  <1>10. ASSUME NEW q \in Requests, Running(q)', req'[q].alone
         PROVE  q = t /\ solo
    BY <1>3, <1>4, <1>5, <1>10 DEF Running
  <1>11. Lone'
    BY <1>1, <1>5, <1>10 DEF Lone, Running
  <1>12. Current(t)'
    BY <1>3, <1>4 DEF Current
  <1>13. SoloLoginsNeverRaise'
    BY <1>3, <1>4, <1>5 DEF LinkingInv, SoloLoginsNeverRaise, RequestShape, Running
  <1> QED
    BY <1>7, <1>8, <1>9, <1>10, <1>11, <1>12, <1>13 DEF LinkingInv

-----------------------------------------------------------------------------
(* A known account                                                            *)

\* A step that goes on with the same request changes the fields it says (Goto).
LEMMA GotoStep ==
    ASSUME TypeOK, NEW t \in Requests, NEW step \in Steps, Goto(t, step)
    PROVE  \E r \in Request :
              /\ req' = [req EXCEPT ![t] = r]
              /\ r.step = step /\ r.provider = req[t].provider /\ r.subject = req[t].subject
              /\ r.email = req[t].email /\ r.user = req[t].user
              /\ r.canonical = req[t].canonical /\ r.alone = req[t].alone
              /\ r.answer = req[t].answer
  <1> DEFINE r == [req[t] EXCEPT !.step = step]
  <1>1. req[t] \in Request
    BY DEF TypeOK
  <1>2. /\ r \in Request
        /\ r.step = step /\ r.provider = req[t].provider /\ r.subject = req[t].subject
        /\ r.email = req[t].email /\ r.user = req[t].user
        /\ r.canonical = req[t].canonical /\ r.alone = req[t].alone
        /\ r.answer = req[t].answer
    BY <1>1 DEF Request
  <1>3. req' = [req EXCEPT ![t] = r]
    BY DEF Goto
  <1> QED
    BY <1>2, <1>3

\* The link is looked for, and its owner is a user with an address (FindLink).
LEMMA FindLinkStep ==
    ASSUME LinkingInv, NEW t \in Requests, FindLink(t)
    PROVE  LinkingInv'
  <1>1. /\ req[t].step = "find_link" /\ Running(t) /\ UNCHANGED <<email, link>>
        /\ req[t].provider \in Providers /\ req[t].subject \in Subjects
        /\ req[t].answer = "none" /\ req[t] \in Request
    BY DEF FindLink, Running, LinkingInv, RequestShape, Resolving, TypeOK
  <1>2. ASSUME NEW u \in Linked(req[t].provider, req[t].subject),
               req' = [req EXCEPT ![t].step = "owner", ![t].user = u]
        PROVE  LinkingInv'
    <2> DEFINE r == [req[t] EXCEPT !.step = "owner", !.user = u]
    <2>1. u \in Users /\ email[u] # None
      BY <1>1, IdentityAssumption DEF Linked, LinkingInv, KeysInv
    <2>2. /\ r \in Request /\ r.step = "owner" /\ r.user = u
          /\ r.provider = req[t].provider /\ r.subject = req[t].subject
          /\ r.alone = req[t].alone /\ r.answer = "none"
      BY <1>1, <2>1 DEF Request, Steps
    <2>3. req' = [req EXCEPT ![t] = r]
      BY <1>2
    <2>4. req'[t] = r
      BY <2>3 DEF LinkingInv, TypeOK
    <2> HIDE DEF r
    <2>5. Current(t)'
      BY <2>2, <2>4 DEF Current
    <2> QED
      BY <1>1, <2>1, <2>2, <2>3, <2>5, ReadKeeps DEF Addressed
  <1>3. CASE Goto(t, "find_user") /\ req[t].email \in Emails
             /\ Linked(req[t].provider, req[t].subject) = {}
    <2>1. PICK r \in Request :
              /\ req' = [req EXCEPT ![t] = r]
              /\ r.step = "find_user" /\ r.provider = req[t].provider
              /\ r.subject = req[t].subject /\ r.email = req[t].email
              /\ r.alone = req[t].alone /\ r.answer = req[t].answer
      BY <1>3, GotoStep DEF LinkingInv, Steps
    <2>2. req'[t] = r
      BY <2>1 DEF LinkingInv, TypeOK
    <2>3. Current(t)'
      BY <1>1, <1>3, <2>1, <2>2 DEF Current, Linked
    <2> QED
      BY <1>1, <1>3, <2>1, <2>3, ReadKeeps DEF Found
  <1>4. CASE End(t, "rejected")
    BY <1>1, <1>4, EndReading DEF Answers
  <1>5. req[t].email \in Institutional \/ req[t].email # None => req[t].email \in Emails
    BY <1>1, IdentityAssumption DEF Request
  <1> QED
    BY <1>2, <1>3, <1>4, <1>5 DEF FindLink

\* The owner is loaded when its address may be promoted (LoadOwner).
LEMMA LoadOwnerStep ==
    ASSUME LinkingInv, NEW t \in Requests, LoadOwner(t)
    PROVE  LinkingInv'
  <1>1. /\ req[t].step = "owner" /\ Running(t) /\ UNCHANGED <<email, link>>
        /\ req[t].provider \in Providers /\ req[t].subject \in Subjects
        /\ req[t].user \in Users /\ email[req[t].user] # None
        /\ req[t].answer = "none" /\ req[t] \in Request
    BY DEF LoadOwner, Running, LinkingInv, RequestShape, Resolving, Found, TypeOK
  <1>2. ASSUME req[t].email \in Institutional,
               req' = [req EXCEPT ![t].step = "other", ![t].canonical = email[req[t].user]]
        PROVE  LinkingInv'
    <2> DEFINE r == [req[t] EXCEPT !.step = "other", !.canonical = email[req[t].user]]
    <2>1. email[req[t].user] \in Emails \cup {None}
      BY <1>1 DEF LinkingInv, TypeOK
    <2>2. /\ r \in Request /\ r.step = "other" /\ r.canonical = email[req[t].user]
          /\ r.user = req[t].user /\ r.email = req[t].email
          /\ r.provider = req[t].provider /\ r.subject = req[t].subject
          /\ r.alone = req[t].alone /\ r.answer = "none"
      BY <1>1, <2>1 DEF Request, Steps
    <2>3. req' = [req EXCEPT ![t] = r]
      BY <1>2
    <2>4. req'[t] = r
      BY <2>3 DEF LinkingInv, TypeOK
    <2> HIDE DEF r
    <2>5. Current(t)'
      BY <1>1, <2>2, <2>4 DEF Current
    <2>6. req[t].email \in Emails
      BY <1>2, IdentityAssumption
    <2> QED
      BY <1>1, <2>2, <2>3, <2>5, <2>6, ReadKeeps
  <1>3. CASE End(t, "ok")
    BY <1>1, <1>3, EndReading DEF Answers
  <1> QED
    BY <1>2, <1>3 DEF LoadOwner

\* The reported address is nobody else's, as far as is seen (FindOther).
LEMMA FindOtherStep ==
    ASSUME LinkingInv, NEW t \in Requests, FindOther(t)
    PROVE  LinkingInv'
  <1>1. /\ req[t].step = "other" /\ Running(t) /\ UNCHANGED <<email, link>>
        /\ req[t].provider \in Providers /\ req[t].subject \in Subjects
        /\ req[t].user \in Users /\ email[req[t].user] # None /\ req[t].email \in Emails
        /\ req[t].answer = "none" /\ req[t] \in Request
    BY DEF FindOther, Running, LinkingInv, RequestShape, Resolving, Found, Addressed, TypeOK
  <1>2. CASE Goto(t, "refresh") /\ HasEmail(req[t].email) \subseteq {req[t].user}
    <2>1. PICK r \in Request :
              /\ req' = [req EXCEPT ![t] = r]
              /\ r.step = "refresh" /\ r.provider = req[t].provider
              /\ r.subject = req[t].subject /\ r.email = req[t].email
              /\ r.user = req[t].user /\ r.canonical = req[t].canonical
              /\ r.alone = req[t].alone /\ r.answer = req[t].answer
      BY <1>2, GotoStep DEF LinkingInv, Steps
    <2>2. req'[t] = r
      BY <2>1 DEF LinkingInv, TypeOK
    <2>3. ASSUME r.alone
          PROVE  Current(t)'
      <3>1. req[t].canonical = email[req[t].user]
        BY <1>1, <2>1, <2>3 DEF LinkingInv, Current
      <3> QED
        BY <1>1, <1>2, <2>1, <2>2, <3>1 DEF Current, HasEmail
    <2> QED
      BY <1>1, <2>1, <2>3, ReadKeeps
  <1>3. CASE End(t, "conflict")
    BY <1>1, <1>3, EndReading DEF Answers
  <1> QED
    BY <1>2, <1>3 DEF FindOther

\* The unique key of addresses takes a write that leaves each address one user.
LEMMA EmailFits ==
    ASSUME LinkingInv, NEW u \in Users, NEW e \in Emails \cup {None},
           HasEmail(e) \subseteq {u}, e = None => email[u] = None,
           email' = [email EXCEPT ![u] = e]
    PROVE  /\ email' \in [Users -> Emails \cup {None}]
           /\ \A v \in Users : email[v] # None => email'[v] # None
           /\ \A v, w \in Users : email'[v] # None /\ email'[v] = email'[w] => v = w
           /\ UNCHANGED link => KeysInv'
  <1>1. email' \in [Users -> Emails \cup {None}]
    BY DEF LinkingInv, TypeOK
  <1>2. \A v \in Users : email'[v] = IF v = u THEN e ELSE email[v]
    BY DEF LinkingInv, TypeOK
  <1>3. \A v \in Users : email[v] # None => email'[v] # None
    BY <1>2
  <1>4. \A v, w \in Users : email'[v] # None /\ email'[v] = email'[w] => v = w
    BY <1>2 DEF HasEmail, LinkingInv, KeysInv
  <1>5. UNCHANGED link => KeysInv'
    BY <1>3, <1>4 DEF LinkingInv, KeysInv
  <1> QED
    BY <1>1, <1>3, <1>4, <1>5

\* A login that runs alone finds the key free: an institutional address stays as it
\* is, any other is replaced by one that it has looked for (Refresh).
LEMMA RefreshStep ==
    ASSUME LinkingInv, NEW t \in Requests, Refresh(t)
    PROVE  LinkingInv'
  <1>1. /\ req[t].step = "refresh" /\ Running(t) /\ UNCHANGED link
        /\ req[t].user \in Users /\ email[req[t].user] # None /\ req[t].email \in Emails
    BY DEF Refresh, Running, LinkingInv, RequestShape, Found, Addressed
  <1>2. Promoted(t) \in Emails \cup {None} /\ (Promoted(t) = None => email[req[t].user] = None)
    BY <1>1, IdentityAssumption DEF Promoted, LinkingInv, TypeOK
  <1>3. CASE HasEmail(Promoted(t)) \subseteq {req[t].user}
    <2>1. email' = [email EXCEPT ![req[t].user] = Promoted(t)] /\ End(t, "ok")
      BY <1>3 DEF Refresh
    <2>2. link' \in [Users \X Providers -> Subjects \cup {None}]
      BY <1>1 DEF LinkingInv, TypeOK
    <2>3. /\ email' \in [Users -> Emails \cup {None}]
          /\ \A v \in Users : email[v] # None => email'[v] # None
          /\ KeysInv'
      BY <1>1, <1>2, <1>3, <2>1, EmailFits
    <2> QED
      BY <1>1, <2>1, <2>2, <2>3, EndKeeps DEF Answers
  <1>4. CASE ~(HasEmail(Promoted(t)) \subseteq {req[t].user})
    <2>1. UNCHANGED email /\ End(t, "raised")
      BY <1>4 DEF Refresh
    <2>2. ASSUME req[t].alone
          PROVE  FALSE
      <3>1. req[t].canonical = email[req[t].user] /\ HasEmail(req[t].email) \subseteq {req[t].user}
        BY <1>1, <2>2 DEF LinkingInv, Current
      <3>2. Promoted(t) \in {email[req[t].user], req[t].email}
        BY DEF Promoted
      <3>3. HasEmail(email[req[t].user]) \subseteq {req[t].user}
        BY <1>1 DEF HasEmail, LinkingInv, KeysInv
      <3> QED
        BY <1>4, <3>1, <3>2, <3>3
    <2>3. /\ email' \in [Users -> Emails \cup {None}]
          /\ link' \in [Users \X Providers -> Subjects \cup {None}]
          /\ KeysInv'
          /\ \A v \in Users : email[v] # None => email'[v] # None
      BY <1>1, <2>1 DEF LinkingInv, TypeOK, KeysInv
    <2> QED
      BY <1>1, <2>1, <2>2, <2>3, EndKeeps DEF Answers
  <1> QED
    BY <1>3, <1>4

-----------------------------------------------------------------------------
(* An account that is seen for the first time                                 *)

\* A user with the address is found, or there is none (FindUser).
LEMMA FindUserStep ==
    ASSUME LinkingInv, NEW t \in Requests, FindUser(t)
    PROVE  LinkingInv'
  <1>1. /\ req[t].step = "find_user" /\ Running(t) /\ UNCHANGED <<email, link>>
        /\ req[t].provider \in Providers /\ req[t].subject \in Subjects
        /\ req[t].email \in Emails /\ req[t].answer = "none" /\ req[t] \in Request
    BY DEF FindUser, Running, LinkingInv, RequestShape, Resolving, Addressed, TypeOK
  <1>2. req[t].alone => Linked(req[t].provider, req[t].subject) = {}
    BY <1>1 DEF LinkingInv, Current
  <1>3. CASE Goto(t, "create") /\ HasEmail(req[t].email) = {}
    <2>1. PICK r \in Request :
              /\ req' = [req EXCEPT ![t] = r]
              /\ r.step = "create" /\ r.provider = req[t].provider
              /\ r.subject = req[t].subject /\ r.email = req[t].email
              /\ r.alone = req[t].alone /\ r.answer = req[t].answer
      BY <1>3, GotoStep DEF LinkingInv, Steps
    <2>2. req'[t] = r
      BY <2>1 DEF LinkingInv, TypeOK
    <2>3. r.alone => Current(t)'
      BY <1>1, <1>2, <1>3, <2>1, <2>2 DEF Current, Linked, HasEmail
    <2> QED
      BY <1>1, <2>1, <2>3, ReadKeeps DEF Found
  <1>4. ASSUME NEW u \in HasEmail(req[t].email),
               req' = [req EXCEPT ![t].step = "other_link", ![t].user = u]
        PROVE  LinkingInv'
    <2> DEFINE r == [req[t] EXCEPT !.step = "other_link", !.user = u]
    <2>1. u \in Users /\ email[u] # None /\ email[u] = req[t].email
      BY <1>1, IdentityAssumption DEF HasEmail
    <2>2. /\ r \in Request /\ r.step = "other_link" /\ r.user = u /\ r.email = req[t].email
          /\ r.provider = req[t].provider /\ r.subject = req[t].subject
          /\ r.alone = req[t].alone /\ r.answer = "none"
      BY <1>1, <2>1 DEF Request, Steps
    <2>3. req' = [req EXCEPT ![t] = r]
      BY <1>4
    <2>4. req'[t] = r
      BY <2>3 DEF LinkingInv, TypeOK
    <2> HIDE DEF r
    <2>5. r.alone => Current(t)'
      BY <1>1, <1>2, <2>1, <2>2, <2>4 DEF Current, Linked
    <2> QED
      BY <1>1, <2>1, <2>2, <2>3, <2>5, ReadKeeps
  <1> QED
    BY <1>3, <1>4 DEF FindUser

\* The user has no other account of the provider (FindOtherLink).
LEMMA FindOtherLinkStep ==
    ASSUME LinkingInv, NEW t \in Requests, FindOtherLink(t)
    PROVE  LinkingInv'
  <1>1. /\ req[t].step = "other_link" /\ Running(t) /\ UNCHANGED <<email, link>>
        /\ req[t].provider \in Providers /\ req[t].subject \in Subjects
        /\ req[t].user \in Users /\ email[req[t].user] # None
        /\ req[t].email \in Emails /\ req[t].answer = "none"
    BY DEF FindOtherLink, Running, LinkingInv, RequestShape, Resolving, Found, Addressed
  <1>2. CASE Goto(t, "link") /\ link[<<req[t].user, req[t].provider>>] = None
    <2>1. PICK r \in Request :
              /\ req' = [req EXCEPT ![t] = r]
              /\ r.step = "link" /\ r.provider = req[t].provider
              /\ r.subject = req[t].subject /\ r.email = req[t].email /\ r.user = req[t].user
              /\ r.alone = req[t].alone /\ r.answer = req[t].answer
      BY <1>2, GotoStep DEF LinkingInv, Steps
    <2>2. req'[t] = r
      BY <2>1 DEF LinkingInv, TypeOK
    <2>3. ASSUME r.alone
          PROVE  Current(t)'
      <3>1. Linked(req[t].provider, req[t].subject) = {} /\ email[req[t].user] = req[t].email
        BY <1>1, <2>1, <2>3 DEF LinkingInv, Current
      <3> QED
        BY <1>1, <1>2, <2>1, <2>2, <3>1 DEF Current, Linked
    <2> QED
      BY <1>1, <2>1, <2>3, ReadKeeps
  <1>3. CASE End(t, "conflict")
    BY <1>1, <1>3, EndReading DEF Answers
  <1> QED
    BY <1>2, <1>3 DEF FindOtherLink

\* The unique keys of external_identities take a write that fits (WithLink).
LEMMA LinkWritten ==
    ASSUME LinkingInv, NEW t \in Requests, NEW u \in Users,
           req[t].provider \in Providers, req[t].subject \in Subjects,
           LinkFits(t, u), link' = WithLink(t, u)
    PROVE  /\ link' \in [Users \X Providers -> Subjects \cup {None}]
           /\ \A v, w \in Users, p \in Providers :
                  link'[<<v, p>>] # None /\ link'[<<v, p>>] = link'[<<w, p>>] => v = w
           /\ \A v \in Users, p \in Providers :
                  link'[<<v, p>>] # None => v = u \/ link[<<v, p>>] # None
  <1>1. link' \in [Users \X Providers -> Subjects \cup {None}]
    BY DEF WithLink, LinkingInv, TypeOK
  <1>2. \A v \in Users, p \in Providers :
            link'[<<v, p>>] = IF v = u /\ p = req[t].provider THEN req[t].subject
                                                            ELSE link[<<v, p>>]
    BY DEF WithLink, LinkingInv, TypeOK
  <1>3. \A v \in Users : link[<<v, req[t].provider>>] # req[t].subject
    BY DEF LinkFits, Linked
  <1>4. \A v, w \in Users, p \in Providers :
            link'[<<v, p>>] # None /\ link'[<<v, p>>] = link'[<<w, p>>] => v = w
    BY <1>2, <1>3 DEF LinkingInv, KeysInv
  <1> QED
    BY <1>1, <1>2, <1>4

\* What has been looked for is what the keys ask for, when nothing runs beside
\* (LinkUser).
LEMMA LinkUserStep ==
    ASSUME LinkingInv, NEW t \in Requests, LinkUser(t)
    PROVE  LinkingInv'
  <1>1. /\ req[t].step = "link" /\ Running(t) /\ UNCHANGED email
        /\ req[t].provider \in Providers /\ req[t].subject \in Subjects
        /\ req[t].user \in Users /\ email[req[t].user] # None
    BY DEF LinkUser, Running, LinkingInv, RequestShape, Resolving, Found
  <1>2. /\ email' \in [Users -> Emails \cup {None}]
        /\ \A v \in Users : email[v] # None => email'[v] # None
    BY <1>1 DEF LinkingInv, TypeOK
  <1>3. CASE LinkFits(t, req[t].user)
    <2>1. link' = WithLink(t, req[t].user) /\ End(t, "ok")
      BY <1>3 DEF LinkUser
    <2>2. KeysInv'
      BY <1>1, <1>3, <2>1, LinkWritten DEF LinkingInv, KeysInv
    <2>3. link' \in [Users \X Providers -> Subjects \cup {None}]
      BY <1>1, <1>3, <2>1, LinkWritten
    <2> QED
      BY <1>1, <1>2, <2>1, <2>2, <2>3, EndKeeps DEF Answers
  <1>4. CASE ~LinkFits(t, req[t].user)
    <2>1. UNCHANGED link /\ End(t, "raised")
      BY <1>4 DEF LinkUser
    <2>2. ~req[t].alone
      BY <1>1, <1>4 DEF LinkFits, LinkingInv, Current
    <2>3. KeysInv' /\ link' \in [Users \X Providers -> Subjects \cup {None}]
      BY <1>1, <2>1 DEF LinkingInv, TypeOK, KeysInv
    <2> QED
      BY <1>1, <1>2, <2>1, <2>2, <2>3, EndKeeps DEF Answers
  <1> QED
    BY <1>3, <1>4

\* A user and its link are inserted together (CreateUser).
LEMMA CreateUserStep ==
    ASSUME LinkingInv, NEW t \in Requests, NEW u \in Users, CreateUser(t, u)
    PROVE  LinkingInv'
  <1>1. /\ req[t].step = "create" /\ Running(t) /\ email[u] = None
        /\ req[t].provider \in Providers /\ req[t].subject \in Subjects
        /\ req[t].email \in Emails /\ req[t].email # None
    BY IdentityAssumption
    DEF CreateUser, Running, LinkingInv, RequestShape, Resolving, Addressed
  <1>2. CASE HasEmail(req[t].email) = {} /\ LinkFits(t, u)
    <2>1. /\ email' = [email EXCEPT ![u] = req[t].email]
          /\ link' = WithLink(t, u)
          /\ End(t, "ok")
      BY <1>2 DEF CreateUser
    <2>2. /\ email' \in [Users -> Emails \cup {None}]
          /\ \A v \in Users : email[v] # None => email'[v] # None
          /\ \A v, w \in Users : email'[v] # None /\ email'[v] = email'[w] => v = w
      BY <1>1, <1>2, <2>1, EmailFits
    <2>3. /\ link' \in [Users \X Providers -> Subjects \cup {None}]
          /\ \A v, w \in Users, p \in Providers :
                 link'[<<v, p>>] # None /\ link'[<<v, p>>] = link'[<<w, p>>] => v = w
          /\ \A v \in Users, p \in Providers :
                 link'[<<v, p>>] # None => v = u \/ link[<<v, p>>] # None
      BY <1>1, <1>2, <2>1, LinkWritten
    <2>4. email'[u] # None
      BY <1>1, <2>1 DEF LinkingInv, TypeOK
    <2>5. KeysInv'
      BY <2>2, <2>3, <2>4 DEF LinkingInv, KeysInv
    <2> QED
      BY <1>1, <2>1, <2>2, <2>3, <2>5, EndKeeps DEF Answers
  <1>3. CASE ~(HasEmail(req[t].email) = {} /\ LinkFits(t, u))
    <2>1. UNCHANGED <<email, link>> /\ End(t, "raised")
      BY <1>3 DEF CreateUser
    <2>2. ~req[t].alone
      <3>1. link[<<u, req[t].provider>>] = None
        BY <1>1 DEF LinkingInv, KeysInv
      <3> QED
        BY <1>1, <1>3, <3>1 DEF LinkFits, LinkingInv, Current
    <2>3. /\ email' \in [Users -> Emails \cup {None}]
          /\ link' \in [Users \X Providers -> Subjects \cup {None}]
          /\ KeysInv'
          /\ \A v \in Users : email[v] # None => email'[v] # None
      BY <2>1 DEF LinkingInv, TypeOK, KeysInv
    <2> QED
      BY <1>1, <2>1, <2>2, <2>3, EndKeeps DEF Answers
  <1> QED
    BY <1>2, <1>3

-----------------------------------------------------------------------------
(* Local accounts                                                             *)

\* The address is free, as far as is seen (FindLocal).
LEMMA FindLocalStep ==
    ASSUME LinkingInv, NEW t \in Requests, FindLocal(t)
    PROVE  LinkingInv'
  <1>1. /\ req[t].step = "find_local" /\ Running(t) /\ UNCHANGED <<email, link>>
        /\ req[t].email \in Emails /\ req[t].answer = "none"
    BY DEF FindLocal, Running, LinkingInv, RequestShape, Addressed
  <1>2. CASE Goto(t, "create_local")
    <2>1. PICK r \in Request :
              /\ req' = [req EXCEPT ![t] = r]
              /\ r.step = "create_local" /\ r.email = req[t].email
              /\ r.alone = req[t].alone /\ r.answer = req[t].answer
      BY <1>2, GotoStep DEF LinkingInv, Steps
    <2>2. req'[t] = r
      BY <2>1 DEF LinkingInv, TypeOK
    <2>3. Current(t)'
      BY <2>1, <2>2 DEF Current
    <2> QED
      BY <1>1, <2>1, <2>3, ReadKeeps DEF Found, Resolving
  <1>3. CASE End(t, "conflict")
    BY <1>1, <1>3, EndReading DEF Answers
  <1> QED
    BY <1>2, <1>3 DEF FindLocal

\* A violated key is answered as a conflict (CreateLocal).
LEMMA CreateLocalStep ==
    ASSUME LinkingInv, NEW t \in Requests, NEW u \in Users, CreateLocal(t, u)
    PROVE  LinkingInv'
  <1>1. /\ req[t].step = "create_local" /\ Running(t) /\ email[u] = None /\ UNCHANGED link
        /\ req[t].email \in Emails
    BY DEF CreateLocal, Running, LinkingInv, RequestShape, Addressed
  <1>2. CASE HasEmail(req[t].email) = {}
    <2>1. email' = [email EXCEPT ![u] = req[t].email] /\ End(t, "ok")
      BY <1>2 DEF CreateLocal
    <2>2. /\ email' \in [Users -> Emails \cup {None}]
          /\ \A v \in Users : email[v] # None => email'[v] # None
          /\ KeysInv'
      BY <1>1, <1>2, <2>1, EmailFits
    <2>3. link' \in [Users \X Providers -> Subjects \cup {None}]
      BY <1>1 DEF LinkingInv, TypeOK
    <2> QED
      BY <1>1, <2>1, <2>2, <2>3, EndKeeps DEF Answers
  <1>3. CASE HasEmail(req[t].email) # {}
    BY <1>1, <1>3, EndReading DEF CreateLocal, Answers
  <1> QED
    BY <1>2, <1>3

-----------------------------------------------------------------------------
(* The invariant and what follows from it                                     *)

\* Every step keeps the invariant (Next).
LEMMA LinkingStep == LinkingInv /\ [Next]_vars => LinkingInv'
  <1> SUFFICES ASSUME LinkingInv, [Next]_vars
               PROVE  LinkingInv'
    OBVIOUS
  <1>1. CASE UNCHANGED vars
    BY <1>1 DEF vars, LinkingInv, TypeOK, RequestShape, KeysInv, Lone, Running, Current,
                HasEmail, Linked, SoloLoginsNeverRaise
  <1>2. ASSUME NEW t \in Requests, Call(t)
        PROVE  LinkingInv'
    <2>1. ASSUME NEW p \in Providers, NEW s \in Subjects, NEW e \in Emails \cup {None},
                 Begin(t, "find_link", p, s, e)
          PROVE  LinkingInv'
      BY <2>1, BeginStep
    <2>2. ASSUME NEW e \in Emails, Begin(t, "find_local", None, None, e)
          PROVE  LinkingInv'
      BY <2>2, BeginStep
    <2> QED
      BY <1>2, <2>1, <2>2 DEF Call
  <1>3. ASSUME NEW t \in Requests, Step(t)
        PROVE  LinkingInv'
    BY <1>3, FindLinkStep, LoadOwnerStep, FindOtherStep, RefreshStep, FindUserStep,
       FindOtherLinkStep, LinkUserStep, CreateUserStep, FindLocalStep, CreateLocalStep DEF Step
  <1>4. ASSUME NEW t \in Requests, Fail(t)
        PROVE  LinkingInv'
    BY <1>4, EndReading DEF Fail, Answers
  <1> QED
    BY <1>1, <1>2, <1>3, <1>4 DEF Next

\* There is nobody at first (Init).
LEMMA LinkingInit == Init => LinkingInv
  BY DEF Init, LinkingInv, TypeOK, RequestShape, KeysInv, Lone, Running, NoRequest, Request,
         Steps, Answers, Resolving, Found, Addressed, SoloLoginsNeverRaise

\* The invariant holds in every reachable state (LinkingInv).
LEMMA LinkingInvariant == Spec => []LinkingInv
  BY LinkingInit, LinkingStep, PTL DEF Spec

\* Users, links and requests keep their types (TypeOK).
THEOREM TypeCorrect == Spec => []TypeOK
  <1>1. LinkingInv => TypeOK
    BY DEF LinkingInv
  <1> QED
    BY <1>1, LinkingInvariant, PTL

\* A login that nothing runs beside never meets a unique key, whatever earlier
\* logins that raced or failed have left (SoloLoginsNeverRaise).
THEOREM SoloLoginsEndWell == Spec => []SoloLoginsNeverRaise
  <1>1. LinkingInv => SoloLoginsNeverRaise
    BY DEF LinkingInv
  <1> QED
    BY <1>1, LinkingInvariant, PTL

\* An institutional address is replaced only by a login that did not run alone
\* (InstitutionalEmailIsKept).
THEOREM InstitutionalAddressesStay == Spec => InstitutionalEmailIsKept
  <1> DEFINE Keeps == \A u \in Users :
                 email[u] \in Institutional /\ email'[u] # email[u] =>
                     \E t \in Requests : req[t].user = u /\ ~req[t].alone /\ Refresh(t)
  <1>1. ASSUME LinkingInv, [Next]_vars
        PROVE  Keeps
    <2> SUFFICES ASSUME NEW u \in Users, email[u] \in Institutional, email'[u] # email[u]
                 PROVE  \E t \in Requests : req[t].user = u /\ ~req[t].alone /\ Refresh(t)
      OBVIOUS
    <2>1. email[u] # None
      BY IdentityAssumption
    <2>2. PICK t \in Requests : Refresh(t) \/ \E v \in Users : CreateUser(t, v) \/ CreateLocal(t, v)
      BY <1>1 DEF Next, vars, Call, Begin, Step, Fail, FindLink, LoadOwner, FindOther, FindUser,
                  FindOtherLink, LinkUser, FindLocal
    <2>3. ASSUME NEW v \in Users, CreateUser(t, v) \/ CreateLocal(t, v)
          PROVE  FALSE
      <3>1. email[v] = None /\ (UNCHANGED email \/ email' = [email EXCEPT ![v] = req[t].email])
        BY <2>3 DEF CreateUser, CreateLocal
      <3> QED
        BY <1>1, <2>1, <3>1 DEF LinkingInv, TypeOK
    <2>4. Refresh(t)
      BY <2>2, <2>3
    <2>5. req[t].user = u /\ Promoted(t) # email[u]
      BY <1>1, <2>4 DEF Refresh, LinkingInv, TypeOK
    <2>6. ~req[t].alone
      BY <1>1, <2>4, <2>5 DEF Refresh, Running, LinkingInv, Current, Promoted
    <2> QED
      BY <2>4, <2>5, <2>6
  <1>2. LinkingInv /\ [Next]_vars => [Keeps]_vars
    BY <1>1
  <1> QED
    BY <1>2, LinkingInvariant, PTL DEF Spec, InstitutionalEmailIsKept

\* An account is linked to the user who has the reported address, unless the login did
\* not run alone (LinksFollowTheAddress).
THEOREM LinksGoToTheAddress == Spec => LinksFollowTheAddress
  <1> DEFINE Written(u, p) ==
                 \E t \in Requests :
                     /\ LinkUser(t) \/ CreateUser(t, u)
                     /\ link[<<u, p>>] = None /\ link'[<<u, p>>] = req[t].subject
                     /\ req[t].alone => email'[u] = req[t].email
             Follow == \A u \in Users, p \in Providers :
                 link'[<<u, p>>] # link[<<u, p>>] => Written(u, p)
  <1>1. ASSUME LinkingInv, [Next]_vars
        PROVE  Follow
    <2> SUFFICES ASSUME NEW u \in Users, NEW p \in Providers, link'[<<u, p>>] # link[<<u, p>>]
                 PROVE  Written(u, p)
      OBVIOUS
    <2>1. PICK t \in Requests : LinkUser(t) \/ \E v \in Users : CreateUser(t, v)
      BY <1>1 DEF Next, vars, Call, Begin, Step, Fail, FindLink, LoadOwner, FindOther, FindUser,
                  FindOtherLink, Refresh, FindLocal, CreateLocal
    <2>2. ASSUME NEW v \in Users, link' = WithLink(t, v), LinkFits(t, v)
          PROVE  u = v /\ link[<<u, p>>] = None /\ link'[<<u, p>>] = req[t].subject
      <3>1. <<u, p>> = <<v, req[t].provider>> /\ link'[<<u, p>>] = req[t].subject
        BY <1>1, <2>2 DEF WithLink, LinkingInv, TypeOK
      <3> QED
        BY <2>2, <3>1 DEF LinkFits
    <2>3. CASE LinkUser(t)
      <3>1. /\ req[t].step = "link" /\ Running(t) /\ UNCHANGED email
            /\ req[t].user \in Users
        BY <1>1, <2>3 DEF LinkUser, Running, LinkingInv, RequestShape, Found
      <3>2. link' = WithLink(t, req[t].user) /\ LinkFits(t, req[t].user)
        BY <2>3 DEF LinkUser
      <3>3. req[t].alone => email[req[t].user] = req[t].email
        BY <1>1, <3>1 DEF LinkingInv, Current
      <3>4. u = req[t].user /\ link[<<u, p>>] = None /\ link'[<<u, p>>] = req[t].subject
        BY <2>2, <3>1, <3>2
      <3>5. req[t].alone => email'[u] = req[t].email
        BY <3>1, <3>3, <3>4
      <3> QED
        BY <2>3, <3>4, <3>5
    <2>4. ASSUME NEW v \in Users, CreateUser(t, v)
          PROVE  Written(u, p)
      <3>1. /\ link' = WithLink(t, v) /\ LinkFits(t, v)
            /\ email' = [email EXCEPT ![v] = req[t].email]
        BY <2>4 DEF CreateUser
      <3>2. u = v /\ link[<<u, p>>] = None /\ link'[<<u, p>>] = req[t].subject
        BY <2>2, <3>1
      <3>3. email'[u] = req[t].email
        BY <1>1, <3>1, <3>2 DEF LinkingInv, TypeOK
      <3> QED
        BY <2>4, <3>2, <3>3
    <2> QED
      BY <2>1, <2>3, <2>4
  <1>2. LinkingInv /\ [Next]_vars => [Follow]_vars
    BY <1>1
  <1> QED
    BY <1>2, LinkingInvariant, PTL DEF Spec, LinksFollowTheAddress
=============================================================================
