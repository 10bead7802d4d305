-------------------------- MODULE IdentityLinking --------------------------
(* IdentityResolver.resolve: which user of Orbita a login at Moodle or at     *)
(* Microsoft is, beside other logins and the creation of local accounts.      *)
(* The code looks before it writes; what it has not seen, because it was      *)
(* written since, is left to the unique keys of PostgreSQL, whose violation   *)
(* is an exception.  The writes of a request are one step, its commit.        *)

CONSTANTS
    Users,          \* bound: the rows of users
    Subjects,       \* accounts at a provider, tenant and id together
    Emails,         \* normalized addresses
    Institutional,  \* those of identity_email_domains
    LinkAnyMoodle,  \* allow_moodle_noninstitutional_email_linking
    Requests,       \* requests in flight
    None

Providers == {"moodle", "microsoft"}

ASSUME IdentityAssumption ==
    /\ None \notin Users \cup Subjects \cup Emails
    /\ Institutional \subseteq Emails
    /\ LinkAnyMoodle \in BOOLEAN

VARIABLES
    email,   \* per user: User.email, None when there is no such row
    link,    \* external_identities: per user and provider, the subject
    req      \* per request: its transaction, and its answer once it has ended

vars == <<email, link, req>>

Answers == {"none", "ok", "conflict", "rejected", "raised", "failed"}

Steps == {"idle", "find_link", "owner", "other", "refresh", "find_user", "other_link",
          "link", "create", "find_local", "create_local"}

\* "email" is what the provider reports, None when that is no address; "user" and
\* "canonical" the user that was found and its email as it was loaded.  "alone" is
\* history: no other request has run beside this one.
Request == [step: Steps, provider: Providers \cup {None}, subject: Subjects \cup {None},
            email: Emails \cup {None}, user: Users \cup {None},
            canonical: Emails \cup {None}, alone: BOOLEAN, answer: Answers]

NoRequest == [step |-> "idle", provider |-> None, subject |-> None, email |-> None,
              user |-> None, canonical |-> None, alone |-> FALSE, answer |-> "none"]

\* An account of a provider is linked by its id, a user has an address of Emails, and
\* every request in flight is at a step of its handler.
TypeOK ==
    /\ email \in [Users -> Emails \cup {None}]
    /\ link \in [Users \X Providers -> Subjects \cup {None}]
    /\ req \in [Requests -> Request]

Init ==
    /\ email = [u \in Users |-> None]
    /\ link = [x \in Users \X Providers |-> None]
    /\ req = [t \in Requests |-> NoRequest]

-----------------------------------------------------------------------------

Running(t) == req[t].step # "idle"

Goto(t, step) == req' = [req EXCEPT ![t].step = step]

End(t, answer) ==
    req' = [req EXCEPT ![t] = [NoRequest EXCEPT !.answer = answer, !.alone = req[t].alone,
                                                !.provider = req[t].provider]]

Begin(t, step, p, s, e) ==
    /\ ~Running(t)
    /\ req' = [q \in Requests |->
           IF q = t THEN [NoRequest EXCEPT !.step = step, !.provider = p, !.subject = s,
                              !.email = e, !.alone = \A v \in Requests : ~Running(v)]
           ELSE IF Running(q) THEN [req[q] EXCEPT !.alone = FALSE] ELSE req[q]]
    /\ UNCHANGED <<email, link>>

\* The process or its connection is lost.
Fail(t) == Running(t) /\ End(t, "failed") /\ UNCHANGED <<email, link>>

HasEmail(e) == {u \in Users : email[u] = e}

Linked(p, s) == {u \in Users : link[<<u, p>>] = s}

-----------------------------------------------------------------------------
(* A known account *)

FindLink(t) ==
    LET owners == Linked(req[t].provider, req[t].subject)
        correlates == \/ req[t].email \in Institutional
                      \/ req[t].email # None /\ req[t].provider = "moodle" /\ LinkAnyMoodle
    IN
    /\ req[t].step = "find_link"
    /\ IF owners # {}
       THEN \E u \in owners : req' = [req EXCEPT ![t].step = "owner", ![t].user = u]
       ELSE IF correlates THEN Goto(t, "find_user") ELSE End(t, "rejected")
    /\ UNCHANGED <<email, link>>

LoadOwner(t) ==
    /\ req[t].step = "owner"
    /\ IF req[t].email \in Institutional
       THEN req' = [req EXCEPT ![t].step = "other", ![t].canonical = email[req[t].user]]
       ELSE End(t, "ok")
    /\ UNCHANGED <<email, link>>

\* Mutant: it is not asked whether the reported address is another user's.
FindNoOther(t) ==
    /\ req[t].step = "other"
    /\ Goto(t, "refresh")
    /\ UNCHANGED <<email, link>>

FindOther(t) ==
    /\ req[t].step = "other"
    /\ IF HasEmail(req[t].email) \subseteq {req[t].user} THEN Goto(t, "refresh")
                                                         ELSE End(t, "conflict")
    /\ UNCHANGED <<email, link>>

\* Mutant: the canonical address always follows the provider's.
AnyPromoted(t) == req[t].email

\* The email of the owner after the login: an institutional address is kept.
Promoted(t) ==
    IF req[t].canonical \in Institutional THEN email[req[t].user] ELSE req[t].email

Refresh(t) ==
    /\ req[t].step = "refresh"
    /\ IF HasEmail(Promoted(t)) \subseteq {req[t].user}
       THEN /\ email' = [email EXCEPT ![req[t].user] = Promoted(t)]
            /\ End(t, "ok")
       ELSE UNCHANGED email /\ End(t, "raised")
    /\ UNCHANGED link

-----------------------------------------------------------------------------
(* An account that is seen for the first time *)

\* Mutant: addresses are compared by their domain.
FindUserByDomain(t) ==
    LET found == IF req[t].email \in Institutional
                 THEN {u \in Users : email[u] \in Institutional} ELSE HasEmail(req[t].email)
    IN
    /\ req[t].step = "find_user"
    /\ IF found = {} THEN Goto(t, "create")
       ELSE \E u \in found : req' = [req EXCEPT ![t].step = "other_link", ![t].user = u]
    /\ UNCHANGED <<email, link>>

FindUser(t) ==
    LET found == HasEmail(req[t].email) IN
    /\ req[t].step = "find_user"
    /\ IF found = {} THEN Goto(t, "create")
       ELSE \E u \in found : req' = [req EXCEPT ![t].step = "other_link", ![t].user = u]
    /\ UNCHANGED <<email, link>>

FindOtherLink(t) ==
    /\ req[t].step = "other_link"
    /\ IF link[<<req[t].user, req[t].provider>>] = None THEN Goto(t, "link")
                                                        ELSE End(t, "conflict")
    /\ UNCHANGED <<email, link>>

\* Mutant: the identity is filed under its address.
WithLinkByEmail(t, u) == [link EXCEPT ![<<u, req[t].provider>>] = req[t].email]

WithLink(t, u) == [link EXCEPT ![<<u, req[t].provider>>] = req[t].subject]

\* Unique keys: one user per account, and one account per user and provider.
LinkFits(t, u) ==
    Linked(req[t].provider, req[t].subject) = {} /\ link[<<u, req[t].provider>>] = None

LinkUser(t) ==
    /\ req[t].step = "link"
    /\ IF LinkFits(t, req[t].user)
       THEN link' = WithLink(t, req[t].user) /\ End(t, "ok")
       ELSE UNCHANGED link /\ End(t, "raised")
    /\ UNCHANGED email

\* Unique key: one user per address.  The user and its link come together.
CreateUser(t, u) ==
    /\ req[t].step = "create"
    /\ email[u] = None
    /\ IF HasEmail(req[t].email) = {} /\ LinkFits(t, u)
       THEN /\ email' = [email EXCEPT ![u] = req[t].email]
            /\ link' = WithLink(t, u)
            /\ End(t, "ok")
       ELSE UNCHANGED <<email, link>> /\ End(t, "raised")

-----------------------------------------------------------------------------
(* POST /users: an administrator creates a local account *)

FindLocal(t) ==
    /\ req[t].step = "find_local"
    /\ IF HasEmail(req[t].email) = {} THEN Goto(t, "create_local") ELSE End(t, "conflict")
    /\ UNCHANGED <<email, link>>

\* Here the violation is caught and answered as a conflict.
CreateLocal(t, u) ==
    /\ req[t].step = "create_local"
    /\ email[u] = None
    /\ IF HasEmail(req[t].email) = {}
       THEN email' = [email EXCEPT ![u] = req[t].email] /\ End(t, "ok")
       ELSE UNCHANGED email /\ End(t, "conflict")
    /\ UNCHANGED link

-----------------------------------------------------------------------------

Call(t) ==
    \/ \E p \in Providers, s \in Subjects, e \in Emails \cup {None} : Begin(t, "find_link", p, s, e)
    \/ \E e \in Emails : Begin(t, "find_local", None, None, e)

Step(t) ==
    \/ FindLink(t)
    \/ LoadOwner(t)
    \/ FindOther(t)
    \/ Refresh(t)
    \/ FindUser(t)
    \/ FindOtherLink(t)
    \/ LinkUser(t)
    \/ \E u \in Users : CreateUser(t, u) \/ CreateLocal(t, u)
    \/ FindLocal(t)

Next == \E t \in Requests : Call(t) \/ Step(t) \/ Fail(t)

Spec == Init /\ [][Next]_vars

-----------------------------------------------------------------------------

\* What resolve looks at before it writes covers every unique key: a login that
\* no request runs beside ends well, in a conflict or in a refusal, but never in
\* an exception.
SoloLoginsNeverRaise ==
    \A t \in Requests : req[t].alone => req[t].answer # "raised"

\* An institutional address, once a user has it, is not replaced by what a provider
\* reports later; only a login that had loaded the user before it was promoted, and
\* so did not run alone, can do that.
InstitutionalEmailIsKept ==
    [][\A u \in Users :
          email[u] \in Institutional /\ email'[u] # email[u] =>
              \E t \in Requests : req[t].user = u /\ ~req[t].alone /\ Refresh(t)]_vars

\* A login of an account that is seen for the first time links it to the user who has
\* the address it reports, beside no other account of the provider, and for good.  The
\* user was found before the link is written: only a login that did not run alone can
\* link a user whose address was promoted to another one in between.
LinksFollowTheAddress ==
    [][\A u \in Users, p \in Providers :
          link'[<<u, p>>] # link[<<u, p>>] =>
              \E t \in Requests :
                  /\ LinkUser(t) \/ CreateUser(t, u)
                  /\ link[<<u, p>>] = None /\ link'[<<u, p>>] = req[t].subject
                  /\ req[t].alone => email'[u] = req[t].email]_vars
=============================================================================
