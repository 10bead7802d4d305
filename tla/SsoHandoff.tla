----------------------------- MODULE SsoHandoff -----------------------------
(* The single sign-on handoff of Orbita: an authenticated browser obtains a  *)
(* one-time code from /auth/authorize, the app's backend exchanges it at     *)
(* /auth/token for a per-app token backed by a row of app_sessions, and      *)
(* administrators and logouts revoke those rows while requests are running.  *)
(*                                                                           *)
(* Every request is a process of several steps: one per statement that reads *)
(* or writes PostgreSQL, which runs at READ COMMITTED, so that each          *)
(* statement sees what was committed before it.  What a transaction writes   *)
(* is seen by others when it commits; the row locks it takes are guards.     *)
EXTENDS AccessPolicy

CONSTANTS
    Users, Apps, Codes, Sessions,
    Workers,          \* requests to /auth/authorize and /auth/token in flight
    Revokers,         \* transactions that revoke sessions, in flight
    None,             \* an absent value
    RoleCardinality,  \* App.role_cardinality
    MigrationEnabled, \* App.migration_access_enabled
    RoleSets,         \* bound: the sets of global roles a user is given
    Mappings          \* bound: the mappings of global roles that an app is given

ASSUME SsoHandoffAssumption ==
    /\ None \notin Users \cup Apps \cup Codes \cup Sessions \cup Roles
    /\ RoleCardinality \in [Apps -> Cardinalities]
    /\ MigrationEnabled \in [Apps -> BOOLEAN]
    /\ RoleSets \subseteq SUBSET GlobalRoles
    /\ Mappings \subseteq [GlobalRoles -> SUBSET Roles]

VARIABLES
    account,    \* users.is_active and users.deleted_at, per user
    available,  \* App.is_active and Application.is_active, per app
    globals,    \* user_global_roles
    explicit,   \* user_app_roles whose role is active, per user and app
    mapped,     \* app_global_role_mappings to a role that is active, per app
    code,       \* authorization_codes
    expired,    \* the codes whose expires_at has passed
    session,    \* app_sessions, and what the token of each row carries
    pc, req,    \* the request each worker runs
    tx          \* the transaction each revoker runs

vars == <<account, available, globals, explicit, mapped, code, expired, session, pc, req, tx>>

-----------------------------------------------------------------------------
(* Rows and requests *)

Accounts == {"active", "inactive", "deleted"}

CodeRow == [state: {"none", "issued", "used"}, user: Users \cup {None},
            app: Apps \cup {None}]

NoCode == [state |-> "none", user |-> None, app |-> None]

\* "raced" is history: the session was recorded by an exchange that a revoking
\* transaction invalidated while it ran.  "direct": its roles were explicit ones.
SessionRow == [state: {"none", "live", "revoked", "lapsed"}, user: Users \cup {None},
               app: Apps \cup {None}, code: Codes \cup {None}, roles: SUBSET Roles,
               migration: BOOLEAN, direct: BOOLEAN, raced: BOOLEAN]

NoSession == [state |-> "none", user |-> None, app |-> None, code |-> None, roles |-> {},
              migration |-> FALSE, direct |-> FALSE, raced |-> FALSE]

Steps == {"idle", "recheck", "present", "redeem", "load_user",
          "globals", "explicit", "mapped", "issue", "record"}

\* "fresh": the code had not expired when the request took its clock reading.
\* "late" is history: what the request has read was invalidated since.
Request == [user: Users \cup {None}, app: Apps \cup {None}, code: Codes \cup {None},
            fresh: BOOLEAN, globals: SUBSET GlobalRoles, explicit: SUBSET Roles,
            access: Access, late: BOOLEAN]

NoRequest == [user |-> None, app |-> None, code |-> None, fresh |-> FALSE, globals |-> {},
              explicit |-> {}, access |-> NoAccess, late |-> FALSE]

\* "users" and "apps" are whose sessions it revokes, "hit" the sessions that its
\* UPDATE has found.  "rows" are the users whose row of users or user_app_roles it
\* writes; a transaction of kind "revoke" writes nothing but app_sessions.  "seen"
\* is history: the sessions that were there for the UPDATE to find.
Transaction == [kind: {"none", "revoke", "disable", "delete", "close", "unassign", "retire"},
                users: SUBSET Users, apps: SUBSET Apps, role: Roles \cup {None},
                rows: SUBSET Users, hit: SUBSET Sessions, seen: SUBSET Sessions]

NoTransaction == [kind |-> "none", users |-> {}, apps |-> {}, role |-> None,
                  rows |-> {}, hit |-> {}, seen |-> {}]

\* Rows have the columns of their tables, requests and transactions the steps of
\* their handlers.
TypeOK ==
    /\ account \in [Users -> Accounts]
    /\ available \in [Apps -> BOOLEAN]
    /\ globals \in [Users -> SUBSET GlobalRoles]
    /\ explicit \in [Users \X Apps -> SUBSET Roles]
    /\ mapped \in [Apps -> [GlobalRoles -> SUBSET Roles]]
    /\ code \in [Codes -> CodeRow]
    /\ expired \in SUBSET Codes
    /\ session \in [Sessions -> SessionRow]
    /\ pc \in [Workers -> Steps]
    /\ req \in [Workers -> Request]
    /\ tx \in [Revokers -> Transaction]

Init ==
    /\ account \in [Users -> {"active", "inactive"}]
    /\ available \in [Apps -> BOOLEAN]
    /\ globals = [u \in Users |-> {Guest}]
    /\ explicit = [ua \in Users \X Apps |-> {}]
    /\ mapped \in [Apps -> Mappings]
    /\ code = [c \in Codes |-> NoCode]
    /\ expired = {}
    /\ session = [j \in Sessions |-> NoSession]
    /\ pc = [w \in Workers |-> "idle"]
    /\ req = [w \in Workers |-> NoRequest]
    /\ tx = [m \in Revokers |-> NoTransaction]

platform == <<account, available, globals, explicit, mapped>>
tables == <<platform, code, expired, session>>

-----------------------------------------------------------------------------
(* Control of a request *)

Goto(w, step) == pc' = [pc EXCEPT ![w] = step]

\* The request ends.  If it was an exchange, its transaction ends with it: the
\* row lock on the code is dropped, and an uncommitted used_at is undone.
Finish(w) ==
    /\ pc' = [pc EXCEPT ![w] = "idle"]
    /\ req' = [req EXCEPT ![w] = NoRequest]

\* The explicit roles of a user in an app.
RolesOf(u, a) == explicit[<<u, a>>]

Exchanging(w) == req[w].code # None

\* The steps of an exchange between its UPDATE of the code row and its end.
InTransaction == {"load_user", "globals", "explicit", "mapped", "record"}

\* Mutants: the redemption takes no row lock; the row is locked by whoever has
\* looked at it.
HoldsNothing(w, c) == FALSE
HoldsWhenPresented(w, c) == req[w].code = c /\ pc[w] \in InTransaction \cup {"redeem"}

HoldsCode(w, c) == req[w].code = c /\ pc[w] \in InTransaction

-----------------------------------------------------------------------------
(* GET /auth/authorize *)

StartAuthorize(w, u, a) ==
    /\ pc[w] = "idle"
    /\ available[a]
    /\ account[u] = "active"
    /\ Goto(w, "recheck")
    /\ req' = [req EXCEPT ![w] = [NoRequest EXCEPT !.user = u, !.app = a]]
    /\ UNCHANGED <<tables, tx>>

\* GET /auth/resume and the Microsoft callback take up a stashed request: the user
\* is known, and the app is looked at by build_authorize_redirect alone.
ResumeAuthorize(w, u, a) ==
    /\ pc[w] = "idle"
    /\ account[u] = "active"
    /\ Goto(w, "recheck")
    /\ req' = [req EXCEPT ![w] = [NoRequest EXCEPT !.user = u, !.app = a]]
    /\ UNCHANGED <<tables, tx>>

\* build_authorize_redirect asks again whether the app is available: the App row may
\* come from the session's identity map, its Application row is read anew.
RecheckClient(w) ==
    /\ pc[w] = "recheck"
    /\ IF available[req[w].app] THEN Goto(w, "globals") /\ UNCHANGED req
                                ELSE Finish(w)
    /\ UNCHANGED <<tables, tx>>

IssueCode(w, c) ==
    /\ pc[w] = "issue"
    /\ code[c].state = "none"
    /\ code' = [code EXCEPT ![c] = [state |-> "issued", user |-> req[w].user,
                                    app |-> req[w].app]]
    /\ Finish(w)
    /\ UNCHANGED <<platform, expired, session, tx>>

\* Bound: Codes are all the codes there are; a request that finds none ends.
CodesExhausted(w) ==
    /\ pc[w] = "issue"
    /\ \A c \in Codes : code[c].state # "none"
    /\ Finish(w)
    /\ UNCHANGED <<tables, tx>>

-----------------------------------------------------------------------------
(* POST /auth/token *)

\* The client is authenticated, and its app is found available.
StartExchange(w, c, a) ==
    /\ pc[w] = "idle"
    /\ code[c].state # "none"
    /\ available[a]
    /\ Goto(w, "present")
    /\ req' = [req EXCEPT ![w] = [NoRequest EXCEPT !.code = c, !.app = a]]
    /\ UNCHANGED <<tables, tx>>

\* The clock is read before the UPDATE, which may then wait for the row lock.
PresentCode(w) ==
    /\ pc[w] = "present"
    /\ Goto(w, "redeem")
    /\ req' = [req EXCEPT ![w].fresh = req[w].code \notin expired]
    /\ UNCHANGED <<tables, tx>>

\* Mutant: the UPDATE forgets to compare the client's app.
RedeemableByAnyClient(w) == code[req[w].code].state = "issued" /\ req[w].fresh

Redeemable(w) ==
    LET row == code[req[w].code] IN
    row.state = "issued" /\ row.app = req[w].app /\ req[w].fresh

\* Mutant: used_at is committed before the rest of the exchange has run.
RedeemAndCommit(w) ==
    /\ pc[w] = "redeem"
    /\ \A v \in Workers : ~HoldsCode(v, req[w].code)
    /\ IF Redeemable(w)
       THEN /\ Goto(w, "load_user")
            /\ req' = [req EXCEPT ![w].user = code[req[w].code].user]
            /\ code' = [code EXCEPT ![req[w].code].state = "used"]
       ELSE Finish(w) /\ UNCHANGED code
    /\ UNCHANGED <<platform, expired, session, tx>>

Redeem(w) ==
    /\ pc[w] = "redeem"
    /\ \A v \in Workers : ~HoldsCode(v, req[w].code)
    /\ IF Redeemable(w)
       THEN /\ Goto(w, "load_user")
            /\ req' = [req EXCEPT ![w].user = code[req[w].code].user]
       ELSE Finish(w)
    /\ UNCHANGED <<tables, tx>>

LoadUser(w) ==
    /\ pc[w] = "load_user"
    /\ IF account[req[w].user] = "active" THEN Goto(w, "globals") /\ UNCHANGED req
                                          ELSE Finish(w)
    /\ UNCHANGED <<tables, tx>>

\* Mutant: the session is recorded and used_at is not.
RecordSessionOnly(w, j) ==
    /\ pc[w] = "record"
    /\ session[j].state = "none"
    /\ session' = [session EXCEPT ![j] =
           [state |-> "live", user |-> req[w].user, app |-> req[w].app,
            code |-> req[w].code, roles |-> req[w].access.roles,
            migration |-> req[w].access.migration,
            direct |-> req[w].explicit # {}, raced |-> req[w].late]]
    /\ Finish(w)
    /\ UNCHANGED <<platform, code, expired, tx>>

\* The session row and used_at become visible together.
RecordSession(w, j) ==
    /\ pc[w] = "record"
    /\ session[j].state = "none"
    /\ session' = [session EXCEPT ![j] =
           [state |-> "live", user |-> req[w].user, app |-> req[w].app,
            code |-> req[w].code, roles |-> req[w].access.roles,
            migration |-> req[w].access.migration,
            direct |-> req[w].explicit # {}, raced |-> req[w].late]]
    /\ code' = [code EXCEPT ![req[w].code].state = "used"]
    /\ Finish(w)
    /\ UNCHANGED <<platform, expired, tx>>

-----------------------------------------------------------------------------
(* RoleService.resolve_access: three queries, run by both endpoints *)

ReadGlobals(w) ==
    /\ pc[w] = "globals"
    /\ Goto(w, "explicit")
    /\ req' = [req EXCEPT ![w].globals = globals[req[w].user]]
    /\ UNCHANGED <<tables, tx>>

ReadExplicit(w) ==
    /\ pc[w] = "explicit"
    /\ Goto(w, "mapped")
    /\ req' = [req EXCEPT ![w].explicit = RolesOf(req[w].user, req[w].app)]
    /\ UNCHANGED <<tables, tx>>

MappedTo(u, a) == UNION {mapped[a][g] : g \in globals[u]}

\* The third query joins the user's global roles, and the mappings, as they are now.
ResolvedAccess(w) ==
    LET r == req[w] IN
    ResolveAppAccess(r.globals, r.explicit, MappedTo(r.user, r.app),
                     RoleCardinality[r.app], MigrationEnabled[r.app])

\* Mutant: an exchange goes on whatever access the user has.
ReadMappedOnly(w) ==
    /\ pc[w] = "mapped"
    /\ Goto(w, IF Exchanging(w) THEN "record" ELSE "issue")
    /\ req' = [req EXCEPT ![w].access = ResolvedAccess(w)]
    /\ UNCHANGED <<tables, tx>>

ReadMapped(w) ==
    /\ pc[w] = "mapped"
    /\ IF IsProvisioned(ResolvedAccess(w))
       THEN /\ Goto(w, IF Exchanging(w) THEN "record" ELSE "issue")
            /\ req' = [req EXCEPT ![w].access = ResolvedAccess(w)]
       ELSE Finish(w)
    /\ UNCHANGED <<tables, tx>>

\* An exception, a lost connection or a crash of the process at any step.
Fail(w) ==
    /\ pc[w] # "idle"
    /\ Finish(w)
    /\ UNCHANGED <<tables, tx>>

-----------------------------------------------------------------------------
(* Transactions that revoke sessions.  Each begins with the statements that  *)
(* see the rows, and takes effect when it commits.                           *)

LiveIn(US, AS) ==
    {j \in Sessions : session[j].state = "live" /\ session[j].user \in US
                                                /\ session[j].app \in AS}

Begin(m, kind, US, AS, r, rows) ==
    /\ tx[m].kind = "none"
    /\ tx' = [tx EXCEPT ![m] = [kind |-> kind, users |-> US, apps |-> AS, role |-> r,
                                rows |-> rows, hit |-> LiveIn(US, AS),
                                seen |-> {j \in Sessions : session[j].state # "none"}]]
    /\ UNCHANGED <<tables, pc, req>>

\* Row locks: no other transaction has written the row and not yet committed.
UserUnlocked(u) ==
    \A m \in Revokers : tx[m].kind \in {"disable", "delete"} => u \notin tx[m].rows

AppUnlocked(a) == \A m \in Revokers : tx[m].kind = "close" => a \notin tx[m].apps

AssignmentUnlocked(u, a, r) ==
    \A m \in Revokers : tx[m].role = r /\ a \in tx[m].apps => u \notin tx[m].rows

RoleUnlocked(a, r) ==
    \A m \in Revokers : tx[m].kind = "retire" /\ tx[m].role = r => a \notin tx[m].apps

\* The UPDATE of a loaded row that already has the value is not emitted.
DisableUser(m, u) ==
    LET rows == {u} \cap {v \in Users : account[v] = "active"} IN
    /\ \A v \in rows : UserUnlocked(v)
    /\ Begin(m, "disable", {u}, Apps, None, rows)

\* Mutant: the bulk endpoint disables the users and revokes nothing.
BulkDisableOnly(m, US) ==
    /\ \A u \in US : UserUnlocked(u)
    /\ Begin(m, "disable", US, {}, None, US)

BulkDisable(m, US) ==
    /\ \A u \in US : UserUnlocked(u)
    /\ Begin(m, "disable", US, Apps, None, US)

DeleteUsers(m, US) ==
    /\ \A u \in US : UserUnlocked(u)
    /\ Begin(m, "delete", US, Apps, None, US)

CloseApp(m, a) ==
    \/ /\ available[a]
       /\ AppUnlocked(a)
       /\ Begin(m, "close", Users, {a}, None, {})
    \/ /\ ~available[a]
       /\ Begin(m, "revoke", Users, {a}, None, {})

UnassignRole(m, US, a, r) ==
    LET rows == {u \in US : r \in RolesOf(u, a)} IN
    /\ \A u \in rows : AssignmentUnlocked(u, a, r)
    /\ Begin(m, "unassign", US, {a}, r, rows)

Holders(a, r) == {u \in Users : r \in RolesOf(u, a)}

\* sync_catalog no longer declares the role: it is inactive for everyone, and the
\* sessions of everyone are revoked.
RetireRole(m, a, r) ==
    /\ RoleUnlocked(a, r)
    /\ Begin(m, "retire", Users, {a}, r, {})

\* The role goes, with every assignment of it, and those who hold it now have
\* their sessions revoked.  An assignment that comes between the two statements is
\* deleted and its holder's sessions are not revoked; one that comes after both
\* makes the deletion of the role violate its foreign key, and is a Rollback.
DeleteRole(m, a, r) ==
    /\ RoleUnlocked(a, r)
    /\ \A u \in Holders(a, r) : AssignmentUnlocked(u, a, r)
    /\ Begin(m, "retire", Holders(a, r), {a}, r, Holders(a, r))

\* /auth/logout, /auth/end-session and a password change.
Logout(m, u) == Begin(m, "revoke", {u}, Apps, None, {})

\* Committing t makes a value stale that the exchange of w has read.
Invalidates(t, w) ==
    /\ Exchanging(w)
    /\ req[w].app \in t.apps
    /\ \/ t.kind = "close"
       \/ /\ t.kind \in {"disable", "delete"}
          /\ pc[w] \in {"globals", "explicit", "mapped", "record"}
          /\ req[w].user \in t.rows
       \/ /\ t.kind \in {"unassign", "retire"}
          /\ pc[w] \in {"mapped", "record"}
          /\ t.kind = "unassign" => req[w].user \in t.rows
          /\ t.role \in req[w].explicit

\* Committing t takes from a session what it was issued on.
Outdates(t, j) ==
    /\ session[j].app \in t.apps
    /\ \/ t.kind = "close"
       \/ t.kind \in {"disable", "delete"} /\ session[j].user \in t.rows
       \/ t.kind = "unassign" /\ session[j].user \in t.rows /\ t.role \in session[j].roles
       \/ t.kind = "retire" /\ t.role \in session[j].roles

\* A session that was not there yet for the UPDATE of t is left live.
RevokedBy(t, j) ==
    IF session[j].state # "live" THEN session[j]
    ELSE IF j \in t.hit THEN [session[j] EXCEPT !.state = "revoked"]
    ELSE IF j \notin t.seen /\ Outdates(t, j) THEN [session[j] EXCEPT !.raced = TRUE]
    ELSE session[j]

Commit(m) ==
    LET t == tx[m] IN
    /\ t.kind # "none"
    /\ account' = [u \in Users |->
           IF u \in t.rows /\ t.kind = "delete" THEN "deleted"
           ELSE IF u \in t.rows /\ t.kind = "disable" /\ account[u] = "active"
           THEN "inactive" ELSE account[u]]
    /\ available' = [a \in Apps |-> available[a] /\ ~(t.kind = "close" /\ a \in t.apps)]
    /\ explicit' = [ua \in Users \X Apps |->
           IF /\ ua[2] \in t.apps
              /\ t.kind = "retire" \/ (t.kind = "unassign" /\ ua[1] \in t.rows)
           THEN explicit[ua] \ {t.role} ELSE explicit[ua]]
    /\ mapped' = [a \in Apps |->
           IF t.kind = "retire" /\ a \in t.apps
           THEN [g \in GlobalRoles |-> mapped[a][g] \ {t.role}] ELSE mapped[a]]
    /\ session' = [j \in Sessions |-> RevokedBy(t, j)]
    /\ req' = [w \in Workers |->
           IF Invalidates(t, w) THEN [req[w] EXCEPT !.late = TRUE] ELSE req[w]]
    /\ tx' = [tx EXCEPT ![m] = NoTransaction]
    /\ UNCHANGED <<globals, code, expired, pc>>

Rollback(m) ==
    /\ tx[m].kind # "none"
    /\ tx' = [tx EXCEPT ![m] = NoTransaction]
    /\ UNCHANGED <<tables, pc, req>>

-----------------------------------------------------------------------------
(* Transactions of one write that revoke nothing, and the passing of time *)

\* Enabling leaves deleted_at as it is, so a deleted user stays unavailable.
EnableUser(u) ==
    /\ account[u] = "inactive"
    /\ UserUnlocked(u)
    /\ account' = [account EXCEPT ![u] = "active"]
    /\ UNCHANGED <<available, globals, explicit, mapped, code, expired, session, pc, req, tx>>

OpenApp(a) ==
    /\ ~available[a]
    /\ AppUnlocked(a)
    /\ available' = [available EXCEPT ![a] = TRUE]
    /\ UNCHANGED <<account, globals, explicit, mapped, code, expired, session, pc, req, tx>>

\* An assignment, or the activation of an assigned role by sync_catalog.  That the
\* user of a single-role app holds none yet is no guard: requests race past that
\* check, and roles come back beside each other.
AssignRole(u, a, r) ==
    /\ r \notin RolesOf(u, a)
    /\ explicit' = [explicit EXCEPT ![<<u, a>>] = @ \cup {r}]
    /\ UNCHANGED <<account, available, globals, mapped, code, expired, session, pc, req, tx>>

\* Any of the operations on global roles: none of them revokes a session.
SetGlobalRoles(u, G) ==
    /\ G # globals[u]
    /\ globals' = [globals EXCEPT ![u] = G]
    /\ UNCHANGED <<account, available, explicit, mapped, code, expired, session, pc, req, tx>>

\* upsert_global_role_mapping maps a global role to another role, and sync_catalog
\* brings mapped roles back: none of them revokes a session either.
Remap(a, M) ==
    /\ M # mapped[a]
    /\ mapped' = [mapped EXCEPT ![a] = M]
    /\ UNCHANGED <<account, available, globals, explicit, code, expired, session, pc, req, tx>>

ExpireCode(c) ==
    /\ code[c].state # "none"
    /\ expired' = expired \cup {c}
    /\ UNCHANGED <<platform, code, session, pc, req, tx>>

ExpireSession(j) ==
    /\ session[j].state = "live"
    /\ session' = [session EXCEPT ![j].state = "lapsed"]
    /\ UNCHANGED <<platform, code, expired, pc, req, tx>>

-----------------------------------------------------------------------------

WorkerStep(w) ==
    \/ RecheckClient(w)
    \/ \E c \in Codes : IssueCode(w, c)
    \/ CodesExhausted(w)
    \/ PresentCode(w)
    \/ Redeem(w)
    \/ LoadUser(w)
    \/ ReadGlobals(w)
    \/ ReadExplicit(w)
    \/ ReadMapped(w)
    \/ \E j \in Sessions : RecordSession(w, j)

StartRequest(w) ==
    \/ \E u \in Users, a \in Apps : StartAuthorize(w, u, a) \/ ResumeAuthorize(w, u, a)
    \/ \E c \in Codes, a \in Apps : StartExchange(w, c, a)

StartRevoking(m) ==
    \/ \E u \in Users : DisableUser(m, u) \/ Logout(m, u)
    \/ \E US \in (SUBSET Users) \ {{}} : BulkDisable(m, US) \/ DeleteUsers(m, US)
    \/ \E a \in Apps : CloseApp(m, a)
    \/ \E a \in Apps, r \in Roles : RetireRole(m, a, r) \/ DeleteRole(m, a, r)
    \/ \E US \in (SUBSET Users) \ {{}}, a \in Apps, r \in Roles : UnassignRole(m, US, a, r)

Administration ==
    \/ \E u \in Users : EnableUser(u)
    \/ \E a \in Apps : OpenApp(a)
    \/ \E u \in Users, a \in Apps, r \in Roles : AssignRole(u, a, r)
    \/ \E u \in Users, G \in RoleSets : SetGlobalRoles(u, G)
    \/ \E a \in Apps, M \in Mappings : Remap(a, M)

Time ==
    \/ \E c \in Codes : ExpireCode(c)
    \/ \E j \in Sessions : ExpireSession(j)

Next ==
    \/ \E w \in Workers : StartRequest(w) \/ WorkerStep(w) \/ Fail(w)
    \/ \E m \in Revokers : StartRevoking(m) \/ Commit(m) \/ Rollback(m)
    \/ Administration
    \/ Time

Spec == Init /\ [][Next]_vars

\* A request keeps running: the event loop schedules it.  PostgreSQL serves the
\* waiters of a row lock in order, so a request that is offered the lock again
\* and again gets it.
FairSpec ==
    /\ Spec
    /\ \A w \in Workers : WF_vars(WorkerStep(w)) /\ SF_vars(Redeem(w))
-----------------------------------------------------------------------------
(* Properties *)

\* An authorization code yields at most one session, however many requests
\* present it at once and however many of them fail half way
\* (redeem_authorization_code's UPDATE and the transaction of /auth/token).
SingleUse ==
    \A i, j \in Sessions :
        session[i].state # "none" /\ session[j].state # "none"
            /\ session[i].code = session[j].code => i = j

\* A code is spent exactly when a session was recorded for it: an exchange that
\* fails after the UPDATE leaves the code redeemable, and none is spent twice.
SpentIffRecorded ==
    \A c \in Codes :
        code[c].state = "used" <=>
            \E j \in Sessions : session[j].state # "none" /\ session[j].code = c

\* A session belongs to the user and the app its code was issued for, whichever
\* client presented the code.
SessionMatchesCode ==
    \A j \in Sessions :
        session[j].state # "none" =>
            LET c == session[j].code IN
            c \in Codes /\ session[j].user = code[c].user /\ session[j].app = code[c].app

\* A live session is one its owner may have now: disabling or deleting the user,
\* closing the app, and unassigning, deleting or retiring an explicit role has
\* revoked every session but those recorded by an exchange that had already read
\* the value it changed, or recorded while the transaction was open.
LiveSessionIsCurrent ==
    \A j \in Sessions :
        session[j].state = "live" /\ ~session[j].raced =>
            /\ account[session[j].user] = "active"
            /\ available[session[j].app]
            /\ session[j].direct =>
                   session[j].roles \subseteq RolesOf(session[j].user, session[j].app)

\* A token of a single-role app carries one role, or none with the migration
\* flag: never both, and never neither (resolve_app_access_policy fails closed).
TokenCarriesAccess ==
    \A j \in Sessions :
        session[j].state # "none" =>
            /\ session[j].migration <=> session[j].roles = {}
            /\ session[j].migration => MigrationEnabled[session[j].app]
            /\ RoleCardinality[session[j].app] = "single" =>
                   Cardinality(session[j].roles) <= 1

-----------------------------------------------------------------------------
(* The inductive invariant behind SingleUse, SessionMatchesCode and            *)
(* LiveSessionIsCurrent: what the steps of a request know while it runs.       *)

\* Requests are shaped by their step.
RequestShape ==
    \A w \in Workers :
        /\ pc[w] = "idle" => req[w] = NoRequest
        /\ pc[w] \in {"present", "redeem", "load_user", "record"} => Exchanging(w)
        /\ pc[w] \in {"recheck", "issue"} => ~Exchanging(w)
        /\ pc[w] # "idle" => req[w].app \in Apps
        /\ pc[w] \in InTransaction \cup {"recheck", "issue"} => req[w].user \in Users

\* An issued code names its user and its app, and only issued codes are presented.
CodeShape ==
    /\ \A c \in Codes :
          code[c].state # "none" => code[c].user \in Users /\ code[c].app \in Apps
    /\ \A w \in Workers : Exchanging(w) => code[req[w].code].state # "none"

\* The row lock: one exchange at a time is past its UPDATE of a code, the code is
\* unspent until that exchange commits, and it runs for the code's user and app.
RowLock ==
    \A w \in Workers, c \in Codes :
        HoldsCode(w, c) =>
            /\ code[c].state = "issued"
            /\ req[w].user = code[c].user
            /\ req[w].app = code[c].app
            /\ \A v \in Workers : HoldsCode(v, c) => v = w

\* Disabling and deleting users concerns every app.
TransactionShape ==
    \A m \in Revokers : tx[m].kind \in {"disable", "delete"} => tx[m].apps = Apps

\* The commit of t makes a live session one that its owner may no longer have.
Concerns(t, j) ==
    /\ session[j].state = "live"
    /\ ~session[j].raced
    /\ t.kind \in {"unassign", "retire"} => session[j].direct
    /\ Outdates(t, j)

\* A transaction has found every session that was there and that it concerns.
RevocationFinds ==
    \A m \in Revokers :
        \A j \in tx[m].seen :
            session[j].state # "none" /\ (Concerns(tx[m], j) => j \in tx[m].hit)

\* What an exchange has read still holds, unless it was overtaken.
ReadsAreCurrent ==
    \A w \in Workers :
        Exchanging(w) /\ ~req[w].late =>
            /\ available[req[w].app]
            /\ pc[w] \in {"globals", "explicit", "mapped", "record"} =>
                   account[req[w].user] = "active"
            /\ pc[w] \in {"mapped", "record"} =>
                   req[w].explicit \subseteq RolesOf(req[w].user, req[w].app)

\* Roles that were assigned explicitly win over mapped ones.
ExplicitRolesWin ==
    \A w \in Workers :
        pc[w] = "record" /\ req[w].explicit # {} => req[w].access.roles \subseteq req[w].explicit

\* The whole invariant, over any number of users, apps, codes and requests.
HandoffInv ==
    /\ TypeOK
    /\ RequestShape
    /\ CodeShape
    /\ TransactionShape
    /\ RevocationFinds
    /\ RowLock
    /\ ReadsAreCurrent
    /\ ExplicitRolesWin
    /\ SpentIffRecorded
    /\ SingleUse
    /\ SessionMatchesCode
    /\ LiveSessionIsCurrent

-----------------------------------------------------------------------------

\* The handoff keeps the promise of a one-time grant.
Grant == INSTANCE OneTimeGrant WITH
    Grants <- Codes,
    Deliveries <- Sessions,
    state <- [c \in Codes |-> IF code[c].state = "used" THEN "redeemed" ELSE code[c].state],
    delivered <- [c \in Codes |->
        {j \in Sessions : session[j].state # "none" /\ session[j].code = c}]

ImplementsOneTimeGrant == Grant!Spec

\* Every request ends: the row lock on a code is always released, by a commit, a
\* refusal or a failure, so nobody waits for it for ever.
RequestsEnd == \A w \in Workers : pc[w] # "idle" ~> pc[w] = "idle"

\* What API_CONTRACT.md asks of /auth/token: a token is issued only while the
\* user and the app are available and the user holds the explicit roles it carries.
IssuanceEnforcesCurrentState ==
    [][\A j \in Sessions :
          session[j].state = "none" /\ session'[j].state = "live" =>
              /\ account[session'[j].user] = "active"
              /\ available[session'[j].app]
              /\ session'[j].direct =>
                     session'[j].roles \subseteq RolesOf(session'[j].user, session'[j].app)]_vars
=============================================================================
