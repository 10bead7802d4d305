-------------------------- MODULE SsoHandoffProofs --------------------------
(* Theorems of SsoHandoff for any number of users, apps, codes, sessions and  *)
(* concurrent requests: TypeCorrect is proved first, and most of the rest     *)
(* follows from the inductive invariant HandoffInv.  Then what a token        *)
(* carries, TokenCarriesAccess, whatever the policies are, and the theorems   *)
(* of TokenIntrospection: what introspection answers,                         *)
(* NoActiveAnswerWhileBarred, and the properties of SsoHandoff that hold      *)
(* beside introspections.                                                     *)
EXTENDS TokenIntrospection, FiniteSetTheorems, TLAPS

USE DEF platform, tables

\* The policy answers with roles of the app, whatever it is asked.
LEMMA AccessType ==
    ASSUME NEW G, NEW E \in SUBSET Roles, NEW M \in SUBSET Roles, NEW card, NEW mig \in BOOLEAN
    PROVE  ResolveAppAccess(G, E, M, card, mig) \in Access
  BY DEF ResolveAppAccess, GrantRoles, NoAccess, Access

\* Explicit roles win: a user who has some is never answered with others.
LEMMA ExplicitWins ==
    ASSUME NEW G, NEW E, NEW M, NEW card, NEW mig, E # {}
    PROVE  ResolveAppAccess(G, E, M, card, mig).roles \subseteq E
  BY DEF ResolveAppAccess, GrantRoles, NoAccess

\* Global roles are mapped to roles of the app (MappedTo).
LEMMA MappedType ==
    ASSUME TypeOK, NEW u \in Users, NEW a \in Apps
    PROVE  MappedTo(u, a) \in SUBSET Roles
  BY SsoHandoffAssumption DEF TypeOK, MappedTo

-----------------------------------------------------------------------------
(* Type correctness.  A request's step says which of its fields are set, and  *)
(* an issued code names a user: without both, the types are not inductive.    *)

Shape == TypeOK /\ RequestShape /\ CodeShape

\* The tables start empty and the requests idle (Init).
LEMMA ShapeInit == Init => Shape
  BY SsoHandoffAssumption, GuestAssumption
  DEF Init, Shape, TypeOK, RequestShape, CodeShape, NoCode, NoSession, NoRequest,
      NoTransaction, NoAccess, Access, Accounts, CodeRow, SessionRow, Steps, Request,
      Transaction, InTransaction, Exchanging

\* A request that ends leaves every other as it was (Finish).
LEMMA FinishType ==
    ASSUME Shape, NEW w \in Workers, Finish(w)
    PROVE  /\ pc' \in [Workers -> Steps]
           /\ req' \in [Workers -> Request]
           /\ req'[w] = NoRequest /\ pc'[w] = "idle"
           /\ \A v \in Workers \ {w} : req'[v] = req[v] /\ pc'[v] = pc[v]
           /\ \A v \in Workers : Exchanging(v)' => req'[v] = req[v] /\ req[v].code \in Codes
  <1>1. NoRequest \in Request
    BY DEF NoRequest, Request, NoAccess, Access
  <1>2. /\ pc' \in [Workers -> Steps]
        /\ req' \in [Workers -> Request]
        /\ req'[w] = NoRequest /\ pc'[w] = "idle"
        /\ \A v \in Workers \ {w} : req'[v] = req[v] /\ pc'[v] = pc[v]
    BY <1>1 DEF Shape, TypeOK, Finish, Steps
  <1>3. NoRequest.code = None
    BY DEF NoRequest
  <1>4. ASSUME NEW v \in Workers, Exchanging(v)'
        PROVE  req'[v] = req[v] /\ req[v].code \in Codes
    <2>1. v # w
      BY <1>2, <1>3, <1>4 DEF Exchanging
    <2>2. req'[v] = req[v] /\ req'[v] \in Request
      BY <1>2, <2>1
    <2> QED
      BY <1>4, <2>2 DEF Exchanging, Request
  <1> QED
    BY <1>2, <1>4

\* A request that ends keeps the shapes of requests and, when no code row is
\* touched, of codes.
LEMMA FinishShape ==
    ASSUME Shape, NEW w \in Workers, Finish(w)
    PROVE  RequestShape' /\ (UNCHANGED code => CodeShape')
  <1>1. RequestShape'
    BY FinishType DEF Shape, RequestShape, Exchanging, InTransaction, NoRequest
  <1>2. ASSUME UNCHANGED code
        PROVE  CodeShape'
    BY <1>2, FinishType DEF Shape, CodeShape, Exchanging, NoRequest
  <1> QED
    BY <1>1, <1>2

\* A request that goes on keeps the shapes when what it now holds fits its step.
LEMMA StepShape ==
    ASSUME Shape, NEW w \in Workers, NEW r \in Request, NEW step \in Steps \ {"idle"},
           Goto(w, step), req' = [req EXCEPT ![w] = r], UNCHANGED <<tables, tx>>,
           r.app \in Apps,
           step \in {"present", "redeem", "load_user", "record"} => r.code # None,
           step \in {"recheck", "issue"} => r.code = None,
           step \in InTransaction \cup {"recheck", "issue"} => r.user \in Users,
           r.code # None => code[r.code].state # "none"
    PROVE  Shape'
  <1>1. TypeOK'
    BY DEF Shape, TypeOK, Goto
  <1>2. req'[w] = r /\ \A v \in Workers \ {w} : req'[v] = req[v]
    BY DEF Shape, TypeOK
  <1>3. pc'[w] = step /\ \A v \in Workers \ {w} : pc'[v] = pc[v]
    BY DEF Shape, TypeOK, Goto
  <1>4. RequestShape'
    BY <1>2, <1>3 DEF Shape, RequestShape, Exchanging, Steps, InTransaction
  <1>5. CodeShape'
    BY <1>2 DEF Shape, CodeShape, Exchanging
  <1> QED
    BY <1>1, <1>4, <1>5 DEF Shape

\* Every step of an authorization or exchange keeps the shapes (StartRequest,
\* WorkerStep, Fail).
LEMMA ShapeWorker ==
    ASSUME Shape, NEW w \in Workers, StartRequest(w) \/ WorkerStep(w) \/ Fail(w)
    PROVE  Shape'
  <1> USE SsoHandoffAssumption
  <1>a. req[w] \in Request /\ pc[w] \in Steps
    BY DEF Shape, TypeOK
  <1>b. pc[w] # "idle" => req[w].app \in Apps
    BY DEF Shape, RequestShape
  <1>c. req[w].code # None => code[req[w].code].state # "none"
    BY DEF Shape, CodeShape, Exchanging
  <1>1. CASE Finish(w) /\ UNCHANGED <<tables, tx>>
    BY <1>1, FinishType, FinishShape DEF Shape, TypeOK, CodeShape
  <1>2. ASSUME NEW u \in Users, NEW a \in Apps, StartAuthorize(w, u, a) \/ ResumeAuthorize(w, u, a)
        PROVE  Shape'
    <2> DEFINE r == [NoRequest EXCEPT !.user = u, !.app = a]
    <2>2. r \in Request /\ r.app = a /\ r.user = u /\ r.code = None
      BY DEF Request, NoRequest, NoAccess, Access
    <2>3. req' = [req EXCEPT ![w] = r] /\ Goto(w, "recheck") /\ UNCHANGED <<tables, tx>>
      BY <1>2 DEF StartAuthorize, ResumeAuthorize
    <2> HIDE DEF r
    <2> QED
      BY <2>2, <2>3, <1>c, StepShape DEF Steps
  <1>3. ASSUME NEW c \in Codes, NEW a \in Apps, StartExchange(w, c, a)
        PROVE  Shape'
    <2> DEFINE r == [NoRequest EXCEPT !.code = c, !.app = a]
    <2>1. r \in Request /\ r.app = a /\ r.code = c
      BY DEF Request, NoRequest, NoAccess, Access
    <2>2. req' = [req EXCEPT ![w] = r] /\ Goto(w, "present") /\ UNCHANGED <<tables, tx>>
      BY <1>3 DEF StartExchange
    <2> HIDE DEF r
    <2> QED
      BY <1>3, <2>1, <2>2, StepShape DEF StartExchange, Steps, InTransaction
  <1>4. CASE RecheckClient(w) \/ LoadUser(w)
    <2>1. CASE Goto(w, "globals") /\ UNCHANGED req
      <3>1. req' = [req EXCEPT ![w] = req[w]] /\ UNCHANGED <<tables, tx>>
        BY <1>4, <2>1 DEF RecheckClient, LoadUser, Shape, TypeOK
      <3>2. req[w].user \in Users /\ pc[w] # "idle"
        BY <1>4 DEF RecheckClient, LoadUser, Shape, RequestShape, InTransaction
      <3> QED
        BY <1>a, <1>b, <2>1, <3>1, <3>2, <1>c, StepShape DEF Steps
    <2> QED
      BY <1>1, <1>4, <2>1 DEF RecheckClient, LoadUser
  <1>5. ASSUME NEW c \in Codes, IssueCode(w, c)
        PROVE  Shape'
    <2>1. req[w].user \in Users /\ req[w].app \in Apps
      BY <1>5 DEF IssueCode, Shape, RequestShape
    <2>2. code' \in [Codes -> CodeRow]
      BY <1>5, <2>1 DEF IssueCode, Shape, TypeOK, CodeRow
    <2>3. /\ Finish(w)
          /\ \A d \in Codes \ {c} : code'[d] = code[d]
          /\ code[c].state = "none"
      BY <1>5 DEF IssueCode, Shape, TypeOK
    <2>4. code'[c].user \in Users /\ code'[c].app \in Apps /\ code'[c].state # "none"
      BY <1>5, <2>1 DEF IssueCode, Shape, TypeOK
    <2>5. CodeShape'
      <3>1. ASSUME NEW d \in Codes, code'[d].state # "none"
            PROVE  code'[d].user \in Users /\ code'[d].app \in Apps
        BY <2>3, <2>4, <3>1 DEF Shape, CodeShape
      <3>2. ASSUME NEW v \in Workers, Exchanging(v)'
            PROVE  code'[req'[v].code].state # "none"
        <4>1. req'[v] = req[v] /\ req[v].code \in Codes
          BY <2>3, <3>2, FinishType
        <4>2. code[req[v].code].state # "none"
          BY <3>2, <4>1 DEF Shape, CodeShape, Exchanging
        <4> QED
          BY <2>3, <4>1, <4>2
      <3> QED
        BY <3>1, <3>2 DEF CodeShape
    <2> QED
      BY <1>5, <2>2, <2>5, FinishType, FinishShape DEF IssueCode, Shape, TypeOK
  <1>6. CASE CodesExhausted(w) \/ Fail(w)
    BY <1>1, <1>6 DEF CodesExhausted, Fail
  <1>7. CASE PresentCode(w)
    <2> DEFINE fr == req[w].code \notin expired
               r == [req[w] EXCEPT !.fresh = fr]
    <2>1. fr \in BOOLEAN
      OBVIOUS
    <2> HIDE DEF fr
    <2>2. r \in Request /\ r.app = req[w].app /\ r.code = req[w].code
      BY <1>a, <2>1 DEF Request
    <2>3. req[w].code # None
      BY <1>7 DEF PresentCode, Shape, RequestShape, Exchanging
    <2>4. req' = [req EXCEPT ![w] = r] /\ Goto(w, "redeem") /\ UNCHANGED <<tables, tx>>
          /\ pc[w] # "idle"
      BY <1>7 DEF PresentCode, fr
    <2> HIDE DEF r
    <2> QED
      BY <1>b, <2>2, <2>3, <2>4, <1>c, StepShape DEF Steps, InTransaction
  <1>8. CASE Redeem(w)
    <2>1. CASE ~Redeemable(w)
      BY <1>1, <1>8, <2>1 DEF Redeem
    <2>2. CASE Redeemable(w)
      <3> DEFINE r == [req[w] EXCEPT !.user = code[req[w].code].user]
      <3>1. req[w].code # None /\ pc[w] # "idle"
        BY <1>8 DEF Redeem, Shape, RequestShape, Exchanging
      <3>2. code[req[w].code].user \in Users
        BY <1>a, <2>2, <3>1 DEF Redeemable, Shape, CodeShape, Request
      <3>3. r \in Request /\ r.app = req[w].app /\ r.code = req[w].code /\ r.user \in Users
        BY <1>a, <3>2 DEF Request
      <3>4. req' = [req EXCEPT ![w] = r] /\ Goto(w, "load_user") /\ UNCHANGED <<tables, tx>>
        BY <1>8, <2>2 DEF Redeem
      <3> HIDE DEF r
      <3> QED
        BY <1>b, <3>1, <3>3, <3>4, <1>c, StepShape DEF Steps
    <2> QED
      BY <2>1, <2>2
  <1>9. CASE ReadGlobals(w)
    <2> DEFINE r == [req[w] EXCEPT !.globals = globals[req[w].user]]
    <2>1. req[w].user \in Users /\ pc[w] # "idle"
      BY <1>9 DEF ReadGlobals, Shape, RequestShape, InTransaction
    <2>g. globals[req[w].user] \in SUBSET GlobalRoles
      BY <2>1 DEF Shape, TypeOK
    <2>2. r \in Request /\ r.app = req[w].app /\ r.user = req[w].user /\ r.code = req[w].code
      BY <1>a, <2>g DEF Request
    <2>3. req' = [req EXCEPT ![w] = r] /\ Goto(w, "explicit") /\ UNCHANGED <<tables, tx>>
      BY <1>9 DEF ReadGlobals
    <2> HIDE DEF r
    <2> QED
      BY <1>b, <2>1, <2>2, <2>3, <1>c, StepShape DEF Steps
  <1>10. CASE ReadExplicit(w)
    <2> DEFINE r == [req[w] EXCEPT !.explicit = RolesOf(req[w].user, req[w].app)]
    <2>1. req[w].user \in Users /\ pc[w] # "idle"
      BY <1>10 DEF ReadExplicit, Shape, RequestShape, InTransaction
    <2>2. RolesOf(req[w].user, req[w].app) \in SUBSET Roles
      BY <1>b, <2>1 DEF RolesOf, Shape, TypeOK
    <2>3. r \in Request /\ r.app = req[w].app /\ r.user = req[w].user /\ r.code = req[w].code
      BY <1>a, <2>2 DEF Request
    <2>4. req' = [req EXCEPT ![w] = r] /\ Goto(w, "mapped") /\ UNCHANGED <<tables, tx>>
      BY <1>10 DEF ReadExplicit
    <2> HIDE DEF r
    <2> QED
      BY <1>b, <2>1, <2>3, <2>4, <1>c, StepShape DEF Steps
  <1>11. CASE ReadMapped(w)
    <2>1. CASE ~IsProvisioned(ResolvedAccess(w))
      BY <1>1, <1>11, <2>1 DEF ReadMapped
    <2>2. CASE IsProvisioned(ResolvedAccess(w))
      <3> DEFINE r == [req[w] EXCEPT !.access = ResolvedAccess(w)]
                 step == IF Exchanging(w) THEN "record" ELSE "issue"
      <3>1. req[w].user \in Users /\ req[w].app \in Apps
        BY <1>11 DEF ReadMapped, Shape, RequestShape, InTransaction
      <3>2. ResolvedAccess(w) \in Access
        BY <1>a, <3>1, AccessType, MappedType DEF ResolvedAccess, Request, Shape
      <3>3. r \in Request /\ r.app = req[w].app /\ r.user = req[w].user /\ r.code = req[w].code
        BY <1>a, <3>2 DEF Request
      <3>4. req' = [req EXCEPT ![w] = r] /\ Goto(w, step) /\ UNCHANGED <<tables, tx>>
        BY <1>11, <2>2 DEF ReadMapped
      <3>5. /\ step \in {"record", "issue"}
            /\ step = "record" => r.code # None
            /\ step = "issue" => r.code = None
        BY <3>3 DEF Exchanging
      <3> HIDE DEF r, step
      <3> QED
        BY <3>1, <3>3, <3>4, <3>5, <1>c, StepShape DEF Steps
    <2> QED
      BY <2>1, <2>2
  <1>12. ASSUME NEW j \in Sessions, RecordSession(w, j)
         PROVE  Shape'
    <2>1. req[w].code \in Codes
      BY <1>a, <1>12 DEF RecordSession, Shape, RequestShape, Exchanging, Request
    <2>2. session' \in [Sessions -> SessionRow]
      BY <1>12, <1>a DEF RecordSession, SessionRow, Request, Access, Shape, TypeOK
    <2>3. code' = [code EXCEPT ![req[w].code] = [code[req[w].code] EXCEPT !.state = "used"]]
      BY <1>12 DEF RecordSession
    <2>a. code[req[w].code] \in CodeRow
      BY <2>1 DEF Shape, TypeOK
    <2>4. [code[req[w].code] EXCEPT !.state = "used"] \in CodeRow
      BY <2>a DEF CodeRow
    <2>5. code' \in [Codes -> CodeRow]
      BY <2>3, <2>4 DEF Shape, TypeOK
    <2>6. \A d \in Codes : /\ code'[d].user = code[d].user /\ code'[d].app = code[d].app
                           /\ code[d].state # "none" => code'[d].state # "none"
                           /\ code'[d].state # "none" => code[d].state # "none"
      BY <1>c, <2>1, <2>3 DEF CodeRow, Shape, TypeOK
    <2>7. CodeShape'
      BY <1>12, <2>6, FinishType DEF RecordSession, CodeShape, Exchanging, Shape
    <2> QED
      BY <1>12, <2>2, <2>5, <2>7, FinishType, FinishShape DEF RecordSession, Shape, TypeOK
  <1> QED
    BY <1>2, <1>3, <1>4, <1>5, <1>6, <1>7, <1>8, <1>9, <1>10, <1>11, <1>12
    DEF StartRequest, WorkerStep

\* Beginning a revoking transaction keeps the shapes (StartRevoking).
LEMMA ShapeBegin ==
    ASSUME Shape, NEW m \in Revokers, StartRevoking(m) \/ Rollback(m)
    PROVE  Shape'
  <1>1. ASSUME NEW kind \in {"revoke", "disable", "delete", "close", "unassign", "retire"},
               NEW US \in SUBSET Users, NEW AS \in SUBSET Apps, NEW r \in Roles \cup {None},
               NEW rows \in SUBSET Users, Begin(m, kind, US, AS, r, rows)
        PROVE  Shape'
    <2>1. /\ LiveIn(US, AS) \in SUBSET Sessions
          /\ {j \in Sessions : session[j].state # "none"} \in SUBSET Sessions
      BY DEF LiveIn
    <2>2. tx' \in [Revokers -> Transaction]
      BY <1>1, <2>1 DEF Begin, Transaction, Shape, TypeOK
    <2> QED
      BY <1>1, <2>2 DEF Begin, Shape, TypeOK, RequestShape, CodeShape, Exchanging
  <1>2. ASSUME NEW u \in Users, DisableUser(m, u)
        PROVE  Shape'
    BY <1>1, <1>2 DEF DisableUser
  <1>3. ASSUME NEW u \in Users, Logout(m, u)
        PROVE  Shape'
    BY <1>1, <1>3 DEF Logout
  <1>4. ASSUME NEW US \in SUBSET Users, BulkDisable(m, US) \/ DeleteUsers(m, US)
        PROVE  Shape'
    BY <1>1, <1>4 DEF BulkDisable, DeleteUsers
  <1>5. ASSUME NEW a \in Apps, CloseApp(m, a)
        PROVE  Shape'
    BY <1>1, <1>5 DEF CloseApp
  <1>6. ASSUME NEW US \in SUBSET Users, NEW a \in Apps, NEW r \in Roles, UnassignRole(m, US, a, r)
        PROVE  Shape'
    <2>1. {u \in US : r \in RolesOf(u, a)} \in SUBSET Users
      OBVIOUS
    <2> QED
      BY <1>1, <1>6, <2>1 DEF UnassignRole
  <1>7. ASSUME NEW a \in Apps, NEW r \in Roles, RetireRole(m, a, r) \/ DeleteRole(m, a, r)
        PROVE  Shape'
    <2>1. Holders(a, r) \in SUBSET Users
      BY DEF Holders
    <2> QED
      BY <1>1, <1>7, <2>1 DEF RetireRole, DeleteRole
  <1>8. CASE Rollback(m)
    <2>1. NoTransaction \in Transaction
      BY DEF NoTransaction, Transaction
    <2> QED
      BY <1>8, <2>1 DEF Rollback, Shape, TypeOK, RequestShape, CodeShape, Exchanging
  <1> QED
    BY <1>2, <1>3, <1>4, <1>5, <1>6, <1>7, <1>8 DEF StartRevoking

\* Committing or undoing one keeps the shapes (Commit, Rollback).
LEMMA ShapeCommit ==
    ASSUME Shape, NEW m \in Revokers, Commit(m)
    PROVE  Shape'
  <1> DEFINE t == tx[m]
  <1>1. account' \in [Users -> Accounts]
    BY DEF Commit, Shape, TypeOK, Accounts
  <1>2. available' \in [Apps -> BOOLEAN]
    BY DEF Commit, Shape, TypeOK
  <1>3. explicit' \in [Users \X Apps -> SUBSET Roles]
    BY DEF Commit, Shape, TypeOK
  <1>4. session' \in [Sessions -> SessionRow]
    <2>1. ASSUME NEW j \in Sessions
          PROVE  RevokedBy(t, j) \in SessionRow
      <3>1. session[j] \in SessionRow
        BY DEF Shape, TypeOK
      <3> QED
        BY <3>1 DEF RevokedBy, SessionRow
    <2> QED
      BY <2>1 DEF Commit
  <1>5. /\ req' \in [Workers -> Request]
        /\ \A w \in Workers : req'[w] = req[w] \/ req'[w] = [req[w] EXCEPT !.late = TRUE]
    <2>1. \A w \in Workers : req[w] \in Request /\ [req[w] EXCEPT !.late = TRUE] \in Request
      BY DEF Shape, TypeOK, Request
    <2> QED
      BY <2>1 DEF Commit
  <1>6. tx' \in [Revokers -> Transaction]
    BY DEF Commit, Shape, TypeOK, Transaction, NoTransaction
  <1>7. \A w \in Workers : /\ req'[w].user = req[w].user /\ req'[w].app = req[w].app
                           /\ req'[w].code = req[w].code
    BY <1>5 DEF Shape, TypeOK, Request
  <1>8. \A w \in Workers : pc[w] = "idle" => req'[w] = req[w]
    BY <1>5 DEF Commit, Invalidates, Shape, RequestShape, Exchanging, NoRequest, TypeOK
  <1>9. UNCHANGED <<globals, code, expired, pc>>
    BY DEF Commit
  <1>10. mapped' \in [Apps -> [GlobalRoles -> SUBSET Roles]]
    <2>1. \A a \in Apps : mapped[a] \in [GlobalRoles -> SUBSET Roles]
      BY DEF Shape, TypeOK
    <2> QED
      BY <2>1 DEF Commit
  <1>11. TypeOK'
    BY <1>1, <1>2, <1>3, <1>10, <1>4, <1>5, <1>6, <1>9 DEF Shape, TypeOK
  <1>12. RequestShape'
    BY <1>7, <1>8, <1>9 DEF Shape, RequestShape, Exchanging
  <1>13. CodeShape'
    BY <1>7, <1>9 DEF Shape, CodeShape, Exchanging
  <1> QED
    BY <1>11, <1>12, <1>13 DEF Shape

\* Writes that revoke nothing, and time, keep the shapes (Administration, Time).
LEMMA ShapeAdministration ==
    ASSUME Shape, Administration \/ Time
    PROVE  Shape'
  <1>1. TypeOK'
    <2>1. ASSUME NEW u \in Users, EnableUser(u)
          PROVE  TypeOK'
      BY <2>1 DEF EnableUser, Shape, TypeOK, Accounts
    <2>2. ASSUME NEW a \in Apps, OpenApp(a)
          PROVE  TypeOK'
      BY <2>2 DEF OpenApp, Shape, TypeOK
    <2>3. ASSUME NEW u \in Users, NEW a \in Apps, NEW r \in Roles, AssignRole(u, a, r)
          PROVE  TypeOK'
      BY <2>3 DEF AssignRole, Shape, TypeOK
    <2>4. ASSUME NEW u \in Users, NEW G \in RoleSets, SetGlobalRoles(u, G)
          PROVE  TypeOK'
      BY <2>4, SsoHandoffAssumption DEF SetGlobalRoles, Shape, TypeOK
    <2>7. ASSUME NEW a \in Apps, NEW M \in Mappings, Remap(a, M)
          PROVE  TypeOK'
      BY <2>7, SsoHandoffAssumption DEF Remap, Shape, TypeOK
    <2>5. ASSUME NEW c \in Codes, ExpireCode(c)
          PROVE  TypeOK'
      BY <2>5 DEF ExpireCode, Shape, TypeOK
    <2>6. ASSUME NEW j \in Sessions, ExpireSession(j)
          PROVE  TypeOK'
      <3>1. session[j] \in SessionRow
        BY DEF Shape, TypeOK
      <3>2. [session[j] EXCEPT !.state = "lapsed"] \in SessionRow
        BY <3>1 DEF SessionRow
      <3>3. session' = [session EXCEPT ![j] = [session[j] EXCEPT !.state = "lapsed"]]
        BY <2>6 DEF ExpireSession
      <3>4. session' \in [Sessions -> SessionRow]
        BY <3>2, <3>3 DEF Shape, TypeOK
      <3> QED
        BY <2>6, <3>4 DEF ExpireSession, Shape, TypeOK
    <2> QED
      BY <2>1, <2>2, <2>3, <2>4, <2>5, <2>6, <2>7 DEF Administration, Time
  <1>2. UNCHANGED <<code, pc, req>>
    BY DEF Administration, Time, EnableUser, OpenApp, AssignRole, SetGlobalRoles, Remap,
           ExpireCode, ExpireSession
  <1> QED
    BY <1>1, <1>2 DEF Shape, RequestShape, CodeShape, Exchanging

\* The shapes are inductive (Next).
LEMMA ShapeStep == Shape /\ [Next]_vars => Shape'
  <1> SUFFICES ASSUME Shape, [Next]_vars
               PROVE  Shape'
    OBVIOUS
  <1>1. CASE UNCHANGED vars
    BY <1>1 DEF vars, Shape, TypeOK, RequestShape, CodeShape, Exchanging
  <1> QED
    BY <1>1, ShapeWorker, ShapeBegin, ShapeCommit, ShapeAdministration DEF Next

\* Every reachable state is well typed, and its requests and codes well formed.
THEOREM ShapeCorrect == Spec => []Shape
  BY ShapeInit, ShapeStep, PTL DEF Spec

\* Type correctness (TypeOK).
THEOREM TypeCorrect == Spec => []TypeOK
  <1>1. Shape => TypeOK
    BY DEF Shape
  <1> QED
    BY <1>1, ShapeCorrect, PTL

-----------------------------------------------------------------------------
(* A code is exchanged once.  The row lock is what makes it so: the exchange  *)
(* that is past its UPDATE is alone there, and the code stays unspent until   *)
(* it commits.                                                                *)

GrantInv ==
    /\ RowLock
    /\ SpentIffRecorded
    /\ SingleUse
    /\ SessionMatchesCode

\* A step that touches no code, records no session and lets no request past the
\* UPDATE of a code keeps all of it.
LEMMA GrantFrame ==
    ASSUME GrantInv, UNCHANGED code,
           \A j \in Sessions : /\ session'[j].state = "none" <=> session[j].state = "none"
                               /\ session'[j].code = session[j].code
                               /\ session'[j].user = session[j].user
                               /\ session'[j].app = session[j].app,
           \A w \in Workers, c \in Codes :
               HoldsCode(w, c)' => /\ HoldsCode(w, c)
                                   /\ req'[w].user = req[w].user
                                   /\ req'[w].app = req[w].app
    PROVE  GrantInv'
  <1>1. RowLock'
    BY DEF GrantInv, RowLock
  <1>2. SpentIffRecorded'
    BY DEF GrantInv, SpentIffRecorded
  <1>3. SingleUse'
    BY DEF GrantInv, SingleUse
  <1>4. SessionMatchesCode'
    BY DEF GrantInv, SessionMatchesCode
  <1> QED
    BY <1>1, <1>2, <1>3, <1>4 DEF GrantInv

\* A request that ends lets go of its code.
LEMMA FinishReleases ==
    ASSUME Shape, NEW w \in Workers, Finish(w)
    PROVE  /\ \A c \in Codes : ~HoldsCode(w, c)'
           /\ \A v \in Workers \ {w}, c \in Codes : HoldsCode(v, c)' <=> HoldsCode(v, c)
  BY FinishType DEF HoldsCode, InTransaction

\* Issuing a code touches no exchange (IssueCode).
LEMMA GrantIssue ==
    ASSUME Shape, GrantInv, NEW w \in Workers, NEW c \in Codes, IssueCode(w, c)
    PROVE  GrantInv'
  <1>1. /\ Finish(w) /\ UNCHANGED session
        /\ code[c].state = "none" /\ code'[c].state = "issued"
        /\ \A d \in Codes \ {c} : code'[d] = code[d]
    BY DEF IssueCode, Shape, TypeOK
  <1>2. \A j \in Sessions : session[j].state # "none" => session[j].code # c
    BY <1>1 DEF GrantInv, SpentIffRecorded, SessionMatchesCode
  <1>3. \A v \in Workers : ~HoldsCode(v, c)
    BY <1>1 DEF GrantInv, RowLock
  <1>4. RowLock'
    BY <1>1, <1>3, FinishReleases, FinishType DEF GrantInv, RowLock
  <1>5. SpentIffRecorded'
    BY <1>1, <1>2 DEF GrantInv, SpentIffRecorded
  <1>6. SingleUse' /\ SessionMatchesCode'
    BY <1>1, <1>2 DEF GrantInv, SingleUse, SessionMatchesCode
  <1> QED
    BY <1>4, <1>5, <1>6 DEF GrantInv

\* The redeeming UPDATE takes the row lock alone, for the user and app of the
\* code (Redeem).
LEMMA GrantRedeem ==
    ASSUME Shape, GrantInv, NEW w \in Workers, Redeem(w), Redeemable(w)
    PROVE  GrantInv'
  <1>1. /\ req[w].code \in Codes
        /\ req'[w].user = code[req[w].code].user
        /\ req'[w].app = code[req[w].code].app
        /\ req'[w].code = req[w].code
        /\ code[req[w].code].state = "issued"
        /\ \A v \in Workers \ {w} : req'[v] = req[v] /\ pc'[v] = pc[v]
        /\ \A v \in Workers : ~HoldsCode(v, req[w].code)
        /\ UNCHANGED <<code, session>>
    BY DEF Redeem, Redeemable, Goto, Shape, TypeOK, RequestShape, Exchanging, Request
  <1>2. RowLock'
    BY <1>1 DEF GrantInv, RowLock, HoldsCode
  <1> QED
    BY <1>1, <1>2 DEF GrantInv, SpentIffRecorded, SingleUse, SessionMatchesCode

\* The session is the first of its code, which its commit spends (RecordSession).
LEMMA GrantRecord ==
    ASSUME Shape, GrantInv, NEW w \in Workers, NEW j \in Sessions, RecordSession(w, j)
    PROVE  GrantInv'
  <1>0. PICK c \in Codes : c = req[w].code
    BY DEF RecordSession, Shape, TypeOK, RequestShape, Exchanging, Request
  <1>1. c \in Codes /\ HoldsCode(w, c)
    BY <1>0 DEF RecordSession, HoldsCode, InTransaction
  <1>2. /\ code[c].state = "issued"
        /\ req[w].user = code[c].user /\ req[w].app = code[c].app
        /\ \A v \in Workers : HoldsCode(v, c) => v = w
    BY <1>1 DEF GrantInv, RowLock
  <1>3. /\ code' = [code EXCEPT ![c] = [code[c] EXCEPT !.state = "used"]]
        /\ Finish(w)
    BY <1>0 DEF RecordSession
  <1>4. /\ code'[c].state = "used" /\ code'[c].user = code[c].user /\ code'[c].app = code[c].app
        /\ \A d \in Codes \ {c} : code'[d] = code[d]
    BY <1>1, <1>3 DEF Shape, TypeOK, CodeRow
  <1>5. /\ session[j].state = "none" /\ session'[j].state # "none"
        /\ session'[j].user = req[w].user /\ session'[j].app = req[w].app
        /\ session'[j].code = c
        /\ \A i \in Sessions \ {j} : session'[i] = session[i]
    BY <1>0 DEF RecordSession, Shape, TypeOK
  <1>6. \A i \in Sessions : session[i].state # "none" => session[i].code # c
    BY <1>1, <1>2 DEF GrantInv, SpentIffRecorded
  <1>7. RowLock'
    <2>1. \A v \in Workers : ~HoldsCode(v, c)'
      BY <1>1, <1>2, <1>3, FinishReleases
    <2>2. ASSUME NEW v \in Workers, NEW d \in Codes, HoldsCode(v, d)'
          PROVE  /\ v # w /\ d # c /\ HoldsCode(v, d) /\ req'[v] = req[v] /\ code'[d] = code[d]
      <3>1. v # w /\ d # c
        BY <1>3, <2>1, <2>2, FinishReleases
      <3> QED
        BY <1>3, <1>4, <2>2, <3>1, FinishReleases, FinishType
    <2> QED
      BY <2>2 DEF GrantInv, RowLock
  <1>8. SpentIffRecorded'
    <2> QED
      BY <1>1, <1>4, <1>5 DEF GrantInv, SpentIffRecorded
  <1>9. SingleUse'
    <2> QED
      BY <1>5, <1>6 DEF GrantInv, SingleUse
  <1>10. SessionMatchesCode'
    <2>1. \A d \in Codes : code'[d].user = code[d].user /\ code'[d].app = code[d].app
      BY <1>4
    <2> QED
      BY <1>1, <1>2, <1>5, <2>1 DEF GrantInv, SessionMatchesCode
  <1> QED
    BY <1>7, <1>8, <1>9, <1>10 DEF GrantInv

\* Committing a revocation changes a session's state and history only.
LEMMA CommitKeeps ==
    ASSUME Shape, NEW m \in Revokers, Commit(m)
    PROVE  /\ UNCHANGED <<globals, code, expired, pc>>
           /\ \A j \in Sessions :
                 /\ session'[j].state = "none" <=> session[j].state = "none"
                 /\ session'[j].state = "live" => session[j].state = "live"
                 /\ session'[j].code = session[j].code
                 /\ session'[j].user = session[j].user
                 /\ session'[j].app = session[j].app
                 /\ session'[j].roles = session[j].roles
                 /\ session'[j].direct = session[j].direct
                 /\ session[j].raced => session'[j].raced
           /\ \A w \in Workers :
                 req'[w] = IF Invalidates(tx[m], w) THEN [req[w] EXCEPT !.late = TRUE] ELSE req[w]
           /\ \A w \in Workers :
                 /\ req'[w].user = req[w].user /\ req'[w].app = req[w].app
                 /\ req'[w].code = req[w].code /\ req'[w].explicit = req[w].explicit
                 /\ req'[w].access = req[w].access
  <1>1. \A j \in Sessions : session[j] \in SessionRow
    BY DEF Shape, TypeOK
  <1>2. \A j \in Sessions : session'[j] = RevokedBy(tx[m], j)
    BY DEF Commit
  <1>3. \A w \in Workers : req[w] \in Request
    BY DEF Shape, TypeOK
  <1>4. \A w \in Workers :
            req'[w] = IF Invalidates(tx[m], w) THEN [req[w] EXCEPT !.late = TRUE] ELSE req[w]
    BY DEF Commit
  <1>5. UNCHANGED <<globals, code, expired, pc>>
    BY DEF Commit
  <1>6. ASSUME NEW j \in Sessions
        PROVE  /\ session'[j].state = "none" <=> session[j].state = "none"
               /\ session'[j].state = "live" => session[j].state = "live"
               /\ session'[j].code = session[j].code
               /\ session'[j].user = session[j].user
               /\ session'[j].app = session[j].app
               /\ session'[j].roles = session[j].roles
               /\ session'[j].direct = session[j].direct
               /\ session[j].raced => session'[j].raced
    <2>1. session'[j] = RevokedBy(tx[m], j) /\ session[j] \in SessionRow
      BY <1>1, <1>2
    <2> QED
      BY <2>1 DEF RevokedBy, SessionRow
  <1>7. ASSUME NEW w \in Workers
        PROVE  /\ req'[w].user = req[w].user /\ req'[w].app = req[w].app
               /\ req'[w].code = req[w].code /\ req'[w].explicit = req[w].explicit
               /\ req'[w].access = req[w].access
    BY <1>3, <1>4 DEF Request
  <1> QED
    BY <1>4, <1>5, <1>6, <1>7

\* Every step of a request keeps what is known of codes and sessions
\* (StartRequest, WorkerStep, Fail).
LEMMA GrantWorker ==
    ASSUME Shape, GrantInv, NEW w \in Workers, StartRequest(w) \/ WorkerStep(w) \/ Fail(w)
    PROVE  GrantInv'
  <1>1. CASE Finish(w) /\ UNCHANGED <<tables, tx>>
    BY <1>1, FinishReleases, FinishType, GrantFrame
  <1>2. ASSUME UNCHANGED tables, pc'[w] \in Steps,
               \A v \in Workers \ {w} : req'[v] = req[v] /\ pc'[v] = pc[v],
               \/ pc'[w] \notin InTransaction
               \/ req'[w].code = None
               \/ /\ pc[w] \in InTransaction
                  /\ req'[w].user = req[w].user /\ req'[w].app = req[w].app
                  /\ req'[w].code = req[w].code
        PROVE  GrantInv'
    <2>1. \A c \in Codes : c # None
      BY SsoHandoffAssumption
    <2> QED
      BY <1>2, <2>1, GrantFrame DEF HoldsCode
  <1>3. ASSUME NEW u \in Users, NEW a \in Apps, StartAuthorize(w, u, a) \/ ResumeAuthorize(w, u, a)
        PROVE  GrantInv'
    BY <1>2, <1>3 DEF StartAuthorize, ResumeAuthorize, Goto, InTransaction, Shape, TypeOK, Steps
  <1>4. ASSUME NEW c \in Codes, NEW a \in Apps, StartExchange(w, c, a)
        PROVE  GrantInv'
    BY <1>2, <1>4 DEF StartExchange, Goto, InTransaction, Shape, TypeOK, Steps
  <1>5. CASE RecheckClient(w)
    <2>1. ~Exchanging(w)
      BY <1>5 DEF RecheckClient, Shape, RequestShape
    <2> QED
      BY <1>1, <1>2, <1>5, <2>1 DEF RecheckClient, Goto, Shape, TypeOK, Steps, Exchanging
  <1>6. CASE CodesExhausted(w) \/ Fail(w)
    BY <1>1, <1>6 DEF CodesExhausted, Fail
  <1>7. CASE PresentCode(w)
    BY <1>2, <1>7 DEF PresentCode, Goto, InTransaction, Shape, TypeOK, Steps
  <1>8. CASE Redeem(w)
    BY <1>1, <1>8, GrantRedeem DEF Redeem
  <1>9. CASE LoadUser(w)
    BY <1>1, <1>2, <1>9 DEF LoadUser, Goto, InTransaction, Shape, TypeOK, Steps
  <1>10. CASE ReadGlobals(w)
    BY <1>2, <1>10 DEF ReadGlobals, Goto, InTransaction, Shape, TypeOK, Steps, Request
  <1>11. CASE ReadExplicit(w)
    BY <1>2, <1>11 DEF ReadExplicit, Goto, InTransaction, Shape, TypeOK, Steps, Request
  <1>12. CASE ReadMapped(w)
    BY <1>1, <1>2, <1>12 DEF ReadMapped, Goto, InTransaction, Shape, TypeOK, Steps, Request
  <1> QED
    BY <1>3, <1>4, <1>5, <1>6, <1>7, <1>8, <1>9, <1>10, <1>11, <1>12, GrantIssue, GrantRecord
    DEF StartRequest, WorkerStep

\* What is known of codes and sessions is inductive (Next).
LEMMA GrantStep == Shape /\ GrantInv /\ [Next]_vars => GrantInv'
  <1> SUFFICES ASSUME Shape, GrantInv, [Next]_vars
               PROVE  GrantInv'
    OBVIOUS
  <1>1. ASSUME UNCHANGED <<code, session, pc, req>>
        PROVE  GrantInv'
    BY <1>1, GrantFrame DEF HoldsCode
  <1>2. CASE UNCHANGED vars
    BY <1>1, <1>2 DEF vars
  <1>3. ASSUME NEW m \in Revokers, StartRevoking(m) \/ Rollback(m)
        PROVE  GrantInv'
    BY <1>1, <1>3 DEF StartRevoking, Rollback, Begin, DisableUser, Logout, BulkDisable,
                      DeleteUsers, CloseApp, UnassignRole, RetireRole, DeleteRole
  <1>4. ASSUME NEW m \in Revokers, Commit(m)
        PROVE  GrantInv'
    BY <1>4, CommitKeeps, GrantFrame DEF HoldsCode
  <1>5. ASSUME NEW j \in Sessions, ExpireSession(j)
        PROVE  GrantInv'
    <2>1. \A i \in Sessions : /\ session'[i].state = "none" <=> session[i].state = "none"
                              /\ session'[i].code = session[i].code
                              /\ session'[i].user = session[i].user
                              /\ session'[i].app = session[i].app
      BY <1>5 DEF ExpireSession, Shape, TypeOK, SessionRow
    <2>2. UNCHANGED <<code, pc, req>>
      BY <1>5 DEF ExpireSession
    <2> QED
      BY <2>1, <2>2, GrantFrame DEF HoldsCode
  <1>6. CASE Administration
    BY <1>1, <1>6 DEF Administration, EnableUser, OpenApp, AssignRole, SetGlobalRoles, Remap
  <1>7. ASSUME NEW c \in Codes, ExpireCode(c)
        PROVE  GrantInv'
    BY <1>1, <1>7 DEF ExpireCode
  <1> QED
    BY <1>2, <1>3, <1>4, <1>5, <1>6, <1>7, GrantWorker DEF Next, Time

\* No code is issued and no session recorded at first (Init).
LEMMA GrantInit == Init => GrantInv
  BY DEF Init, GrantInv, RowLock, SpentIffRecorded, SingleUse, SessionMatchesCode,
         NoCode, NoSession, HoldsCode, InTransaction

\* The row lock, single use, and the match of sessions with codes hold together
\* (redeem_authorization_code and the transaction of /auth/token).
THEOREM GrantCorrect == Spec => []GrantInv
  <1>1. Shape /\ GrantInv /\ [Next]_vars => GrantInv'
    BY GrantStep
  <1> QED
    BY <1>1, GrantInit, ShapeCorrect, PTL DEF Spec

\* An authorization code is exchanged for at most one session (SingleUse).
THEOREM CodesAreSingleUse == Spec => []SingleUse
  <1>1. GrantInv => SingleUse
    BY DEF GrantInv
  <1> QED
    BY <1>1, GrantCorrect, PTL

\* A code is spent exactly when a session was recorded for it (SpentIffRecorded):
\* a failed exchange gives it back.
THEOREM FailedExchangesGiveBack == Spec => []SpentIffRecorded
  <1>1. GrantInv => SpentIffRecorded
    BY DEF GrantInv
  <1> QED
    BY <1>1, GrantCorrect, PTL

\* A session is for the user and app of its code (SessionMatchesCode).
THEOREM SessionsMatchCodes == Spec => []SessionMatchesCode
  <1>1. GrantInv => SessionMatchesCode
    BY DEF GrantInv
  <1> QED
    BY <1>1, GrantCorrect, PTL

-----------------------------------------------------------------------------
(* Revocation reaches every session but the raced ones.  An exchange that no  *)
(* commit has overtaken knows that what it has read still holds; so does the  *)
(* session it records, until a commit revokes it.                             *)

CurrencyInv ==
    /\ TransactionShape
    /\ RevocationFinds
    /\ ReadsAreCurrent
    /\ ExplicitRolesWin
    /\ LiveSessionIsCurrent

\* ReadsAreCurrent and ExplicitRolesWin, of one request.
CurrentFor(w) ==
    /\ Exchanging(w) /\ ~req[w].late =>
          /\ available[req[w].app]
          /\ pc[w] \in {"globals", "explicit", "mapped", "record"} =>
                 account[req[w].user] = "active"
          /\ pc[w] \in {"mapped", "record"} =>
                 req[w].explicit \subseteq RolesOf(req[w].user, req[w].app)
    /\ pc[w] = "record" /\ req[w].explicit # {} => req[w].access.roles \subseteq req[w].explicit

\* What requests have read, request by request (ReadsAreCurrent, ExplicitRolesWin).
LEMMA CurrentForAll ==
    (\A w \in Workers : CurrentFor(w)) <=> ReadsAreCurrent /\ ExplicitRolesWin
  BY DEF CurrentFor, ReadsAreCurrent, ExplicitRolesWin

\* A live session names a user and an app.
LEMMA SessionShape ==
    ASSUME Shape, GrantInv, NEW j \in Sessions, session[j].state # "none"
    PROVE  session[j].user \in Users /\ session[j].app \in Apps
  BY DEF Shape, CodeShape, GrantInv, SpentIffRecorded, SessionMatchesCode

\* What no step does to a session: it is not lost, it does not come back to life,
\* and what it was issued on stays written.
Kept(j) ==
    session[j].state # "none" =>
        /\ session'[j].state # "none"
        /\ session'[j].state = "live" => session[j].state = "live"
        /\ session'[j].user = session[j].user
        /\ session'[j].app = session[j].app
        /\ session'[j].roles = session[j].roles
        /\ session'[j].direct = session[j].direct
        /\ session[j].raced => session'[j].raced

\* So an open transaction stays one that has found every session it concerns.
LEMMA FindsKept ==
    ASSUME Shape, NEW m \in Revokers, tx'[m] = tx[m],
           \A j \in Sessions : Kept(j),
           \A j \in tx[m].seen :
               session[j].state # "none" /\ (Concerns(tx[m], j) => j \in tx[m].hit)
    PROVE  \A j \in tx'[m].seen :
               session'[j].state # "none" /\ (Concerns(tx[m], j)' => j \in tx'[m].hit)
  <1>1. tx[m].seen \subseteq Sessions
    BY DEF Shape, TypeOK, Transaction
  <1> QED
    BY <1>1 DEF Kept, Concerns, Outdates

\* A step of one request that changes no table of the platform.
LEMMA CurrencyFrame ==
    ASSUME CurrencyInv, NEW w \in Workers, UNCHANGED <<account, available, explicit, session, tx>>,
           \A v \in Workers \ {w} : req'[v] = req[v] /\ pc'[v] = pc[v],
           CurrentFor(w)'
    PROVE  CurrencyInv'
  <1>1. \A v \in Workers \ {w} : CurrentFor(v)'
    BY CurrentForAll DEF CurrencyInv, CurrentFor, Exchanging, RolesOf
  <1>2. (ReadsAreCurrent /\ ExplicitRolesWin)'
    BY <1>1, CurrentForAll DEF CurrentFor, ReadsAreCurrent, ExplicitRolesWin
  <1>3. TransactionShape' /\ RevocationFinds' /\ LiveSessionIsCurrent'
    BY DEF CurrencyInv, TransactionShape, RevocationFinds, Concerns, Outdates,
           LiveSessionIsCurrent, RolesOf
  <1> QED
    BY <1>2, <1>3 DEF CurrencyInv

\* A request that ends has read nothing (Finish).
LEMMA CurrencyFinish ==
    ASSUME Shape, CurrencyInv, NEW w \in Workers, Finish(w),
           UNCHANGED <<account, available, explicit, session, tx>>
    PROVE  CurrencyInv'
  <1>1. CurrentFor(w)'
    BY FinishType DEF CurrentFor, Exchanging, NoRequest
  <1> QED
    BY <1>1, FinishType, CurrencyFrame

\* A session recorded by an exchange that was not overtaken is one its owner may
\* have (RecordSession).
LEMMA CurrencyRecord ==
    ASSUME Shape, GrantInv, CurrencyInv, NEW w \in Workers, NEW j \in Sessions,
           RecordSession(w, j)
    PROVE  CurrencyInv'
  <1>1. /\ Finish(w)
        /\ UNCHANGED <<account, available, explicit, tx>>
        /\ pc[w] = "record" /\ Exchanging(w)
    BY DEF RecordSession, Shape, RequestShape
  <1>2. TransactionShape'
    BY <1>1 DEF CurrencyInv, TransactionShape
  <1>3. \A v \in Workers : CurrentFor(v)'
    BY <1>1, FinishType, CurrentForAll
    DEF CurrencyInv, CurrentFor, Exchanging, NoRequest, RolesOf
  <1>4. ReadsAreCurrent' /\ ExplicitRolesWin'
    BY <1>3 DEF CurrentFor, ReadsAreCurrent, ExplicitRolesWin
  <1>5. /\ session'[j].user = req[w].user /\ session'[j].app = req[w].app
        /\ session'[j].roles = req[w].access.roles
        /\ session'[j].direct <=> req[w].explicit # {}
        /\ session'[j].raced <=> req[w].late
        /\ \A i \in Sessions \ {j} : session'[i] = session[i]
    BY DEF RecordSession, Shape, TypeOK, Request
  <1>6. ASSUME ~session'[j].raced
        PROVE  /\ account[req[w].user] = "active"
               /\ available[req[w].app]
               /\ session'[j].direct =>
                      req[w].access.roles \subseteq RolesOf(req[w].user, req[w].app)
    BY <1>1, <1>5, <1>6, CurrentForAll DEF CurrencyInv, CurrentFor
  <1>7. LiveSessionIsCurrent'
    BY <1>1, <1>5, <1>6 DEF CurrencyInv, LiveSessionIsCurrent, RolesOf
  <1>8. \A i \in Sessions : Kept(i)
    BY <1>5 DEF Kept, RecordSession
  <1>9. RevocationFinds'
    BY <1>1, <1>8, FindsKept DEF CurrencyInv, RevocationFinds
  <1> QED
    BY <1>2, <1>4, <1>7, <1>9 DEF CurrencyInv

\* Every step of a request keeps its reads current or overtaken (StartRequest,
\* WorkerStep, Fail).
LEMMA CurrencyWorker ==
    ASSUME Shape, GrantInv, CurrencyInv, NEW w \in Workers,
           StartRequest(w) \/ WorkerStep(w) \/ Fail(w)
    PROVE  CurrencyInv'
  <1>a. CurrentFor(w)
    BY CurrentForAll DEF CurrencyInv
  <1>b. req[w] \in Request
    BY DEF Shape, TypeOK
  <1>1. CASE Finish(w) /\ UNCHANGED <<tables, tx>>
    BY <1>1, CurrencyFinish
  <1>2. ASSUME NEW r, NEW step, req' = [req EXCEPT ![w] = r], Goto(w, step),
               UNCHANGED <<tables, tx>>
        PROVE  /\ req'[w] = r /\ pc'[w] = step
               /\ CurrentFor(w)' => CurrencyInv'
    <2>1. req'[w] = r /\ pc'[w] = step
      BY <1>2 DEF Goto, Shape, TypeOK
    <2>2. \A v \in Workers \ {w} : req'[v] = req[v] /\ pc'[v] = pc[v]
      BY <1>2 DEF Goto, Shape, TypeOK
    <2> QED
      BY <1>2, <2>1, <2>2, CurrencyFrame
  <1>3. ASSUME NEW u \in Users, NEW a \in Apps, StartAuthorize(w, u, a) \/ ResumeAuthorize(w, u, a)
        PROVE  CurrencyInv'
    <2> DEFINE r == [NoRequest EXCEPT !.user = u, !.app = a]
    <2>1. r.code = None
      BY DEF NoRequest
    <2>2. req' = [req EXCEPT ![w] = r] /\ Goto(w, "recheck") /\ UNCHANGED <<tables, tx>>
      BY <1>3 DEF StartAuthorize, ResumeAuthorize
    <2> HIDE DEF r
    <2>3. CurrentFor(w)'
      BY <1>2, <2>1, <2>2 DEF CurrentFor, Exchanging
    <2> QED
      BY <1>2, <2>2, <2>3
  <1>4. ASSUME NEW c \in Codes, NEW a \in Apps, StartExchange(w, c, a)
        PROVE  CurrencyInv'
    <2> DEFINE r == [NoRequest EXCEPT !.code = c, !.app = a]
    <2>1. r.app = a
      BY DEF NoRequest
    <2>2. /\ req' = [req EXCEPT ![w] = r] /\ Goto(w, "present") /\ UNCHANGED <<tables, tx>>
          /\ available[a]
      BY <1>4 DEF StartExchange
    <2> HIDE DEF r
    <2>p. req'[w] = r /\ pc'[w] = "present"
      BY <1>2, <2>2
    <2>3. CurrentFor(w)'
      BY <2>p, <2>1, <2>2 DEF CurrentFor, Exchanging
    <2> QED
      BY <1>2, <2>2, <2>3
  <1>5. CASE RecheckClient(w) \/ LoadUser(w)
    <2>1. CASE Goto(w, "globals") /\ UNCHANGED req
      <3>1. req' = [req EXCEPT ![w] = req[w]] /\ UNCHANGED <<tables, tx>>
        BY <1>5, <2>1 DEF RecheckClient, LoadUser, Shape, TypeOK
      <3>2. Exchanging(w) => account[req[w].user] = "active"
        BY <1>5, <2>1 DEF RecheckClient, LoadUser, Shape, RequestShape, Goto, TypeOK, Finish
      <3>p. pc'[w] = "globals"
        BY <1>2, <2>1, <3>1
      <3>3. CurrentFor(w)'
        BY <1>a, <2>1, <3>1, <3>2, <3>p DEF CurrentFor, Exchanging
      <3> QED
        BY <1>2, <2>1, <3>1, <3>3
    <2> QED
      BY <1>1, <1>5, <2>1 DEF RecheckClient, LoadUser
  <1>6. ASSUME NEW c \in Codes, IssueCode(w, c)
        PROVE  CurrencyInv'
    BY <1>6, CurrencyFinish DEF IssueCode
  <1>7. CASE CodesExhausted(w) \/ Fail(w)
    BY <1>1, <1>7 DEF CodesExhausted, Fail
  <1>8. CASE PresentCode(w)
    <2> DEFINE fr == req[w].code \notin expired
               r == [req[w] EXCEPT !.fresh = fr]
    <2>1. r.code = req[w].code /\ r.app = req[w].app /\ r.late = req[w].late
      BY <1>b DEF Request
    <2>2. req' = [req EXCEPT ![w] = r] /\ Goto(w, "redeem") /\ UNCHANGED <<tables, tx>>
      BY <1>8 DEF PresentCode
    <2> HIDE DEF r, fr
    <2>p. req'[w] = r /\ pc'[w] = "redeem"
      BY <1>2, <2>2
    <2>3. CurrentFor(w)'
      BY <1>a, <2>p, <2>1, <2>2 DEF CurrentFor, Exchanging
    <2> QED
      BY <1>2, <2>2, <2>3
  <1>9. CASE Redeem(w)
    <2>1. CASE ~Redeemable(w)
      BY <1>1, <1>9, <2>1 DEF Redeem
    <2>2. CASE Redeemable(w)
      <3> DEFINE r == [req[w] EXCEPT !.user = code[req[w].code].user]
      <3>1. r.code = req[w].code /\ r.app = req[w].app /\ r.late = req[w].late
        BY <1>b DEF Request
      <3>2. req' = [req EXCEPT ![w] = r] /\ Goto(w, "load_user") /\ UNCHANGED <<tables, tx>>
        BY <1>9, <2>2 DEF Redeem
      <3> HIDE DEF r
      <3>p. req'[w] = r /\ pc'[w] = "load_user"
        BY <1>2, <3>2
      <3>3. CurrentFor(w)'
        BY <1>a, <3>p, <3>1, <3>2 DEF CurrentFor, Exchanging
      <3> QED
        BY <1>2, <3>2, <3>3
    <2> QED
      BY <2>1, <2>2
  <1>10. CASE ReadGlobals(w)
    <2> DEFINE r == [req[w] EXCEPT !.globals = globals[req[w].user]]
    <2>1. /\ r.code = req[w].code /\ r.app = req[w].app /\ r.late = req[w].late
          /\ r.user = req[w].user
      BY <1>b DEF Request
    <2>2. req' = [req EXCEPT ![w] = r] /\ Goto(w, "explicit") /\ UNCHANGED <<tables, tx>>
          /\ pc[w] = "globals"
      BY <1>10 DEF ReadGlobals
    <2> HIDE DEF r
    <2>p. req'[w] = r /\ pc'[w] = "explicit"
      BY <1>2, <2>2
    <2>3. CurrentFor(w)'
      BY <1>a, <2>p, <2>1, <2>2 DEF CurrentFor, Exchanging
    <2> QED
      BY <1>2, <2>2, <2>3
  <1>11. CASE ReadExplicit(w)
    <2> DEFINE r == [req[w] EXCEPT !.explicit = RolesOf(req[w].user, req[w].app)]
    <2>1. /\ r.code = req[w].code /\ r.app = req[w].app /\ r.late = req[w].late
          /\ r.user = req[w].user /\ r.explicit = RolesOf(req[w].user, req[w].app)
      BY <1>b DEF Request
    <2>2. req' = [req EXCEPT ![w] = r] /\ Goto(w, "mapped") /\ UNCHANGED <<tables, tx>>
          /\ pc[w] = "explicit"
      BY <1>11 DEF ReadExplicit
    <2> HIDE DEF r
    <2>p. req'[w] = r /\ pc'[w] = "mapped"
      BY <1>2, <2>2
    <2>3. CurrentFor(w)'
      BY <1>a, <2>p, <2>1, <2>2 DEF CurrentFor, Exchanging, RolesOf
    <2> QED
      BY <1>2, <2>2, <2>3
  <1>12. CASE ReadMapped(w)
    <2>1. CASE ~IsProvisioned(ResolvedAccess(w))
      BY <1>1, <1>12, <2>1 DEF ReadMapped
    <2>2. CASE IsProvisioned(ResolvedAccess(w))
      <3> DEFINE r == [req[w] EXCEPT !.access = ResolvedAccess(w)]
                 step == IF Exchanging(w) THEN "record" ELSE "issue"
      <3>1. /\ r.code = req[w].code /\ r.app = req[w].app /\ r.late = req[w].late
            /\ r.user = req[w].user /\ r.explicit = req[w].explicit
            /\ r.access = ResolvedAccess(w)
        BY <1>b DEF Request
      <3>2. req' = [req EXCEPT ![w] = r] /\ Goto(w, step) /\ UNCHANGED <<tables, tx>>
            /\ pc[w] = "mapped"
        BY <1>12, <2>2 DEF ReadMapped
      <3>3. req[w].explicit # {} => ResolvedAccess(w).roles \subseteq req[w].explicit
        BY ExplicitWins DEF ResolvedAccess
      <3> HIDE DEF r, step
      <3>p. req'[w] = r /\ pc'[w] = step
        BY <1>2, <3>2
      <3>4. CurrentFor(w)'
        BY <1>a, <3>p, <3>1, <3>2, <3>3 DEF CurrentFor, Exchanging, RolesOf
      <3> QED
        BY <1>2, <3>2, <3>4
    <2> QED
      BY <2>1, <2>2
  <1> QED
    BY <1>3, <1>4, <1>5, <1>6, <1>7, <1>8, <1>9, <1>10, <1>11, <1>12, CurrencyRecord
    DEF StartRequest, WorkerStep

\* Any session that a transaction concerns is among those it revokes, when "users"
\* and "apps" are wide enough for what it takes away.
LEMMA BeginFinds ==
    ASSUME Shape, GrantInv, NEW m \in Revokers, NEW kind, NEW US, NEW AS, NEW r, NEW rows,
           Begin(m, kind, US, AS, r, rows),
           kind \in {"disable", "delete", "unassign"} => rows \subseteq US,
           kind = "close" => US = Users,
           kind = "retire" =>
               \A j \in Sessions :
                   /\ session[j].state = "live" /\ ~session[j].raced /\ session[j].direct
                   /\ r \in session[j].roles /\ session[j].app \in AS
                   => session[j].user \in US,
           kind \in {"disable", "delete"} => AS = Apps
    PROVE  /\ UNCHANGED <<tables, pc, req>>
           /\ \A n \in Revokers \ {m} : tx'[n] = tx[n]
           /\ tx'[m].kind \in {"disable", "delete"} => tx'[m].apps = Apps
           /\ \A j \in tx'[m].seen :
                  session[j].state # "none" /\ (Concerns(tx[m], j)' => j \in tx'[m].hit)
  <1> DEFINE t == [kind |-> kind, users |-> US, apps |-> AS, role |-> r, rows |-> rows,
                   hit |-> LiveIn(US, AS),
                   seen |-> {j \in Sessions : session[j].state # "none"}]
  <1>1. /\ UNCHANGED <<tables, pc, req>>
        /\ \A n \in Revokers \ {m} : tx'[n] = tx[n]
        /\ tx'[m] = t
    BY DEF Begin, Shape, TypeOK
  <1>2. ASSUME NEW j \in Sessions, Concerns(t, j)
        PROVE  j \in LiveIn(US, AS)
    <2>1. session[j].user \in Users
      BY <1>2, SessionShape DEF Concerns
    <2> QED
      BY <1>2, <2>1 DEF Concerns, Outdates, LiveIn
  <1>3. \A j \in Sessions : Concerns(tx[m], j)' <=> Concerns(t, j)
    BY <1>1 DEF Concerns, Outdates
  <1> QED
    BY <1>1, <1>2, <1>3

\* A transaction that begins finds the sessions that it concerns (StartRevoking).
LEMMA CurrencyBegin ==
    ASSUME Shape, GrantInv, CurrencyInv, NEW m \in Revokers, StartRevoking(m) \/ Rollback(m)
    PROVE  CurrencyInv'
  <1>1. /\ UNCHANGED <<tables, pc, req>>
        /\ \A n \in Revokers \ {m} : tx'[n] = tx[n]
        /\ tx'[m].kind \in {"disable", "delete"} => tx'[m].apps = Apps
        /\ \A j \in tx'[m].seen :
               session[j].state # "none" /\ (Concerns(tx[m], j)' => j \in tx'[m].hit)
    <2>1. CASE Rollback(m)
      BY <2>1 DEF Rollback, NoTransaction, Shape, TypeOK
    <2>2. ASSUME NEW u \in Users, DisableUser(m, u) \/ Logout(m, u)
          PROVE  <1>1!:
      <3>1. CASE DisableUser(m, u)
        <4>1. PICK rows \in SUBSET {u} : Begin(m, "disable", {u}, Apps, None, rows)
          BY <3>1 DEF DisableUser
        <4> QED
          BY <4>1, BeginFinds
      <3>2. CASE Logout(m, u)
        BY <3>2, BeginFinds DEF Logout
      <3> QED
        BY <2>2, <3>1, <3>2
    <2>3. ASSUME NEW US \in SUBSET Users, BulkDisable(m, US) \/ DeleteUsers(m, US)
          PROVE  <1>1!:
      BY <2>3, BeginFinds DEF BulkDisable, DeleteUsers
    <2>4. ASSUME NEW a \in Apps, CloseApp(m, a)
          PROVE  <1>1!:
      BY <2>4, BeginFinds DEF CloseApp
    <2>5. ASSUME NEW US \in SUBSET Users, NEW a \in Apps, NEW r \in Roles, UnassignRole(m, US, a, r)
          PROVE  <1>1!:
      <3>1. PICK rows \in SUBSET US : Begin(m, "unassign", US, {a}, r, rows)
        BY <2>5 DEF UnassignRole
      <3> QED
        BY <3>1, BeginFinds
    <2>6. ASSUME NEW a \in Apps, NEW r \in Roles, RetireRole(m, a, r)
          PROVE  <1>1!:
      <3>1. \A j \in Sessions : session[j].state = "live" => session[j].user \in Users
        BY SessionShape
      <3> QED
        BY <2>6, <3>1, BeginFinds DEF RetireRole
    <2>7. ASSUME NEW a \in Apps, NEW r \in Roles, DeleteRole(m, a, r)
          PROVE  <1>1!:
      <3>1. ASSUME NEW j \in Sessions,
                   session[j].state = "live", ~session[j].raced, session[j].direct,
                   r \in session[j].roles, session[j].app \in {a}
            PROVE  session[j].user \in Holders(a, r)
        BY <3>1, SessionShape DEF CurrencyInv, LiveSessionIsCurrent, Holders
      <3> QED
        BY <2>7, <3>1, BeginFinds DEF DeleteRole
    <2> QED
      BY <2>1, <2>2, <2>3, <2>4, <2>5, <2>6, <2>7 DEF StartRevoking
  <1>2. TransactionShape'
    BY <1>1 DEF CurrencyInv, TransactionShape, Shape, TypeOK
  <1>3. \A j \in Sessions : Kept(j)
    BY <1>1 DEF Kept
  <1>4. RevocationFinds'
    BY <1>1, <1>3, FindsKept DEF CurrencyInv, RevocationFinds
  <1> QED
    BY <1>1, <1>2, <1>4 DEF CurrencyInv, ReadsAreCurrent, ExplicitRolesWin,
                            LiveSessionIsCurrent, Exchanging, RolesOf

\* What a commit takes away, and from whom.
LEMMA CommitTakes ==
    ASSUME Shape, NEW m \in Revokers, Commit(m)
    PROVE  /\ \A u \in Users : account[u] = "active" /\ account'[u] # "active" =>
                  tx[m].kind \in {"disable", "delete"} /\ u \in tx[m].rows
           /\ \A a \in Apps : available[a] /\ ~available'[a] =>
                  tx[m].kind = "close" /\ a \in tx[m].apps
           /\ \A u \in Users, a \in Apps, R \in SUBSET Roles :
                  R \subseteq RolesOf(u, a) /\ ~(R \subseteq RolesOf(u, a)') =>
                      /\ tx[m].kind = "retire" \/ (tx[m].kind = "unassign" /\ u \in tx[m].rows)
                      /\ a \in tx[m].apps /\ tx[m].role \in R
  <1>1. \A u \in Users : account[u] = "active" /\ account'[u] # "active" =>
            tx[m].kind \in {"disable", "delete"} /\ u \in tx[m].rows
    BY DEF Commit
  <1>2. \A a \in Apps : available[a] /\ ~available'[a] =>
            tx[m].kind = "close" /\ a \in tx[m].apps
    BY DEF Commit
  <1>3. ASSUME NEW u \in Users, NEW a \in Apps, NEW R \in SUBSET Roles,
               R \subseteq RolesOf(u, a), ~(R \subseteq RolesOf(u, a)')
        PROVE  /\ tx[m].kind = "retire" \/ (tx[m].kind = "unassign" /\ u \in tx[m].rows)
               /\ a \in tx[m].apps /\ tx[m].role \in R
    <2>1. <<u, a>> \in Users \X Apps /\ <<u, a>>[1] = u /\ <<u, a>>[2] = a
      OBVIOUS
    <2>2. explicit'[<<u, a>>] =
              IF /\ a \in tx[m].apps
                 /\ tx[m].kind = "retire" \/ (tx[m].kind = "unassign" /\ u \in tx[m].rows)
              THEN explicit[<<u, a>>] \ {tx[m].role} ELSE explicit[<<u, a>>]
      BY <2>1 DEF Commit
    <2> QED
      BY <1>3, <2>2 DEF RolesOf
  <1> QED
    BY <1>1, <1>2, <1>3

\* Its commit revokes the sessions it found, and marks those it overtook (Commit).
LEMMA CurrencyCommit ==
    ASSUME Shape, GrantInv, CurrencyInv, NEW m \in Revokers, Commit(m)
    PROVE  CurrencyInv'
  <1>1. tx' = [tx EXCEPT ![m] = NoTransaction]
    BY DEF Commit
  <1>2. TransactionShape'
    BY <1>1 DEF CurrencyInv, TransactionShape, Shape, TypeOK, NoTransaction
  <1>3. tx[m].kind \in {"disable", "delete"} => tx[m].apps = Apps
    BY DEF CurrencyInv, TransactionShape
  <1>4. ASSUME NEW w \in Workers
        PROVE  CurrentFor(w)'
    <2>1. CurrentFor(w)
      BY CurrentForAll DEF CurrencyInv
    <2>2. pc'[w] = pc[w] /\ req'[w].user = req[w].user /\ req'[w].app = req[w].app
          /\ req'[w].code = req[w].code /\ req'[w].explicit = req[w].explicit
          /\ req'[w].access = req[w].access
      BY CommitKeeps
    <2>3. pc[w] = "record" /\ req[w].explicit # {} => req[w].access.roles \subseteq req[w].explicit
      BY <2>1 DEF CurrentFor
    <2>4. ASSUME Exchanging(w)', ~req'[w].late
          PROVE  /\ ~req[w].late /\ Exchanging(w) /\ ~Invalidates(tx[m], w)
                 /\ req[w].app \in Apps /\ req[w].explicit \in SUBSET Roles
                 /\ pc[w] \in InTransaction => req[w].user \in Users
      <3>1. req[w] \in Request
        BY DEF Shape, TypeOK
      <3>2. Exchanging(w)
        BY <2>2, <2>4 DEF Exchanging
      <3>3. req[w].app \in Apps /\ (pc[w] \in InTransaction => req[w].user \in Users)
        BY <3>2 DEF Shape, RequestShape, Exchanging, NoRequest
      <3>4. ~Invalidates(tx[m], w)
        BY <2>4, <3>1, CommitKeeps DEF Request
      <3>5. req'[w] = req[w]
        BY <3>4, CommitKeeps
      <3> QED
        BY <2>4, <3>1, <3>2, <3>3, <3>4, <3>5 DEF Request
    <2>5. ASSUME Exchanging(w)', ~req'[w].late
          PROVE  available'[req[w].app]
      BY <2>1, <2>4, <2>5, CommitTakes DEF CurrentFor, Invalidates
    <2>6. ASSUME Exchanging(w)', ~req'[w].late,
                 pc[w] \in {"globals", "explicit", "mapped", "record"}
          PROVE  account'[req[w].user] = "active"
      BY <1>3, <2>1, <2>4, <2>6, CommitTakes DEF CurrentFor, Invalidates, InTransaction
    <2>7. ASSUME Exchanging(w)', ~req'[w].late, pc[w] \in {"mapped", "record"}
          PROVE  req[w].explicit \subseteq RolesOf(req[w].user, req[w].app)'
      <3>1. PICK u \in Users, a \in Apps, R \in SUBSET Roles :
                u = req[w].user /\ a = req[w].app /\ R = req[w].explicit
        BY <2>4, <2>7 DEF InTransaction
      <3>2. R \subseteq RolesOf(u, a)
        BY <2>1, <2>4, <2>7, <3>1 DEF CurrentFor
      <3>3. ~(/\ tx[m].kind = "retire" \/ (tx[m].kind = "unassign" /\ u \in tx[m].rows)
              /\ a \in tx[m].apps /\ tx[m].role \in R)
        BY <2>4, <2>7, <3>1 DEF Invalidates
      <3>4. R \subseteq RolesOf(u, a)'
        BY <3>2, <3>3, CommitTakes
      <3>5. R \subseteq explicit'[<<u, a>>]
        BY <3>4 DEF RolesOf
      <3> QED
        BY <2>2, <3>1, <3>5 DEF RolesOf
    <2> QED
      BY <2>2, <2>3, <2>5, <2>6, <2>7 DEF CurrentFor, RolesOf
  <1>5. (ReadsAreCurrent /\ ExplicitRolesWin)'
    BY <1>4 DEF CurrentFor, ReadsAreCurrent, ExplicitRolesWin
  <1>6. LiveSessionIsCurrent'
    <2> SUFFICES ASSUME NEW j \in Sessions, session'[j].state = "live", ~session'[j].raced
                 PROVE  /\ account'[session'[j].user] = "active"
                        /\ available'[session'[j].app]
                        /\ session'[j].direct =>
                               session'[j].roles \subseteq
                                   explicit'[<<session'[j].user, session'[j].app>>]
      BY DEF LiveSessionIsCurrent, RolesOf
    <2>1. session[j] \in SessionRow /\ session'[j] = RevokedBy(tx[m], j)
      BY DEF Commit, Shape, TypeOK
    <2>2. /\ session'[j] = session[j] /\ session[j].state = "live" /\ ~session[j].raced
          /\ ~Concerns(tx[m], j)
      <3>1. session'[j] = session[j] /\ session[j].state = "live" /\ ~session[j].raced
        BY <2>1 DEF RevokedBy, SessionRow
      <3>2. j \notin tx[m].hit /\ (j \in tx[m].seen \/ ~Outdates(tx[m], j))
        BY <2>1, <3>1 DEF RevokedBy, SessionRow
      <3> QED
        BY <3>1, <3>2 DEF CurrencyInv, RevocationFinds, Concerns
    <2>3. session[j].user \in Users /\ session[j].app \in Apps /\ session[j].roles \in SUBSET Roles
      BY <2>1, <2>2, SessionShape DEF SessionRow
    <2>4. /\ account[session[j].user] = "active"
          /\ available[session[j].app]
          /\ session[j].direct => session[j].roles \subseteq RolesOf(session[j].user, session[j].app)
      BY <2>2 DEF CurrencyInv, LiveSessionIsCurrent
    <2>5. account'[session[j].user] = "active"
      BY <1>3, <2>2, <2>3, <2>4, CommitTakes DEF Concerns, Outdates
    <2>6. available'[session[j].app]
      BY <2>2, <2>3, <2>4, CommitTakes DEF Concerns, Outdates
    <2>7. ASSUME session[j].direct
          PROVE  session[j].roles \subseteq explicit'[<<session[j].user, session[j].app>>]
      <3>1. PICK u \in Users, a \in Apps, R \in SUBSET Roles :
                u = session[j].user /\ a = session[j].app /\ R = session[j].roles
        BY <2>3
      <3>2. R \subseteq RolesOf(u, a)
        BY <2>4, <2>7, <3>1
      <3>3. ~(/\ tx[m].kind = "retire" \/ (tx[m].kind = "unassign" /\ u \in tx[m].rows)
              /\ a \in tx[m].apps /\ tx[m].role \in R)
        BY <2>2, <2>7, <3>1 DEF Concerns, Outdates
      <3>4. R \subseteq RolesOf(u, a)'
        BY <3>2, <3>3, CommitTakes
      <3> QED
        BY <3>1, <3>4 DEF RolesOf
    <2> QED
      BY <2>2, <2>5, <2>6, <2>7
  <1>7. \A j \in Sessions : Kept(j)
    BY CommitKeeps DEF Kept
  <1>8. RevocationFinds'
    <2>1. \A n \in Revokers : n # m => tx'[n] = tx[n]
      BY <1>1 DEF Shape, TypeOK
    <2>2. tx'[m].seen = {}
      BY <1>1 DEF Shape, TypeOK, NoTransaction
    <2> QED
      BY <1>7, <2>1, <2>2, FindsKept DEF CurrencyInv, RevocationFinds
  <1> QED
    BY <1>2, <1>5, <1>6, <1>8 DEF CurrencyInv

\* A step that runs no request and revokes nothing only ever gives.
LEMMA CurrencyAdministration ==
    ASSUME Shape, GrantInv, CurrencyInv, Administration \/ Time
    PROVE  CurrencyInv'
  <1>1. /\ UNCHANGED <<pc, req, tx>>
        /\ \A u \in Users : account[u] = "active" => account'[u] = "active"
        /\ \A a \in Apps : available[a] => available'[a]
        /\ \A u \in Users, a \in Apps : explicit[<<u, a>>] \subseteq explicit'[<<u, a>>]
        /\ \A j \in Sessions : session'[j].state = "live" => session'[j] = session[j]
        /\ \A j \in Sessions : Kept(j)
    <2>1. ASSUME NEW u \in Users, EnableUser(u)
          PROVE  <1>1!:
      BY <2>1 DEF EnableUser, Shape, TypeOK, Kept
    <2>2. ASSUME NEW a \in Apps, OpenApp(a)
          PROVE  <1>1!:
      BY <2>2 DEF OpenApp, Shape, TypeOK, Kept
    <2>3. ASSUME NEW u \in Users, NEW a \in Apps, NEW r \in Roles, AssignRole(u, a, r)
          PROVE  <1>1!:
      BY <2>3 DEF AssignRole, Shape, TypeOK, Kept
    <2>4. ASSUME NEW u \in Users, NEW G \in RoleSets, SetGlobalRoles(u, G)
          PROVE  <1>1!:
      BY <2>4 DEF SetGlobalRoles, Kept
    <2>7. ASSUME NEW a \in Apps, NEW M \in Mappings, Remap(a, M)
          PROVE  <1>1!:
      BY <2>7 DEF Remap, Kept
    <2>5. ASSUME NEW c \in Codes, ExpireCode(c)
          PROVE  <1>1!:
      BY <2>5 DEF ExpireCode, Kept
    <2>6. ASSUME NEW i \in Sessions, ExpireSession(i)
          PROVE  <1>1!:
      BY <2>6 DEF ExpireSession, Shape, TypeOK, SessionRow, Kept
    <2> QED
      BY <2>1, <2>2, <2>3, <2>4, <2>5, <2>6, <2>7 DEF Administration, Time
  <1>2. TransactionShape'
    BY <1>1 DEF CurrencyInv, TransactionShape
  <1>3. ASSUME NEW w \in Workers
        PROVE  CurrentFor(w)'
    <2>1. CurrentFor(w)
      BY CurrentForAll DEF CurrencyInv
    <2>2. pc[w] # "idle" => req[w].app \in Apps
      BY DEF Shape, RequestShape
    <2>3. pc[w] \in InTransaction => req[w].user \in Users
      BY DEF Shape, RequestShape
    <2>4. pc[w] = "idle" => ~Exchanging(w)
      BY DEF Shape, RequestShape, Exchanging, NoRequest
    <2> QED
      BY <1>1, <2>1, <2>2, <2>3, <2>4 DEF CurrentFor, Exchanging, RolesOf, InTransaction
  <1>4. (ReadsAreCurrent /\ ExplicitRolesWin)'
    BY <1>3 DEF CurrentFor, ReadsAreCurrent, ExplicitRolesWin
  <1>5. LiveSessionIsCurrent'
    BY <1>1, SessionShape DEF CurrencyInv, LiveSessionIsCurrent, RolesOf
  <1>6. RevocationFinds'
    BY <1>1, FindsKept DEF CurrencyInv, RevocationFinds
  <1> QED
    BY <1>2, <1>4, <1>5, <1>6 DEF CurrencyInv

\* The currency of live sessions is inductive, given shapes and grants (Next).
LEMMA CurrencyStep == Shape /\ GrantInv /\ CurrencyInv /\ [Next]_vars => CurrencyInv'
  <1> SUFFICES ASSUME Shape, GrantInv, CurrencyInv, [Next]_vars
               PROVE  CurrencyInv'
    OBVIOUS
  <1>1. CASE UNCHANGED vars
    BY <1>1 DEF vars, CurrencyInv, TransactionShape, RevocationFinds, Concerns, Outdates,
                ReadsAreCurrent, ExplicitRolesWin, LiveSessionIsCurrent, Exchanging, RolesOf
  <1> QED
    BY <1>1, CurrencyWorker, CurrencyBegin, CurrencyCommit, CurrencyAdministration DEF Next

\* There is no session and no transaction at first (Init).
LEMMA CurrencyInit == Init => CurrencyInv
  BY DEF Init, CurrencyInv, TransactionShape, RevocationFinds, ReadsAreCurrent, ExplicitRolesWin,
         LiveSessionIsCurrent, NoTransaction, NoRequest, NoSession, Exchanging

\* The whole invariant that the runs check (HandoffInv).
THEOREM HandoffInvariant == Spec => []HandoffInv
  <1>1. Shape /\ GrantInv /\ CurrencyInv => HandoffInv
    BY DEF Shape, GrantInv, CurrencyInv, HandoffInv
  <1>2. Shape /\ GrantInv /\ CurrencyInv /\ [Next]_vars => CurrencyInv'
    BY CurrencyStep
  <1> QED
    BY <1>1, <1>2, CurrencyInit, ShapeCorrect, GrantCorrect, PTL DEF Spec

\* Disabling, deleting, closing and unassigning leave no live session behind but
\* those of exchanges they overtook (LiveSessionIsCurrent).
THEOREM RevocationIsComplete == Spec => []LiveSessionIsCurrent
  <1>1. HandoffInv => LiveSessionIsCurrent
    BY DEF HandoffInv
  <1> QED
    BY <1>1, HandoffInvariant, PTL

-----------------------------------------------------------------------------
(* The handoff implements a one-time grant.                                   *)

\* A step that changes no code and no session's code is a stutter of the grant.
LEMMA GrantStutter ==
    ASSUME UNCHANGED code,
           \A j \in Sessions : /\ session'[j].state = "none" <=> session[j].state = "none"
                               /\ session'[j].code = session[j].code
    PROVE  UNCHANGED Grant!vars
  BY DEF Grant!vars

\* The other steps of a request touch neither codes nor sessions (WorkerStep).
LEMMA WorkerQuiet ==
    ASSUME NEW w \in Workers, StartRequest(w) \/ WorkerStep(w) \/ Fail(w),
           ~ \E c \in Codes : IssueCode(w, c), ~ \E j \in Sessions : RecordSession(w, j)
    PROVE  UNCHANGED <<code, session>>
  BY DEF StartRequest, WorkerStep, Fail, StartAuthorize, ResumeAuthorize, StartExchange,
         RecheckClient, CodesExhausted, PresentCode, Redeem, LoadUser, ReadGlobals,
         ReadExplicit, ReadMapped

\* Issuing a code is the Issue of the grant (IssueCode).
LEMMA IssueIsGrantIssue ==
    ASSUME Shape, GrantInv, NEW w \in Workers, NEW c \in Codes, IssueCode(w, c)
    PROVE  Grant!Issue(c)
  <1>1. /\ UNCHANGED session
        /\ code[c].state = "none" /\ code'[c].state = "issued"
        /\ \A d \in Codes \ {c} : code'[d] = code[d]
    BY DEF IssueCode, Shape, TypeOK
  <1> QED
    BY <1>1 DEF Grant!Issue

\* Recording a session is the Redeem of the grant (RecordSession).
LEMMA RecordIsGrantRedeem ==
    ASSUME Shape, GrantInv, NEW w \in Workers, NEW j \in Sessions, RecordSession(w, j)
    PROVE  \E c \in Codes : Grant!Redeem(c, j)
  <1>0. PICK c \in Codes : c = req[w].code
    BY DEF RecordSession, Shape, TypeOK, RequestShape, Exchanging, Request
  <1>1. code[c].state = "issued"
    BY <1>0 DEF RecordSession, HoldsCode, InTransaction, GrantInv, RowLock
  <1>2. code' = [code EXCEPT ![c] = [code[c] EXCEPT !.state = "used"]]
    BY <1>0 DEF RecordSession
  <1>3. code'[c].state = "used" /\ \A d \in Codes \ {c} : code'[d] = code[d]
    BY <1>2 DEF Shape, TypeOK, CodeRow
  <1>4. /\ session[j].state = "none" /\ session'[j].state # "none" /\ session'[j].code = c
        /\ \A i \in Sessions \ {j} : session'[i] = session[i]
    BY <1>0 DEF RecordSession, Shape, TypeOK
  <1>5. \A i \in Sessions : session[i].state # "none" => session[i].code # c
    BY <1>1 DEF GrantInv, SpentIffRecorded
  <1>6. {i \in Sessions : session'[i].state # "none" /\ session'[i].code = c} = {j}
    BY <1>4, <1>5
  <1>7. \A d \in Codes \ {c} :
            {i \in Sessions : session'[i].state # "none" /\ session'[i].code = d}
                = {i \in Sessions : session[i].state # "none" /\ session[i].code = d}
    BY <1>4
  <1>8. Grant!Redeem(c, j)
    BY <1>1, <1>3, <1>4, <1>6, <1>7 DEF Grant!Redeem
  <1> QED
    BY <1>8

\* Every step of the handoff is a step of the grant or a stutter (Next).
LEMMA GrantSimulation == Shape /\ GrantInv /\ [Next]_vars => [Grant!Next]_(Grant!vars)
  <1> SUFFICES ASSUME Shape, GrantInv, [Next]_vars
               PROVE  [Grant!Next]_(Grant!vars)
    OBVIOUS
  <1>1. ASSUME UNCHANGED <<code, session>>
        PROVE  UNCHANGED Grant!vars
    BY <1>1, GrantStutter
  <1>2. CASE UNCHANGED vars
    BY <1>1, <1>2 DEF vars
  <1>3. ASSUME NEW w \in Workers, StartRequest(w) \/ WorkerStep(w) \/ Fail(w)
        PROVE  [Grant!Next]_(Grant!vars)
    BY <1>1, <1>3, WorkerQuiet, IssueIsGrantIssue, RecordIsGrantRedeem DEF Grant!Next
  <1>4. ASSUME NEW m \in Revokers, StartRevoking(m) \/ Rollback(m)
        PROVE  UNCHANGED Grant!vars
    BY <1>1, <1>4 DEF StartRevoking, Rollback, Begin, DisableUser, Logout, BulkDisable,
                      DeleteUsers, CloseApp, UnassignRole, RetireRole, DeleteRole
  <1>5. ASSUME NEW m \in Revokers, Commit(m)
        PROVE  UNCHANGED Grant!vars
    BY <1>5, CommitKeeps, GrantStutter
  <1>6. CASE Administration
    BY <1>1, <1>6 DEF Administration, EnableUser, OpenApp, AssignRole, SetGlobalRoles, Remap
  <1>7. ASSUME NEW c \in Codes, ExpireCode(c)
        PROVE  UNCHANGED Grant!vars
    BY <1>1, <1>7 DEF ExpireCode
  <1>8. ASSUME NEW j \in Sessions, ExpireSession(j)
        PROVE  UNCHANGED Grant!vars
    <2>1. /\ UNCHANGED code
          /\ \A i \in Sessions : /\ session'[i].state = "none" <=> session[i].state = "none"
                                 /\ session'[i].code = session[i].code
      BY <1>8 DEF ExpireSession, Shape, TypeOK, SessionRow
    <2> QED
      BY <2>1, GrantStutter
  <1> QED
    BY <1>2, <1>3, <1>4, <1>5, <1>6, <1>7, <1>8 DEF Next, Time

\* The handoff, with its failures, waits and races, implements a one-time grant
\* (ImplementsOneTimeGrant): every step of it issues, redeems, or does neither.
THEOREM HandoffImplementsGrant == Spec => ImplementsOneTimeGrant
  <1>1. Init => Grant!Init
    BY DEF Init, Grant!Init, NoCode, NoSession
  <1>2. Shape /\ GrantInv /\ [Next]_vars => [Grant!Next]_(Grant!vars)
    BY GrantSimulation
  <1> QED
    BY <1>1, <1>2, ShapeCorrect, GrantCorrect, PTL DEF Spec, ImplementsOneTimeGrant, Grant!Spec

\* A step of the grant leaves what is redeemed redeemed (Grant!Next).
LEMMA GrantKeepsRedeemed == [Grant!Next]_(Grant!vars) => Grant!KeepsRedeemed
  <1> DEFINE state == [c \in Codes |-> IF code[c].state = "used" THEN "redeemed" ELSE code[c].state]
             delivered == [c \in Codes |->
                 {j \in Sessions : session[j].state # "none" /\ session[j].code = c}]
  <1>1. ASSUME NEW c \in Codes, state[c] = "redeemed", [Grant!Next]_(Grant!vars)
        PROVE  state'[c] = "redeemed" /\ delivered'[c] = delivered[c]
    <2>1. CASE UNCHANGED Grant!vars
      BY <1>1, <2>1 DEF Grant!vars
    <2>2. ASSUME NEW d \in Codes, Grant!Issue(d)
          PROVE  state'[c] = state[c] /\ delivered'[c] = delivered[c]
      <3>1. /\ d # c /\ state' = [state EXCEPT ![d] = "issued"] /\ delivered' = delivered
        BY <1>1, <2>2 DEF Grant!Issue
      <3> QED
        BY <3>1
    <2>3. ASSUME NEW d \in Codes, NEW j \in Sessions, Grant!Redeem(d, j)
          PROVE  state'[c] = state[c] /\ delivered'[c] = delivered[c]
      <3>1. /\ d # c /\ state' = [state EXCEPT ![d] = "redeemed"]
            /\ delivered' = [delivered EXCEPT ![d] = {j}]
        BY <1>1, <2>3 DEF Grant!Redeem
      <3> QED
        BY <3>1
    <2> QED
      BY <1>1, <2>1, <2>2, <2>3 DEF Grant!Next
  <1> QED
    BY <1>1 DEF Grant!KeepsRedeemed

\* So a spent code stays spent, and the session it was exchanged for stays the one
\* that is recorded for it, revoked or not (Grant!StaysRedeemed).
THEOREM SpentCodesStaySpent == Spec => Grant!StaysRedeemed
  <1> QED
    BY GrantSimulation, GrantKeepsRedeemed, ShapeCorrect, GrantCorrect, PTL
    DEF Spec, Grant!StaysRedeemed

-----------------------------------------------------------------------------
(* What holds of the promise of API_CONTRACT.md that a token is issued only    *)
(* while the user and the app are available (IssuanceEnforcesCurrentState).    *)

\* Only the exchange that records a session makes it live (RecordSession).
LEMMA IssuedByRecord ==
    ASSUME Shape, [Next]_vars, NEW j \in Sessions,
           session[j].state = "none", session'[j].state = "live"
    PROVE  \E w \in Workers : RecordSession(w, j)
  <1>1. ~ UNCHANGED session
    OBVIOUS
  <1>2. ASSUME NEW w \in Workers, StartRequest(w) \/ WorkerStep(w) \/ Fail(w)
        PROVE  RecordSession(w, j)
    <2>1. ASSUME NEW c \in Codes, IssueCode(w, c)
          PROVE  UNCHANGED session
      BY <2>1 DEF IssueCode
    <2>2. PICK i \in Sessions : RecordSession(w, i)
      BY <1>1, <1>2, <2>1, WorkerQuiet
    <2>3. i = j
      BY <2>2 DEF RecordSession
    <2> QED
      BY <2>2, <2>3
  <1>3. ASSUME NEW m \in Revokers, StartRevoking(m) \/ Rollback(m)
        PROVE  UNCHANGED session
    BY <1>3 DEF StartRevoking, Rollback, Begin, DisableUser, Logout, BulkDisable, tables,
                DeleteUsers, CloseApp, UnassignRole, RetireRole, DeleteRole
  <1>4. \A m \in Revokers : ~Commit(m)
    BY CommitKeeps
  <1>5. Administration => UNCHANGED session
    BY DEF Administration, EnableUser, OpenApp, AssignRole, SetGlobalRoles, Remap
  <1>6. ~Time
    BY <1>1 DEF Time, ExpireCode, ExpireSession, Shape, TypeOK
  <1> QED
    BY <1>1, <1>2, <1>3, <1>4, <1>5, <1>6 DEF Next, vars

\* A token is issued only while its user and its app are available and its user
\* holds the explicit roles it carries, unless a revoking transaction committed
\* between the reads of the exchange and its commit: nothing but that race comes
\* between the code and what API_CONTRACT.md promises (RecordSession).
THEOREM IssuanceIsCurrentUnlessOvertaken ==
    Spec => [][\A j \in Sessions :
                  session[j].state = "none" /\ session'[j].state = "live" /\ ~session'[j].raced =>
                      /\ account[session'[j].user] = "active"
                      /\ available[session'[j].app]
                      /\ session'[j].direct =>
                             session'[j].roles \subseteq RolesOf(session'[j].user, session'[j].app)]_vars
  <1> DEFINE Issuance ==
                 \A j \in Sessions :
                     session[j].state = "none" /\ session'[j].state = "live" /\ ~session'[j].raced =>
                         /\ account[session'[j].user] = "active"
                         /\ available[session'[j].app]
                         /\ session'[j].direct =>
                                session'[j].roles \subseteq RolesOf(session'[j].user, session'[j].app)
  <1>1. HandoffInv /\ [Next]_vars => Issuance
    <2> SUFFICES ASSUME HandoffInv, [Next]_vars, NEW j \in Sessions,
                        session[j].state = "none", session'[j].state = "live", ~session'[j].raced
                 PROVE  /\ account[session'[j].user] = "active"
                        /\ available[session'[j].app]
                        /\ session'[j].direct =>
                               session'[j].roles \subseteq RolesOf(session'[j].user, session'[j].app)
      OBVIOUS
    <2>1. Shape /\ ReadsAreCurrent /\ ExplicitRolesWin
      BY DEF HandoffInv, Shape
    <2>2. PICK w \in Workers : RecordSession(w, j)
      BY <2>1, IssuedByRecord
    <2>3. pc[w] = "record" /\ Exchanging(w)
      BY <2>1, <2>2 DEF RecordSession, Shape, RequestShape
    <2>4. /\ session'[j].user = req[w].user /\ session'[j].app = req[w].app
          /\ session'[j].roles = req[w].access.roles
          /\ session'[j].direct <=> req[w].explicit # {}
          /\ session'[j].raced <=> req[w].late
      BY <2>1, <2>2 DEF RecordSession, Shape, TypeOK
    <2> QED
      BY <2>1, <2>3, <2>4 DEF ReadsAreCurrent, ExplicitRolesWin
  <1> QED
    BY <1>1, HandoffInvariant, PTL DEF Spec

-----------------------------------------------------------------------------
(* Requests go forward, and who holds a row lock does not wait.  That requests *)
(* end is then a matter of fairness alone, which TLC checks (RequestsEnd).     *)

\* What is ahead of a request: its statements, the same for both endpoints once
\* they resolve access.
Ahead(step) ==
    CASE step = "present"              -> 7
      [] step = "redeem"               -> 6
      [] step \in {"recheck", "load_user"} -> 5
      [] step = "globals"              -> 4
      [] step = "explicit"             -> 3
      [] step = "mapped"               -> 2
      [] step \in {"issue", "record"}  -> 1
      [] step = "idle"                 -> 0

\* A request waits for the row lock of its code (Redeem).
Waits(w) == pc[w] = "redeem" /\ \E v \in Workers : HoldsCode(v, req[w].code)

\* Each statement leaves less ahead, and nobody sets a request back (WorkerStep).
LEMMA WorkersAdvance ==
    ASSUME Shape, [Next]_vars, NEW w \in Workers, pc[w] # "idle"
    PROVE  /\ pc'[w] # pc[w] => Ahead(pc'[w]) < Ahead(pc[w])
           /\ WorkerStep(w) => Ahead(pc'[w]) < Ahead(pc[w])
  <1>a. pc \in [Workers -> Steps]
    BY DEF Shape, TypeOK
  <1>1. ASSUME NEW v \in Workers, Finish(v)
        PROVE  pc'[v] = "idle" /\ \A u \in Workers \ {v} : pc'[u] = pc[u]
    BY <1>1, <1>a DEF Finish
  <1>2. ASSUME NEW v \in Workers, NEW step, Goto(v, step)
        PROVE  pc'[v] = step /\ \A u \in Workers \ {v} : pc'[u] = pc[u]
    BY <1>2, <1>a DEF Goto
  <1>3. ASSUME NEW v \in Workers, WorkerStep(v)
        PROVE  Ahead(pc'[v]) < Ahead(pc[v]) /\ \A u \in Workers \ {v} : pc'[u] = pc[u]
    <2>1. CASE RecheckClient(v)
      BY <1>1, <1>2, <2>1 DEF RecheckClient, Ahead
    <2>2. ASSUME NEW c \in Codes, IssueCode(v, c)
          PROVE  Ahead(pc'[v]) < Ahead(pc[v]) /\ \A u \in Workers \ {v} : pc'[u] = pc[u]
      BY <1>1, <2>2 DEF IssueCode, Ahead
    <2>3. CASE CodesExhausted(v)
      BY <1>1, <2>3 DEF CodesExhausted, Ahead
    <2>4. CASE PresentCode(v)
      BY <1>2, <2>4 DEF PresentCode, Ahead
    <2>5. CASE Redeem(v)
      BY <1>1, <1>2, <2>5 DEF Redeem, Ahead
    <2>6. CASE LoadUser(v)
      BY <1>1, <1>2, <2>6 DEF LoadUser, Ahead
    <2>7. CASE ReadGlobals(v)
      BY <1>2, <2>7 DEF ReadGlobals, Ahead
    <2>8. CASE ReadExplicit(v)
      BY <1>2, <2>8 DEF ReadExplicit, Ahead
    <2>9. CASE ReadMapped(v)
      BY <1>1, <1>2, <2>9 DEF ReadMapped, Ahead
    <2>10. ASSUME NEW j \in Sessions, RecordSession(v, j)
           PROVE  Ahead(pc'[v]) < Ahead(pc[v]) /\ \A u \in Workers \ {v} : pc'[u] = pc[u]
      BY <1>1, <2>10 DEF RecordSession, Ahead
    <2> QED
      BY <1>3, <2>1, <2>2, <2>3, <2>4, <2>5, <2>6, <2>7, <2>8, <2>9, <2>10 DEF WorkerStep
  <1>4. ASSUME NEW v \in Workers, StartRequest(v)
        PROVE  v # w /\ \A u \in Workers \ {v} : pc'[u] = pc[u]
    <2>1. pc[v] = "idle" /\ \E step \in Steps : Goto(v, step)
      BY <1>4 DEF StartRequest, StartAuthorize, ResumeAuthorize, StartExchange, Steps
    <2> QED
      BY <1>2, <2>1
  <1>5. ASSUME NEW v \in Workers, Fail(v)
        PROVE  pc'[v] = "idle" /\ \A u \in Workers \ {v} : pc'[u] = pc[u]
    BY <1>1, <1>5 DEF Fail
  <1>6. pc[w] \in Steps \ {"idle"} => Ahead("idle") < Ahead(pc[w])
    BY DEF Ahead, Steps
  <1>7. ASSUME NEW m \in Revokers, StartRevoking(m) \/ Commit(m) \/ Rollback(m)
        PROVE  UNCHANGED pc
    BY <1>7 DEF StartRevoking, Commit, Rollback, Begin, DisableUser, Logout, BulkDisable,
                DeleteUsers, CloseApp, UnassignRole, RetireRole, DeleteRole
  <1>8. Administration \/ Time \/ UNCHANGED vars => UNCHANGED pc
    BY DEF Administration, EnableUser, OpenApp, AssignRole, SetGlobalRoles, Remap, Time, ExpireCode,
           ExpireSession, vars
  <1> QED
    BY <1>a, <1>3, <1>4, <1>5, <1>6, <1>7, <1>8 DEF Next

\* A request of either endpoint takes 7 steps at most, and one that waits for the row
\* lock of a code waits for exactly one exchange, which itself waits for nobody and
\* goes forward: waits are not chained, and no two requests wait for each other.
THEOREM RequestsAdvance ==
    /\ Spec => [][\A w \in Workers :
                     pc[w] # "idle" =>
                         /\ pc'[w] # pc[w] => Ahead(pc'[w]) < Ahead(pc[w])
                         /\ WorkerStep(w) => Ahead(pc'[w]) < Ahead(pc[w])]_vars
    /\ Spec => [](\A w \in Workers :
                     Waits(w) => \E v \in Workers \ {w} :
                                    /\ HoldsCode(v, req[w].code) /\ ~Waits(v)
                                    /\ \A u \in Workers : HoldsCode(u, req[w].code) => u = v)
  <1> DEFINE Forward == \A w \in Workers :
                 pc[w] # "idle" =>
                     /\ pc'[w] # pc[w] => Ahead(pc'[w]) < Ahead(pc[w])
                     /\ WorkerStep(w) => Ahead(pc'[w]) < Ahead(pc[w])
             OneHolder == \A w \in Workers :
                 Waits(w) => \E v \in Workers \ {w} :
                                /\ HoldsCode(v, req[w].code) /\ ~Waits(v)
                                /\ \A u \in Workers : HoldsCode(u, req[w].code) => u = v
  <1>1. Shape /\ [Next]_vars => [Forward]_vars
    BY WorkersAdvance
  <1>2. Shape /\ GrantInv => OneHolder
    <2> SUFFICES ASSUME Shape, GrantInv, NEW w \in Workers, Waits(w)
                 PROVE  \E v \in Workers \ {w} :
                           /\ HoldsCode(v, req[w].code) /\ ~Waits(v)
                           /\ \A u \in Workers : HoldsCode(u, req[w].code) => u = v
      OBVIOUS
    <2>1. req[w].code \in Codes
      BY DEF Waits, Shape, RequestShape, Exchanging, TypeOK, Request
    <2>2. PICK v \in Workers : HoldsCode(v, req[w].code)
      BY DEF Waits
    <2>3. pc[v] # "redeem" /\ v # w
      BY <2>2 DEF HoldsCode, InTransaction, Waits
    <2> QED
      BY <2>1, <2>2, <2>3 DEF Waits, GrantInv, RowLock
  <1> QED
    BY <1>1, <1>2, ShapeCorrect, GrantCorrect, PTL DEF Spec

-----------------------------------------------------------------------------
(* What a token carries                                                       *)

\* What TokenCarriesAccess says of a session, said of an access.
Carries(access, a) ==
    /\ access.migration <=> access.roles = {}
    /\ access.migration => MigrationEnabled[a]
    /\ RoleCardinality[a] = "single" => Cardinality(access.roles) <= 1

\* The policy gives one role at most in a single-role app, and lets a user in
\* without a role for the migration only (resolve_app_access_policy).
LEMMA PolicyCarries ==
    ASSUME NEW G, NEW E \in SUBSET Roles, NEW M \in SUBSET Roles, NEW a \in Apps,
           IsProvisioned(ResolveAppAccess(G, E, M, RoleCardinality[a], MigrationEnabled[a]))
    PROVE  Carries(ResolveAppAccess(G, E, M, RoleCardinality[a], MigrationEnabled[a]), a)
  <1>1. Cardinality({}) = 0
    BY FS_EmptySet
  <1>2. MigrationEnabled[a] \in BOOLEAN
    BY SsoHandoffAssumption
  <1> DEFINE answer == ResolveAppAccess(G, E, M, RoleCardinality[a], MigrationEnabled[a])
  <1>3. \/ answer = NoAccess
        \/ answer = GrantRoles(E, RoleCardinality[a]) /\ E # {}
        \/ answer = GrantRoles(M, RoleCardinality[a]) /\ M # {}
        \/ answer = [roles |-> {}, migration |-> MigrationEnabled[a]]
    BY DEF ResolveAppAccess
  <1>4. IsProvisioned(answer)
    OBVIOUS
  <1>5. \A R \in {E, M} : R # {} /\ answer = GrantRoles(R, RoleCardinality[a]) => Carries(answer, a)
    BY <1>1, <1>4 DEF GrantRoles, NoAccess, IsProvisioned, Carries
  <1>6. answer # NoAccess
    BY <1>4 DEF NoAccess, IsProvisioned
  <1>7. answer = [roles |-> {}, migration |-> MigrationEnabled[a]] => Carries(answer, a)
    BY <1>1, <1>2, <1>4 DEF IsProvisioned, Carries
  <1> HIDE DEF answer
  <1>8. Carries(answer, a)
    BY <1>3, <1>5, <1>6, <1>7
  <1> QED
    BY <1>8 DEF answer

\* What an exchange is about to record, and what is recorded, is such an access.
CarryInv ==
    /\ \A w \in Workers : pc[w] = "record" => Carries(req[w].access, req[w].app)
    /\ TokenCarriesAccess

\* A step that records nothing keeps the tokens, and no request comes to "record".
LEMMA CarryFrame ==
    ASSUME Shape, CarryInv,
           \A w \in Workers : pc'[w] = "record" =>
               pc[w] = "record" /\ req'[w].access = req[w].access /\ req'[w].app = req[w].app,
           \A j \in Sessions : session'[j].state # "none" =>
               /\ session[j].state # "none"
               /\ session'[j].roles = session[j].roles
               /\ session'[j].migration = session[j].migration
               /\ session'[j].app = session[j].app
    PROVE  CarryInv'
  <1>1. \A w \in Workers : pc'[w] = "record" => Carries(req'[w].access, req'[w].app)
    BY DEF CarryInv, Carries
  <1>2. TokenCarriesAccess'
    BY DEF CarryInv, TokenCarriesAccess
  <1> QED
    BY <1>1, <1>2 DEF CarryInv, Carries

\* The request that ends is at no step (Finish).
LEMMA CarryFinish ==
    ASSUME Shape, CarryInv, NEW w \in Workers, Finish(w), UNCHANGED session
    PROVE  CarryInv'
  <1>1. pc'[w] # "record"
    BY FinishType
  <1> QED
    BY <1>1, FinishType, CarryFrame

\* A request goes to "record" with an access that the policy has provisioned.
LEMMA CarryWorker ==
    ASSUME Shape, CarryInv, NEW w \in Workers, StartRequest(w) \/ WorkerStep(w) \/ Fail(w)
    PROVE  CarryInv'
  <1>a. req[w] \in Request /\ pc[w] \in Steps
    BY DEF Shape, TypeOK
  <1>1. CASE Finish(w) /\ UNCHANGED session
    BY <1>1, CarryFinish
  <1>2. ASSUME NEW step \in Steps \ {"record"}, Goto(w, step), UNCHANGED session,
               \A v \in Workers \ {w} : req'[v] = req[v]
        PROVE  CarryInv'
    <2>1. pc'[w] = step /\ \A v \in Workers \ {w} : pc'[v] = pc[v]
      BY <1>2 DEF Goto, Shape, TypeOK
    <2> QED
      BY <1>2, <2>1, CarryFrame
  <1>3. CASE StartRequest(w)
    <2>1. /\ \E step \in Steps \ {"record"} : Goto(w, step)
          /\ UNCHANGED session
          /\ \A v \in Workers \ {w} : req'[v] = req[v]
      BY <1>3 DEF StartRequest, StartAuthorize, ResumeAuthorize, StartExchange, Steps, Shape, TypeOK
    <2> QED
      BY <1>2, <2>1
  <1>4. CASE RecheckClient(w) \/ CodesExhausted(w) \/ PresentCode(w) \/ Redeem(w) \/ LoadUser(w)
             \/ ReadGlobals(w) \/ ReadExplicit(w) \/ Fail(w) \/ \E c \in Codes : IssueCode(w, c)
    <2>1. \/ Finish(w) /\ UNCHANGED session
          \/ /\ \E step \in Steps \ {"record"} : Goto(w, step)
             /\ UNCHANGED session
             /\ \A v \in Workers \ {w} : req'[v] = req[v]
      BY <1>4 DEF RecheckClient, CodesExhausted, PresentCode, Redeem, LoadUser, ReadGlobals,
                  ReadExplicit, Fail, IssueCode, Steps, Shape, TypeOK
    <2> QED
      BY <1>1, <1>2, <2>1
  <1>5. CASE ReadMapped(w)
    <2>1. CASE ~IsProvisioned(ResolvedAccess(w))
      BY <1>1, <1>5, <2>1 DEF ReadMapped
    <2>2. CASE IsProvisioned(ResolvedAccess(w))
      <3>1. req[w].user \in Users /\ req[w].app \in Apps /\ req[w].explicit \in SUBSET Roles
        BY <1>5, <1>a DEF ReadMapped, Shape, RequestShape, InTransaction, Request
      <3>2. MappedTo(req[w].user, req[w].app) \in SUBSET Roles
        BY <3>1, MappedType DEF Shape
      <3>3. Carries(ResolvedAccess(w), req[w].app)
        BY <2>2, <3>1, <3>2, PolicyCarries DEF ResolvedAccess
      <3>4. /\ req' = [req EXCEPT ![w].access = ResolvedAccess(w)]
            /\ \A v \in Workers \ {w} : pc'[v] = pc[v]
            /\ UNCHANGED session
        BY <1>5, <2>2 DEF ReadMapped, Goto, Shape, TypeOK
      <3>5. /\ req'[w] = [req[w] EXCEPT !.access = ResolvedAccess(w)]
            /\ \A v \in Workers \ {w} : req'[v] = req[v]
        BY <3>4 DEF Shape, TypeOK
      <3>6. req'[w].access = ResolvedAccess(w) /\ req'[w].app = req[w].app
        BY <1>a, <3>5 DEF Request
      <3>7. \A v \in Workers : pc'[v] = "record" => Carries(req'[v].access, req'[v].app)
        BY <3>3, <3>4, <3>5, <3>6 DEF CarryInv
      <3>8. TokenCarriesAccess'
        BY <3>4 DEF CarryInv, TokenCarriesAccess
      <3> QED
        BY <3>7, <3>8 DEF CarryInv, Carries
    <2> QED
      BY <2>1, <2>2
  <1>6. ASSUME NEW j \in Sessions, RecordSession(w, j)
        PROVE  CarryInv'
    <2>1. /\ session'[j].roles = req[w].access.roles
          /\ session'[j].migration = req[w].access.migration
          /\ session'[j].app = req[w].app
          /\ \A i \in Sessions \ {j} : session'[i] = session[i]
      BY <1>6 DEF RecordSession, Shape, TypeOK
    <2>2. Carries(req[w].access, req[w].app)
      BY <1>6 DEF RecordSession, CarryInv
    <2>3. TokenCarriesAccess'
      BY <2>1, <2>2 DEF CarryInv, TokenCarriesAccess, Carries
    <2>4. \A v \in Workers : pc'[v] = "record" => v # w /\ pc[v] = "record" /\ req'[v] = req[v]
      BY <1>6, FinishType DEF RecordSession
    <2> QED
      BY <2>3, <2>4 DEF CarryInv, Carries
  <1> QED
    BY <1>3, <1>4, <1>5, <1>6 DEF WorkerStep

\* Nothing else touches what a token carries (Commit, Administration, Time).
LEMMA CarryOther ==
    ASSUME Shape, CarryInv,
           \/ \E m \in Revokers : StartRevoking(m) \/ Commit(m) \/ Rollback(m)
           \/ Administration
           \/ Time
    PROVE  CarryInv'
  <1>1. /\ UNCHANGED pc
        /\ \A w \in Workers : req'[w].access = req[w].access /\ req'[w].app = req[w].app
    <2>1. ASSUME NEW m \in Revokers, Commit(m)
          PROVE  <1>1!:
      BY <2>1 DEF Commit, Shape, TypeOK, Request
    <2>2. ASSUME NEW m \in Revokers, StartRevoking(m) \/ Rollback(m)
          PROVE  UNCHANGED <<pc, req>>
      BY <2>2 DEF StartRevoking, Rollback, Begin, DisableUser, Logout, BulkDisable,
                  DeleteUsers, CloseApp, UnassignRole, RetireRole, DeleteRole
    <2>3. CASE Administration \/ Time
      BY <2>3 DEF Administration, EnableUser, OpenApp, AssignRole, SetGlobalRoles, Remap, Time,
                  ExpireCode, ExpireSession
    <2> QED
      BY <2>1, <2>2, <2>3
  <1>2. \A j \in Sessions : session'[j].state # "none" =>
               /\ session[j].state # "none"
               /\ session'[j].roles = session[j].roles
               /\ session'[j].migration = session[j].migration
               /\ session'[j].app = session[j].app
    <2>1. ASSUME NEW m \in Revokers, Commit(m)
          PROVE  <1>2!:
      <3>1. \A j \in Sessions : session'[j] = RevokedBy(tx[m], j) /\ session[j] \in SessionRow
        BY <2>1 DEF Commit, Shape, TypeOK
      <3> QED
        BY <3>1 DEF RevokedBy, SessionRow
    <2>2. ASSUME NEW m \in Revokers, StartRevoking(m) \/ Rollback(m)
          PROVE  UNCHANGED session
      BY <2>2 DEF StartRevoking, Rollback, Begin, DisableUser, Logout, BulkDisable,
                  DeleteUsers, CloseApp, UnassignRole, RetireRole, DeleteRole
    <2>3. CASE Administration \/ \E c \in Codes : ExpireCode(c)
      BY <2>3 DEF Administration, EnableUser, OpenApp, AssignRole, SetGlobalRoles, Remap, ExpireCode
    <2>4. ASSUME NEW i \in Sessions, ExpireSession(i)
          PROVE  <1>2!:
      BY <2>4 DEF ExpireSession, Shape, TypeOK, SessionRow
    <2> QED
      BY <2>1, <2>2, <2>3, <2>4 DEF Time
  <1> QED
    BY <1>1, <1>2, CarryFrame

\* What tokens carry is inductive, given shapes (Next).
LEMMA CarryStep == Shape /\ CarryInv /\ [Next]_vars => CarryInv'
  <1> SUFFICES ASSUME Shape, CarryInv, [Next]_vars
               PROVE  CarryInv'
    OBVIOUS
  <1>1. CASE UNCHANGED vars
    BY <1>1, CarryFrame DEF vars
  <1> QED
    BY <1>1, CarryWorker, CarryOther DEF Next

\* No token is there at first (Init).
LEMMA CarryInit == Init => CarryInv
  BY DEF Init, CarryInv, TokenCarriesAccess, NoSession

\* A token carries roles or the migration flag, never both and never neither, the
\* flag only where the app allows it, and one role in a single-role app
\* (TokenCarriesAccess).
THEOREM TokensCarryAccess == Spec => []TokenCarriesAccess
  <1>1. CarryInv => TokenCarriesAccess
    BY DEF CarryInv
  <1> QED
    BY <1>1, CarryInit, CarryStep, ShapeCorrect, PTL DEF Spec

-----------------------------------------------------------------------------
(* An introspection writes nothing, so what is proved of SsoHandoff holds     *)
(* here.                                                                      *)

\* Every step beside introspections is a step of the handoff (Introspect).
LEMMA HandoffSimulation == [IntrospectionNext]_introspectionVars => [Next]_vars
  BY DEF IntrospectionNext, introspectionVars

\* Introspection is a refinement of the handoff (IntrospectionSpec).
THEOREM IntrospectionKeepsHandoff == IntrospectionSpec => Spec
  <1>1. IntrospectionInit => Init
    BY DEF IntrospectionInit
  <1> QED
    BY <1>1, HandoffSimulation, PTL DEF IntrospectionSpec, Spec

\* Shapes and what tokens carry hold beside introspections (Shape, CarryInv).
LEMMA HandoffBeside == IntrospectionSpec => [](Shape /\ GrantInv /\ CarryInv)
  BY IntrospectionKeepsHandoff, ShapeCorrect, GrantCorrect, CarryInit, CarryStep, PTL DEF Spec

\* A live session is of a user, app and role that are current, but for those that
\* a revocation could not see, beside introspections too (LiveSessionIsCurrent).
THEOREM LiveSessionsBesideIntrospection == IntrospectionSpec => []LiveSessionIsCurrent
  BY IntrospectionKeepsHandoff, RevocationIsComplete, PTL

\* A token carries roles or the migration flag beside introspections too
\* (TokenCarriesAccess).
THEOREM TokensBesideIntrospection == IntrospectionSpec => []TokenCarriesAccess
  BY IntrospectionKeepsHandoff, TokensCarryAccess, PTL

-----------------------------------------------------------------------------
(* A row of app_sessions keeps what its token says.                           *)

Stays(j) ==
    session[j].state # "none" =>
        /\ session'[j].state # "none"
        /\ session'[j].state = "live" => session[j].state = "live"
        /\ session'[j].user = session[j].user
        /\ session'[j].app = session[j].app
        /\ session'[j].code = session[j].code
        /\ session'[j].roles = session[j].roles
        /\ session'[j].migration = session[j].migration

\* No step of a request, of a transaction or of time rewrites a token (Next).
LEMMA SessionsStay ==
    ASSUME Shape, [Next]_vars, NEW j \in Sessions
    PROVE  Stays(j)
  <1>1. CASE UNCHANGED session
    BY <1>1 DEF Stays
  <1>2. ASSUME NEW w \in Workers, NEW i \in Sessions, RecordSession(w, i)
        PROVE  Stays(j)
    BY <1>2 DEF RecordSession, Stays, Shape, TypeOK
  <1>3. ASSUME NEW w \in Workers, StartRequest(w) \/ WorkerStep(w) \/ Fail(w)
        PROVE  Stays(j)
    <2>1. UNCHANGED session \/ \E i \in Sessions : RecordSession(w, i)
      BY <1>3 DEF StartRequest, StartAuthorize, ResumeAuthorize, StartExchange, WorkerStep,
                  RecheckClient, CodesExhausted, PresentCode, Redeem, LoadUser, ReadGlobals,
                  ReadExplicit, ReadMapped, IssueCode, Fail
    <2> QED
      BY <1>1, <1>2, <2>1
  <1>4. ASSUME NEW m \in Revokers, Commit(m)
        PROVE  Stays(j)
    <2>1. session'[j] = RevokedBy(tx[m], j) /\ session[j] \in SessionRow
      BY <1>4 DEF Commit, Shape, TypeOK
    <2> QED
      BY <2>1 DEF RevokedBy, SessionRow, Stays
  <1>5. ASSUME NEW m \in Revokers, StartRevoking(m) \/ Rollback(m)
        PROVE  UNCHANGED session
    BY <1>5 DEF StartRevoking, Rollback, Begin, DisableUser, Logout, BulkDisable,
                DeleteUsers, CloseApp, UnassignRole, RetireRole, DeleteRole
  <1>6. CASE Administration \/ \E c \in Codes : ExpireCode(c)
    BY <1>1, <1>6 DEF Administration, EnableUser, OpenApp, AssignRole, SetGlobalRoles, Remap,
                      ExpireCode
  <1>7. ASSUME NEW i \in Sessions, ExpireSession(i)
        PROVE  Stays(j)
    BY <1>7 DEF ExpireSession, Stays, Shape, TypeOK, SessionRow
  <1>8. CASE UNCHANGED vars
    BY <1>1, <1>8 DEF vars
  <1> QED
    BY <1>1, <1>3, <1>4, <1>5, <1>6, <1>7, <1>8 DEF Next, Time

\* A session that was revoked or has lapsed never comes back to life, and a session
\* stays the one of its user, app and code, with the roles its token carries,
\* whatever exchanges, revocations and failures go on (RecordSession, Commit,
\* ExpireSession).
THEOREM RevocationIsFinal ==
    Spec => [][\A j \in Sessions :
                  session[j].state # "none" =>
                      /\ session'[j].state # "none"
                      /\ session'[j].state = "live" => session[j].state = "live"
                      /\ session'[j].user = session[j].user
                      /\ session'[j].app = session[j].app
                      /\ session'[j].code = session[j].code
                      /\ session'[j].roles = session[j].roles
                      /\ session'[j].migration = session[j].migration]_vars
  <1> DEFINE Final == \A j \in Sessions :
                 session[j].state # "none" =>
                     /\ session'[j].state # "none"
                     /\ session'[j].state = "live" => session[j].state = "live"
                     /\ session'[j].user = session[j].user
                     /\ session'[j].app = session[j].app
                     /\ session'[j].code = session[j].code
                     /\ session'[j].roles = session[j].roles
                     /\ session'[j].migration = session[j].migration
  <1>1. Shape /\ [Next]_vars => [Final]_vars
    BY SessionsStay DEF Stays
  <1> QED
    BY <1>1, ShapeCorrect, PTL DEF Spec

-----------------------------------------------------------------------------
(* What an introspection has found out by the step it is at: a reason that it *)
(* has looked for, and did not find, is no longer one that held throughout.   *)

Shut(G) == G = {} \/ Guest \in G

\* Explicit roles that the token of a session would be resolved from.
Backs(E, row) == IF row.migration THEN E = {} ELSE row.roles \subseteq E

Known(p) ==
    LET r == probe[p] IN
    /\ r.step # "idle" => r.session \in Sessions /\ session[r.session].state # "none"
    /\ r.step \in {"user", "globals", "explicit", "mapped"} => "session" \notin bars[p]
    /\ r.step \in {"globals", "explicit", "mapped"} => "user" \notin bars[p]
    /\ r.step \in {"explicit", "mapped"} /\ ~Shut(r.globals) => "guest" \notin bars[p]
    /\ r.step = "mapped" /\ Backs(r.explicit, session[r.session]) => "roles" \notin bars[p]
    /\ r.step = "active" => bars[p] = {}

\* The inductive invariant of the introspections, beside that of the handoff.
ProbeInv ==
    /\ probe \in [Probes -> Probe]
    /\ bars \in [Probes -> SUBSET Reasons]
    /\ \A p \in Probes : Known(p)

\* The history never gains a reason while an introspection stands or goes on
\* (TrackBars).
LEMMA BarsShrink ==
    ASSUME ProbeInv, TrackBars, NEW p \in Probes,
           probe'[p] = probe[p] \/ (Running(p) /\ probe'[p].session = probe[p].session)
    PROVE  /\ bars'[p] \subseteq bars[p]
           /\ Running(p) => bars'[p] \subseteq BarsOf(probe[p].session)'
  <1>1. Running(p) => probe[p].session # None
    BY SsoHandoffAssumption DEF ProbeInv, Known, Running
  <1>2. bars'[p] = LET j == probe'[p].session IN
                   IF j = None THEN {}
                   ELSE IF ~Running(p) /\ Running(p)' THEN BarsOf(j)
                   ELSE IF Running(p) THEN bars[p] \cap BarsOf(probe[p].session)'
                   ELSE IF probe'[p] = probe[p] THEN bars[p] ELSE {}
    BY DEF TrackBars
  <1>3. CASE Running(p)
    BY <1>1, <1>2, <1>3
  <1>4. CASE ~Running(p)
    <2>1. probe'[p] = probe[p] /\ ~Running(p)'
      BY <1>4 DEF Running
    <2> QED
      BY <1>2, <1>4, <2>1
  <1> QED
    BY <1>3, <1>4

\* An introspection that does not move knows what it knew (Next).
LEMMA KnownKept ==
    ASSUME Shape, ProbeInv, TrackBars, [Next]_vars, NEW p \in Probes, probe'[p] = probe[p]
    PROVE  Known(p)'
  <1>1. Known(p) /\ bars'[p] \subseteq bars[p]
    BY BarsShrink DEF ProbeInv
  <1>2. probe[p].step # "idle" => Stays(probe[p].session)
    BY <1>1, SessionsStay DEF Known
  <1>3. probe[p].step = "mapped" =>
            (Backs(probe'[p].explicit, session'[probe'[p].session]) <=>
                 Backs(probe[p].explicit, session[probe[p].session]))
    BY <1>1, <1>2 DEF Backs, Stays, Known
  <1> QED
    BY <1>1, <1>2, <1>3 DEF Known, Stays, Backs

\* The history is one of reasons (TrackBars).
LEMMA BarsType == ProbeInv /\ TrackBars => bars' \in [Probes -> SUBSET Reasons]
  BY DEF ProbeInv, TrackBars, BarsOf

\* A yes is given when the access resolved is the token's: its user was no guest
\* when the global roles were read, and held the roles, or none for a migration,
\* when the explicit roles were read, or the mapped ones now.
LEMMA YesIsBacked ==
    ASSUME NEW G, NEW E, NEW M, NEW card, NEW mig, NEW row,
           ResolveAppAccess(G, E, M, card, mig) = [roles |-> row.roles, migration |-> row.migration],
           row.migration \in BOOLEAN, row.migration <=> row.roles = {}
    PROVE  /\ ~Shut(G)
           /\ Backs(E, row) \/ (~row.migration /\ row.roles \subseteq M)
  <1> DEFINE answer == ResolveAppAccess(G, E, M, card, mig)
  <1>1. answer.roles = row.roles /\ answer.migration = row.migration
    OBVIOUS
  <1>2. answer # NoAccess
    BY <1>1 DEF NoAccess
  <1>3. ~Shut(G)
    BY <1>2 DEF ResolveAppAccess, Shut
  <1>4. CASE E # {}
    <2>1. answer = [roles |-> E, migration |-> FALSE]
      BY <1>2, <1>3, <1>4 DEF ResolveAppAccess, GrantRoles, Shut
    <2> QED
      BY <1>1, <1>3, <2>1 DEF Backs
  <1>5. CASE E = {} /\ M # {}
    <2>1. answer = [roles |-> M, migration |-> FALSE]
      BY <1>2, <1>3, <1>5 DEF ResolveAppAccess, GrantRoles, Shut
    <2> QED
      BY <1>1, <1>3, <2>1
  <1>6. CASE E = {} /\ M = {}
    <2>1. answer = [roles |-> {}, migration |-> mig]
      BY <1>3, <1>6 DEF ResolveAppAccess, Shut
    <2> QED
      BY <1>1, <1>3, <1>6, <2>1 DEF Backs
  <1> QED
    BY <1>4, <1>5, <1>6

\* An introspection begins (StartIntrospect).
LEMMA StartStep ==
    ASSUME ProbeInv, NEW p \in Probes, NEW j \in Sessions, NEW a \in Apps,
           StartIntrospect(p, j, a), UNCHANGED vars
    PROVE  probe'[p] \in Probe /\ Known(p)'
  <1>1. probe'[p] = [NoProbe EXCEPT
                        !.session = j,
                        !.step = IF session[j].app = a /\ session[j].state # "lapsed"
                                 THEN "session" ELSE "inactive"]
    BY DEF StartIntrospect, ProbeInv
  <1>2. /\ probe'[p].session = j
        /\ probe'[p].step \in {"session", "inactive"}
        /\ probe'[p] \in Probe
    BY <1>1 DEF NoProbe, Probe, ProbeSteps
  <1>3. session'[j].state # "none"
    BY DEF StartIntrospect, vars
  <1> QED
    BY <1>2, <1>3 DEF Known

\* An introspection ends: with a yes only when every reason has failed (Answer).
LEMMA AnswerStep ==
    ASSUME ProbeInv, TrackBars, NEW p \in Probes, NEW yes \in BOOLEAN, Running(p),
           Answer(p, yes), UNCHANGED vars,
           yes => bars'[p] = {}
    PROVE  probe'[p] \in Probe /\ Known(p)'
  <1>1. probe'[p] = [NoProbe EXCEPT !.step = IF yes THEN "active" ELSE "inactive",
                                    !.session = probe[p].session]
    BY DEF Answer, ProbeInv
  <1>2. probe[p].session \in Sessions /\ session'[probe[p].session].state # "none"
    BY DEF ProbeInv, Known, Running, vars
  <1>3. /\ probe'[p].session = probe[p].session
        /\ probe'[p].step = IF yes THEN "active" ELSE "inactive"
        /\ probe'[p] \in Probe
    BY <1>1, <1>2 DEF NoProbe, Probe, ProbeSteps
  <1> QED
    BY <1>2, <1>3 DEF Known

\* An introspection goes on or answers, with what it has just read (Introspect).
LEMMA ProbeStep ==
    ASSUME Shape, GrantInv, CarryInv, ProbeInv, TrackBars, NEW p \in Probes,
           CheckSession(p) \/ CheckUser(p) \/ ProbeGlobals(p) \/ ProbeExplicit(p)
               \/ CompareAccess(p),
           UNCHANGED vars
    PROVE  probe'[p] \in Probe /\ Known(p)'
  <1>1. PICK r \in Probe : r = probe[p]
    BY DEF ProbeInv
  <1>2. PICK row : row = session[r.session]
    OBVIOUS
  <1>3. /\ Running(p) /\ Known(p) /\ r.step # "idle"
        /\ r.session \in Sessions /\ row.state # "none"
    BY <1>1, <1>2 DEF ProbeInv, Known, Running, CheckSession, CheckUser, ProbeGlobals,
                      ProbeExplicit, CompareAccess
  <1>4. row \in SessionRow /\ row.user \in Users /\ row.app \in Apps
    BY <1>2, <1>3, SessionShape DEF Shape, TypeOK
  <1>5. row.migration \in BOOLEAN /\ (row.migration <=> row.roles = {})
    BY <1>2, <1>3, <1>4 DEF CarryInv, TokenCarriesAccess, SessionRow
  <1>6. /\ globals[row.user] \in SUBSET GlobalRoles
        /\ RolesOf(row.user, row.app) \in SUBSET Roles
    BY <1>4 DEF Shape, TypeOK, RolesOf
  <1>7. session'[r.session] = row
    BY <1>2 DEF vars
  <1>8. ASSUME probe'[p].session = r.session
        PROVE  bars'[p] \subseteq bars[p] /\ bars'[p] \subseteq BarsOf(r.session)
    <2>1. bars'[p] \subseteq bars[p] /\ bars'[p] \subseteq BarsOf(probe[p].session)'
      BY <1>1, <1>3, <1>8, BarsShrink
    <2>2. BarsOf(probe[p].session)' = BarsOf(r.session)
      BY <1>8 DEF BarsOf, HoldsTokenRoles, RolesOf, MappedTo, vars
    <2> QED
      BY <2>1, <2>2
  <1>9. ASSUME NEW yes \in BOOLEAN, Answer(p, yes)
        PROVE  probe'[p].session = r.session
    BY <1>1, <1>9 DEF Answer, ProbeInv, NoProbe
  <1>10. CASE CheckSession(p)
    <2>1. CASE row.state = "live" /\ Advance(p, "user")
      <3>1. probe'[p] = [r EXCEPT !.step = "user"]
        BY <1>1, <2>1 DEF Advance, ProbeInv
      <3>2. probe'[p] \in Probe /\ probe'[p].step = "user" /\ probe'[p].session = r.session
        BY <3>1 DEF Probe, ProbeSteps
      <3>3. "session" \notin bars'[p]
        BY <1>2, <1>8, <2>1, <3>2 DEF BarsOf
      <3> QED
        BY <1>3, <1>7, <3>2, <3>3 DEF Known
    <2> QED
      BY <1>1, <1>2, <1>3, <1>10, <2>1, AnswerStep DEF CheckSession, Row
  <1>11. CASE CheckUser(p)
    <2>1. CASE account[row.user] = "active" /\ Advance(p, "globals")
      <3>1. probe'[p] = [r EXCEPT !.step = "globals"]
        BY <1>1, <2>1 DEF Advance, ProbeInv
      <3>2. probe'[p] \in Probe /\ probe'[p].step = "globals" /\ probe'[p].session = r.session
        BY <3>1 DEF Probe, ProbeSteps
      <3>3. "user" \notin bars'[p]
        BY <1>2, <1>8, <2>1, <3>2 DEF BarsOf
      <3>4. "session" \notin bars'[p]
        BY <1>1, <1>3, <1>8, <1>11, <3>2 DEF Known, CheckUser
      <3> QED
        BY <1>3, <1>7, <3>2, <3>3, <3>4 DEF Known
    <2> QED
      BY <1>1, <1>2, <1>3, <1>11, <2>1, AnswerStep DEF CheckUser, Row
  <1>12. CASE ProbeGlobals(p)
    <2>1. probe'[p] = [r EXCEPT !.step = "explicit", !.globals = globals[row.user]]
      BY <1>1, <1>2, <1>12 DEF ProbeGlobals, ProbeInv, Row
    <2>2. /\ probe'[p] \in Probe /\ probe'[p].step = "explicit"
          /\ probe'[p].session = r.session /\ probe'[p].globals = globals[row.user]
      BY <1>6, <2>1 DEF Probe, ProbeSteps
    <2>3. ~Shut(globals[row.user]) => "guest" \notin bars'[p]
      BY <1>2, <1>8, <2>2 DEF BarsOf, Shut
    <2>4. "session" \notin bars'[p] /\ "user" \notin bars'[p]
      BY <1>1, <1>3, <1>8, <1>12, <2>2 DEF Known, ProbeGlobals
    <2> QED
      BY <1>3, <1>7, <2>2, <2>3, <2>4 DEF Known
  <1>13. CASE ProbeExplicit(p)
    <2>1. probe'[p] = [r EXCEPT !.step = "mapped", !.explicit = RolesOf(row.user, row.app)]
      BY <1>1, <1>2, <1>13 DEF ProbeExplicit, ProbeInv, Row
    <2>2. /\ probe'[p] \in Probe /\ probe'[p].step = "mapped"
          /\ probe'[p].session = r.session /\ probe'[p].globals = r.globals
          /\ probe'[p].explicit = RolesOf(row.user, row.app)
      BY <1>6, <2>1 DEF Probe, ProbeSteps
    <2>3. Backs(RolesOf(row.user, row.app), row) => "roles" \notin bars'[p]
      BY <1>2, <1>8, <2>2 DEF BarsOf, HoldsTokenRoles, Backs
    <2>4. /\ "session" \notin bars'[p] /\ "user" \notin bars'[p]
          /\ ~Shut(r.globals) => "guest" \notin bars'[p]
      BY <1>1, <1>3, <1>8, <1>13, <2>2 DEF Known, ProbeExplicit
    <2> QED
      BY <1>3, <1>7, <2>2, <2>3, <2>4 DEF Known
  <1>14. CASE CompareAccess(p)
    <2>1. PICK yes \in BOOLEAN :
              /\ Answer(p, yes)
              /\ yes <=> ResolveAppAccess(r.globals, r.explicit, MappedTo(row.user, row.app),
                             RoleCardinality[row.app], MigrationEnabled[row.app])
                         = [roles |-> row.roles, migration |-> row.migration]
      BY <1>1, <1>2, <1>14 DEF CompareAccess, AccessSeen, Row
    <2>2. ASSUME yes
          PROVE  bars'[p] = {}
      <3>1. ~Shut(r.globals) /\ (Backs(r.explicit, row)
                                 \/ (~row.migration /\ row.roles \subseteq MappedTo(row.user, row.app)))
        BY <1>5, <2>1, <2>2, YesIsBacked
      <3>2. bars'[p] \subseteq bars[p] /\ bars'[p] \subseteq BarsOf(r.session)
        BY <1>8, <1>9, <2>1
      <3>3. "session" \notin bars[p] /\ "user" \notin bars[p] /\ "guest" \notin bars[p]
        BY <1>1, <1>3, <1>14, <3>1 DEF Known, CompareAccess
      <3>4. Backs(r.explicit, row) => "roles" \notin bars[p]
        BY <1>1, <1>2, <1>3, <1>14 DEF Known, CompareAccess
      <3>5. ~row.migration /\ row.roles \subseteq MappedTo(row.user, row.app) =>
                "roles" \notin BarsOf(r.session)
        BY <1>2 DEF BarsOf, HoldsTokenRoles
      <3>6. bars[p] \in SUBSET Reasons
        BY DEF ProbeInv
      <3> QED
        BY <3>1, <3>2, <3>3, <3>4, <3>5, <3>6 DEF Reasons
    <2> QED
      BY <1>3, <2>1, <2>2, AnswerStep
  <1> QED
    BY <1>10, <1>11, <1>12, <1>13, <1>14

\* What introspections know is inductive (IntrospectionNext).
LEMMA ProbeInvStep ==
    Shape /\ GrantInv /\ CarryInv /\ ProbeInv /\ [IntrospectionNext]_introspectionVars => ProbeInv'
  <1> SUFFICES ASSUME Shape, GrantInv, CarryInv, ProbeInv,
                      [IntrospectionNext]_introspectionVars
               PROVE  ProbeInv'
    OBVIOUS
  <1>1. [Next]_vars
    BY HandoffSimulation
  <1>2. CASE UNCHANGED introspectionVars
    BY <1>2 DEF introspectionVars, vars, ProbeInv, Known
  <1>3. CASE UNCHANGED probe /\ TrackBars
    BY <1>1, <1>3, KnownKept, BarsType DEF ProbeInv
  <1>4. ASSUME NEW p \in Probes, Introspect(p), UNCHANGED vars, TrackBars
        PROVE  ProbeInv'
    <2>1. probe'[p] \in Probe /\ Known(p)'
      BY <1>4, StartStep, ProbeStep DEF Introspect
    <2>2. probe' = [probe EXCEPT ![p] = probe'[p]]
      BY <1>4 DEF Introspect, StartIntrospect, CheckSession, CheckUser, ProbeGlobals,
                  ProbeExplicit, CompareAccess, Advance, Answer, ProbeInv
    <2>3. \A q \in Probes \ {p} : probe'[q] = probe[q]
      BY <2>2 DEF ProbeInv
    <2>4. \A q \in Probes \ {p} : Known(q)'
      BY <1>1, <1>4, <2>3, KnownKept
    <2>5. probe' \in [Probes -> Probe]
      BY <2>1, <2>2 DEF ProbeInv
    <2> QED
      BY <1>4, <2>1, <2>4, <2>5, BarsType DEF ProbeInv
  <1> QED
    BY <1>2, <1>3, <1>4 DEF IntrospectionNext

\* No introspection is running at first (IntrospectionInit).
LEMMA ProbeInvInit == IntrospectionInit => ProbeInv
  BY DEF IntrospectionInit, ProbeInv, Known, NoProbe, Probe, ProbeSteps

\* What introspections know holds in every reachable state (ProbeInv).
LEMMA ProbeInvariant == IntrospectionSpec => []ProbeInv
  BY ProbeInvInit, ProbeInvStep, HandoffBeside, PTL DEF IntrospectionSpec

\* Introspections and the handoff below them keep their types (IntrospectionTypeOK).
THEOREM IntrospectionTypeCorrect == IntrospectionSpec => []IntrospectionTypeOK
  <1>1. Shape /\ ProbeInv => IntrospectionTypeOK
    BY DEF Shape, ProbeInv, IntrospectionTypeOK
  <1> QED
    BY <1>1, ProbeInvariant, HandoffBeside, PTL

\* No introspection answers "active" for a token against which the same reason has
\* spoken from its start to its answer (NoActiveAnswerWhileBarred).
THEOREM BarredTokensAreInactive == IntrospectionSpec => []NoActiveAnswerWhileBarred
  <1>1. ProbeInv => NoActiveAnswerWhileBarred
    BY DEF ProbeInv, Known, NoActiveAnswerWhileBarred
  <1> QED
    BY <1>1, ProbeInvariant, PTL
=============================================================================
