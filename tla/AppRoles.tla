------------------------------ MODULE AppRoles ------------------------------
(* The role catalogue of one SSO app and the assignments made from it.  The   *)
(* app declares its catalogue, administrators create, delete, assign and      *)
(* unassign roles, and the app's backend adopts a legacy role for a user who  *)
(* is being migrated.  Each request is a transaction at READ COMMITTED that   *)
(* reads in statements of their own what its last statements rely on; the     *)
(* writes of a transaction are one step, taken when it commits.               *)
CONSTANTS
    Users, Roles,
    Requests,      \* transactions in flight
    Policies,      \* bound: the cardinalities that update_policy sets
    Catalogues,    \* bound: the sets of roles that the app declares
    Groups,        \* bound: the sets of users that bulk requests name
    Operations     \* bound: the operations requested

AllOperations == {"create", "sync", "delete", "assign", "bulk", "unassign", "adopt"}

ASSUME AppRolesAssumption ==
    /\ Policies \subseteq {"single", "multiple"}
    /\ Policies # {}
    /\ Catalogues \subseteq SUBSET Roles
    /\ Groups \subseteq SUBSET Users
    /\ Operations \subseteq AllOperations

VARIABLES
    role,        \* roles of the app, by name
    assigned,    \* user_app_roles, per user, of active and inactive roles
    migrating,   \* the users with a live app session of a migration token
    cardinality, \* App.role_cardinality
    req          \* per request: its transaction

vars == <<role, assigned, migrating, cardinality, req>>

Role == [state: {"none", "active", "inactive"}, managed: BOOLEAN]

NoRole == [state |-> "none", managed |-> FALSE]

Steps == {"idle", "lookup", "create", "read", "write", "holders", "remove", "drop",
          "resolve", "current", "existing", "conflict", "insert", "unassign", "revoke"}

\* "role" and "users" are what the request is about, "declared" the catalogue of a
\* sync, "single" the cardinality the app had when it was loaded, "seen" the roles a
\* sync has read, "found" the holders and "removed" the rows of a deletion.
\* "alone" is history: no other request has run beside this one.
Request == [step: Steps, op: AllOperations \cup {"none"}, role: SUBSET Roles,
            users: SUBSET Users, declared: SUBSET Roles, single: BOOLEAN,
            seen: [Roles -> Role], found: SUBSET Users, removed: SUBSET Users,
            alone: BOOLEAN]

NoRequest == [step |-> "idle", op |-> "none", role |-> {}, users |-> {}, declared |-> {},
              single |-> FALSE, seen |-> [r \in Roles |-> NoRole], found |-> {},
              removed |-> {}, alone |-> FALSE]

\* The rows and the requests in flight have the shape of the tables and handlers; a
\* role is absent, active or inactive, whatever a sync or a deletion leaves of it.
TypeOK ==
    /\ role \in [Roles -> Role]
    /\ assigned \in [Users -> SUBSET Roles]
    /\ migrating \in SUBSET Users
    /\ cardinality \in {"single", "multiple"}
    /\ req \in [Requests -> Request]

Init ==
    /\ role = [r \in Roles |-> NoRole]
    /\ assigned = [u \in Users |-> {}]
    /\ migrating = {}
    /\ cardinality \in Policies
    /\ req = [t \in Requests |-> NoRequest]

-----------------------------------------------------------------------------

tables == <<role, assigned, migrating, cardinality>>

Active(r) == role[r].state = "active"

\* What list_roles_for_user_in_app returns.
ActiveRoles(u) == {r \in assigned[u] : Active(r)}

Running(t) == req[t].step # "idle"

Goto(t, step) == req' = [req EXCEPT ![t].step = step]

End(t) == req' = [req EXCEPT ![t] = NoRequest]

\* A request goes on when ok, and is refused otherwise.
Proceed(t, ok, step) == IF ok THEN Goto(t, step) ELSE End(t)

FirstStep(op) ==
    CASE op \in {"create", "delete", "assign", "bulk", "unassign"} -> "lookup"
      [] op = "sync"                                               -> "read"
      [] op = "adopt"                                              -> "resolve"

\* The app's row is loaded as the request begins.
Begin(t, op, R, US, D) ==
    /\ ~Running(t)
    /\ req' = [s \in Requests |->
           IF s = t THEN [NoRequest EXCEPT !.step = FirstStep(op), !.op = op, !.role = R,
                              !.users = US, !.declared = D,
                              !.single = cardinality = "single",
                              !.alone = \A q \in Requests : ~Running(q)]
           ELSE IF Running(s) THEN [req[s] EXCEPT !.alone = FALSE] ELSE req[s]]
    /\ UNCHANGED tables

Call(t) ==
    \/ \E r \in Roles, op \in {"create", "delete"} \cap Operations : Begin(t, op, {r}, {}, {})
    \/ "sync" \in Operations /\ \E D \in Catalogues : Begin(t, "sync", {}, {}, D)
    \/ \E r \in Roles, u \in Users, op \in {"assign", "adopt"} \cap Operations :
           Begin(t, op, {r}, {u}, {})
    \/ \E r \in Roles, US \in Groups, op \in {"bulk", "unassign"} \cap Operations :
           Begin(t, op, {r}, US, {})

\* The request fails where it is, and its transaction is undone.
Fail(t) == Running(t) /\ End(t) /\ UNCHANGED tables

-----------------------------------------------------------------------------
(* The catalogue *)

\* get_by_app_and_name for a creation and an adoption, get_role_by_id, which finds
\* active roles only, for the rest.
Lookup(t) ==
    /\ req[t].step = "lookup"
    /\ \E r \in req[t].role :
          IF req[t].op = "create" THEN Proceed(t, role[r].state = "none", "create")
          ELSE Proceed(t, Active(r),
                       CASE req[t].op = "delete"             -> "holders"
                         [] req[t].op = "unassign"           -> "unassign"
                         [] req[t].op = "bulk"               -> "conflict"
                         [] req[t].op \in {"assign", "adopt"} -> "existing")
    /\ UNCHANGED tables

\* Unique names: the second of two creations fails.
Create(t) ==
    /\ req[t].step = "create"
    /\ role' = [r \in Roles |->
           IF r \in req[t].role /\ role[r].state = "none"
           THEN [state |-> "active", managed |-> FALSE] ELSE role[r]]
    /\ End(t)
    /\ UNCHANGED <<assigned, migrating, cardinality>>

ReadCatalogue(t) ==
    /\ req[t].step = "read"
    /\ req' = [req EXCEPT ![t].step = "write", ![t].seen = role]
    /\ UNCHANGED tables

Deactivated(t) ==
    {r \in Roles \ req[t].declared : req[t].seen[r] = [state |-> "active", managed |-> TRUE]}

\* Mutant: a declared role that is there is only marked as managed.
WrittenWithoutActivation(t, r) ==
    LET seen == req[t].seen[r] IN
    IF r \in Deactivated(t) THEN [role[r] EXCEPT !.state = "inactive"]
    ELSE IF r \notin req[t].declared THEN role[r]
    ELSE IF seen.state = "none" THEN [state |-> "active", managed |-> TRUE]
    ELSE [role[r] EXCEPT !.managed = IF seen.managed THEN @ ELSE TRUE]

\* A row as the sync leaves it: of a row that it has loaded, only the columns whose
\* value it changes are written.
Written(t, r) ==
    LET seen == req[t].seen[r] IN
    IF r \in Deactivated(t) THEN [role[r] EXCEPT !.state = "inactive"]
    ELSE IF r \notin req[t].declared THEN role[r]
    ELSE IF seen.state = "none" THEN [state |-> "active", managed |-> TRUE]
    ELSE [state   |-> IF seen.state = "active" THEN role[r].state ELSE "active",
          managed |-> IF seen.managed THEN role[r].managed ELSE TRUE]

\* The flush fails on a name that exists by now, and on a changed row that is gone.
Stale(t, r) ==
    LET seen == req[t].seen[r] IN
    \/ r \in req[t].declared /\ seen.state = "none" /\ role[r].state # "none"
    \/ /\ seen.state # "none"
       /\ role[r].state = "none"
       /\ \/ r \in Deactivated(t)
          \/ r \in req[t].declared /\ seen # [state |-> "active", managed |-> TRUE]

WriteCatalogue(t) ==
    /\ req[t].step = "write"
    /\ IF \E r \in Roles : Stale(t, r) THEN UNCHANGED <<role, migrating>>
       ELSE /\ role' = [r \in Roles |-> Written(t, r)]
            /\ migrating' = IF Deactivated(t) = {} THEN migrating ELSE {}
    /\ End(t)
    /\ UNCHANGED <<assigned, cardinality>>

\* Row locks: a deletion of r that has not ended has deleted the assignment of u.
Locked(t, u, r) ==
    \E s \in Requests \ {t} : req[s].step = "drop" /\ r \in req[s].role /\ u \in req[s].removed

ReadHolders(t) ==
    /\ req[t].step = "holders"
    /\ req' = [req EXCEPT ![t].step = "remove",
                          ![t].found = {u \in Users : req[t].role \subseteq assigned[u]}]
    /\ UNCHANGED tables

RemoveAssignments(t) ==
    LET holders == {u \in Users : req[t].role \subseteq assigned[u]} IN
    /\ req[t].step = "remove"
    /\ \A u \in holders, r \in req[t].role : ~Locked(t, u, r)
    /\ req' = [req EXCEPT ![t].step = "drop", ![t].removed = holders]
    /\ UNCHANGED tables

\* Mutant: the role is kept, in a state that nothing knows.
DropRoleSoftly(t) ==
    /\ req[t].step = "drop"
    /\ role' = [r \in Roles |->
           IF r \in req[t].role THEN [role[r] EXCEPT !.state = "deleted"] ELSE role[r]]
    /\ assigned' = [u \in Users |-> assigned[u] \ req[t].role]
    /\ End(t)
    /\ UNCHANGED <<migrating, cardinality>>

\* An assignment made since violates the foreign key to the role.
DropRole(t) ==
    LET holders == {u \in Users : req[t].role \subseteq assigned[u]} IN
    /\ req[t].step = "drop"
    /\ IF holders \subseteq req[t].removed
       THEN /\ role' = [r \in Roles |-> IF r \in req[t].role THEN NoRole ELSE role[r]]
            /\ assigned' = [u \in Users |-> assigned[u] \ req[t].role]
            /\ migrating' = migrating \ req[t].found
       ELSE UNCHANGED <<role, assigned, migrating>>
    /\ End(t)
    /\ UNCHANGED cardinality

-----------------------------------------------------------------------------
(* Assignments *)

\* Adoption: the session is live, and resolve_access answers with migration access,
\* which needs a user with no active role.  Users here have no mapped role and are
\* no guests, so that is all it needs.
Resolve(t) ==
    /\ req[t].step = "resolve"
    /\ Proceed(t, req[t].users \subseteq migrating /\ \A u \in req[t].users : ActiveRoles(u) = {},
               "current")
    /\ UNCHANGED tables

\* The roles are read again: the requested role alone ends the adoption.
ReadCurrent(t) ==
    /\ req[t].step = "current"
    /\ \E u \in req[t].users :
          IF ActiveRoles(u) = {} THEN Goto(t, "lookup")
          ELSE Proceed(t, ActiveRoles(u) = req[t].role, "revoke")
    /\ UNCHANGED tables

\* The assignment exists already: an adoption goes on to revoke.
Existing(t) ==
    /\ req[t].step = "existing"
    /\ \E u \in req[t].users :
          IF req[t].role \subseteq assigned[u]
          THEN Proceed(t, req[t].op = "adopt", "revoke")
          ELSE Goto(t, "conflict")
    /\ UNCHANGED tables

\* Mutant: assignments of inactive roles do not count.
ConflictingActive(t) == \E u \in req[t].users : ActiveRoles(u) \ req[t].role # {}

\* Assignments of inactive roles count.
Conflicting(t) == \E u \in req[t].users : assigned[u] \ req[t].role # {}

CheckConflict(t) ==
    /\ req[t].step = "conflict"
    /\ Proceed(t, req[t].single => ~Conflicting(t), "insert")
    /\ UNCHANGED tables

\* INSERT and commit.  It fails when the role is gone, and, but for a bulk request,
\* when the assignment is there by now.
Insert(t) ==
    LET fits == \A r \in req[t].role : role[r].state # "none"
        twice == \E u \in req[t].users : req[t].role \subseteq assigned[u]
    IN
    /\ req[t].step = "insert"
    /\ \A u \in req[t].users, r \in req[t].role : ~Locked(t, u, r)
    /\ IF fits /\ (req[t].op = "bulk" \/ ~twice)
       THEN /\ assigned' = [u \in Users |->
                  IF u \in req[t].users THEN assigned[u] \cup req[t].role ELSE assigned[u]]
            /\ Proceed(t, req[t].op = "adopt", "revoke")
       ELSE UNCHANGED assigned /\ End(t)
    /\ UNCHANGED <<role, migrating, cardinality>>

\* The adoption's second transaction.
Revoke(t) ==
    /\ req[t].step = "revoke"
    /\ migrating' = migrating \ req[t].users
    /\ End(t)
    /\ UNCHANGED <<role, assigned, cardinality>>

Unassign(t) ==
    /\ req[t].step = "unassign"
    /\ \A u \in req[t].users, r \in req[t].role : ~Locked(t, u, r)
    /\ assigned' = [u \in Users |->
           IF u \in req[t].users THEN assigned[u] \ req[t].role ELSE assigned[u]]
    /\ migrating' = migrating \ req[t].users
    /\ End(t)
    /\ UNCHANGED <<role, cardinality>>

-----------------------------------------------------------------------------

UpdatePolicy(policy) ==
    /\ cardinality' = policy
    /\ UNCHANGED <<role, assigned, migrating, req>>

\* A migration token is issued to a user with no active role.
IssueMigrationToken(u) ==
    /\ ActiveRoles(u) = {}
    /\ migrating' = migrating \cup {u}
    /\ UNCHANGED <<role, assigned, cardinality, req>>

Step(t) ==
    \/ Lookup(t)
    \/ Create(t)
    \/ ReadCatalogue(t)
    \/ WriteCatalogue(t)
    \/ ReadHolders(t)
    \/ RemoveAssignments(t)
    \/ DropRole(t)
    \/ Resolve(t)
    \/ ReadCurrent(t)
    \/ Existing(t)
    \/ CheckConflict(t)
    \/ Insert(t)
    \/ Revoke(t)
    \/ Unassign(t)

Next ==
    \/ \E t \in Requests : Call(t) \/ Step(t) \/ Fail(t)
    \/ \E policy \in Policies : UpdatePolicy(policy)
    \/ \E u \in Users : IssueMigrationToken(u)

Spec == Init /\ [][Next]_vars

-----------------------------------------------------------------------------

\* Whatever races have left behind, a sync that no request runs beside leaves the
\* declared roles active and managed and every other managed role inactive; roles
\* that administrators made, and all assignments, are as they were.
SoloSyncDeclares ==
    [][\A t \in Requests :
          req[t].alone /\ WriteCatalogue(t) =>
              /\ \A r \in req[t].declared : role'[r] = [state |-> "active", managed |-> TRUE]
              /\ \A r \in Roles \ req[t].declared :
                     /\ role'[r].managed => role'[r].state = "inactive"
                     /\ ~role[r].managed => role'[r] = role[r]
              /\ assigned' = assigned]_vars

\* An assignment in a single-role app that no request runs beside gives the role to
\* users who hold no other row, of an active or of a retired role: so nothing that
\* comes back later stands beside it.
SoloAssignmentsKeepOneRole ==
    [][\A t \in Requests :
          req[t].alone /\ req[t].single /\ Insert(t) =>
              \A u \in req[t].users : assigned'[u] \subseteq req[t].role]_vars
=============================================================================
