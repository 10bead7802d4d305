--------------------------- MODULE AppRolesProofs ---------------------------
(* Theorems of AppRoles for any number of users, roles and requests: a sync   *)
(* and an assignment that no request runs beside do what they should,         *)
(* whatever races have left in the tables.                                    *)
EXTENDS AppRoles, TLAPS

-----------------------------------------------------------------------------
(* Requests                                                                   *)

\* The record of a request that is over is one (End).
LEMMA NoRequestType == NoRequest \in Request
  BY DEF NoRequest, NoRole, Request, Role, Steps

\* A request that nothing runs beside is the only one.
Lone == \A t, q \in Requests : Running(t) /\ req[t].alone /\ Running(q) => q = t

\* A role that is not there is nobody's.
RowsInv == \A r \in Roles : role[r].state = "none" => ~role[r].managed

\* What a request that is alone has read is so still: the catalogue of a sync, and
\* that nobody it is about holds another role.
Current(r) ==
    /\ r.alone /\ r.step = "write" => r.seen = role
    /\ r.alone /\ r.step = "insert" /\ r.single =>
           \A u \in r.users : assigned[u] \subseteq r.role

\* A request is of a kind, and a sync does nothing but read and write the catalogue.
Proper(r) == r.op # "none" /\ (r.op = "sync" => r.step \in {"read", "write"})

\* The inductive invariant: the rows, and what the requests in flight know of them.
RolesInv ==
    /\ TypeOK
    /\ RowsInv
    /\ Lone
    /\ \A t \in Requests : Running(t) => Current(req[t]) /\ Proper(req[t])

-----------------------------------------------------------------------------
(* What a step makes of its request                                           *)

\* A request goes on, or ends, and nothing else does; what it knows, it knows now.
LEMMA Advance ==
    ASSUME RolesInv, NEW t \in Requests, Running(t), TypeOK', RowsInv',
           \A q \in Requests \ {t} : req'[q] = req[q],
           Running(t)' => /\ req'[t].alone = req[t].alone
                          /\ Current(req[t])'
                          /\ Proper(req[t])'
    PROVE  RolesInv'
  <1>1. Lone'
    BY DEF RolesInv, Lone, Running
  <1>2. ASSUME NEW q \in Requests, Running(q)'
        PROVE  Current(req[q])' /\ Proper(req[q])'
    <2>1. CASE q = t
      BY <1>2, <2>1
    <2>2. CASE q # t
      <3>1. req'[q] = req[q] /\ ~req'[q].alone /\ Proper(req[q])
        BY <1>2, <2>2 DEF RolesInv, Lone, Running
      <3>2. Proper(req[q])'
        BY <3>1 DEF Proper
      <3> QED
        BY <3>1, <3>2 DEF Current
    <2> QED
      BY <2>1, <2>2
  <1> QED
    BY <1>1, <1>2 DEF RolesInv

\* A request goes to another step, and no table changes (Goto).
LEMMA GotoKeeps ==
    ASSUME RolesInv, NEW t \in Requests, Running(t), req[t].op # "sync",
           NEW step \in Steps \ {"idle", "write"}, Goto(t, step), UNCHANGED tables,
           step = "insert" /\ req[t].single => ~Conflicting(t)
    PROVE  RolesInv'
  <1>1. /\ req \in [Requests -> Request] /\ req[t] \in Request
        /\ assigned \in [Users -> SUBSET Roles] /\ Proper(req[t])
    BY DEF RolesInv, TypeOK
  <1>2. /\ req' \in [Requests -> Request]
        /\ \A q \in Requests \ {t} : req'[q] = req[q]
    BY <1>1 DEF Goto, Request
  <1>3. /\ req'[t].step = step /\ req'[t].alone = req[t].alone /\ req'[t].single = req[t].single
        /\ req'[t].users = req[t].users /\ req'[t].role = req[t].role
        /\ req'[t].op = req[t].op
    BY <1>1 DEF Goto, Request
  <1>4. TypeOK' /\ RowsInv'
    BY <1>2 DEF RolesInv, TypeOK, RowsInv, tables
  <1>5. Current(req[t])'
    <2>1. req[t].users \subseteq Users /\ req[t].role \subseteq Roles
      BY <1>1 DEF Request
    <2> QED
      BY <1>1, <1>3, <2>1 DEF Current, Conflicting, tables
  <1>6. Proper(req[t])'
    BY <1>1, <1>3 DEF Proper
  <1> QED
    BY <1>2, <1>3, <1>4, <1>5, <1>6, Advance

\* A request ends, and leaves the tables as they should be (End).
LEMMA EndKeeps ==
    ASSUME RolesInv, NEW t \in Requests, Running(t), End(t),
           role' \in [Roles -> Role], assigned' \in [Users -> SUBSET Roles],
           migrating' \in SUBSET Users, UNCHANGED cardinality, RowsInv'
    PROVE  RolesInv'
  <1>1. NoRequest \in Request /\ NoRequest.step = "idle"
    BY NoRequestType DEF NoRequest
  <1>2. req \in [Requests -> Request]
    BY DEF RolesInv, TypeOK
  <1>3. /\ req' \in [Requests -> Request]
        /\ \A q \in Requests \ {t} : req'[q] = req[q]
        /\ ~Running(t)'
    BY <1>1, <1>2 DEF End, Running
  <1>4. TypeOK'
    BY <1>3 DEF RolesInv, TypeOK
  <1> QED
    BY <1>3, <1>4, Advance

\* A request ends, and no table changes (End, Fail).
LEMMA EndQuietly ==
    ASSUME RolesInv, NEW t \in Requests, Running(t), End(t), UNCHANGED tables
    PROVE  RolesInv'
  <1>1. /\ role' \in [Roles -> Role] /\ assigned' \in [Users -> SUBSET Roles]
        /\ migrating' \in SUBSET Users /\ UNCHANGED cardinality /\ RowsInv'
    BY DEF RolesInv, TypeOK, RowsInv, tables
  <1> QED
    BY <1>1, EndKeeps

-----------------------------------------------------------------------------
(* The operations                                                             *)

\* A request begins, and no other is alone any more (Call).
LEMMA CallKeeps ==
    ASSUME RolesInv, NEW t \in Requests, Call(t)
    PROVE  RolesInv'
  <1>1. PICK op \in AllOperations, R \in SUBSET Roles, US \in SUBSET Users, D \in SUBSET Roles :
            Begin(t, op, R, US, D)
    <2>1. ASSUME NEW r \in Roles, NEW op \in {"create", "delete"} \cap Operations,
                 Begin(t, op, {r}, {}, {})
          PROVE  \E o \in AllOperations, R \in SUBSET Roles, US \in SUBSET Users, D \in SUBSET Roles :
                     Begin(t, o, R, US, D)
      <3>1. op \in AllOperations /\ {r} \in SUBSET Roles /\ {} \in SUBSET Users /\ {} \in SUBSET Roles
        BY DEF AllOperations
      <3> QED
        BY <2>1, <3>1
    <2>2. ASSUME "sync" \in Operations, NEW D \in Catalogues, Begin(t, "sync", {}, {}, D)
          PROVE  \E o \in AllOperations, R \in SUBSET Roles, US \in SUBSET Users, E \in SUBSET Roles :
                     Begin(t, o, R, US, E)
      <3>1. "sync" \in AllOperations /\ {} \in SUBSET Users /\ {} \in SUBSET Roles /\ D \in SUBSET Roles
        BY AppRolesAssumption DEF AllOperations
      <3> QED
        BY <2>2, <3>1
    <2>3. ASSUME NEW r \in Roles, NEW u \in Users, NEW op \in {"assign", "adopt"} \cap Operations,
                 Begin(t, op, {r}, {u}, {})
          PROVE  \E o \in AllOperations, R \in SUBSET Roles, US \in SUBSET Users, D \in SUBSET Roles :
                     Begin(t, o, R, US, D)
      <3>1. op \in AllOperations /\ {r} \in SUBSET Roles /\ {u} \in SUBSET Users /\ {} \in SUBSET Roles
        BY DEF AllOperations
      <3> QED
        BY <2>3, <3>1
    <2>4. ASSUME NEW r \in Roles, NEW US \in Groups, NEW op \in {"bulk", "unassign"} \cap Operations,
                 Begin(t, op, {r}, US, {})
          PROVE  \E o \in AllOperations, R \in SUBSET Roles, VS \in SUBSET Users, D \in SUBSET Roles :
                     Begin(t, o, R, VS, D)
      <3>1. op \in AllOperations /\ {r} \in SUBSET Roles /\ US \in SUBSET Users /\ {} \in SUBSET Roles
        BY AppRolesAssumption DEF AllOperations
      <3> QED
        BY <2>4, <3>1
    <2> QED
      BY <2>1, <2>2, <2>3, <2>4 DEF Call
  <1>2. /\ FirstStep(op) \in {"lookup", "read", "resolve"} /\ op # "none"
        /\ op = "sync" => FirstStep(op) = "read"
    BY DEF FirstStep, AllOperations
  <1> DEFINE alone == \A q \in Requests : ~Running(q)
             new == [NoRequest EXCEPT !.step = FirstStep(op), !.op = op, !.role = R,
                         !.users = US, !.declared = D, !.single = cardinality = "single",
                         !.alone = alone]
             lessened(s) == [req[s] EXCEPT !.alone = FALSE]
  <1>3. /\ ~Running(t) /\ UNCHANGED tables
        /\ req' = [s \in Requests |-> IF s = t THEN new
                                      ELSE IF Running(s) THEN lessened(s) ELSE req[s]]
    BY <1>1 DEF Begin
  <1>4. new \in Request
    <2>1. FirstStep(op) \in Steps /\ (cardinality = "single") \in BOOLEAN /\ alone \in BOOLEAN
      BY <1>2 DEF Steps
    <2> HIDE DEF alone
    <2> QED
      BY <2>1, NoRequestType DEF Request
  <1>5. new.step = FirstStep(op) /\ new.alone = alone /\ new.op = op
    BY DEF NoRequest
  <1>6. \A s \in Requests : /\ req[s] \in Request
                            /\ lessened(s) \in Request /\ ~lessened(s).alone
                            /\ lessened(s).step = req[s].step /\ lessened(s).op = req[s].op
    <2>1. \A s \in Requests : req[s] \in Request
      BY DEF RolesInv, TypeOK
    <2> QED
      BY <2>1 DEF Request
  <1> HIDE DEF new, lessened
  <1>7. /\ req'[t] = new
        /\ \A s \in Requests \ {t} :
               req'[s] = IF Running(s) THEN lessened(s) ELSE req[s]
    BY <1>3
  <1>8. req' \in [Requests -> Request]
    BY <1>3, <1>4, <1>6
  <1>9. TypeOK' /\ RowsInv'
    BY <1>3, <1>8 DEF RolesInv, TypeOK, RowsInv, tables
  <1>10. Lone'
    BY <1>3, <1>5, <1>6, <1>7 DEF Lone, Running
  <1>11. ASSUME NEW q \in Requests, Running(q)'
         PROVE  Current(req[q])' /\ Proper(req[q])'
    <2>1. CASE q = t
      BY <1>2, <1>5, <1>7, <2>1 DEF Current, Proper
    <2>2. CASE q # t
      <3>1. /\ Running(q) /\ ~req'[q].alone
            /\ req'[q].step = req[q].step /\ req'[q].op = req[q].op
        BY <1>6, <1>7, <1>11, <2>2 DEF Running
      <3>2. Proper(req[q])'
        BY <3>1 DEF RolesInv, Proper
      <3> QED
        BY <3>1, <3>2 DEF Current
    <2> QED
      BY <2>1, <2>2
  <1> QED
    BY <1>9, <1>10, <1>11 DEF RolesInv

\* The steps that decide whether a request goes on (Lookup, Resolve, ReadCurrent,
\* Existing, CheckConflict).
LEMMA ReadingKeeps ==
    ASSUME RolesInv, NEW t \in Requests,
           \/ Lookup(t) \/ Resolve(t) \/ ReadCurrent(t) \/ Existing(t) \/ CheckConflict(t)
    PROVE  RolesInv'
  <1>1. Running(t) /\ UNCHANGED tables
    BY DEF Lookup, Resolve, ReadCurrent, Existing, CheckConflict, Running
  <1>2. /\ req[t] \in Request /\ req[t].op # "sync" /\ req[t].op # "none"
        /\ req[t].step # "idle"
    BY <1>1 DEF RolesInv, TypeOK, Proper, Running, Lookup, Resolve, ReadCurrent, Existing,
                CheckConflict
  <1>3. req[t].op \in {"create", "delete", "assign", "bulk", "unassign", "adopt"}
    BY <1>2 DEF Request, AllOperations
  <1> DEFINE After == {"create", "holders", "unassign", "conflict", "existing", "current",
                       "lookup", "revoke"}
  <1>4. After \subseteq Steps \ {"idle", "write", "insert"}
    BY DEF Steps
  <1>5. ASSUME NEW ok, NEW step \in After, Proceed(t, ok, step)
        PROVE  RolesInv'
    <2>1. CASE Goto(t, step)
      BY <1>1, <1>2, <1>4, <2>1, GotoKeeps
    <2>2. CASE End(t)
      BY <1>1, <2>2, EndQuietly
    <2> QED
      BY <1>5, <2>1, <2>2 DEF Proceed
  <1>6. CASE Lookup(t)
    <2>1. PICK r \in req[t].role :
              IF req[t].op = "create" THEN Proceed(t, role[r].state = "none", "create")
              ELSE Proceed(t, Active(r), CASE req[t].op = "delete"   -> "holders"
                                           [] req[t].op = "unassign" -> "unassign"
                                           [] req[t].op = "bulk"     -> "conflict"
                                           [] req[t].op \in {"assign", "adopt"} -> "existing")
      BY <1>6 DEF Lookup
    <2>2. CASE req[t].op = "create"
      BY <1>5, <2>1, <2>2
    <2>3. CASE req[t].op = "delete"
      <3>1. Proceed(t, Active(r), "holders")
        BY <2>1, <2>3
      <3> QED
        BY <1>5, <3>1
    <2>4. CASE req[t].op = "unassign"
      <3>1. Proceed(t, Active(r), "unassign")
        BY <2>1, <2>4
      <3> QED
        BY <1>5, <3>1
    <2>5. CASE req[t].op = "bulk"
      <3>1. Proceed(t, Active(r), "conflict")
        BY <2>1, <2>5
      <3> QED
        BY <1>5, <3>1
    <2>6. CASE req[t].op \in {"assign", "adopt"}
      <3>1. Proceed(t, Active(r), "existing")
        BY <2>1, <2>6
      <3> QED
        BY <1>5, <3>1
    <2> QED
      BY <1>3, <2>2, <2>3, <2>4, <2>5, <2>6
  <1>7. CASE Resolve(t)
    BY <1>5, <1>7 DEF Resolve
  <1>8. CASE ReadCurrent(t)
    <2>1. PICK u \in req[t].users :
              IF ActiveRoles(u) = {} THEN Goto(t, "lookup")
              ELSE Proceed(t, ActiveRoles(u) = req[t].role, "revoke")
      BY <1>8 DEF ReadCurrent
    <2>2. CASE Goto(t, "lookup")
      BY <1>1, <1>2, <1>4, <2>2, GotoKeeps
    <2>3. CASE Proceed(t, ActiveRoles(u) = req[t].role, "revoke")
      BY <1>5, <2>3
    <2> QED
      BY <2>1, <2>2, <2>3
  <1>9. CASE Existing(t)
    <2>1. CASE Goto(t, "conflict")
      BY <1>1, <1>2, <1>4, <2>1, GotoKeeps
    <2>2. CASE Proceed(t, req[t].op = "adopt", "revoke")
      BY <1>5, <2>2
    <2> QED
      BY <1>9, <2>1, <2>2 DEF Existing
  <1>10. CASE CheckConflict(t)
    <2>1. CASE (req[t].single => ~Conflicting(t)) /\ Goto(t, "insert")
      <3>1. "insert" \in Steps \ {"idle", "write"}
        BY DEF Steps
      <3> QED
        BY <1>1, <1>2, <2>1, <3>1, GotoKeeps
    <2>2. CASE End(t)
      BY <1>1, <2>2, EndQuietly
    <2> QED
      BY <1>10, <2>1, <2>2 DEF CheckConflict, Proceed
  <1> QED
    BY <1>6, <1>7, <1>8, <1>9, <1>10

\* The catalogue as a sync reads it is the one it knows (ReadCatalogue).
LEMMA ReadCatalogueKeeps ==
    ASSUME RolesInv, NEW t \in Requests, ReadCatalogue(t)
    PROVE  RolesInv'
  <1>1. /\ req \in [Requests -> Request] /\ req[t] \in Request
        /\ role \in [Roles -> Role] /\ "write" \in Steps
    BY DEF RolesInv, TypeOK, Steps
  <1>2. Running(t) /\ UNCHANGED tables /\ Proper(req[t])
    BY DEF ReadCatalogue, Running, RolesInv
  <1>3. /\ req' \in [Requests -> Request]
        /\ \A q \in Requests \ {t} : req'[q] = req[q]
        /\ req'[t].step = "write" /\ req'[t].seen = role
        /\ req'[t].alone = req[t].alone /\ req'[t].op = req[t].op
    BY <1>1 DEF ReadCatalogue, Request
  <1>4. TypeOK' /\ RowsInv'
    BY <1>2, <1>3 DEF RolesInv, TypeOK, RowsInv, tables
  <1>5. Current(req[t])' /\ Proper(req[t])'
    BY <1>2, <1>3 DEF Current, Proper, tables
  <1> QED
    BY <1>2, <1>3, <1>4, <1>5, Advance

\* Holders are read, and then their rows are locked (ReadHolders, RemoveAssignments).
LEMMA DeletionKeeps ==
    ASSUME RolesInv, NEW t \in Requests, ReadHolders(t) \/ RemoveAssignments(t)
    PROVE  RolesInv'
  <1>1. /\ req \in [Requests -> Request] /\ req[t] \in Request
        /\ {"remove", "drop"} \subseteq Steps
    BY DEF RolesInv, TypeOK, Steps
  <1>2. Running(t) /\ UNCHANGED tables /\ Proper(req[t]) /\ req[t].op # "sync"
    BY DEF ReadHolders, RemoveAssignments, Running, RolesInv, Proper
  <1> DEFINE holders == {u \in Users : req[t].role \subseteq assigned[u]}
  <1>3. holders \in SUBSET Users
    OBVIOUS
  <1> HIDE DEF holders
  <1>4. \/ req' = [req EXCEPT ![t].step = "remove", ![t].found = holders]
        \/ req' = [req EXCEPT ![t].step = "drop", ![t].removed = holders]
    BY DEF ReadHolders, RemoveAssignments, holders
  <1>5. /\ req' \in [Requests -> Request]
        /\ \A q \in Requests \ {t} : req'[q] = req[q]
        /\ req'[t].step \in {"remove", "drop"}
        /\ req'[t].alone = req[t].alone /\ req'[t].op = req[t].op
    BY <1>1, <1>3, <1>4 DEF Request
  <1>6. TypeOK' /\ RowsInv'
    BY <1>2, <1>5 DEF RolesInv, TypeOK, RowsInv, tables
  <1>7. Current(req[t])' /\ Proper(req[t])'
    BY <1>2, <1>5 DEF Current, Proper
  <1> QED
    BY <1>2, <1>5, <1>6, <1>7, Advance

\* A role that is created is active (Create).
LEMMA CreateKeeps ==
    ASSUME RolesInv, NEW t \in Requests, Create(t)
    PROVE  RolesInv'
  <1>1. Running(t) /\ End(t) /\ UNCHANGED <<assigned, migrating, cardinality>>
    BY DEF Create, Running
  <1>2. role' \in [Roles -> Role] /\ RowsInv'
    BY DEF Create, RolesInv, TypeOK, RowsInv, Role
  <1> QED
    BY <1>1, <1>2, EndKeeps DEF RolesInv, TypeOK

\* What a sync leaves of a row is a row, and of a row that has gone, nothing (Written).
LEMMA WrittenRow ==
    ASSUME RolesInv, NEW t \in Requests, NEW r \in Roles, ~Stale(t, r)
    PROVE  /\ Written(t, r) \in Role
           /\ Written(t, r).state = "none" => ~Written(t, r).managed
  <1>1. /\ role[r] \in Role /\ req[t].seen[r] \in Role
        /\ role[r].state = "none" => ~role[r].managed
    BY DEF RolesInv, TypeOK, RowsInv, Request
  <1>2. CASE r \in Deactivated(t)
    BY <1>1, <1>2 DEF Written, Role
  <1>3. CASE r \notin Deactivated(t) /\ r \notin req[t].declared
    BY <1>1, <1>3 DEF Written
  <1>4. CASE r \notin Deactivated(t) /\ r \in req[t].declared
    <2> DEFINE seen == req[t].seen[r]
    <2>1. CASE seen.state = "none"
      BY <1>4, <2>1 DEF Written, Role
    <2>2. CASE seen.state # "none"
      <3> DEFINE row == [state   |-> IF seen.state = "active" THEN role[r].state ELSE "active",
                         managed |-> IF seen.managed THEN role[r].managed ELSE TRUE]
      <3>1. Written(t, r) = row
        BY <1>4, <2>2 DEF Written
      <3>2. row \in Role
        BY <1>1 DEF Role
      <3>3. role[r].state = "none" => seen.state = "active" /\ seen.managed
        BY <1>1, <1>4, <2>2 DEF Stale, Role
      <3> QED
        BY <1>1, <3>1, <3>2, <3>3
    <2> QED
      BY <2>1, <2>2
  <1> QED
    BY <1>2, <1>3, <1>4

\* A sync writes rows or fails (WriteCatalogue).
LEMMA WriteCatalogueKeeps ==
    ASSUME RolesInv, NEW t \in Requests, WriteCatalogue(t)
    PROVE  RolesInv'
  <1>1. Running(t) /\ End(t) /\ UNCHANGED <<assigned, cardinality>>
    BY DEF WriteCatalogue, Running
  <1>2. CASE UNCHANGED <<role, migrating>>
    BY <1>1, <1>2, EndQuietly DEF tables
  <1>3. CASE /\ \A r \in Roles : ~Stale(t, r)
             /\ role' = [r \in Roles |-> Written(t, r)]
             /\ migrating' = IF Deactivated(t) = {} THEN migrating ELSE {}
    <2>1. role' \in [Roles -> Role] /\ RowsInv'
      BY <1>3, WrittenRow DEF RowsInv
    <2>2. migrating' \in SUBSET Users
      BY <1>3 DEF RolesInv, TypeOK
    <2> QED
      BY <1>1, <2>1, <2>2, EndKeeps DEF RolesInv, TypeOK
  <1> QED
    BY <1>2, <1>3 DEF WriteCatalogue

\* A role goes with its assignments, or stays with them (DropRole).
LEMMA DropRoleKeeps ==
    ASSUME RolesInv, NEW t \in Requests, DropRole(t)
    PROVE  RolesInv'
  <1>1. Running(t) /\ End(t) /\ UNCHANGED cardinality
    BY DEF DropRole, Running
  <1>2. CASE UNCHANGED <<role, assigned, migrating>>
    BY <1>1, <1>2, EndQuietly DEF tables
  <1>3. CASE /\ role' = [r \in Roles |-> IF r \in req[t].role THEN NoRole ELSE role[r]]
             /\ assigned' = [u \in Users |-> assigned[u] \ req[t].role]
             /\ migrating' = migrating \ req[t].found
    <2>1. role' \in [Roles -> Role] /\ RowsInv'
      BY <1>3 DEF RolesInv, TypeOK, RowsInv, Role, NoRole
    <2>2. assigned' \in [Users -> SUBSET Roles] /\ migrating' \in SUBSET Users
      BY <1>3 DEF RolesInv, TypeOK
    <2> QED
      BY <1>1, <2>1, <2>2, EndKeeps
  <1> QED
    BY <1>2, <1>3 DEF DropRole

\* Assignments are withdrawn, and sessions revoked (Unassign, Revoke).
LEMMA WithdrawalKeeps ==
    ASSUME RolesInv, NEW t \in Requests, Unassign(t) \/ Revoke(t)
    PROVE  RolesInv'
  <1>1. Running(t) /\ End(t) /\ UNCHANGED <<role, cardinality>>
    BY DEF Unassign, Revoke, Running
  <1>2. assigned' \in [Users -> SUBSET Roles] /\ migrating' \in SUBSET Users
    BY DEF Unassign, Revoke, RolesInv, TypeOK
  <1>3. role' \in [Roles -> Role] /\ RowsInv'
    BY <1>1 DEF RolesInv, TypeOK, RowsInv
  <1> QED
    BY <1>1, <1>2, <1>3, EndKeeps

\* An assignment is made, and the request ends or goes on to revoke (Insert).
LEMMA InsertKeeps ==
    ASSUME RolesInv, NEW t \in Requests, Insert(t)
    PROVE  RolesInv'
  <1>1. /\ Running(t) /\ Proper(req[t]) /\ req[t].op # "sync"
        /\ UNCHANGED <<role, migrating, cardinality>>
        /\ req[t] \in Request /\ req \in [Requests -> Request]
    BY DEF Insert, Running, RolesInv, TypeOK, Proper
  <1>2. /\ assigned' \in [Users -> SUBSET Roles]
        /\ End(t) \/ Goto(t, "revoke")
    <2>1. req[t].role \subseteq Roles
      BY <1>1 DEF Request
    <2> QED
      BY <2>1 DEF Insert, Proceed, RolesInv, TypeOK
  <1>3. RowsInv' /\ role' \in [Roles -> Role] /\ migrating' \in SUBSET Users
    BY <1>1 DEF RolesInv, TypeOK, RowsInv
  <1>4. CASE End(t)
    BY <1>1, <1>2, <1>3, <1>4, EndKeeps
  <1>5. CASE Goto(t, "revoke")
    <2>1. /\ req' \in [Requests -> Request]
          /\ \A q \in Requests \ {t} : req'[q] = req[q]
          /\ req'[t].step = "revoke"
          /\ req'[t].alone = req[t].alone /\ req'[t].op = req[t].op
      BY <1>1, <1>5 DEF Goto, Request, Steps
    <2>2. TypeOK'
      BY <1>1, <1>2, <1>3, <2>1 DEF RolesInv, TypeOK
    <2>3. Current(req[t])' /\ Proper(req[t])'
      BY <1>1, <2>1 DEF Current, Proper
    <2> QED
      BY <1>1, <1>3, <2>1, <2>2, <2>3, Advance
  <1> QED
    BY <1>2, <1>4, <1>5

\* The policy of the app, and sessions, are not what a request that is alone has read
\* (UpdatePolicy, IssueMigrationToken).
LEMMA AroundKeeps ==
    ASSUME RolesInv,
           \/ \E policy \in Policies : UpdatePolicy(policy)
           \/ \E u \in Users : IssueMigrationToken(u)
    PROVE  RolesInv'
  <1>1. UNCHANGED <<role, assigned, req>>
    BY DEF UpdatePolicy, IssueMigrationToken
  <1>2. cardinality' \in {"single", "multiple"} /\ migrating' \in SUBSET Users
    BY AppRolesAssumption DEF UpdatePolicy, IssueMigrationToken, RolesInv, TypeOK
  <1>3. TypeOK'
    BY <1>1, <1>2 DEF RolesInv, TypeOK
  <1> QED
    BY <1>1, <1>3 DEF RolesInv, RowsInv, Lone, Current, Running

-----------------------------------------------------------------------------
(* The theorems                                                               *)

\* Before the first request nothing has been read (Init).
LEMMA InitHolds == Init => RolesInv
  <1> SUFFICES ASSUME Init PROVE RolesInv
    OBVIOUS
  <1>1. TypeOK
    BY AppRolesAssumption, NoRequestType DEF Init, TypeOK, Role, NoRole
  <1>2. RowsInv /\ \A t \in Requests : ~Running(t)
    BY DEF Init, RowsInv, NoRole, Running, NoRequest
  <1> QED
    BY <1>1, <1>2 DEF RolesInv, Lone

\* Every step keeps what a request that is alone knows (Next).
LEMMA NextKeeps == RolesInv /\ [Next]_vars => RolesInv'
  <1> SUFFICES ASSUME RolesInv, [Next]_vars PROVE RolesInv'
    OBVIOUS
  <1>1. ASSUME NEW t \in Requests, Call(t)
        PROVE  RolesInv'
    BY <1>1, CallKeeps
  <1>2. ASSUME NEW t \in Requests, Step(t)
        PROVE  RolesInv'
    BY <1>2, CreateKeeps, ReadCatalogueKeeps, WriteCatalogueKeeps, DeletionKeeps, DropRoleKeeps,
       ReadingKeeps, InsertKeeps, WithdrawalKeeps DEF Step
  <1>3. ASSUME NEW t \in Requests, Fail(t)
        PROVE  RolesInv'
    BY <1>3, EndQuietly DEF Fail
  <1>4. CASE UNCHANGED vars
    BY <1>4 DEF vars, RolesInv, TypeOK, RowsInv, Lone, Current, Running
  <1> QED
    BY <1>1, <1>2, <1>3, <1>4, AroundKeeps DEF Next

\* The invariant of app roles.
THEOREM RolesInvariant == Spec => []RolesInv
  BY InitHolds, NextKeeps, PTL DEF Spec

\* Type correctness of the catalogue, the assignments and the requests.
THEOREM TypeCorrect == Spec => []TypeOK
  <1>1. RolesInv => TypeOK
    BY DEF RolesInv
  <1> QED
    BY <1>1, RolesInvariant, PTL

\* A sync that no request runs beside finds the rows that it has read, and so none
\* that is stale (ReadCatalogue, WriteCatalogue).
LEMMA SoloSync ==
    ASSUME RolesInv, NEW t \in Requests, req[t].alone, WriteCatalogue(t)
    PROVE  /\ \A r \in req[t].declared : role'[r] = [state |-> "active", managed |-> TRUE]
           /\ \A r \in Roles \ req[t].declared :
                  /\ role'[r].managed => role'[r].state = "inactive"
                  /\ ~role[r].managed => role'[r] = role[r]
           /\ assigned' = assigned
  <1>1. req[t] \in Request /\ req[t].seen = role
    BY DEF RolesInv, TypeOK, Current, Running, WriteCatalogue
  <1>2. \A r \in Roles : role[r] \in Role /\ (role[r].state = "none" => ~role[r].managed)
    BY DEF RolesInv, TypeOK, RowsInv
  <1>3. \A r \in Roles : ~Stale(t, r)
    BY <1>1 DEF Stale
  <1>4. role' = [r \in Roles |-> Written(t, r)] /\ assigned' = assigned
    BY <1>3 DEF WriteCatalogue
  <1>5. ASSUME NEW r \in req[t].declared
        PROVE  role'[r] = [state |-> "active", managed |-> TRUE]
    <2>1. r \in Roles /\ r \notin Deactivated(t)
      BY <1>1 DEF Request, Deactivated
    <2>2. Written(t, r) = [state |-> "active", managed |-> TRUE]
      BY <1>1, <1>2, <2>1 DEF Written, Role
    <2> QED
      BY <1>4, <2>1, <2>2
  <1>6. ASSUME NEW r \in Roles \ req[t].declared
        PROVE  /\ role'[r].managed => role'[r].state = "inactive"
               /\ ~role[r].managed => role'[r] = role[r]
    <2>1. CASE r \in Deactivated(t)
      BY <1>1, <1>2, <1>4, <2>1 DEF Written, Deactivated, Role
    <2>2. CASE r \notin Deactivated(t)
      <3>1. role'[r] = role[r]
        BY <1>4, <2>2 DEF Written
      <3>2. role[r] # [state |-> "active", managed |-> TRUE]
        BY <1>1, <2>2 DEF Deactivated
      <3> QED
        BY <1>2, <3>1, <3>2 DEF Role
    <2> QED
      BY <2>1, <2>2
  <1> QED
    BY <1>4, <1>5, <1>6

\* A sync that no request runs beside leaves the catalogue as it is declared,
\* whatever races have left of it (sync_catalog).
THEOREM SoloSyncs == Spec => SoloSyncDeclares
  <1>1. RolesInv /\ [Next]_vars =>
            [\A t \in Requests :
                req[t].alone /\ WriteCatalogue(t) =>
                    /\ \A r \in req[t].declared :
                           role'[r] = [state |-> "active", managed |-> TRUE]
                    /\ \A r \in Roles \ req[t].declared :
                           /\ role'[r].managed => role'[r].state = "inactive"
                           /\ ~role[r].managed => role'[r] = role[r]
                    /\ assigned' = assigned]_vars
    BY SoloSync
  <1> QED
    BY <1>1, RolesInvariant, PTL DEF Spec, SoloSyncDeclares

\* What CheckConflict has found is so still when a request that is alone inserts: its
\* users have no row but for that role (assign_role, bulk_assign_role,
\* adopt_legacy_app_role).
LEMMA SoloAssignment ==
    ASSUME RolesInv, NEW t \in Requests, req[t].alone, req[t].single, Insert(t)
    PROVE  \A u \in req[t].users : assigned'[u] \subseteq req[t].role
  <1>1. \A u \in req[t].users : u \in Users /\ assigned[u] \subseteq req[t].role
    BY DEF RolesInv, TypeOK, Request, Current, Running, Insert
  <1>2. \/ assigned' = assigned
        \/ assigned' = [u \in Users |->
               IF u \in req[t].users THEN assigned[u] \cup req[t].role ELSE assigned[u]]
    BY DEF Insert
  <1> QED
    BY <1>1, <1>2

\* In a single-role app no assignment, single, bulk or adopted, that no request runs
\* beside leaves a user with two rows of user_app_roles.
THEOREM SoloAssignments == Spec => SoloAssignmentsKeepOneRole
  <1>1. RolesInv /\ [Next]_vars =>
            [\A t \in Requests :
                req[t].alone /\ req[t].single /\ Insert(t) =>
                    \A u \in req[t].users : assigned'[u] \subseteq req[t].role]_vars
    BY SoloAssignment
  <1> QED
    BY <1>1, RolesInvariant, PTL DEF Spec, SoloAssignmentsKeepOneRole
=============================================================================
