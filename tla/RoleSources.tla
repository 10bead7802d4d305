---------------------------- MODULE RoleSources ----------------------------
(* Where a user's global roles come from.  Moodle, an administrator, the      *)
(* bootstrap list and the fallback each write rows of their own in            *)
(* user_global_role_sources; reconcile_effective_role derives from them the   *)
(* one row of user_global_roles that authorization reads, and the bulk        *)
(* endpoints write that table directly.                                       *)
(*                                                                            *)
(* A request is a transaction at READ COMMITTED, of one step per statement.   *)
(* A DELETE finds its rows first and then locks them one by one, in whatever  *)
(* order the scan has, and keeps those it has while it waits for another; a   *)
(* row that another transaction deletes meanwhile, and inserts again, is not  *)
(* the row it found.  An INSERT waits for whoever is writing the same key.    *)

CONSTANTS
    Users, GlobalRoles,
    Admin, Guest,   \* PLATFORM_ADMIN_ROLE and DEFAULT_ROLE
    None,
    Requests,       \* transactions in flight
    Calls           \* bound: the operations requested, with their role

Sources == {"moodle", "manual", "bootstrap", "fallback"}

Operations == {"moodle", "manual", "revoke", "default", "bootstrap",
               "bulk_grant", "bulk_revoke"}

ASSUME RoleSourcesAssumption ==
    /\ {Admin, Guest} \subseteq GlobalRoles
    /\ Admin # Guest
    /\ None \notin Users \cup GlobalRoles
    /\ Calls \subseteq [op: Operations, role: GlobalRoles \cup {None}]
    /\ \A call \in Calls : call.role = None => call.op \in {"moodle", "default", "bootstrap"}

VARIABLES
    rows,   \* per user: the committed rows of both tables
    req     \* per request: its transaction

vars == <<rows, req>>

\* A row of user_global_role_sources, or with kind "effective" of user_global_roles.
Row == [role: GlobalRoles, kind: Sources \cup {"effective"}]

Steps == {"idle", "check", "scan", "delete", "insert", "read", "rescan", "clear",
          "set", "commit"}

\* "found" are the rows that the running DELETE has found and not yet locked,
\* "deleted" and "inserted" what the transaction has written.  "alone" is history: no other transaction on
\* the user has run beside this one.
Request == [step: Steps, op: Operations \cup {None}, role: GlobalRoles \cup {None},
            user: Users \cup {None}, found: SUBSET Row, deleted: SUBSET Row,
            inserted: SUBSET Row, alone: BOOLEAN]

NoRequest == [step |-> "idle", op |-> None, role |-> None, user |-> None, found |-> {},
              deleted |-> {}, inserted |-> {}, alone |-> FALSE]

\* Committed rows are of the two tables and name roles that exist, and every
\* transaction is at a step of its operation.
TypeOK ==
    /\ rows \in [Users -> SUBSET Row]
    /\ req \in [Requests -> Request]

Init ==
    /\ rows = [u \in Users |-> {}]
    /\ req = [t \in Requests |-> NoRequest]

-----------------------------------------------------------------------------
(* The effective role *)

OfKind(R, kinds) == {x \in R : x.kind \in kinds}

\* names_by_source: one role per source.  Of two rows of one source the dict keeps
\* either, as the query orders nothing.
NamesBySource(R) ==
    LET present == {x.kind : x \in OfKind(R, Sources)} IN
    {names \in [present -> GlobalRoles] :
        \A s \in present : [role |-> names[s], kind |-> s] \in R}

ResolveEffectiveRole(names) ==
    IF \E s \in DOMAIN names : names[s] = Admin THEN Admin
    ELSE IF "moodle" \in DOMAIN names THEN names["moodle"]
    ELSE IF "manual" \in DOMAIN names THEN names["manual"]
    ELSE Guest

Resolutions(R) == {ResolveEffectiveRole(names) : names \in NamesBySource(R)}

-----------------------------------------------------------------------------
(* Transactions *)

Active(t) == req[t].step # "idle"

Others(t) == {s \in Requests \ {t} : Active(s) /\ req[s].user = req[t].user}

\* What the statements of a transaction see: what is committed, and its own writes.
Visible(t) == (rows[req[t].user] \ req[t].deleted) \cup req[t].inserted

Goto(t, step) == req' = [req EXCEPT ![t].step = step]

\* The rows that the operation's own DELETE matches.
OwnRows(t) ==
    {x \in rows[req[t].user] :
        \/ req[t].op = "moodle" /\ x.kind = "moodle"
        \/ req[t].op = "manual" /\ x.kind = "manual"
        \/ req[t].op = "revoke" /\ x = [role |-> req[t].role, kind |-> "manual"]
        \/ req[t].op = "bulk_revoke" /\ x = [role |-> req[t].role, kind |-> "effective"]}

\* Mutant: the row is filed under the name of the operation.
OwnRowByOperation(t) == [role |-> req[t].role, kind |-> req[t].op]

\* The row of user_global_role_sources that the operation inserts.
OwnRow(t) ==
    CASE req[t].op \in {"moodle", "manual"} -> [role |-> req[t].role, kind |-> req[t].op]
      [] req[t].op = "default"              -> [role |-> Guest, kind |-> "fallback"]
      [] req[t].op = "bootstrap"            -> [role |-> Admin, kind |-> "bootstrap"]

\* The row of user_global_roles that it inserts.
EffectiveRow(t) == [role |-> IF req[t].op = "bootstrap" THEN Admin ELSE req[t].role,
                    kind |-> "effective"]

\* The rows that the running statement needs to itself, in any order.
Wanted(t) ==
    CASE req[t].step \in {"delete", "clear"} -> req[t].found
      [] req[t].step = "insert"              -> {OwnRow(t)}
      [] req[t].step = "set"                 -> {EffectiveRow(t)}
      [] OTHER                               -> {}

\* The rows that a transaction keeps others from until it ends.
Held(t) == req[t].deleted \cup req[t].inserted

Locked(t) == UNION {Held(s) : s \in Others(t)}

\* t waits for s, or will if it comes to that row next.
WaitsFor(t, s) == s \in Others(t) /\ Wanted(t) \cap Held(s) # {}

FirstStep(op) ==
    CASE op \in {"manual", "default"}              -> "check"
      [] op \in {"moodle", "revoke", "bulk_revoke"} -> "scan"
      [] op = "bootstrap"                          -> "insert"
      [] op = "bulk_grant"                         -> "set"

\* "role" is the role the call names until the operation has chosen the effective
\* one.  The bulk endpoints take many users at once, whose rows share no key: a
\* request is about one of them.
Begin(t, call, u) ==
    /\ ~Active(t)
    /\ LET beside == {s \in Requests : Active(s) /\ req[s].user = u} IN
       req' = [s \in Requests |->
           IF s = t THEN [NoRequest EXCEPT !.step = FirstStep(call.op), !.op = call.op,
                                           !.role = call.role, !.user = u,
                                           !.alone = beside = {}]
           ELSE IF s \in beside THEN [req[s] EXCEPT !.alone = FALSE] ELSE req[s]]
    /\ UNCHANGED rows

\* The transaction ends without effect: the request is refused, a unique key is
\* violated, or the connection or the process is lost.
Abort(t) ==
    /\ req' = [req EXCEPT ![t] = NoRequest]
    /\ UNCHANGED rows

\* set_manual_global_role and ensure_default_role look before they write.
Check(t) ==
    /\ req[t].step = "check"
    /\ LET sources == OfKind(Visible(t), Sources)
           refused == IF req[t].op = "default" THEN sources # {}
                      ELSE \/ req[t].role = Guest
                           \/ req[t].role # Admin /\ OfKind(sources, {"moodle"}) # {}
       IN IF refused THEN Abort(t)
          ELSE /\ Goto(t, IF req[t].op = "default" THEN "insert" ELSE "scan")
               /\ UNCHANGED rows

Scan(t) ==
    /\ req[t].step = "scan"
    /\ req' = [req EXCEPT ![t].step = "delete", ![t].found = OwnRows(t)]
    /\ UNCHANGED rows

\* A DELETE locks the next of its rows, or has them all and the handler goes on.
Drop(t, step) ==
    /\ \/ req[t].found = {} /\ Goto(t, step)
       \/ \E x \in req[t].found \ Locked(t) :
              req' = [req EXCEPT ![t].found = @ \ {x}, ![t].deleted = @ \cup {x}]
    /\ UNCHANGED rows

Delete(t) ==
    /\ req[t].step = "delete"
    /\ Drop(t, CASE req[t].op = "bulk_revoke"                      -> "commit"
                 [] req[t].op = "revoke" \/ req[t].role = None     -> "read"
                 [] req[t].op \in {"moodle", "manual"} /\ req[t].role # None -> "insert")

\* With ON CONFLICT DO NOTHING a row that exists is left; without, it is an error.
Put(t, row, lenient, step) ==
    /\ row \notin Locked(t)
    /\ IF row \in Visible(t)
       THEN IF lenient THEN Goto(t, step) /\ UNCHANGED rows ELSE Abort(t)
       ELSE /\ req' = [req EXCEPT ![t].step = step, ![t].inserted = @ \cup {row}]
            /\ UNCHANGED rows

Insert(t) ==
    /\ req[t].step = "insert"
    /\ Put(t, OwnRow(t), req[t].op \in {"default", "bootstrap"},
           IF req[t].op = "bootstrap" THEN "set" ELSE "read")

\* reconcile_effective_role reads the sources ...
Read(t) ==
    /\ req[t].step = "read"
    /\ \E effective \in Resolutions(Visible(t)) :
           req' = [req EXCEPT ![t].step = "rescan", ![t].role = effective]
    /\ UNCHANGED rows

\* Mutant: an effective row of the resolved role is left where it is.
RescanOtherRoles(t) ==
    /\ req[t].step = "rescan"
    /\ req' = [req EXCEPT ![t].step = "clear",
                          ![t].found = {x \in OfKind(rows[req[t].user], {"effective"}) :
                                            x.role # req[t].role}]
    /\ UNCHANGED rows

\* ... deletes the effective rows it finds ...
Rescan(t) ==
    /\ req[t].step = "rescan"
    /\ req' = [req EXCEPT ![t].step = "clear",
                          ![t].found = OfKind(rows[req[t].user], {"effective"})]
    /\ UNCHANGED rows

\* Mutant: reconciling adds the new effective row and keeps the old ones.
ClearNothing(t) ==
    /\ req[t].step = "clear"
    /\ req' = [req EXCEPT ![t].step = "set", ![t].found = {}]
    /\ UNCHANGED rows

Clear(t) ==
    /\ req[t].step = "clear"
    /\ Drop(t, "set")

\* Mutant: the fallback role is not written.
SetUnlessGuest(t) ==
    /\ req[t].step = "set"
    /\ IF req[t].role = Guest THEN Goto(t, "commit") /\ UNCHANGED rows
       ELSE Put(t, EffectiveRow(t), req[t].op \in {"bootstrap", "bulk_grant"}, "commit")

\* ... and inserts the new one.
Set(t) ==
    /\ req[t].step = "set"
    /\ Put(t, EffectiveRow(t), req[t].op \in {"bootstrap", "bulk_grant"}, "commit")

\* Rows that t has deleted are gone for those that have found them.
Commit(t) ==
    /\ req[t].step = "commit"
    /\ rows' = [rows EXCEPT ![req[t].user] = Visible(t)]
    /\ req' = [s \in Requests |->
           IF s = t THEN NoRequest
           ELSE IF s \in Others(t) THEN [req[s] EXCEPT !.found = @ \ req[t].deleted]
           ELSE req[s]]

Step(t) == Check(t) \/ Scan(t) \/ Delete(t) \/ Insert(t) \/ Read(t) \/ Rescan(t)
           \/ Clear(t) \/ Set(t) \/ Commit(t)

Next ==
    \E t \in Requests :
        \/ \E call \in Calls, u \in Users : Begin(t, call, u)
        \/ Step(t)
        \/ Active(t) /\ Abort(t)

Spec == Init /\ [][Next]_vars

-----------------------------------------------------------------------------

Effective(u) == {x.role : x \in OfKind(rows[u], {"effective"})}

Reconciling == {"moodle", "manual", "revoke", "default"}

\* Whatever bulk grants, bootstraps, crashes and racing requests have left behind,
\* a reconciliation that nothing on its user runs beside leaves exactly the role
\* that the sources resolve to: admin first, then Moodle's, then the assigned one.
\* Of two rows of one source, which a race can leave, either counts.
SoloReconciliationHeals ==
    [][\A t \in Requests, u \in Users :
          /\ req[t].user = u /\ req[t].alone /\ req[t].op \in Reconciling
          /\ Commit(t)
          => LET from(kind) == {x.role : x \in OfKind(rows'[u], {kind})} IN
             \E r \in GlobalRoles :
                 /\ Effective(u)' = {r}
                 /\ \/ r = Admin /\ \E s \in Sources : Admin \in from(s)
                    \/ /\ \A s \in Sources : from(s) # {Admin}
                       /\ \/ r \in from("moodle")
                          \/ r \in from("manual") /\ from("moodle") = {}
                          \/ r = Guest /\ from("moodle") \cup from("manual") = {}]_vars

\* Only the bulk endpoint can take the last role of a user, without which every
\* authorization fails: racing reconciliations may leave too many, never none.
UsersKeepARole ==
    [][\A u \in Users :
          Effective(u) # {} /\ Effective(u)' = {} =>
              \E t \in Requests :
                  req[t].user = u /\ req[t].op = "bulk_revoke" /\ Commit(t)]_vars

\* A DELETE that has locked a row of those it found, and has come to the next.
HalfDone(t) ==
    /\ req[t].found # {}
    /\ \/ req[t].step = "delete" /\ req[t].deleted # {}
       \/ req[t].step = "clear" /\ OfKind(req[t].deleted, {"effective"}) # {}

\* Transactions on a user wait for each other all round, which PostgreSQL breaks up
\* by failing one of them, only if one of them is half done with a DELETE of several
\* rows of a kind, which a race or a bulk grant has left; no order of the other
\* statements does it.  So of any group that has none of those, some one waits for
\* none of the group.
OnlyHalfDoneDeletesDeadlock ==
    \A D \in SUBSET Requests :
        D # {} /\ (\A t \in D : Active(t) /\ ~HalfDone(t)) =>
            \E t \in D : \A s \in D : ~WaitsFor(t, s)

\* What access/models.py says of user_global_roles: it holds what the sources of a
\* user resolve to, when no request on the user is running.
EffectiveIsResolved ==
    \A u \in Users :
        (\A t \in Requests : req[t].user # u) /\ OfKind(rows[u], Sources) # {} =>
            \E r \in Resolutions(rows[u]) : Effective(u) = {r}
=============================================================================
