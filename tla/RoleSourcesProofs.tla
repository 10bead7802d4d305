-------------------------- MODULE RoleSourcesProofs --------------------------
(* Theorems of RoleSources for any number of users, roles and requests: a     *)
(* reconciliation that runs alone on its user repairs whatever others left,   *)
(* only a bulk revocation takes the last role of a user, and transactions     *)
(* wait for each other all round only if a DELETE of several rows is half     *)
(* done.                                                                      *)
EXTENDS RoleSources, Integers, TLAPS

-----------------------------------------------------------------------------
(* Resolving                                                                  *)

\* The resolved role is a role (resolve_effective_role).
LEMMA ResolvedRole ==
    ASSUME NEW R \in SUBSET Row, NEW r \in Resolutions(R)
    PROVE  r \in GlobalRoles
  <1>1. PICK names \in NamesBySource(R) : r = ResolveEffectiveRole(names)
    BY DEF Resolutions
  <1>2. \A s \in DOMAIN names : names[s] \in GlobalRoles
    BY <1>1 DEF NamesBySource
  <1> QED
    BY <1>1, <1>2, RoleSourcesAssumption DEF ResolveEffectiveRole

\* Only the sources decide what is resolved.
LEMMA SourcesDecide ==
    ASSUME NEW A, NEW B, OfKind(A, Sources) = OfKind(B, Sources)
    PROVE  Resolutions(A) = Resolutions(B)
  <1> DEFINE present(R) == {x.kind : x \in OfKind(R, Sources)}
  <1>1. present(A) = present(B) /\ present(A) \subseteq Sources
    BY DEF OfKind
  <1>2. \A r : \A s \in Sources : [role |-> r, kind |-> s] \in A <=> [role |-> r, kind |-> s] \in B
    <2> TAKE r
    <2> TAKE s \in Sources
    <2> DEFINE x == [role |-> r, kind |-> s]
    <2>1. x.kind \in Sources
      OBVIOUS
    <2> HIDE DEF x
    <2>2. x \in A <=> x \in B
      BY <2>1 DEF OfKind
    <2> QED
      BY <2>2 DEF x
  <1>3. NamesBySource(A) = NamesBySource(B)
    BY <1>1, <1>2 DEF NamesBySource
  <1> QED
    BY <1>3 DEF Resolutions

-----------------------------------------------------------------------------
(* What a transaction knows                                                   *)

\* Two transactions on a user know of each other.
Lone ==
    \A t, s \in Requests :
        Active(t) /\ req[t].alone /\ Active(s) /\ req[s].user = req[t].user => s = t

\* What the statements of a transaction r see (Visible).
Seen(r) == (rows[r.user] \ r.deleted) \cup r.inserted

EffectiveOf(R) == OfKind(R, {"effective"})

\* An operation is at the steps it has, with the role that they need.
Shape(r) ==
    /\ r.user \in Users
    /\ r.op \in Operations
    /\ r.step = "check" => r.op \in {"manual", "default"}
    /\ r.step \in {"scan", "delete"} => r.op \in {"moodle", "manual", "revoke", "bulk_revoke"}
    /\ r.step = "insert" => \/ r.op \in {"default", "bootstrap"}
                            \/ r.op \in {"moodle", "manual"} /\ r.role # None
    /\ r.step \in {"read", "rescan", "clear"} => r.op \in Reconciling
    /\ r.step = "set" => r.op \in Reconciling \cup {"bootstrap", "bulk_grant"}
    /\ r.step \in {"rescan", "clear"} \/ (r.step = "set" /\ r.op # "bootstrap") =>
           r.role # None
    /\ r.role = None => r.op \in {"moodle", "default", "bootstrap"}

\* What is not reconciled is not deleted, but by a bulk revocation; a reconciliation
\* ends with an effective row of its own.
Kept(r) ==
    /\ r.op \in {"bootstrap", "bulk_grant"} => r.deleted = {}
    /\ r.op \in Reconciling /\ r.step \notin {"set", "commit"} =>
           EffectiveOf(r.inserted) = {}
    /\ r.op \in Reconciling /\ r.step = "commit" =>
           [role |-> r.role, kind |-> "effective"] \in r.inserted

\* A reconciliation that runs alone sees the sources of its role, has found every
\* effective row that it still sees, and leaves its own one.
Healing(r) ==
    r.op \in Reconciling /\ r.alone =>
        /\ r.step \in {"rescan", "clear", "set", "commit"} => r.role \in Resolutions(Seen(r))
        /\ r.step = "clear" => /\ EffectiveOf(Seen(r)) \subseteq r.found
                               /\ \A x \in r.found : x.kind = "effective"
        /\ r.step = "set" => EffectiveOf(Seen(r)) = {}
        /\ r.step = "commit" =>
               EffectiveOf(Seen(r)) = {[role |-> r.role, kind |-> "effective"]}

\* The inductive invariant: what each transaction in flight sees and leaves.
SourcesInv ==
    /\ TypeOK
    /\ Lone
    /\ \A t \in Requests : Active(t) => Shape(req[t]) /\ Kept(req[t]) /\ Healing(req[t])

-----------------------------------------------------------------------------
(* What a step makes of its transaction                                       *)

\* The record of a transaction that is over is one (Abort).
LEMMA NoRequestType == NoRequest \in Request
  BY DEF NoRequest, Request, Steps

\* A transaction goes on, or ends, and commits nothing.
LEMMA Advance ==
    ASSUME SourcesInv, NEW t \in Requests, Active(t), UNCHANGED rows,
           req' \in [Requests -> Request],
           \A q \in Requests \ {t} : req'[q] = req[q],
           Active(t)' => /\ req'[t].alone = req[t].alone
                         /\ req'[t].user = req[t].user
                         /\ Shape(req[t])' /\ Kept(req[t])' /\ Healing(req[t])'
    PROVE  SourcesInv'
  <1>1. TypeOK'
    BY DEF SourcesInv, TypeOK
  <1>2. Lone'
    BY DEF SourcesInv, Lone, Active
  <1>3. ASSUME NEW q \in Requests, Active(q)'
        PROVE  Shape(req[q])' /\ Kept(req[q])' /\ Healing(req[q])'
    <2>1. CASE q = t
      BY <1>3, <2>1
    <2>2. CASE q # t
      <3>1. req'[q] = req[q] /\ Shape(req[q]) /\ Kept(req[q]) /\ Healing(req[q])
        BY <1>3, <2>2 DEF SourcesInv, Active
      <3> QED
        BY <3>1 DEF Shape, Kept, Healing, Seen
    <2> QED
      BY <2>1, <2>2
  <1> QED
    BY <1>1, <1>2, <1>3 DEF SourcesInv

\* A transaction ends without effect (Abort).
LEMMA AbortKeeps ==
    ASSUME SourcesInv, NEW t \in Requests, Active(t), Abort(t)
    PROVE  SourcesInv'
  <1>1. NoRequest \in Request /\ NoRequest.step = "idle"
    BY NoRequestType DEF NoRequest
  <1>2. req \in [Requests -> Request]
    BY DEF SourcesInv, TypeOK
  <1>3. /\ req' \in [Requests -> Request]
        /\ \A q \in Requests \ {t} : req'[q] = req[q]
        /\ ~Active(t)' /\ UNCHANGED rows
    BY <1>1, <1>2 DEF Abort, Active
  <1> QED
    BY <1>3, Advance

\* A transaction begins, and no other on its user is alone any more (Begin).
LEMMA BeginKeeps ==
    ASSUME SourcesInv, NEW t \in Requests, NEW call \in Calls, NEW u \in Users,
           Begin(t, call, u)
    PROVE  SourcesInv'
  <1>1. /\ call.op \in Operations /\ call.role \in GlobalRoles \cup {None}
        /\ call.role = None => call.op \in {"moodle", "default", "bootstrap"}
    BY RoleSourcesAssumption
  <1>2. /\ FirstStep(call.op) \in {"check", "scan", "insert", "set"}
        /\ FirstStep(call.op) = "check" => call.op \in {"manual", "default"}
        /\ FirstStep(call.op) = "scan" => call.op \in {"moodle", "revoke", "bulk_revoke"}
        /\ FirstStep(call.op) = "insert" => call.op = "bootstrap"
        /\ FirstStep(call.op) = "set" => call.op = "bulk_grant"
    BY <1>1 DEF FirstStep, Operations
  <1> DEFINE beside == {s \in Requests : Active(s) /\ req[s].user = u}
             alone == beside = {}
             new == [NoRequest EXCEPT !.step = FirstStep(call.op), !.op = call.op,
                                      !.role = call.role, !.user = u, !.alone = alone]
             lessened(s) == [req[s] EXCEPT !.alone = FALSE]
  <1>3. /\ ~Active(t) /\ UNCHANGED rows
        /\ req' = [s \in Requests |-> IF s = t THEN new
                                      ELSE IF s \in beside THEN lessened(s) ELSE req[s]]
    BY DEF Begin
  <1>4. new \in Request
    <2>1. FirstStep(call.op) \in Steps /\ alone \in BOOLEAN
      BY <1>2 DEF Steps
    <2> HIDE DEF alone
    <2> QED
      BY <1>1, <2>1, NoRequestType DEF Request
  <1>5. /\ new.step = FirstStep(call.op) /\ new.op = call.op /\ new.role = call.role
        /\ new.user = u /\ new.alone = alone /\ new.deleted = {} /\ new.inserted = {}
    BY DEF NoRequest
  <1>6. \A s \in Requests :
            /\ req[s] \in Request /\ lessened(s) \in Request /\ ~lessened(s).alone
            /\ lessened(s).step = req[s].step /\ lessened(s).op = req[s].op
            /\ lessened(s).role = req[s].role /\ lessened(s).user = req[s].user
            /\ lessened(s).deleted = req[s].deleted /\ lessened(s).inserted = req[s].inserted
    <2>1. \A s \in Requests : req[s] \in Request
      BY DEF SourcesInv, TypeOK
    <2> QED
      BY <2>1 DEF Request
  <1>7. \A s \in Requests : s \in beside <=> Active(s) /\ req[s].user = u
    OBVIOUS
  <1> HIDE DEF new, lessened, beside
  <1>8. /\ req'[t] = new
        /\ \A s \in Requests \ {t} : req'[s] = IF s \in beside THEN lessened(s) ELSE req[s]
        /\ req' \in [Requests -> Request]
    BY <1>3, <1>4, <1>6
  <1>9. Lone'
    <2> SUFFICES ASSUME NEW q \in Requests, NEW s \in Requests,
                        Active(q)', req'[q].alone, Active(s)', req'[s].user = req'[q].user
                 PROVE  s = q
      BY DEF Lone
    <2>1. CASE q = t
      <3>1. beside = {} /\ req'[q].user = u
        BY <1>5, <1>8, <2>1
      <3>2. s # t => Active(s) /\ req[s].user = u
        BY <1>6, <1>8, <3>1 DEF Active
      <3> QED
        BY <1>7, <2>1, <3>1, <3>2
    <2>2. CASE q # t
      <3>1. q \notin beside /\ req'[q] = req[q] /\ Active(q)
        BY <1>6, <1>8, <2>2 DEF Active
      <3>2. req[q].user # u
        BY <1>7, <3>1
      <3>3. s # t
        BY <1>5, <1>8, <3>1, <3>2
      <3>4. Active(s) /\ req'[s].user = req[s].user
        BY <1>6, <1>8, <3>3 DEF Active
      <3> QED
        BY <3>1, <3>4 DEF SourcesInv, Lone
    <2> QED
      BY <2>1, <2>2
  <1>10. ASSUME NEW q \in Requests, Active(q)'
         PROVE  Shape(req[q])' /\ Kept(req[q])' /\ Healing(req[q])'
    <2>1. CASE q = t
      <3>1. Shape(req[q])'
        BY <1>1, <1>2, <1>5, <1>8, <2>1, RoleSourcesAssumption DEF Shape, Operations
      <3>2. Kept(req[q])' /\ Healing(req[q])'
        BY <1>2, <1>5, <1>8, <2>1 DEF Kept, Healing, EffectiveOf, OfKind, Reconciling
      <3> QED
        BY <3>1, <3>2
    <2>2. CASE q # t
      <3>1. /\ Active(q) /\ req'[q].step = req[q].step /\ req'[q].op = req[q].op
            /\ req'[q].role = req[q].role /\ req'[q].user = req[q].user
            /\ req'[q].deleted = req[q].deleted /\ req'[q].inserted = req[q].inserted
        BY <1>6, <1>8, <1>10, <2>2 DEF Active
      <3>2. Shape(req[q]) /\ Kept(req[q]) /\ Healing(req[q])
        BY <3>1 DEF SourcesInv
      <3>3. Shape(req[q])' /\ Kept(req[q])'
        BY <3>1, <3>2 DEF Shape, Kept
      <3>4. req'[q] = req[q] \/ ~req'[q].alone
        BY <1>6, <1>8, <2>2
      <3>5. Healing(req[q])'
        BY <1>3, <3>2, <3>4 DEF Healing, Seen
      <3> QED
        BY <3>3, <3>5
    <2> QED
      BY <2>1, <2>2
  <1>11. TypeOK'
    BY <1>3, <1>8 DEF SourcesInv, TypeOK
  <1> QED
    BY <1>9, <1>10, <1>11 DEF SourcesInv

\* The record of a running transaction is one, with a shape.
LEMMA Running ==
    ASSUME SourcesInv, NEW t \in Requests, Active(t)
    PROVE  /\ req \in [Requests -> Request] /\ req[t] \in Request
           /\ rows[req[t].user] \subseteq Row /\ Visible(t) = Seen(req[t])
           /\ Visible(t) \subseteq Row
           /\ Shape(req[t]) /\ Kept(req[t]) /\ Healing(req[t])
  <1>1. /\ req \in [Requests -> Request] /\ req[t] \in Request
        /\ Shape(req[t]) /\ Kept(req[t]) /\ Healing(req[t])
    BY DEF SourcesInv, TypeOK
  <1>2. req[t].user \in Users /\ req[t].inserted \subseteq Row
    BY <1>1 DEF Shape, Request
  <1>3. rows[req[t].user] \subseteq Row
    BY <1>2 DEF SourcesInv, TypeOK
  <1>4. Visible(t) = Seen(req[t])
    BY DEF Visible, Seen
  <1> QED
    BY <1>1, <1>2, <1>3, <1>4 DEF Visible

\* A request is refused, or goes on to look for its rows or to insert (Check).
LEMMA CheckKeeps ==
    ASSUME SourcesInv, NEW t \in Requests, Check(t)
    PROVE  SourcesInv'
  <1>1. Active(t) /\ req[t].step = "check"
    BY DEF Check, Active
  <1>2. CASE Abort(t)
    BY <1>1, <1>2, AbortKeeps
  <1>3. CASE Goto(t, IF req[t].op = "default" THEN "insert" ELSE "scan") /\ UNCHANGED rows
    <2>1. req[t].op \in {"manual", "default"}
      BY <1>1, Running DEF Shape
    <2>2. /\ req' \in [Requests -> Request]
          /\ \A q \in Requests \ {t} : req'[q] = req[q]
          /\ req'[t].step = IF req[t].op = "default" THEN "insert" ELSE "scan"
          /\ req'[t].alone = req[t].alone /\ req'[t].user = req[t].user
          /\ req'[t].op = req[t].op /\ req'[t].role = req[t].role
          /\ req'[t].inserted = req[t].inserted
      BY <1>1, <1>3, Running DEF Goto, Request, Steps
    <2>3. Shape(req[t])' /\ Kept(req[t])' /\ Healing(req[t])'
      BY <1>1, <2>1, <2>2, Running DEF Shape, Kept, Healing
    <2> QED
      BY <1>1, <1>3, <2>2, <2>3, Advance
  <1> QED
    BY <1>2, <1>3 DEF Check

\* The rows that a DELETE matches are rows (OwnRows, Rescan).
LEMMA MatchedRows ==
    ASSUME SourcesInv, NEW t \in Requests, Active(t)
    PROVE  OwnRows(t) \subseteq Row /\ EffectiveOf(rows[req[t].user]) \subseteq Row
  BY Running DEF OwnRows, EffectiveOf, OfKind

\* The operation's own DELETE finds its rows (Scan).
LEMMA ScanKeeps ==
    ASSUME SourcesInv, NEW t \in Requests, Scan(t)
    PROVE  SourcesInv'
  <1>1. Active(t) /\ req[t].step = "scan" /\ UNCHANGED rows
    BY DEF Scan, Active
  <1>2. /\ req' \in [Requests -> Request]
        /\ \A q \in Requests \ {t} : req'[q] = req[q]
        /\ req'[t].step = "delete"
        /\ req'[t].alone = req[t].alone /\ req'[t].user = req[t].user
        /\ req'[t].op = req[t].op /\ req'[t].role = req[t].role
        /\ req'[t].inserted = req[t].inserted
    BY <1>1, Running, MatchedRows DEF Scan, Request, Steps
  <1>3. Shape(req[t])' /\ Kept(req[t])' /\ Healing(req[t])'
    BY <1>1, <1>2, Running DEF Shape, Kept, Healing
  <1> QED
    BY <1>1, <1>2, <1>3, Advance

\* A DELETE has taken all that it found and goes on, or takes one more row that no other
\* transaction has written (Drop).
LEMMA Dropped ==
    ASSUME SourcesInv, NEW t \in Requests, Active(t), NEW step \in Steps, Drop(t, step)
    PROVE  /\ UNCHANGED rows
           /\ req' \in [Requests -> Request]
           /\ \A q \in Requests \ {t} : req'[q] = req[q]
           /\ req'[t].alone = req[t].alone /\ req'[t].user = req[t].user
           /\ req'[t].op = req[t].op /\ req'[t].role = req[t].role
           /\ req'[t].inserted = req[t].inserted
           /\ \/ /\ req[t].found = {} /\ req'[t].found = {}
                 /\ req'[t].step = step /\ req'[t].deleted = req[t].deleted
              \/ /\ req'[t].step = req[t].step
                 /\ \E x \in req[t].found \ Locked(t) :
                        /\ req'[t].found = req[t].found \ {x}
                        /\ req'[t].deleted = req[t].deleted \cup {x}
  <1>1. req[t] \in Request /\ req \in [Requests -> Request] /\ UNCHANGED rows
    BY Running DEF Drop
  <1>2. CASE req[t].found = {} /\ Goto(t, step)
    BY <1>1, <1>2 DEF Goto, Request
  <1>3. ASSUME NEW x \in req[t].found \ Locked(t),
               req' = [req EXCEPT ![t].found = @ \ {x}, ![t].deleted = @ \cup {x}]
        PROVE  /\ req' \in [Requests -> Request]
               /\ \A q \in Requests \ {t} : req'[q] = req[q]
               /\ req'[t].alone = req[t].alone /\ req'[t].user = req[t].user
               /\ req'[t].op = req[t].op /\ req'[t].role = req[t].role
               /\ req'[t].inserted = req[t].inserted
               /\ req'[t].step = req[t].step
               /\ req'[t].found = req[t].found \ {x}
               /\ req'[t].deleted = req[t].deleted \cup {x}
    BY <1>1, <1>3 DEF Request
  <1> QED
    BY <1>1, <1>2, <1>3 DEF Drop

\* A reconciliation goes on to insert or to read, a bulk revocation commits (Delete).
LEMMA DeleteKeeps ==
    ASSUME SourcesInv, NEW t \in Requests, Delete(t)
    PROVE  SourcesInv'
  <1>1. Active(t) /\ req[t].step = "delete"
    BY DEF Delete, Active
  <1>2. /\ req[t].op \in {"moodle", "manual", "revoke", "bulk_revoke"}
        /\ req[t].op = "bulk_revoke" => req[t].role # None
    BY <1>1, Running DEF Shape
  <1>3. PICK step \in {"commit", "read", "insert"} :
            /\ Drop(t, step)
            /\ step = "commit" => req[t].op = "bulk_revoke"
            /\ step \in {"read", "insert"} => req[t].op \in {"moodle", "manual", "revoke"}
            /\ step = "insert" => req[t].op \in {"moodle", "manual"} /\ req[t].role # None
    <2>1. CASE req[t].op = "bulk_revoke"
      <3>1. Drop(t, "commit")
        BY <1>2, <2>1 DEF Delete
      <3> QED
        BY <2>1, <3>1
    <2>2. CASE req[t].op # "bulk_revoke" /\ (req[t].op = "revoke" \/ req[t].role = None)
      <3>1. Drop(t, "read")
        BY <1>2, <2>2 DEF Delete
      <3> QED
        BY <1>2, <2>2, <3>1
    <2>3. CASE req[t].op \in {"moodle", "manual"} /\ req[t].role # None
      <3>1. Drop(t, "insert")
        BY <2>3 DEF Delete
      <3> QED
        BY <2>3, <3>1
    <2> QED
      BY <1>2, <2>1, <2>2, <2>3
  <1>4. step \in Steps
    BY DEF Steps
  <1>5. /\ req'[t].step = "delete" \/ req'[t].step = step
        /\ req'[t].op = req[t].op /\ req'[t].role = req[t].role
        /\ req'[t].user = req[t].user /\ req'[t].inserted = req[t].inserted
    BY <1>1, <1>3, <1>4, Dropped
  <1>6. Shape(req[t])' /\ Kept(req[t])' /\ Healing(req[t])'
    BY <1>1, <1>2, <1>3, <1>5, Running DEF Shape, Kept, Healing, Reconciling
  <1> QED
    BY <1>1, <1>3, <1>4, <1>6, Dropped, Advance

\* The effective rows that were found are deleted, and the sources stay (Clear).
LEMMA ClearKeeps ==
    ASSUME SourcesInv, NEW t \in Requests, Clear(t)
    PROVE  SourcesInv'
  <1>1. Active(t) /\ req[t].step = "clear" /\ Drop(t, "set") /\ "set" \in Steps
    BY DEF Clear, Active, Steps
  <1>2. /\ Shape(req[t]) /\ Kept(req[t]) /\ Healing(req[t])
        /\ req[t].op \in Reconciling /\ EffectiveOf(req[t].inserted) = {}
    BY <1>1, Running DEF Shape, Kept
  <1>3. /\ UNCHANGED rows /\ req'[t].alone = req[t].alone /\ req'[t].user = req[t].user
        /\ req'[t].op = req[t].op /\ req'[t].role = req[t].role
        /\ req'[t].inserted = req[t].inserted /\ req'[t].step \in {"clear", "set"}
    BY <1>1, Dropped
  <1>4. Shape(req[t])' /\ Kept(req[t])'
    BY <1>1, <1>2, <1>3 DEF Shape, Kept, Reconciling
  <1>5. Healing(req[t])'
    <2> SUFFICES ASSUME req[t].alone
                 PROVE  /\ req[t].role \in Resolutions(Seen(req[t]))'
                        /\ req'[t].step = "clear" =>
                               /\ EffectiveOf(Seen(req[t]))' \subseteq req'[t].found
                               /\ \A x \in req'[t].found : x.kind = "effective"
                        /\ req'[t].step = "set" => EffectiveOf(Seen(req[t]))' = {}
      BY <1>3 DEF Healing
    <2> DEFINE before == Seen(req[t])
    <2>1. /\ req[t].role \in Resolutions(before) /\ EffectiveOf(before) \subseteq req[t].found
          /\ \A x \in req[t].found : x.kind = "effective"
      BY <1>1, <1>2 DEF Healing
    <2>2. CASE req[t].found = {} /\ req'[t].step = "set" /\ req'[t].deleted = req[t].deleted
      <3>1. Seen(req[t])' = before
        BY <1>3, <2>2 DEF Seen
      <3>2. /\ Resolutions(Seen(req[t]))' = Resolutions(before)
            /\ EffectiveOf(Seen(req[t]))' = EffectiveOf(before)
        BY <3>1 DEF Resolutions, NamesBySource, OfKind, EffectiveOf
      <3> QED
        BY <1>3, <2>1, <2>2, <3>2
    <2>3. ASSUME NEW x \in req[t].found, req'[t].step = "clear",
                 req'[t].found = req[t].found \ {x},
                 req'[t].deleted = req[t].deleted \cup {x}
          PROVE  /\ req[t].role \in Resolutions(Seen(req[t]))'
                 /\ EffectiveOf(Seen(req[t]))' \subseteq req'[t].found
      <3> DEFINE after == (rows[req[t].user] \ (req[t].deleted \cup {x})) \cup req[t].inserted
      <3>1. /\ x.kind = "effective" /\ after \subseteq before
            /\ \A y \in before : y \in after \/ y = x
            /\ x \in after => x \in req[t].inserted
        BY <1>3, <2>1, <2>3 DEF Seen
      <3>2. x \notin req[t].inserted
        BY <1>2, <3>1 DEF EffectiveOf, OfKind
      <3>7. Seen(req[t])' = after
        BY <1>3, <2>3 DEF Seen
      <3> HIDE DEF before, after
      <3>3. OfKind(after, Sources) = OfKind(before, Sources)
        BY <3>1 DEF OfKind, Sources
      <3>4. Resolutions(after) = Resolutions(before)
        BY <3>3, SourcesDecide
      <3>5. EffectiveOf(after) \subseteq EffectiveOf(before) \ {x}
        BY <3>1, <3>2 DEF EffectiveOf, OfKind
      <3>6. /\ Resolutions(Seen(req[t]))' = Resolutions(after)
            /\ EffectiveOf(Seen(req[t]))' = EffectiveOf(after)
        BY <3>7 DEF Resolutions, NamesBySource, OfKind, EffectiveOf
      <3> QED
        BY <2>1, <2>3, <3>4, <3>5, <3>6
    <2>4. \/ req[t].found = {} /\ req'[t].step = "set" /\ req'[t].deleted = req[t].deleted
          \/ \E x \in req[t].found :
                 /\ req'[t].step = "clear" /\ req'[t].found = req[t].found \ {x}
                 /\ req'[t].deleted = req[t].deleted \cup {x}
      BY <1>1, Dropped
    <2> QED
      BY <2>1, <2>2, <2>3, <2>4
  <1> QED
    BY <1>1, <1>4, <1>5, Dropped, Advance

\* A row is inserted, or is there and is left (Put).
LEMMA PutRow ==
    ASSUME SourcesInv, NEW t \in Requests, Active(t), NEW row \in Row, NEW step \in Steps,
           UNCHANGED rows,
           \/ Goto(t, step)
           \/ req' = [req EXCEPT ![t].step = step, ![t].inserted = @ \cup {row}]
    PROVE  /\ req' \in [Requests -> Request]
           /\ \A q \in Requests \ {t} : req'[q] = req[q]
           /\ req'[t].step = step
           /\ req'[t].alone = req[t].alone /\ req'[t].user = req[t].user
           /\ req'[t].op = req[t].op /\ req'[t].role = req[t].role
           /\ req'[t].deleted = req[t].deleted
           /\ \/ req'[t].inserted = req[t].inserted
              \/ req'[t].inserted = req[t].inserted \cup {row}
  <1>1. req[t] \in Request /\ req \in [Requests -> Request]
    BY Running
  <1> QED
    BY <1>1 DEF Goto, Request

\* A source is inserted, and no effective row (Insert).
LEMMA InsertKeeps ==
    ASSUME SourcesInv, NEW t \in Requests, Insert(t)
    PROVE  SourcesInv'
  <1>1. Active(t) /\ req[t].step = "insert" /\ req[t] \in Request
        /\ Shape(req[t]) /\ Kept(req[t])
    <2>1. Active(t) /\ req[t].step = "insert"
      BY DEF Insert, Active
    <2> QED
      BY <2>1, Running
  <1>2. \/ req[t].op \in {"default", "bootstrap"}
        \/ req[t].op \in {"moodle", "manual"} /\ req[t].role \in GlobalRoles
    BY <1>1 DEF Shape, Request
  <1>3. OwnRow(t) \in Row /\ OwnRow(t).kind \in Sources
    <2>1. CASE req[t].op \in {"moodle", "manual"} /\ req[t].role \in GlobalRoles
      BY <2>1 DEF OwnRow, Row, Sources
    <2>2. CASE req[t].op = "default"
      BY <2>2, RoleSourcesAssumption DEF OwnRow, Row, Sources
    <2>3. CASE req[t].op = "bootstrap"
      BY <2>3, RoleSourcesAssumption DEF OwnRow, Row, Sources
    <2> QED
      BY <1>2, <2>1, <2>2, <2>3
  <1> DEFINE step == IF req[t].op = "bootstrap" THEN "set" ELSE "read"
  <1>4. step \in Steps
    BY DEF Steps
  <1>5. CASE Abort(t)
    BY <1>1, <1>5, AbortKeeps
  <1>6. CASE /\ UNCHANGED rows
             /\ \/ Goto(t, step)
                \/ req' = [req EXCEPT ![t].step = step, ![t].inserted = @ \cup {OwnRow(t)}]
    <2> DEFINE row == OwnRow(t)
    <2>1. /\ req' \in [Requests -> Request]
          /\ \A q \in Requests \ {t} : req'[q] = req[q]
          /\ req'[t].step = step
          /\ req'[t].alone = req[t].alone /\ req'[t].user = req[t].user
          /\ req'[t].op = req[t].op /\ req'[t].role = req[t].role
          /\ req'[t].deleted = req[t].deleted
          /\ \/ req'[t].inserted = req[t].inserted
             \/ req'[t].inserted = req[t].inserted \cup {row}
      <3> HIDE DEF step
      <3> QED
        BY <1>1, <1>3, <1>4, <1>6, PutRow
    <2>2. EffectiveOf(req[t].inserted) = {} => EffectiveOf(req'[t].inserted) = {}
      BY <1>3, <2>1 DEF EffectiveOf, OfKind, Sources
    <2>3. Shape(req[t])'
      BY <1>1, <1>2, <2>1 DEF Shape, Reconciling
    <2>4. Kept(req[t])'
      <3>1. EffectiveOf(req[t].inserted)' = EffectiveOf(req'[t].inserted)
        BY DEF EffectiveOf, OfKind
      <3> QED
        BY <1>1, <1>2, <2>1, <2>2, <3>1 DEF Kept, Reconciling
    <2>5. Healing(req[t])'
      BY <1>2, <2>1 DEF Healing, Reconciling
    <2> QED
      BY <1>1, <1>6, <2>1, <2>3, <2>4, <2>5, Advance
  <1> QED
    BY <1>5, <1>6 DEF Insert, Put

\* The effective row is inserted, or a bootstrap or bulk grant finds it (Set).
LEMMA SetKeeps ==
    ASSUME SourcesInv, NEW t \in Requests, Set(t)
    PROVE  SourcesInv'
  <1>1. Active(t) /\ req[t].step = "set" /\ req[t] \in Request
        /\ Shape(req[t]) /\ Kept(req[t]) /\ Healing(req[t])
    <2>1. Active(t) /\ req[t].step = "set"
      BY DEF Set, Active
    <2> QED
      BY <2>1, Running
  <1>2. /\ req[t].op \in Reconciling \cup {"bootstrap", "bulk_grant"}
        /\ req[t].op = "bootstrap" \/ req[t].role \in GlobalRoles
    BY <1>1 DEF Shape, Request
  <1> DEFINE row == EffectiveRow(t)
  <1>3. row \in Row /\ row.kind = "effective" /\ "commit" \in Steps
    BY <1>2, RoleSourcesAssumption DEF EffectiveRow, Row, Steps
  <1>4. req[t].op \in Reconciling => row = [role |-> req[t].role, kind |-> "effective"]
    BY DEF Reconciling, EffectiveRow
  <1> HIDE DEF row
  <1>5. CASE Abort(t)
    BY <1>1, <1>5, AbortKeeps
  <1>6. CASE /\ UNCHANGED rows
             /\ \/ Goto(t, "commit") /\ req[t].op \in {"bootstrap", "bulk_grant"}
                \/ req' = [req EXCEPT ![t].step = "commit", ![t].inserted = @ \cup {row}]
    <2>1. /\ req' \in [Requests -> Request]
          /\ \A q \in Requests \ {t} : req'[q] = req[q]
          /\ req'[t].step = "commit"
          /\ req'[t].alone = req[t].alone /\ req'[t].user = req[t].user
          /\ req'[t].op = req[t].op /\ req'[t].role = req[t].role
          /\ req'[t].deleted = req[t].deleted
      BY <1>1, <1>3, <1>6, PutRow
    <2>2. req[t].op \in Reconciling => req'[t].inserted = req[t].inserted \cup {row}
      BY <1>1, <1>6 DEF Request, Reconciling, SourcesInv, TypeOK
    <2>3. Shape(req[t])'
      BY <1>1, <2>1 DEF Shape
    <2>4. Kept(req[t])'
      BY <1>1, <1>4, <2>1, <2>2 DEF Kept
    <2>5. ASSUME req[t].op \in Reconciling, req[t].alone
          PROVE  /\ req[t].role \in Resolutions(Seen(req[t]))'
                 /\ EffectiveOf(Seen(req[t]))' = {row}
      <3> DEFINE before == Seen(req[t])
                 after == before \cup {row}
      <3>1. Seen(req[t])' = after
        BY <1>6, <2>1, <2>2, <2>5 DEF Seen
      <3>2. req[t].role \in Resolutions(before) /\ EffectiveOf(before) = {}
        BY <1>1, <2>5 DEF Healing
      <3>3. OfKind(after, Sources) = OfKind(before, Sources) /\ EffectiveOf(after) = {row}
        <4> HIDE DEF before
        <4> QED
          BY <1>3, <3>2 DEF EffectiveOf, OfKind, Sources
      <3> HIDE DEF before, after
      <3>4. Resolutions(after) = Resolutions(before)
        BY <3>3, SourcesDecide
      <3>5. Resolutions(Seen(req[t]))' = Resolutions(after)
        BY <3>1 DEF Resolutions, NamesBySource, OfKind
      <3>6. EffectiveOf(Seen(req[t]))' = EffectiveOf(after)
        BY <3>1 DEF EffectiveOf, OfKind
      <3>7. req'[t].role = req[t].role
        BY <2>1
      <3> QED
        BY <3>2, <3>3, <3>4, <3>5, <3>6, <3>7
    <2>6. Healing(req[t])'
      BY <1>4, <2>1, <2>5 DEF Healing
    <2> QED
      BY <1>1, <1>6, <2>1, <2>3, <2>4, <2>6, Advance
  <1> QED
    BY <1>5, <1>6 DEF Set, Put, row

\* The sources are read and resolved (Read).
LEMMA ReadKeeps ==
    ASSUME SourcesInv, NEW t \in Requests, Read(t)
    PROVE  SourcesInv'
  <1>1. Active(t) /\ req[t].step = "read" /\ UNCHANGED rows
    BY DEF Read, Active
  <1>2. /\ req \in [Requests -> Request] /\ req[t] \in Request
        /\ Shape(req[t]) /\ Kept(req[t]) /\ Visible(t) = Seen(req[t]) /\ Visible(t) \subseteq Row
    BY <1>1, Running
  <1>3. PICK effective \in Resolutions(Visible(t)) :
            req' = [req EXCEPT ![t].step = "rescan", ![t].role = effective]
    BY DEF Read
  <1>4. effective \in GlobalRoles /\ effective # None
    BY <1>2, ResolvedRole, RoleSourcesAssumption
  <1>5. /\ req' \in [Requests -> Request]
        /\ \A q \in Requests \ {t} : req'[q] = req[q]
        /\ req'[t].step = "rescan" /\ req'[t].role = effective
        /\ req'[t].alone = req[t].alone /\ req'[t].user = req[t].user
        /\ req'[t].op = req[t].op
        /\ req'[t].inserted = req[t].inserted /\ req'[t].deleted = req[t].deleted
    BY <1>2, <1>3, <1>4 DEF Request, Steps
  <1>6. Shape(req[t])' /\ Kept(req[t])'
    BY <1>1, <1>2, <1>4, <1>5 DEF Shape, Kept
  <1>7. Seen(req[t])' = Visible(t)
    BY <1>1, <1>2, <1>5 DEF Seen
  <1>8. Resolutions(Seen(req[t]))' = Resolutions(Visible(t))
    BY <1>7 DEF Resolutions, NamesBySource, OfKind
  <1>9. Healing(req[t])'
    BY <1>3, <1>5, <1>8 DEF Healing
  <1> QED
    BY <1>1, <1>5, <1>6, <1>9, Advance

\* The effective rows are found (Rescan).
LEMMA RescanKeeps ==
    ASSUME SourcesInv, NEW t \in Requests, Rescan(t)
    PROVE  SourcesInv'
  <1>1. Active(t) /\ req[t].step = "rescan" /\ UNCHANGED rows
    BY DEF Rescan, Active
  <1>2. /\ req \in [Requests -> Request] /\ req[t] \in Request
        /\ Shape(req[t]) /\ Kept(req[t]) /\ Healing(req[t])
        /\ EffectiveOf(rows[req[t].user]) \subseteq Row
    BY <1>1, Running, MatchedRows
  <1>3. req' = [req EXCEPT ![t].step = "clear", ![t].found = EffectiveOf(rows[req[t].user])]
    BY DEF Rescan, EffectiveOf
  <1>4. /\ req' \in [Requests -> Request]
        /\ \A q \in Requests \ {t} : req'[q] = req[q]
        /\ req'[t].step = "clear" /\ req'[t].role = req[t].role
        /\ req'[t].found = EffectiveOf(rows[req[t].user])
        /\ req'[t].alone = req[t].alone /\ req'[t].user = req[t].user
        /\ req'[t].op = req[t].op
        /\ req'[t].inserted = req[t].inserted /\ req'[t].deleted = req[t].deleted
    BY <1>2, <1>3 DEF Request, Steps
  <1>5. Shape(req[t])' /\ Kept(req[t])'
    BY <1>1, <1>2, <1>4 DEF Shape, Kept
  <1>6. Seen(req[t])' = Seen(req[t])
    BY <1>1, <1>4 DEF Seen
  <1>7. /\ Resolutions(Seen(req[t]))' = Resolutions(Seen(req[t]))
        /\ EffectiveOf(Seen(req[t]))' = EffectiveOf(Seen(req[t]))
    BY <1>1, <1>4, <1>6 DEF Resolutions, NamesBySource, OfKind, EffectiveOf
  <1>8. /\ EffectiveOf(Seen(req[t])) \subseteq req'[t].found
        /\ \A x \in req'[t].found : x.kind = "effective"
    <2>1. req[t].op \in Reconciling /\ EffectiveOf(req[t].inserted) = {}
      BY <1>1, <1>2 DEF Shape, Kept
    <2> QED
      BY <1>4, <2>1 DEF Seen, EffectiveOf, OfKind
  <1>9. Healing(req[t])'
    BY <1>1, <1>2, <1>4, <1>7, <1>8 DEF Healing
  <1> QED
    BY <1>1, <1>4, <1>5, <1>9, Advance

\* What a transaction has written is committed; no other on its user is alone (Commit).
LEMMA CommitKeeps ==
    ASSUME SourcesInv, NEW t \in Requests, Commit(t)
    PROVE  SourcesInv'
  <1>1. Active(t) /\ req[t].step = "commit"
    BY DEF Commit, Active
  <1>2. /\ req \in [Requests -> Request] /\ Visible(t) \subseteq Row /\ req[t].user \in Users
        /\ rows \in [Users -> SUBSET Row]
    BY <1>1, Running DEF Shape, SourcesInv, TypeOK
  <1> DEFINE left(s) == [req[s] EXCEPT !.found = @ \ req[t].deleted]
  <1>3. \A s \in Requests :
            /\ req[s] \in Request /\ left(s) \in Request
            /\ left(s).step = req[s].step /\ left(s).op = req[s].op
            /\ left(s).role = req[s].role /\ left(s).user = req[s].user
            /\ left(s).alone = req[s].alone
            /\ left(s).deleted = req[s].deleted /\ left(s).inserted = req[s].inserted
    <2>1. \A s \in Requests : req[s] \in Request
      BY <1>2
    <2> QED
      BY <2>1 DEF Request
  <1>4. NoRequest \in Request /\ NoRequest.step = "idle"
    BY NoRequestType DEF NoRequest
  <1>5. /\ rows' = [rows EXCEPT ![req[t].user] = Visible(t)]
        /\ req' = [s \in Requests |-> IF s = t THEN NoRequest
                                      ELSE IF s \in Others(t) THEN left(s) ELSE req[s]]
    BY DEF Commit
  <1> HIDE DEF left
  <1>6. /\ req' \in [Requests -> Request] /\ rows' \in [Users -> SUBSET Row]
        /\ req'[t] = NoRequest
        /\ \A s \in Requests \ {t} : req'[s] = IF s \in Others(t) THEN left(s) ELSE req[s]
    BY <1>2, <1>3, <1>4, <1>5
  <1>7. \A s \in Requests : Active(s)' => s # t /\ Active(s)
                                          /\ req'[s].user = req[s].user
                                          /\ req'[s].alone = req[s].alone
    BY <1>3, <1>4, <1>6 DEF Active
  <1>8. Lone'
    BY <1>7 DEF SourcesInv, Lone
  <1>9. ASSUME NEW q \in Requests, Active(q)'
        PROVE  Shape(req[q])' /\ Kept(req[q])' /\ Healing(req[q])'
    <2>1. /\ q # t /\ Active(q) /\ Shape(req[q]) /\ Kept(req[q]) /\ Healing(req[q])
          /\ req[q].user \in Users
      BY <1>7, <1>9 DEF SourcesInv, Shape
    <2>2. CASE q \in Others(t)
      <3>1. req'[q] = left(q) /\ req[q].user = req[t].user
        BY <1>6, <2>1, <2>2 DEF Others
      <3>2. ~req'[q].alone
        BY <1>1, <1>7, <1>9, <2>1, <3>1 DEF SourcesInv, Lone
      <3> QED
        BY <1>3, <2>1, <3>1, <3>2 DEF Shape, Kept, Healing
    <2>3. CASE q \notin Others(t)
      <3>1. req'[q] = req[q] /\ req[q].user # req[t].user
        BY <1>6, <2>1, <2>3 DEF Others
      <3>2. rows'[req[q].user] = rows[req[q].user]
        BY <1>2, <1>5, <2>1, <3>1
      <3> QED
        BY <2>1, <3>1, <3>2 DEF Shape, Kept, Healing, Seen
    <2> QED
      BY <2>2, <2>3
  <1> QED
    BY <1>6, <1>8, <1>9 DEF SourcesInv, TypeOK

-----------------------------------------------------------------------------
(* The theorems                                                               *)

\* Before the first transaction there is nothing (Init).
LEMMA InitHolds == Init => SourcesInv
  <1> SUFFICES ASSUME Init PROVE SourcesInv
    OBVIOUS
  <1>1. TypeOK
    BY NoRequestType DEF Init, TypeOK
  <1>2. \A t \in Requests : ~Active(t)
    BY DEF Init, Active, NoRequest
  <1> QED
    BY <1>1, <1>2 DEF SourcesInv, Lone

\* Every step keeps what a reconciliation that runs alone knows (Next).
LEMMA NextKeeps == SourcesInv /\ [Next]_vars => SourcesInv'
  <1> SUFFICES ASSUME SourcesInv, [Next]_vars PROVE SourcesInv'
    OBVIOUS
  <1>1. ASSUME NEW t \in Requests, NEW call \in Calls, NEW u \in Users, Begin(t, call, u)
        PROVE  SourcesInv'
    BY <1>1, BeginKeeps
  <1>2. ASSUME NEW t \in Requests, Step(t)
        PROVE  SourcesInv'
    BY <1>2, CheckKeeps, ScanKeeps, DeleteKeeps, InsertKeeps, ReadKeeps, RescanKeeps, ClearKeeps,
       SetKeeps, CommitKeeps DEF Step
  <1>3. ASSUME NEW t \in Requests, Active(t), Abort(t)
        PROVE  SourcesInv'
    BY <1>3, AbortKeeps
  <1>4. CASE UNCHANGED vars
    BY <1>4 DEF vars, SourcesInv, TypeOK, Lone, Active, Shape, Kept, Healing, Seen
  <1> QED
    BY <1>1, <1>2, <1>3, <1>4 DEF Next

\* The invariant of role sources.
THEOREM SourcesInvariant == Spec => []SourcesInv
  BY InitHolds, NextKeeps, PTL DEF Spec

\* Type correctness of the rows of both tables and of the transactions.
THEOREM TypeCorrect == Spec => []TypeOK
  <1>1. SourcesInv => TypeOK
    BY DEF SourcesInv
  <1> QED
    BY <1>1, SourcesInvariant, PTL

\* How a resolved role comes from the sources: admin first, then Moodle's, then the
\* assigned one (resolve_effective_role).
LEMMA Precedence ==
    ASSUME NEW R, NEW r \in Resolutions(R)
    PROVE  LET from(kind) == {x.role : x \in OfKind(R, {kind})} IN
           \/ r = Admin /\ \E s \in Sources : Admin \in from(s)
           \/ /\ \A s \in Sources : from(s) # {Admin}
              /\ \/ r \in from("moodle")
                 \/ r \in from("manual") /\ from("moodle") = {}
                 \/ r = Guest /\ from("moodle") \cup from("manual") = {}
  <1> DEFINE from(kind) == {x.role : x \in OfKind(R, {kind})}
             present == {x.kind : x \in OfKind(R, Sources)}
  <1>1. PICK names \in NamesBySource(R) : r = ResolveEffectiveRole(names)
    BY DEF Resolutions
  <1>2. /\ DOMAIN names = present
        /\ \A s \in present : [role |-> names[s], kind |-> s] \in R
    BY <1>1 DEF NamesBySource
  <1>3. present \subseteq Sources
    BY DEF OfKind
  <1>4. ASSUME NEW s \in present
        PROVE  names[s] \in from(s)
    <2> DEFINE x == [role |-> names[s], kind |-> s]
    <2>1. x \in R /\ x.kind = s /\ x.role = names[s]
      BY <1>2
    <2> HIDE DEF x
    <2>2. x \in OfKind(R, {s})
      BY <2>1 DEF OfKind
    <2> QED
      BY <2>1, <2>2
  <1>5. ASSUME NEW s \in Sources, s \notin present
        PROVE  from(s) = {}
    BY <1>5 DEF OfKind
  <1>6. {"moodle", "manual"} \subseteq Sources
    BY DEF Sources
  <1> HIDE DEF from, present
  <1>7. CASE \E s \in present : names[s] = Admin
    BY <1>1, <1>2, <1>3, <1>4, <1>7 DEF ResolveEffectiveRole, from
  <1>8. ASSUME \A s \in present : names[s] # Admin, NEW s \in Sources, from(s) = {Admin}
        PROVE  FALSE
    <2>1. s \in present
      BY <1>5, <1>8
    <2> QED
      BY <1>4, <1>8, <2>1
  <1>9. CASE (\A s \in present : names[s] # Admin) /\ "moodle" \in present
    <2>1. r \in from("moodle")
      BY <1>1, <1>2, <1>4, <1>9 DEF ResolveEffectiveRole
    <2> QED
      BY <1>8, <1>9, <2>1 DEF from
  <1>10. CASE (\A s \in present : names[s] # Admin) /\ "moodle" \notin present /\ "manual" \in present
    <2>1. r \in from("manual") /\ from("moodle") = {}
      BY <1>1, <1>2, <1>4, <1>5, <1>6, <1>10 DEF ResolveEffectiveRole
    <2> QED
      BY <1>8, <1>10, <2>1 DEF from
  <1>11. CASE (\A s \in present : names[s] # Admin) /\ {"moodle", "manual"} \cap present = {}
    <2>1. r = Guest /\ from("manual") = {} /\ from("moodle") = {}
      BY <1>1, <1>2, <1>5, <1>6, <1>11 DEF ResolveEffectiveRole
    <2> QED
      BY <1>8, <1>11, <2>1 DEF from
  <1> QED
    BY <1>7, <1>9, <1>10, <1>11

\* The commit of a reconciliation that ran alone leaves the one role (Commit).
LEMMA SoloReconciliation ==
    ASSUME SourcesInv, NEW t \in Requests, NEW u \in Users,
           req[t].user = u, req[t].alone, req[t].op \in Reconciling, Commit(t)
    PROVE  LET from(kind) == {x.role : x \in OfKind(rows'[u], {kind})} IN
           \E r \in GlobalRoles :
               /\ Effective(u)' = {r}
               /\ \/ r = Admin /\ \E s \in Sources : Admin \in from(s)
                  \/ /\ \A s \in Sources : from(s) # {Admin}
                     /\ \/ r \in from("moodle")
                        \/ r \in from("manual") /\ from("moodle") = {}
                        \/ r = Guest /\ from("moodle") \cup from("manual") = {}
  <1>1. Active(t) /\ req[t].step = "commit"
    BY DEF Commit, Active
  <1>2. /\ Healing(req[t]) /\ Visible(t) = Seen(req[t]) /\ Visible(t) \subseteq Row
        /\ rows \in [Users -> SUBSET Row]
    BY <1>1, Running DEF SourcesInv, TypeOK
  <1>3. /\ req[t].role \in Resolutions(Visible(t))
        /\ EffectiveOf(Visible(t)) = {[role |-> req[t].role, kind |-> "effective"]}
    BY <1>1, <1>2 DEF Healing
  <1>4. rows'[u] = Visible(t)
    BY <1>2 DEF Commit
  <1> DEFINE R == rows'[u]
  <1>5. req[t].role \in Resolutions(R) /\ req[t].role \in GlobalRoles
    BY <1>2, <1>3, <1>4, ResolvedRole
  <1>6. Effective(u)' = {req[t].role}
    <2> DEFINE row == [role |-> req[t].role, kind |-> "effective"]
    <2>1. Effective(u)' = {x.role : x \in OfKind(rows'[u], {"effective"})}
      BY DEF Effective, OfKind
    <2>2. OfKind(rows'[u], {"effective"}) = {row}
      BY <1>3, <1>4 DEF EffectiveOf
    <2>3. row.role = req[t].role
      OBVIOUS
    <2> HIDE DEF row
    <2> QED
      BY <2>1, <2>2, <2>3
  <1> HIDE DEF R
  <1> DEFINE from(kind) == {x.role : x \in OfKind(R, {kind})}
  <1>7. \/ req[t].role = Admin /\ \E s \in Sources : Admin \in from(s)
        \/ /\ \A s \in Sources : from(s) # {Admin}
           /\ \/ req[t].role \in from("moodle")
              \/ req[t].role \in from("manual") /\ from("moodle") = {}
              \/ req[t].role = Guest /\ from("moodle") \cup from("manual") = {}
    BY <1>5, Precedence
  <1> QED
    BY <1>5, <1>6, <1>7 DEF R

\* Whatever bulk grants, bootstraps, failures and races have left, a reconciliation
\* that nothing on its user runs beside leaves exactly the role that the sources
\* resolve to (reconcile_effective_role).
THEOREM SoloReconciliations == Spec => SoloReconciliationHeals
  <1>1. SourcesInv /\ [Next]_vars =>
            [\A t \in Requests, u \in Users :
                /\ req[t].user = u /\ req[t].alone /\ req[t].op \in Reconciling
                /\ Commit(t)
                => LET from(kind) == {x.role : x \in OfKind(rows'[u], {kind})} IN
                   \E r \in GlobalRoles :
                       /\ Effective(u)' = {r}
                       /\ \/ r = Admin /\ \E s \in Sources : Admin \in from(s)
                          \/ /\ \A s \in Sources : from(s) # {Admin}
                             /\ \/ r \in from("moodle")
                                \/ r \in from("manual") /\ from("moodle") = {}
                                \/ r = Guest /\ from("moodle") \cup from("manual") = {}]_vars
    BY SoloReconciliation
  <1> QED
    BY <1>1, SourcesInvariant, PTL DEF Spec, SoloReconciliationHeals

\* Of a user who has an effective role, only the commit of a bulk revocation leaves
\* none: every other transaction adds one or takes none away (Set, Commit).
LEMMA LastRole ==
    ASSUME SourcesInv, [Next]_vars, NEW u \in Users, Effective(u) # {}, Effective(u)' = {}
    PROVE  \E t \in Requests : req[t].user = u /\ req[t].op = "bulk_revoke" /\ Commit(t)
  <1>1. rows'[u] # rows[u]
    BY DEF Effective
  <1>2. PICK t \in Requests : Commit(t)
    BY <1>1 DEF Next, vars, Begin, Step, Check, Abort, Goto, Scan, Delete, Drop, Insert, Put, Read,
                Rescan, Clear, Set
  <1>3. Active(t) /\ req[t].step = "commit" /\ rows \in [Users -> SUBSET Row]
    BY <1>2 DEF Commit, Active, SourcesInv, TypeOK
  <1>4. /\ req[t] \in Request /\ Shape(req[t]) /\ Kept(req[t])
        /\ rows' = [rows EXCEPT ![req[t].user] = Visible(t)]
    BY <1>2, <1>3, Running DEF Commit
  <1>5. req[t].user = u /\ rows'[u] = Visible(t)
    BY <1>1, <1>3, <1>4 DEF Shape
  <1>6. CASE req[t].op \in {"bootstrap", "bulk_grant"}
    <2>1. rows[u] \subseteq rows'[u]
      BY <1>4, <1>5, <1>6 DEF Kept, Visible
    <2> QED
      BY <2>1 DEF Effective, OfKind
  <1>7. CASE req[t].op \in Reconciling
    <2> DEFINE row == [role |-> req[t].role, kind |-> "effective"]
    <2>1. row \in rows'[u] /\ row.kind = "effective"
      BY <1>3, <1>4, <1>5, <1>7 DEF Kept, Visible
    <2> HIDE DEF row
    <2> QED
      BY <2>1 DEF Effective, OfKind
  <1>8. CASE req[t].op = "bulk_revoke"
    BY <1>2, <1>5, <1>8
  <1>9. req[t].op \in Operations
    BY <1>3, <1>4 DEF Shape
  <1> QED
    BY <1>6, <1>7, <1>8, <1>9 DEF Operations, Reconciling

\* Racing reconciliations may leave a user too many roles and never none
\* (bulk_revoke_global_role alone deletes without inserting).
THEOREM RolesStay == Spec => UsersKeepARole
  <1>1. SourcesInv /\ [Next]_vars =>
            [\A u \in Users :
                Effective(u) # {} /\ Effective(u)' = {} =>
                    \E t \in Requests :
                        req[t].user = u /\ req[t].op = "bulk_revoke" /\ Commit(t)]_vars
    BY LastRole
  <1> QED
    BY <1>1, SourcesInvariant, PTL DEF Spec, UsersKeepARole

-----------------------------------------------------------------------------
(* Locks                                                                      *)

\* The rows that the DELETE of a phase is about to take, or has taken: the sources of
\* the operation's own kind until it has inserted one, then the effective rows.
Grip(r) ==
    IF r.step = "delete" THEN r.found \cup r.deleted
    ELSE IF r.step = "clear" THEN r.found \cup EffectiveOf(r.deleted)
    ELSE IF r.step = "insert" THEN r.deleted
    ELSE IF r.step = "set" THEN EffectiveOf(r.deleted)
    ELSE {}

\* Two transactions on a user that delete and insert by the same condition.
Rivals(r, q) ==
    /\ r.user = q.user
    /\ \/ r.op = q.op /\ r.op \in {"moodle", "manual"} /\ {r.step, q.step} \subseteq {"delete", "insert"}
       \/ {r.op, q.op} \subseteq Reconciling /\ {r.step, q.step} \subseteq {"clear", "set"}

\* What a transaction has written at each of its steps: sources of its own kind
\* first, effective rows not before the last DELETE and INSERT.
Tidy(r) ==
    /\ r.step \in {"check", "scan", "delete", "insert"} => r.inserted = {}
    /\ r.step \in {"check", "scan"} => r.deleted = {}
    /\ r.step = "delete" /\ r.op # "bulk_revoke" =>
           \A x \in r.found \cup r.deleted : x.kind \in Sources
    /\ r.step = "delete" /\ r.op \in {"moodle", "manual"} =>
           \A x \in r.found \cup r.deleted : x.kind = r.op
    /\ r.step = "insert" /\ r.op \notin {"moodle", "manual"} => r.deleted = {}
    /\ r.step = "insert" => \A x \in r.deleted : x.kind = r.op
    /\ r.step \in {"insert", "read", "rescan"} =>
           \A x \in r.deleted \cup r.inserted : x.kind \in Sources
    /\ r.step = "clear" => \A x \in r.found : x.kind = "effective"
    /\ r.step \in {"clear", "set"} => \A x \in r.inserted : x.kind \in Sources
    /\ r.step = "set" /\ r.op \notin Reconciling => r.deleted = {}

Nested(A, B) == A \subseteq B \/ B \subseteq A

\* Of two rivals the one that has looked later found all that the other one grips,
\* and nothing is deleted twice: so at most one of them has deleted anything.
LocksInv ==
    /\ \A t \in Requests :
           Active(t) => Tidy(req[t]) /\ Grip(req[t]) \subseteq rows[req[t].user]
    /\ \A t \in Requests, s \in Requests :
           s # t /\ Active(t) /\ Active(s) /\ req[s].user = req[t].user =>
               /\ req[t].deleted \cap req[s].deleted = {}
               /\ Rivals(req[t], req[s]) => Nested(Grip(req[t]), Grip(req[s]))

\* A transaction goes on, or ends, and commits nothing: the others are as they were.
LEMMA LocksAdvance ==
    ASSUME LocksInv, NEW t \in Requests, Active(t), UNCHANGED rows,
           \A q \in Requests \ {t} : req'[q] = req[q],
           Active(t)' =>
               /\ req'[t].user = req[t].user
               /\ Tidy(req[t])'
               /\ Grip(req[t])' \subseteq rows[req[t].user]
               /\ \A s \in Requests \ {t} : Active(s) /\ req[s].user = req[t].user =>
                      /\ req'[t].deleted \cap req[s].deleted = {}
                      /\ Rivals(req[t], req[s])' => Nested(Grip(req[t])', Grip(req[s]))
    PROVE  LocksInv'
  <1>1. ASSUME NEW q \in Requests \ {t}
        PROVE  /\ Active(q)' = Active(q) /\ Tidy(req[q])' = Tidy(req[q])
               /\ Grip(req[q])' = Grip(req[q])
    <2>1. req'[q] = req[q]
      OBVIOUS
    <2> QED
      BY <2>1 DEF Active, Tidy, Grip, EffectiveOf, OfKind
  <1>2. ASSUME NEW q \in Requests \ {t}, NEW s \in Requests \ {t}
        PROVE  Rivals(req[q], req[s])' = Rivals(req[q], req[s])
    <2>1. req'[q] = req[q] /\ req'[s] = req[s]
      OBVIOUS
    <2> QED
      BY <2>1 DEF Rivals
  <1>3. ASSUME NEW q \in Requests, Active(q)'
        PROVE  Tidy(req[q])' /\ Grip(req[q])' \subseteq rows'[req'[q].user]
    <2>1. CASE q = t
      BY <1>3, <2>1
    <2>2. CASE q # t
      BY <1>1, <1>3, <2>2 DEF LocksInv
    <2> QED
      BY <2>1, <2>2
  <1>4. ASSUME NEW q \in Requests, NEW s \in Requests,
               s # q, Active(q)', Active(s)', req'[s].user = req'[q].user
        PROVE  /\ req'[q].deleted \cap req'[s].deleted = {}
               /\ Rivals(req[q], req[s])' => Nested(Grip(req[q])', Grip(req[s])')
    <2>1. CASE q # t /\ s # t
      <3>1. /\ req'[q] = req[q] /\ req'[s] = req[s] /\ Active(q) /\ Active(s)
            /\ Grip(req[q])' = Grip(req[q]) /\ Grip(req[s])' = Grip(req[s])
            /\ Rivals(req[q], req[s])' = Rivals(req[q], req[s])
        BY <1>1, <1>2, <1>4, <2>1
      <3> QED
        BY <1>4, <3>1 DEF LocksInv
    <2>2. CASE q = t
      <3>1. s \in Requests \ {t} /\ req'[s] = req[s] /\ Active(s) /\ Grip(req[s])' = Grip(req[s])
        BY <1>1, <1>4, <2>2
      <3> QED
        BY <1>4, <2>2, <3>1
    <2>3. CASE s = t
      <3>1. /\ q \in Requests \ {t} /\ req'[q] = req[q] /\ Active(q)
            /\ Grip(req[q])' = Grip(req[q]) /\ req[q].user = req[t].user
        BY <1>1, <1>4, <2>3
      <3>2. Rivals(req[q], req[t])' => Rivals(req[t], req[q])'
        BY DEF Rivals
      <3> QED
        BY <1>4, <2>3, <3>1, <3>2 DEF Nested
    <2> QED
      BY <2>1, <2>2, <2>3
  <1> QED
    BY <1>3, <1>4 DEF LocksInv

\* A transaction that grips nothing and has deleted no more leaves the order as it was.
LEMMA LocksKept ==
    ASSUME LocksInv, NEW t \in Requests, Active(t), UNCHANGED rows,
           \A q \in Requests \ {t} : req'[q] = req[q],
           Active(t)' =>
               /\ req'[t].user = req[t].user /\ req'[t].deleted = req[t].deleted
               /\ Tidy(req[t])'
               /\ \/ Grip(req[t])' = {}
                  \/ /\ Grip(req[t])' = Grip(req[t])
                     /\ \A s \in Requests \ {t} : Rivals(req[t], req[s])' => Rivals(req[t], req[s])
    PROVE  LocksInv'
  <1> SUFFICES ASSUME Active(t)'
               PROVE  /\ Grip(req[t])' \subseteq rows[req[t].user]
                      /\ \A s \in Requests \ {t} : Active(s) /\ req[s].user = req[t].user =>
                             /\ req'[t].deleted \cap req[s].deleted = {}
                             /\ Rivals(req[t], req[s])' => Nested(Grip(req[t])', Grip(req[s]))
    BY LocksAdvance
  <1>1. Grip(req[t]) \subseteq rows[req[t].user]
    BY DEF LocksInv
  <1>2. ASSUME NEW s \in Requests \ {t}, Active(s), req[s].user = req[t].user
        PROVE  /\ req[t].deleted \cap req[s].deleted = {}
               /\ Rivals(req[t], req[s]) => Nested(Grip(req[t]), Grip(req[s]))
    BY <1>2 DEF LocksInv
  <1> QED
    BY <1>1, <1>2 DEF Nested

\* A transaction that ends without effect leaves what the others keep as it was.
LEMMA AbortLocks ==
    ASSUME SourcesInv, LocksInv, NEW t \in Requests, Active(t), Abort(t)
    PROVE  LocksInv'
  <1>1. req \in [Requests -> Request] /\ NoRequest.step = "idle"
    BY DEF SourcesInv, TypeOK, NoRequest
  <1>2. ~Active(t)' /\ UNCHANGED rows /\ \A q \in Requests \ {t} : req'[q] = req[q]
    BY <1>1 DEF Abort, Active
  <1> QED
    BY <1>2, LocksKept

\* A transaction begins with nothing deleted; the others are at the steps they were at.
LEMMA BeginLocks ==
    ASSUME SourcesInv, LocksInv, NEW t \in Requests, NEW call \in Calls, NEW u \in Users,
           Begin(t, call, u)
    PROVE  LocksInv'
  <1>1. ~Active(t) /\ UNCHANGED rows /\ req \in [Requests -> Request]
    BY DEF Begin, SourcesInv, TypeOK
  <1>2. /\ FirstStep(call.op) \in {"check", "scan", "insert", "set"} /\ call.op \in Operations
        /\ FirstStep(call.op) = "insert" => call.op \notin {"moodle", "manual"}
        /\ FirstStep(call.op) = "set" => call.op \notin Reconciling
    BY RoleSourcesAssumption DEF FirstStep, Operations, Reconciling
  <1>3. ASSUME NEW s \in Requests \ {t}
        PROVE  /\ req'[s].step = req[s].step /\ req'[s].op = req[s].op
               /\ req'[s].user = req[s].user /\ req'[s].found = req[s].found
               /\ req'[s].deleted = req[s].deleted /\ req'[s].inserted = req[s].inserted
    <2>1. req'[s] = req[s] \/ req'[s] = [req[s] EXCEPT !.alone = FALSE]
      BY DEF Begin
    <2>2. req[s] \in Request
      BY <1>1
    <2> QED
      BY <2>1, <2>2 DEF Request
  <1>4. /\ req'[t].step = FirstStep(call.op) /\ req'[t].op = call.op
        /\ req'[t].deleted = {} /\ req'[t].inserted = {}
    BY DEF Begin, NoRequest
  <1>5. ASSUME NEW s \in Requests \ {t}
        PROVE  /\ Active(s)' = Active(s) /\ Tidy(req[s])' = Tidy(req[s])
               /\ Grip(req[s])' = Grip(req[s])
    BY <1>3 DEF Active, Tidy, Grip, EffectiveOf, OfKind
  <1>6. Tidy(req[t])' /\ Grip(req[t])' = {}
    BY <1>2, <1>4 DEF Tidy, Grip, EffectiveOf, OfKind
  <1>7. ASSUME NEW q \in Requests, NEW s \in Requests,
               s # q, Active(q)', Active(s)', req'[s].user = req'[q].user
        PROVE  /\ req'[q].deleted \cap req'[s].deleted = {}
               /\ Rivals(req[q], req[s])' => Nested(Grip(req[q])', Grip(req[s])')
    <2>1. CASE q = t \/ s = t
      BY <1>4, <1>6, <1>7, <2>1 DEF Nested
    <2>2. CASE q # t /\ s # t
      <3>1. Rivals(req[q], req[s])' = Rivals(req[q], req[s])
        BY <1>3, <2>2 DEF Rivals
      <3> QED
        BY <1>3, <1>5, <1>7, <2>2, <3>1 DEF LocksInv
    <2> QED
      BY <2>1, <2>2
  <1>8. ASSUME NEW q \in Requests, Active(q)'
        PROVE  Tidy(req[q])' /\ Grip(req[q])' \subseteq rows'[req'[q].user]
    <2>1. CASE q = t
      BY <1>6, <2>1
    <2>2. CASE q # t
      BY <1>1, <1>3, <1>5, <1>8, <2>2 DEF LocksInv
    <2> QED
      BY <2>1, <2>2
  <1> QED
    BY <1>7, <1>8 DEF LocksInv

\* Looking before writing grips nothing.
LEMMA CheckLocks ==
    ASSUME SourcesInv, LocksInv, NEW t \in Requests, Check(t)
    PROVE  LocksInv'
  <1>1. Active(t) /\ req[t].step = "check" /\ req[t] \in Request /\ Tidy(req[t]) /\ Shape(req[t])
    <2>1. Active(t) /\ req[t].step = "check"
      BY DEF Check, Active
    <2> QED
      BY <2>1, Running DEF LocksInv
  <1>2. CASE Abort(t)
    BY <1>1, <1>2, AbortLocks
  <1>3. CASE Goto(t, IF req[t].op = "default" THEN "insert" ELSE "scan") /\ UNCHANGED rows
    <2>1. /\ \A q \in Requests \ {t} : req'[q] = req[q]
          /\ req'[t].step = IF req[t].op = "default" THEN "insert" ELSE "scan"
          /\ req'[t].user = req[t].user /\ req'[t].op = req[t].op
          /\ req'[t].inserted = req[t].inserted /\ req'[t].deleted = req[t].deleted
      BY <1>1, <1>3, Running DEF Goto, Request
    <2>2. Tidy(req[t])' /\ Grip(req[t])' = {}
      BY <1>1, <2>1 DEF Tidy, Grip, Shape
    <2> QED
      BY <1>1, <1>3, <2>1, <2>2, LocksKept
  <1> QED
    BY <1>2, <1>3 DEF Check

\* Who looks later finds all that those before it grip.
LEMMA ScanLocks ==
    ASSUME SourcesInv, LocksInv, NEW t \in Requests, Scan(t)
    PROVE  LocksInv'
  <1>1. Active(t) /\ req[t].step = "scan" /\ UNCHANGED rows
    BY DEF Scan, Active
  <1>2. /\ req[t] \in Request /\ Tidy(req[t]) /\ Shape(req[t])
        /\ req \in [Requests -> Request] /\ OwnRows(t) \subseteq rows[req[t].user]
        /\ OwnRows(t) \subseteq Row
    BY <1>1, Running, MatchedRows DEF LocksInv, OwnRows
  <1>3. /\ \A q \in Requests \ {t} : req'[q] = req[q]
        /\ req'[t].step = "delete" /\ req'[t].found = OwnRows(t)
        /\ req'[t].user = req[t].user /\ req'[t].op = req[t].op
        /\ req'[t].inserted = {} /\ req'[t].deleted = {}
    BY <1>1, <1>2 DEF Scan, Request, Tidy
  <1>4. /\ \A x \in OwnRows(t) : req[t].op # "bulk_revoke" => x.kind \in Sources
        /\ \A x \in OwnRows(t) : req[t].op \in {"moodle", "manual"} => x.kind = req[t].op
    <2>1. \A x \in OwnRows(t) : req[t].op = "revoke" => x.kind = "manual"
      BY DEF OwnRows
    <2> QED
      BY <1>1, <1>2, <2>1 DEF OwnRows, Shape, Sources
  <1>5. Tidy(req[t])' /\ Grip(req[t])' = OwnRows(t)
    BY <1>3, <1>4 DEF Tidy, Grip
  <1>6. ASSUME NEW s \in Requests \ {t}, Active(s), req[s].user = req[t].user,
               Rivals(req[t], req[s])'
        PROVE  Grip(req[s]) \subseteq OwnRows(t)
    <2>1. req[t].op = req[s].op /\ req[t].op \in {"moodle", "manual"}
          /\ req[s].step \in {"delete", "insert"}
      BY <1>3, <1>6 DEF Rivals
    <2>2. Tidy(req[s]) /\ Grip(req[s]) \subseteq rows[req[t].user]
      BY <1>6 DEF LocksInv
    <2>3. \A x \in Grip(req[s]) : x.kind = req[t].op
      BY <2>1, <2>2 DEF Tidy, Grip
    <2> QED
      BY <2>1, <2>2, <2>3 DEF OwnRows
  <1> QED
    BY <1>1, <1>2, <1>3, <1>5, <1>6, LocksAdvance DEF Nested

\* A DELETE takes the next of its rows, which no other transaction has deleted, or leaves its
\* step with all of them (Drop).
LEMMA DropLocks ==
    ASSUME SourcesInv, LocksInv, NEW t \in Requests, Active(t), NEW step \in Steps,
           Drop(t, step), Tidy(req[t])',
           \/ Grip(req[t])' = {}
           \/ /\ Grip(req[t])' = Grip(req[t])
              /\ \A s \in Requests \ {t} : Rivals(req[t], req[s])' => Rivals(req[t], req[s])
    PROVE  LocksInv'
  <1>1. /\ \A q \in Requests \ {t} : req'[q] = req[q]
        /\ req'[t].user = req[t].user /\ UNCHANGED rows
        /\ \/ req'[t].deleted = req[t].deleted
           \/ \E x \in req[t].found \ Locked(t) : req'[t].deleted = req[t].deleted \cup {x}
    BY Dropped
  <1>2. Grip(req[t]) \subseteq rows[req[t].user]
    BY DEF LocksInv
  <1>3. ASSUME NEW s \in Requests \ {t}, Active(s), req[s].user = req[t].user
        PROVE  /\ req'[t].deleted \cap req[s].deleted = {}
               /\ Rivals(req[t], req[s])' => Nested(Grip(req[t])', Grip(req[s]))
    <2>1. req[s].deleted \subseteq Locked(t)
      BY <1>3 DEF Locked, Held, Others
    <2>2. /\ req[t].deleted \cap req[s].deleted = {}
          /\ Rivals(req[t], req[s]) => Nested(Grip(req[t]), Grip(req[s]))
      BY <1>3 DEF LocksInv
    <2> QED
      BY <1>1, <2>1, <2>2 DEF Nested
  <1> QED
    BY <1>1, <1>2, <1>3, LocksAdvance

\* The operation's own DELETE (Delete) deletes source rows, or for a bulk revocation one effective row.
LEMMA DeleteLocks ==
    ASSUME SourcesInv, LocksInv, NEW t \in Requests, Delete(t)
    PROVE  LocksInv'
  <1>1. Active(t) /\ req[t].step = "delete" /\ Tidy(req[t]) /\ Shape(req[t])
    <2>1. Active(t) /\ req[t].step = "delete"
      BY DEF Delete, Active
    <2> QED
      BY <2>1, Running DEF LocksInv
  <1>2. PICK step \in {"commit", "read", "insert"} :
            /\ Drop(t, step)
            /\ step \in {"read", "insert"} => req[t].op # "bulk_revoke"
            /\ step = "insert" => req[t].op \in {"moodle", "manual"}
    <2>1. CASE req[t].op = "bulk_revoke"
      <3>1. Drop(t, "commit")
        BY <1>1, <2>1 DEF Delete, Shape
      <3> QED
        BY <2>1, <3>1
    <2>2. CASE req[t].op # "bulk_revoke" /\ (req[t].op = "revoke" \/ req[t].role = None)
      <3>1. Drop(t, "read")
        BY <1>1, <2>2 DEF Delete
      <3> QED
        BY <2>2, <3>1
    <2>3. CASE req[t].op \in {"moodle", "manual"} /\ req[t].role # None
      <3>1. Drop(t, "insert")
        BY <1>1, <2>3 DEF Delete
      <3> QED
        BY <2>3, <3>1
    <2> QED
      BY <1>1, <2>1, <2>2, <2>3 DEF Shape
  <1>3. step \in Steps
    BY DEF Steps
  <1>4. /\ req'[t].op = req[t].op /\ req'[t].inserted = {} /\ req'[t].user = req[t].user
        /\ \A q \in Requests \ {t} : req'[q] = req[q]
    BY <1>1, <1>2, <1>3, Dropped DEF Tidy
  <1>5. ASSUME NEW x \in req[t].found, req'[t].step = "delete",
               req'[t].found = req[t].found \ {x}, req'[t].deleted = req[t].deleted \cup {x}
        PROVE  LocksInv'
    <2>1. Tidy(req[t])'
      BY <1>1, <1>4, <1>5 DEF Tidy
    <2>2. Grip(req[t])' = Grip(req[t])
      BY <1>1, <1>5 DEF Grip
    <2>3. \A s \in Requests \ {t} : Rivals(req[t], req[s])' => Rivals(req[t], req[s])
      BY <1>1, <1>4, <1>5 DEF Rivals
    <2> QED
      BY <1>1, <1>2, <1>3, <2>1, <2>2, <2>3, DropLocks
  <1>6. CASE /\ req[t].found = {} /\ req'[t].found = {}
             /\ req'[t].step = step /\ req'[t].deleted = req[t].deleted
    <2>1. Tidy(req[t])'
      BY <1>1, <1>2, <1>4, <1>6 DEF Tidy
    <2>2. \/ Grip(req[t])' = {}
          \/ step = "insert" /\ Grip(req[t])' = Grip(req[t])
      BY <1>1, <1>6 DEF Grip
    <2>3. ASSUME step = "insert"
          PROVE  \A s \in Requests \ {t} : Rivals(req[t], req[s])' => Rivals(req[t], req[s])
      BY <1>1, <1>2, <1>4, <1>6, <2>3 DEF Rivals
    <2> QED
      BY <1>1, <1>2, <1>3, <2>1, <2>2, <2>3, DropLocks
  <1> QED
    BY <1>1, <1>2, <1>3, <1>5, <1>6, Dropped

\* The DELETE of reconcile_effective_role (Clear) deletes the effective rows it has found.
LEMMA ClearLocks ==
    ASSUME SourcesInv, LocksInv, NEW t \in Requests, Clear(t)
    PROVE  LocksInv'
  <1>1. Active(t) /\ req[t].step = "clear" /\ Drop(t, "set") /\ "set" \in Steps
    BY DEF Clear, Active, Steps
  <1>2. Tidy(req[t]) /\ Shape(req[t]) /\ req[t] \in Request
    BY <1>1, Running DEF LocksInv
  <1>3. /\ req'[t].op = req[t].op /\ req'[t].inserted = req[t].inserted
        /\ req'[t].user = req[t].user /\ \A q \in Requests \ {t} : req'[q] = req[q]
        /\ req'[t].step \in {"clear", "set"}
    BY <1>1, Dropped
  <1>4. /\ \A x \in req[t].inserted : x.kind \in Sources
        /\ \A x \in req[t].found : x.kind = "effective"
        /\ req[t].op \in Reconciling
    BY <1>1, <1>2 DEF Tidy, Shape
  <1>5. /\ \/ req'[t].step = "set" /\ req[t].found = {} /\ req'[t].found = {}
              /\ req'[t].deleted = req[t].deleted
           \/ req'[t].step = "clear" /\ \E x \in req[t].found :
                  /\ req'[t].found = req[t].found \ {x}
                  /\ req'[t].deleted = req[t].deleted \cup {x}
    BY <1>1, Dropped
  <1>6. Tidy(req[t])'
    BY <1>3, <1>4, <1>5 DEF Tidy
  <1>7. Grip(req[t])' = Grip(req[t])
    <2>1. CASE req'[t].step = "set" /\ req[t].found = {} /\ req'[t].deleted = req[t].deleted
      BY <1>1, <2>1 DEF Grip, EffectiveOf, OfKind
    <2>2. ASSUME NEW x \in req[t].found, req'[t].step = "clear",
                 req'[t].found = req[t].found \ {x}, req'[t].deleted = req[t].deleted \cup {x}
          PROVE  Grip(req[t])' = Grip(req[t])
      <3>1. Grip(req[t])' = (req[t].found \ {x}) \cup OfKind(req[t].deleted \cup {x}, {"effective"})
        BY <2>2 DEF Grip, EffectiveOf, OfKind
      <3>2. OfKind(req[t].deleted \cup {x}, {"effective"})
                = OfKind(req[t].deleted, {"effective"}) \cup {x}
        BY <1>4, <2>2 DEF OfKind
      <3> QED
        BY <1>1, <2>2, <3>1, <3>2 DEF Grip, EffectiveOf
    <2> QED
      BY <1>5, <2>1, <2>2
  <1>8. \A s \in Requests \ {t} : Rivals(req[t], req[s])' => Rivals(req[t], req[s])
    BY <1>1, <1>3 DEF Rivals
  <1> QED
    BY <1>1, <1>6, <1>7, <1>8, DropLocks

\* Inserting a source row (Insert) ends the grip on the source rows just deleted.
LEMMA InsertLocks ==
    ASSUME SourcesInv, LocksInv, NEW t \in Requests, Insert(t)
    PROVE  LocksInv'
  <1>1. Active(t) /\ req[t].step = "insert" /\ req[t] \in Request
        /\ Shape(req[t]) /\ Kept(req[t]) /\ Tidy(req[t])
    <2>1. Active(t) /\ req[t].step = "insert"
      BY DEF Insert, Active
    <2> QED
      BY <2>1, Running DEF LocksInv
  <1> DEFINE step == IF req[t].op = "bootstrap" THEN "set" ELSE "read"
             row == OwnRow(t)
  <1>2. row \in Row /\ row.kind \in Sources
    <2>1. CASE req[t].op \in {"moodle", "manual"} /\ req[t].role \in GlobalRoles
      BY <2>1 DEF OwnRow, Row, Sources
    <2>2. CASE req[t].op = "default"
      BY <2>2, RoleSourcesAssumption DEF OwnRow, Row, Sources
    <2>3. CASE req[t].op = "bootstrap"
      BY <2>3, RoleSourcesAssumption DEF OwnRow, Row, Sources
    <2> QED
      BY <1>1, <2>1, <2>2, <2>3 DEF Shape, Request
  <1>3. step \in Steps
    BY DEF Steps
  <1>4. CASE Abort(t)
    BY <1>1, <1>4, AbortLocks
  <1>5. CASE /\ UNCHANGED rows
             /\ \/ Goto(t, step)
                \/ req' = [req EXCEPT ![t].step = step, ![t].inserted = @ \cup {row}]
    <2>1. /\ \A q \in Requests \ {t} : req'[q] = req[q]
          /\ req'[t].step = step
          /\ req'[t].user = req[t].user /\ req'[t].op = req[t].op
          /\ req'[t].deleted = req[t].deleted
          /\ req'[t].inserted \subseteq req[t].inserted \cup {row}
      <3> HIDE DEF step, row
      <3> QED
        BY <1>1, <1>2, <1>3, <1>5, PutRow
    <2> HIDE DEF row
    <2>2. \A x \in req'[t].inserted : x.kind \in Sources
      BY <1>1, <1>2, <2>1 DEF Tidy
    <2>3. Tidy(req[t])'
      BY <1>1, <2>1, <2>2 DEF Tidy, Kept
    <2>4. Grip(req[t])' = {}
      BY <1>1, <2>1 DEF Grip, Kept, EffectiveOf, OfKind
    <2> QED
      BY <1>1, <1>5, <2>1, <2>3, <2>4, LocksKept
  <1> QED
    BY <1>4, <1>5 DEF Insert, Put

\* Once the effective row is inserted (Set) only the commit is left, which grips nothing.
LEMMA SetLocks ==
    ASSUME SourcesInv, LocksInv, NEW t \in Requests, Set(t)
    PROVE  LocksInv'
  <1>1. Active(t) /\ req[t].step = "set" /\ req[t] \in Request /\ Shape(req[t])
    <2>1. Active(t) /\ req[t].step = "set"
      BY DEF Set, Active
    <2> QED
      BY <2>1, Running
  <1> DEFINE row == EffectiveRow(t)
  <1>2. row \in Row /\ "commit" \in Steps
    <2>1. req[t].op = "bootstrap" \/ req[t].role \in GlobalRoles
      BY <1>1 DEF Shape, Request
    <2> QED
      BY <2>1, RoleSourcesAssumption DEF EffectiveRow, Row, Steps
  <1> HIDE DEF row
  <1>3. CASE Abort(t)
    BY <1>1, <1>3, AbortLocks
  <1>4. CASE /\ UNCHANGED rows
             /\ \/ Goto(t, "commit")
                \/ req' = [req EXCEPT ![t].step = "commit", ![t].inserted = @ \cup {row}]
    <2>1. /\ \A q \in Requests \ {t} : req'[q] = req[q]
          /\ req'[t].step = "commit" /\ req'[t].user = req[t].user
          /\ req'[t].deleted = req[t].deleted
      BY <1>1, <1>2, <1>4, PutRow
    <2>2. Tidy(req[t])' /\ Grip(req[t])' = {}
      BY <2>1 DEF Tidy, Grip
    <2> QED
      BY <1>1, <1>4, <2>1, <2>2, LocksKept
  <1> QED
    BY <1>3, <1>4 DEF Set, Put, row

\* Reading the sources (Read) grips nothing.
LEMMA ReadLocks ==
    ASSUME SourcesInv, LocksInv, NEW t \in Requests, Read(t)
    PROVE  LocksInv'
  <1>1. Active(t) /\ req[t].step = "read" /\ UNCHANGED rows
    BY DEF Read, Active
  <1>2. req \in [Requests -> Request] /\ req[t] \in Request /\ Tidy(req[t])
    BY <1>1, Running DEF LocksInv
  <1>3. PICK effective \in Resolutions(Visible(t)) :
            req' = [req EXCEPT ![t].step = "rescan", ![t].role = effective]
    BY DEF Read
  <1>4. /\ \A q \in Requests \ {t} : req'[q] = req[q]
        /\ req'[t].step = "rescan" /\ req'[t].user = req[t].user
        /\ req'[t].inserted = req[t].inserted /\ req'[t].deleted = req[t].deleted
    BY <1>2, <1>3 DEF Request
  <1>5. Tidy(req[t])' /\ Grip(req[t])' = {}
    BY <1>1, <1>2, <1>4 DEF Tidy, Grip
  <1> QED
    BY <1>1, <1>4, <1>5, LocksKept

\* Every effective row is found, and so all that rivals grip.
LEMMA RescanLocks ==
    ASSUME SourcesInv, LocksInv, NEW t \in Requests, Rescan(t)
    PROVE  LocksInv'
  <1>1. Active(t) /\ req[t].step = "rescan" /\ UNCHANGED rows
    BY DEF Rescan, Active
  <1> DEFINE found == EffectiveOf(rows[req[t].user])
  <1>2. /\ req \in [Requests -> Request] /\ req[t] \in Request /\ Tidy(req[t])
        /\ req' = [req EXCEPT ![t].step = "clear", ![t].found = found]
    BY <1>1, Running DEF LocksInv, Rescan, EffectiveOf
  <1>3. /\ \A q \in Requests \ {t} : req'[q] = req[q]
        /\ req'[t].step = "clear" /\ req'[t].found = found
        /\ req'[t].user = req[t].user
        /\ req'[t].inserted = req[t].inserted /\ req'[t].deleted = req[t].deleted
    BY <1>2 DEF Request
  <1>4. EffectiveOf(req[t].deleted) = {} /\ found \subseteq rows[req[t].user] /\ \A x \in found : x.kind = "effective"
    BY <1>1, <1>2 DEF Tidy, EffectiveOf, OfKind, Sources
  <1>5. Tidy(req[t])' /\ Grip(req[t])' = found
    BY <1>1, <1>2, <1>3, <1>4 DEF Tidy, Grip, EffectiveOf, OfKind
  <1>6. ASSUME NEW s \in Requests \ {t}, Active(s), req[s].user = req[t].user,
               Rivals(req[t], req[s])'
        PROVE  Grip(req[s]) \subseteq found
    <2>1. req[s].step \in {"clear", "set"}
      BY <1>3, <1>6 DEF Rivals
    <2>2. Tidy(req[s]) /\ Grip(req[s]) \subseteq rows[req[t].user]
      BY <1>6 DEF LocksInv
    <2>3. \A x \in Grip(req[s]) : x.kind = "effective"
      BY <2>1, <2>2 DEF Tidy, Grip, EffectiveOf, OfKind
    <2> QED
      BY <2>2, <2>3 DEF EffectiveOf, OfKind
  <1>7. \A s \in Requests \ {t} : Active(s) /\ req[s].user = req[t].user =>
            req'[t].deleted \cap req[s].deleted = {}
    BY <1>1, <1>3 DEF LocksInv
  <1> HIDE DEF found
  <1> QED
    BY <1>1, <1>3, <1>4, <1>5, <1>6, <1>7, LocksAdvance DEF Nested

\* What a transaction has deleted goes from the rows and from every grip alike.
LEMMA CommitLocks ==
    ASSUME SourcesInv, LocksInv, NEW t \in Requests, Commit(t)
    PROVE  LocksInv'
  <1>1. Active(t) /\ req[t].step = "commit"
    BY DEF Commit, Active
  <1>2. req \in [Requests -> Request] /\ req[t].user \in Users /\ rows \in [Users -> SUBSET Row]
    BY <1>1, Running DEF Shape, SourcesInv, TypeOK
  <1> DEFINE D == req[t].deleted
             lost(s) == [req[s] EXCEPT !.found = @ \ D]
  <1>3. /\ rows' = [rows EXCEPT ![req[t].user] = Visible(t)] /\ req'[t] = NoRequest
        /\ \A s \in Requests \ {t} : req'[s] = IF s \in Others(t) THEN lost(s) ELSE req[s]
    BY DEF Commit
  <1>4. \A s \in Requests : lost(s).found = req[s].found \ D
            /\ lost(s).step = req[s].step /\ lost(s).op = req[s].op
            /\ lost(s).user = req[s].user
            /\ lost(s).deleted = req[s].deleted /\ lost(s).inserted = req[s].inserted
    <2>1. \A s \in Requests : req[s] \in Request
      BY <1>2
    <2> HIDE DEF D
    <2> QED
      BY <2>1 DEF Request
  <1> HIDE DEF lost
  <1>5. /\ ~Active(t)'
        /\ \A s \in Requests \ {t} :
              /\ req'[s].step = req[s].step /\ req'[s].op = req[s].op
              /\ req'[s].user = req[s].user /\ req'[s].deleted = req[s].deleted
              /\ req'[s].inserted = req[s].inserted /\ req'[s].found \subseteq req[s].found
    BY <1>3, <1>4 DEF Active, NoRequest
  <1>6. ASSUME NEW q \in Requests, Active(q)'
        PROVE  /\ q # t /\ Active(q) /\ Tidy(req[q])'
               /\ req[q].user = req[t].user => Grip(req[q])' = Grip(req[q]) \ D
               /\ req[q].user # req[t].user => /\ Grip(req[q])' = Grip(req[q])
                                               /\ rows'[req'[q].user] = rows[req[q].user]
    <2>1. q # t /\ Active(q) /\ Tidy(req[q]) /\ req[q].user \in Users
      BY <1>5, <1>6 DEF Active, LocksInv, SourcesInv, Shape
    <2>2. Tidy(req[q])'
      BY <1>5, <2>1 DEF Tidy
    <2>3. ASSUME req[q].user = req[t].user
          PROVE  Grip(req[q])' = Grip(req[q]) \ D
      <3>1. req'[q].found = req[q].found \ D
        BY <1>3, <1>4, <2>1, <2>3 DEF Others
      <3>2. req[q].deleted \cap D = {}
        BY <1>1, <2>1, <2>3 DEF LocksInv
      <3> HIDE DEF D
      <3>3. Grip(req[q])' = IF req[q].step = "delete"
                            THEN (req[q].found \ D) \cup req[q].deleted
                            ELSE IF req[q].step = "clear"
                            THEN (req[q].found \ D) \cup EffectiveOf(req[q].deleted)
                            ELSE IF req[q].step = "insert" THEN req[q].deleted
                            ELSE IF req[q].step = "set" THEN EffectiveOf(req[q].deleted)
                            ELSE {}
        BY <1>5, <2>1, <3>1 DEF Grip, EffectiveOf, OfKind
      <3>4. EffectiveOf(req[q].deleted) \subseteq req[q].deleted
        BY DEF EffectiveOf, OfKind
      <3> QED
        BY <3>2, <3>3, <3>4 DEF Grip
    <2>4. ASSUME req[q].user # req[t].user
          PROVE  Grip(req[q])' = Grip(req[q]) /\ rows'[req'[q].user] = rows[req[q].user]
      <3>1. req'[q] = req[q]
        BY <1>3, <2>1, <2>4 DEF Others
      <3> QED
        BY <1>2, <1>3, <2>1, <2>4, <3>1 DEF Grip, EffectiveOf, OfKind
    <2> QED
      BY <2>1, <2>2, <2>3, <2>4
  <1>7. ASSUME NEW q \in Requests, Active(q)'
        PROVE  Grip(req[q])' \subseteq rows'[req'[q].user]
    <2>1. q # t /\ Active(q) /\ Grip(req[q]) \subseteq rows[req[q].user]
          /\ req'[q].user = req[q].user
      BY <1>5, <1>6, <1>7 DEF LocksInv
    <2>2. CASE req[q].user = req[t].user
      <3>1. rows'[req'[q].user] = Visible(t)
        BY <1>2, <1>3, <2>1, <2>2
      <3> QED
        BY <1>6, <1>7, <2>1, <2>2, <3>1 DEF Visible
    <2>3. CASE req[q].user # req[t].user
      BY <1>6, <1>7, <2>1, <2>3
    <2> QED
      BY <2>2, <2>3
  <1>8. ASSUME NEW q \in Requests, NEW s \in Requests,
               s # q, Active(q)', Active(s)', req'[s].user = req'[q].user
        PROVE  /\ req'[q].deleted \cap req'[s].deleted = {}
               /\ Rivals(req[q], req[s])' => Nested(Grip(req[q])', Grip(req[s])')
    <2>1. /\ q # t /\ s # t /\ Active(q) /\ Active(s) /\ req[s].user = req[q].user
          /\ req'[q].deleted = req[q].deleted /\ req'[s].deleted = req[s].deleted
      BY <1>5, <1>6, <1>8
    <2>2. Rivals(req[q], req[s])' => Rivals(req[q], req[s])
      BY <1>5, <2>1 DEF Rivals
    <2>3. /\ req[q].deleted \cap req[s].deleted = {}
          /\ Rivals(req[q], req[s]) => Nested(Grip(req[q]), Grip(req[s]))
      BY <1>8, <2>1 DEF LocksInv
    <2>4. \/ Grip(req[q])' = Grip(req[q]) /\ Grip(req[s])' = Grip(req[s])
          \/ Grip(req[q])' = Grip(req[q]) \ D /\ Grip(req[s])' = Grip(req[s]) \ D
      BY <1>6, <1>8, <2>1
    <2> QED
      BY <2>1, <2>2, <2>3, <2>4 DEF Nested
  <1> QED
    BY <1>6, <1>7, <1>8 DEF LocksInv

\* At first no transaction runs.
LEMMA InitLocks == Init => LocksInv
  <1> SUFFICES ASSUME Init PROVE LocksInv
    OBVIOUS
  <1>1. \A t \in Requests : ~Active(t)
    BY DEF Init, Active, NoRequest
  <1> QED
    BY <1>1 DEF LocksInv

\* Every step preserves the order of the locks.
LEMMA NextLocks == SourcesInv /\ LocksInv /\ [Next]_vars => LocksInv'
  <1> SUFFICES ASSUME SourcesInv, LocksInv, [Next]_vars PROVE LocksInv'
    OBVIOUS
  <1>1. ASSUME NEW t \in Requests, NEW call \in Calls, NEW u \in Users, Begin(t, call, u)
        PROVE  LocksInv'
    BY <1>1, BeginLocks
  <1>2. ASSUME NEW t \in Requests, Step(t)
        PROVE  LocksInv'
    BY <1>2, CheckLocks, ScanLocks, DeleteLocks, InsertLocks, ReadLocks, RescanLocks, ClearLocks,
       SetLocks, CommitLocks DEF Step
  <1>3. ASSUME NEW t \in Requests, Active(t), Abort(t)
        PROVE  LocksInv'
    BY <1>3, AbortLocks
  <1>4. CASE UNCHANGED vars
    BY <1>4 DEF vars, LocksInv, Active, Tidy, Grip, Rivals, Nested, EffectiveOf, OfKind
  <1> QED
    BY <1>1, <1>2, <1>3, <1>4 DEF Next

\* The invariant of row locks: of the transactions that delete by one condition, each
\* found all that those before it grip, and nothing is deleted twice.
THEOREM LocksInvariant == Spec => []LocksInv
  BY InitLocks, NextLocks, SourcesInvariant, PTL DEF Spec

\* How far a transaction has come, as far as others may wait for it; one whose statement
\* wants no row waits for none.
Rank(r) ==
    IF r.step = "delete" /\ r.found # {} THEN 0
    ELSE IF r.step = "insert" THEN IF r.deleted = {} THEN 0 ELSE 1
    ELSE IF r.step = "clear" /\ r.found # {} THEN 2
    ELSE IF r.step = "set" THEN IF EffectiveOf(r.deleted) = {} THEN 3 ELSE 4
    ELSE 5

\* Of transactions that are not half done with a DELETE one waits only for one that has
\* come further: one that is as far has deleted nothing if this one has, or has deleted
\* what this one did not find.
LEMMA WaitsForFarther ==
    ASSUME SourcesInv, LocksInv, NEW t \in Requests, NEW s \in Requests, Active(t),
           ~HalfDone(t), ~HalfDone(s), WaitsFor(t, s)
    PROVE  Rank(req[t]) < Rank(req[s])
  <1>1. /\ s # t /\ Active(s) /\ req[s].user = req[t].user
    BY DEF WaitsFor, Others
  <1>2. /\ Tidy(req[t]) /\ Shape(req[t]) /\ Tidy(req[s]) /\ Shape(req[s])
        /\ req[t] \in Request /\ req[s] \in Request
    BY <1>1, Running DEF LocksInv
  <1>3. PICK x : x \in Wanted(t) /\ x \in req[s].deleted \cup req[s].inserted
    BY DEF WaitsFor, Held
  <1>4. /\ req[s].step \notin {"check", "scan"}
        /\ req[s].step = "delete" => req[s].found = {}
        /\ req[s].step = "insert" => req[s].deleted # {}
    BY <1>2, <1>3 DEF Tidy, HalfDone
  <1>5. Rank(req[s]) \in 1..5
    BY <1>4 DEF Rank
  <1>6. /\ req[t].step \in {"delete", "insert", "clear", "set"}
        /\ req[t].step \in {"delete", "clear"} => x \in req[t].found
    BY <1>3 DEF Wanted
  <1>7. /\ req[t].deleted \cap req[s].deleted = {}
        /\ Rivals(req[t], req[s]) => Nested(Grip(req[t]), Grip(req[s]))
    BY <1>1 DEF LocksInv
  <1>8. CASE req[t].step = "delete" \/ (req[t].step = "insert" /\ req[t].deleted = {})
    BY <1>5, <1>6, <1>8 DEF Rank
  <1>9. CASE req[t].step = "insert" /\ req[t].deleted # {}
    <2>1. req[t].op \in {"moodle", "manual"} /\ x = OwnRow(t) /\ x.kind = req[t].op
      BY <1>2, <1>3, <1>9 DEF Tidy, Wanted, OwnRow
    <2>2. req[s].step # "insert"
      <3> SUFFICES ASSUME req[s].step = "insert" PROVE FALSE
        OBVIOUS
      <3>1. x \in req[s].deleted /\ x.kind = req[s].op
        BY <1>2, <1>3 DEF Tidy
      <3>2. Rivals(req[t], req[s])
        BY <1>1, <1>9, <2>1, <3>1 DEF Rivals
      <3>3. Nested(req[t].deleted, req[s].deleted)
        BY <1>7, <1>9, <3>2 DEF Grip
      <3> QED
        BY <1>7, <1>9, <3>1, <3>3 DEF Nested
    <2>3. Rank(req[s]) \in 2..5
      BY <1>4, <2>2 DEF Rank
    <2>4. Rank(req[t]) = 1
      BY <1>9 DEF Rank
    <2> QED
      BY <2>3, <2>4
  <1>10. CASE req[t].step \in {"clear", "set"}
    <2>1. x.kind = "effective"
      BY <1>2, <1>3, <1>10 DEF Wanted, Tidy, EffectiveRow
    <2>2. req[s].step \notin {"insert", "read", "rescan"}
      BY <1>2, <1>3, <2>1 DEF Tidy, Sources
    <2>3. ASSUME req[s].step \in {"clear", "set"}
          PROVE  x \in EffectiveOf(req[s].deleted) /\ req[s].op \in Reconciling
      <3>1. x \in req[s].deleted
        BY <1>2, <1>3, <2>1, <2>3 DEF Tidy, Sources
      <3> QED
        BY <1>2, <2>1, <2>3, <3>1 DEF Tidy, Shape, EffectiveOf, OfKind
    <2>4. req[s].step = "clear" => req[s].found = {}
      BY <2>3 DEF HalfDone, EffectiveOf
    <2>5. Rank(req[s]) \in 4..5 /\ (req[s].step # "set" => Rank(req[s]) = 5)
      BY <1>4, <2>2, <2>3, <2>4 DEF Rank
    <2>6. CASE req[t].step = "clear" \/ EffectiveOf(req[t].deleted) = {}
      <3>1. Rank(req[t]) \in 2..3
        BY <1>6, <1>10, <2>6 DEF Rank
      <3> QED
        BY <2>5, <3>1
    <2>7. CASE req[t].step = "set" /\ EffectiveOf(req[t].deleted) # {}
      <3>1. req[s].step # "set"
        <4> SUFFICES ASSUME req[s].step = "set" PROVE FALSE
          OBVIOUS
        <4>1. req[t].op \in Reconciling
          BY <1>2, <2>7 DEF Tidy, EffectiveOf, OfKind
        <4>2. Rivals(req[t], req[s])
          BY <1>1, <2>3, <2>7, <4>1 DEF Rivals
        <4>3. Nested(EffectiveOf(req[t].deleted), EffectiveOf(req[s].deleted))
          BY <1>7, <2>7, <4>2 DEF Grip
        <4>4. EffectiveOf(req[t].deleted) \cap EffectiveOf(req[s].deleted) = {}
          BY <1>7 DEF EffectiveOf, OfKind
        <4> QED
          BY <2>3, <2>7, <4>3, <4>4 DEF Nested
      <3>2. Rank(req[t]) = 4 /\ Rank(req[s]) = 5
        BY <2>5, <2>7, <3>1 DEF Rank
      <3> QED
        BY <3>2
    <2> QED
      BY <1>10, <2>6, <2>7
  <1> QED
    BY <1>6, <1>8, <1>9, <1>10

\* In any group of running transactions of which none is half done with a DELETE, the one
\* that has come farthest waits for none of the group.
LEMMA FarthestRuns ==
    ASSUME SourcesInv, LocksInv
    PROVE  OnlyHalfDoneDeletesDeadlock
  <1> SUFFICES ASSUME NEW D \in SUBSET Requests, D # {},
                      \A t \in D : Active(t) /\ ~HalfDone(t)
               PROVE  \E t \in D : \A s \in D : ~WaitsFor(t, s)
    BY DEF OnlyHalfDoneDeletesDeadlock
  <1>1. \A t \in D : Rank(req[t]) \in 0..5
    BY DEF Rank
  <1>2. PICK t \in D : \A s \in D : Rank(req[s]) <= Rank(req[t])
    <2> DEFINE at(n) == \E t \in D : Rank(req[t]) = n
    <2>1. \E n \in 0..5 : at(n) /\ \A m \in (n + 1)..5 : ~at(m)
      <3>1. at(0) \/ at(1) \/ at(2) \/ at(3) \/ at(4) \/ at(5)
        <4>1. PICK s \in D : TRUE
          OBVIOUS
        <4> QED
          BY <1>1, <4>1
      <3> HIDE DEF at
      <3> QED
        BY <3>1
    <2>2. PICK n \in 0..5 : at(n) /\ \A m \in (n + 1)..5 : ~at(m)
      BY <2>1
    <2>3. ASSUME NEW s \in D
          PROVE  Rank(req[s]) <= n
      BY <1>1, <2>2
    <2> QED
      BY <2>2, <2>3
  <1>3. ASSUME NEW s \in D, WaitsFor(t, s)
        PROVE  FALSE
    <2>1. Rank(req[t]) < Rank(req[s])
      BY <1>3, WaitsForFarther
    <2> QED
      BY <1>1, <1>2, <2>1
  <1> QED
    BY <1>3

\* However many transactions run on a user, a group of them waits for each other's row
\* locks and unique keys all round only if one of the group has locked a row of those that
\* its DELETE has found and not all of them (reconcile_effective_role, and who calls it).
THEOREM LocksFree == Spec => []OnlyHalfDoneDeletesDeadlock
  <1>1. SourcesInv /\ LocksInv => OnlyHalfDoneDeletesDeadlock
    BY FarthestRuns
  <1> QED
    BY <1>1, SourcesInvariant, LocksInvariant, PTL

-----------------------------------------------------------------------------
(* When the effective role is the resolved one                                *)

\* Nothing overlaps on a user, and nothing writes past the sources.
Orderly ==
    \A t \in Requests : Active(t) => req[t].alone /\ req[t].op \in Reconciling

\* What access/models.py says of a user's effective roles, at every moment.
Resolved(u) ==
    OfKind(rows[u], Sources) # {} => \E r \in Resolutions(rows[u]) : Effective(u) = {r}

\* An orderly commit leaves the effective role as the sources resolve (Commit).
LEMMA OrderlyCommit ==
    ASSUME SourcesInv, Orderly, NEW u \in Users, Resolved(u), [Next]_vars
    PROVE  Resolved(u)'
  <1>1. CASE rows'[u] = rows[u]
    BY <1>1 DEF Resolved, Resolutions, NamesBySource, Effective, OfKind
  <1>2. CASE rows'[u] # rows[u]
    <2>1. PICK t \in Requests : Commit(t)
      BY <1>2 DEF Next, vars, Begin, Step, Check, Abort, Goto, Scan, Delete, Drop, Insert, Put,
                  Read, Rescan, Clear, Set
    <2>2. Active(t) /\ req[t].step = "commit" /\ rows \in [Users -> SUBSET Row]
      BY <2>1 DEF Commit, Active, SourcesInv, TypeOK
    <2>3. rows' = [rows EXCEPT ![req[t].user] = Visible(t)]
      BY <2>1 DEF Commit
    <2>4. /\ req[t].user = u /\ rows'[u] = Visible(t)
          /\ Healing(req[t]) /\ Visible(t) = Seen(req[t]) /\ Visible(t) \subseteq Row
      BY <1>2, <2>2, <2>3, Running DEF Shape
    <2> DEFINE row == [role |-> req[t].role, kind |-> "effective"]
    <2>5. req[t].role \in Resolutions(Visible(t)) /\ EffectiveOf(Visible(t)) = {row}
      BY <2>2, <2>4 DEF Healing, Orderly
    <2>6. row.role = req[t].role
      OBVIOUS
    <2> HIDE DEF row
    <2>7. Effective(u)' = {x.role : x \in EffectiveOf(Visible(t))}
      BY <2>4 DEF Effective, EffectiveOf, OfKind
    <2>8. Resolutions(rows[u])' = Resolutions(Visible(t))
      BY <2>4 DEF Resolutions, NamesBySource, OfKind
    <2>9. Effective(u)' = {req[t].role} /\ req[t].role \in Resolutions(rows[u])'
      BY <2>5, <2>6, <2>7, <2>8
    <2> QED
      BY <2>9 DEF Resolved
  <1> QED
    BY <1>1, <1>2

\* For as long as the requests on a user do not overlap and only reconciliations write,
\* a user who has sources has the role they resolve to and no other: it is the bulk
\* endpoints, the bootstrap and races alone that break what access/models.py says.
THEOREM OrderlyRolesAreResolved ==
    Spec /\ []Orderly => []EffectiveIsResolved
  <1> DEFINE All == \A u \in Users : Resolved(u)
  <1>1. Init => All
    BY DEF Init, Resolved, OfKind
  <1>2. SourcesInv /\ Orderly /\ All /\ [Next]_vars => All'
    <2> SUFFICES ASSUME SourcesInv, Orderly, All, [Next]_vars, NEW u \in Users
                 PROVE  Resolved(u)'
      OBVIOUS
    <2> QED
      BY OrderlyCommit
  <1>3. All => EffectiveIsResolved
    BY DEF Resolved, EffectiveIsResolved
  <1> HIDE DEF All
  <1> QED
    BY <1>1, <1>2, <1>3, SourcesInvariant, PTL DEF Spec
=============================================================================
