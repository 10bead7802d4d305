------------------------- MODULE TokenIntrospection -------------------------
(* POST /auth/introspect beside the handoff: an app's backend asks whether a *)
(* token is still good while requests, administrators and time move on.  An  *)
(* introspection reads session, user and roles in statements of their own,   *)
(* so its answer is put together from several moments.                       *)
EXTENDS SsoHandoff

CONSTANT Probes   \* introspection requests in flight

VARIABLES
    probe,   \* per probe: its step, the session asked about, what it has read
    bars     \* history: what has spoken against the token at every moment so far

introspectionVars == <<vars, probe, bars>>

ProbeSteps == {"idle", "session", "user", "globals", "explicit", "mapped",
               "active", "inactive"}

Probe == [step: ProbeSteps, session: Sessions \cup {None},
          globals: SUBSET GlobalRoles, explicit: SUBSET Roles]

NoProbe == [step |-> "idle", session |-> None, globals |-> {}, explicit |-> {}]

Reasons == {"session", "user", "guest", "roles"}

\* A probe in flight has read a user and roles that exist, or nothing.
IntrospectionTypeOK ==
    /\ TypeOK
    /\ probe \in [Probes -> Probe]
    /\ bars \in [Probes -> SUBSET Reasons]

IntrospectionInit ==
    /\ Init
    /\ probe = [p \in Probes |-> NoProbe]
    /\ bars = [p \in Probes |-> {}]

Running(p) == probe[p].step \notin {"idle", "active", "inactive"}

Row(p) == session[probe[p].session]

\* A migration token is for a user with no explicit role, any other token for
\* one who holds its roles, assigned or mapped.
HoldsTokenRoles(row) ==
    IF row.migration
    THEN RolesOf(row.user, row.app) = {}
    ELSE row.roles \subseteq RolesOf(row.user, row.app) \cup MappedTo(row.user, row.app)

BarsOf(j) ==
    LET row == session[j] IN
    {b \in Reasons :
        \/ b = "session" /\ row.state # "live"
        \/ b = "user"    /\ account[row.user] # "active"
        \/ b = "guest"   /\ (globals[row.user] = {} \/ Guest \in globals[row.user])
        \/ b = "roles"   /\ ~HoldsTokenRoles(row)}

-----------------------------------------------------------------------------

Answer(p, isActive) ==
    probe' = [probe EXCEPT ![p] = [NoProbe EXCEPT
                 !.step = IF isActive THEN "active" ELSE "inactive",
                 !.session = probe[p].session]]

Advance(p, step) == probe' = [probe EXCEPT ![p].step = step]

\* The client is authenticated and its app available; a token for another
\* audience, or past its exp, does not decode and is answered inactive at once.
StartIntrospect(p, j, a) ==
    /\ ~Running(p)
    /\ session[j].state # "none"
    /\ available[a]
    /\ probe' = [probe EXCEPT ![p] = [NoProbe EXCEPT
                    !.session = j,
                    !.step = IF session[j].app = a /\ session[j].state # "lapsed"
                             THEN "session" ELSE "inactive"]]

\* Mutant: any row of app_sessions will do, revoked or not.
CheckSessionExists(p) ==
    /\ probe[p].step = "session"
    /\ Advance(p, "user")

CheckSession(p) ==
    /\ probe[p].step = "session"
    /\ IF Row(p).state = "live" THEN Advance(p, "user") ELSE Answer(p, FALSE)

CheckUser(p) ==
    /\ probe[p].step = "user"
    /\ IF account[Row(p).user] = "active" THEN Advance(p, "globals") ELSE Answer(p, FALSE)

\* Mutant: the two queries are mixed up, and app roles taken for global ones.
ProbeAppRoles(p) ==
    /\ probe[p].step = "globals"
    /\ probe' = [probe EXCEPT ![p].step = "explicit",
                              ![p].globals = RolesOf(Row(p).user, Row(p).app)]

ProbeGlobals(p) ==
    /\ probe[p].step = "globals"
    /\ probe' = [probe EXCEPT ![p].step = "explicit", ![p].globals = globals[Row(p).user]]

ProbeExplicit(p) ==
    /\ probe[p].step = "explicit"
    /\ probe' = [probe EXCEPT ![p].step = "mapped",
                              ![p].explicit = RolesOf(Row(p).user, Row(p).app)]

AccessSeen(p) ==
    ResolveAppAccess(probe[p].globals, probe[p].explicit, MappedTo(Row(p).user, Row(p).app),
                     RoleCardinality[Row(p).app], MigrationEnabled[Row(p).app])

\* The answer is yes when the access resolved now is the one the token carries.
CompareAccess(p) ==
    /\ probe[p].step = "mapped"
    /\ Answer(p, AccessSeen(p) = [roles |-> Row(p).roles, migration |-> Row(p).migration])

Introspect(p) ==
    \/ \E j \in Sessions, a \in Apps : StartIntrospect(p, j, a)
    \/ CheckSession(p)
    \/ CheckUser(p)
    \/ ProbeGlobals(p)
    \/ ProbeExplicit(p)
    \/ CompareAccess(p)

\* A reason stays barred while it holds in every state from the request's start
\* to its answer.
TrackBars ==
    bars' = [p \in Probes |->
        LET j == probe'[p].session IN
        IF j = None THEN {}
        ELSE IF ~Running(p) /\ Running(p)' THEN BarsOf(j)
        ELSE IF Running(p) THEN bars[p] \cap BarsOf(probe[p].session)'
        ELSE IF probe'[p] = probe[p] THEN bars[p] ELSE {}]

IntrospectionNext ==
    /\ \/ Next /\ UNCHANGED probe
       \/ (\E p \in Probes : Introspect(p)) /\ UNCHANGED vars
    /\ TrackBars

IntrospectionSpec == IntrospectionInit /\ [][IntrospectionNext]_introspectionVars

-----------------------------------------------------------------------------

\* An answer "active" is never given for a token against which the same thing has
\* spoken from the request's start to its answer: its session revoked or expired,
\* its owner disabled or deleted, a guest, or without the roles the token carries.
\* So the sessions that a racing exchange records stay without effect while the
\* state they missed lasts.
NoActiveAnswerWhileBarred ==
    \A p \in Probes : probe[p].step = "active" => bars[p] = {}
=============================================================================
