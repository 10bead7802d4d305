------------------------------ MODULE Launcher ------------------------------
(* The launcher of a user beside the administration of tiles and clients:    *)
(* authorized_applications puts its list together from one statement for the *)
(* catalog tiles granted to the user, one for the SSO tiles whose client is  *)
(* open, and the three of resolve_access for each of these clients.  What    *)
(* they read changes between them.                                           *)
EXTENDS AppLifecycle, AccessPolicy

CONSTANTS
    RoleCardinality,   \* [Clients -> Cardinalities]
    MigrationEnabled,  \* [Clients -> BOOLEAN]
    RoleSets,          \* bound: the sets of global roles that the user is given
    Views              \* requests for the launcher in flight

ASSUME LauncherAssumption ==
    /\ None \notin Roles
    /\ RoleCardinality \in [Clients -> Cardinalities]
    /\ MigrationEnabled \in [Clients -> BOOLEAN]
    /\ RoleSets \subseteq SUBSET GlobalRoles

VARIABLES
    granted,   \* user_applications, and application_global_roles of the user's roles
    globals,   \* global roles of the user
    explicit,  \* per client, active roles assigned to the user (user_roles)
    mappings,  \* per client and global role, the active role it is mapped to
    view,      \* per request: its step and what it has read
    held       \* history: per request, what it may say of the tile it is looked at for

accessVars == <<granted, globals, explicit, mappings>>

launcherVars == <<vars, accessVars, view, held>>

\* "tile" is an arbitrary one of the tiles listed: what becomes of it is followed.
\* "client" is the client that the second statement has returned with it, "globals"
\* and "explicit" what resolve_access has read, and "shown" says that the tile is on
\* the list so far.
View == [step: {"idle", "pairs", "globals", "explicit", "mapped", "done"},
         tile: Slugs \cup {None}, client: Clients \cup {None},
         globals: SUBSET GlobalRoles, explicit: SUBSET Roles, shown: BOOLEAN]

NoView == [step |-> "idle", tile |-> None, client |-> None, globals |-> {}, explicit |-> {},
           shown |-> FALSE]

\* What can speak for a tile: a grant of an open catalog tile; a client that may
\* take part in SSO, a user who is not a guest, an access of the user to the client.
Facts == {"listed", "available", "member", "entitled"}

\* What resolve_access reads.
Tables == {"globals", "explicit", "mappings"}

\* The facts that have held at some moment of the request and throughout, and the
\* tables that have changed within it.
History == [ever: SUBSET Facts, always: SUBSET Facts, moved: SUBSET Tables]

NoHistory == [ever |-> {}, always |-> {}, moved |-> {}]

\* Grants are of tiles, roles are of clients, and a view in flight follows a tile.
LauncherTypeOK ==
    /\ TypeOK
    /\ granted \in SUBSET Slugs
    /\ globals \in SUBSET GlobalRoles
    /\ explicit \in [Clients -> SUBSET Roles]
    /\ mappings \in [Clients -> [GlobalRoles -> Roles \cup {None}]]
    /\ view \in [Views -> View]
    /\ held \in [Views -> History]

LauncherInit ==
    /\ Init
    /\ granted = {}
    /\ globals \in RoleSets
    /\ explicit = [c \in Clients |-> {}]
    /\ mappings = [c \in Clients |-> [g \in GlobalRoles |-> None]]
    /\ view = [v \in Views |-> NoView]
    /\ held = [v \in Views |-> NoHistory]

-----------------------------------------------------------------------------
(* Administration.  A tile's policy is read before a grant is inserted: it     *)
(* never changes, and tiles are not deleted.                                   *)

IsCatalogTile(s) == tile[s].state # "none" /\ tile[s].policy = "catalog"

Grant(s) ==
    /\ IsCatalogTile(s)
    /\ granted' = granted \cup {s}
    /\ UNCHANGED <<globals, explicit, mappings>>

\* The grant is deleted, or the role unlinked.
Revoke(s) ==
    /\ granted' = granted \ {s}
    /\ UNCHANGED <<globals, explicit, mappings>>

\* The user's global roles are reconciled, and with them what they are granted.
Reconcile ==
    /\ globals' \in RoleSets
    /\ \E S \in SUBSET granted : granted' = S
    /\ UNCHANGED <<explicit, mappings>>

\* Roles of the app are assigned to the user, or withdrawn.
Assign(c, R) ==
    /\ Exists(c)
    /\ R # explicit[c]
    /\ explicit' = [explicit EXCEPT ![c] = R]
    /\ UNCHANGED <<granted, globals, mappings>>

\* A global role is mapped to a role of the app, one at a time, or no longer.
Remap(c, g, r) ==
    /\ Exists(c)
    /\ r # mappings[c][g]
    /\ mappings' = [mappings EXCEPT ![c][g] = r]
    /\ UNCHANGED <<granted, globals, explicit>>

\* A role of the app is retired: neither its assignments nor its mappings count.
Retire(c, r) ==
    /\ r \in explicit[c] \/ \E g \in GlobalRoles : mappings[c][g] = r
    /\ explicit' = [explicit EXCEPT ![c] = @ \ {r}]
    /\ mappings' = [mappings EXCEPT ![c] =
           [g \in GlobalRoles |-> IF @[g] = r THEN None ELSE @[g]]]
    /\ UNCHANGED <<granted, globals>>

-----------------------------------------------------------------------------
(* authorized_applications *)

Listed(s) == s \in granted /\ IsCatalogTile(s) /\ tile[s].state = "on"

ClientsOf(s) == {c \in Clients : Exists(c) /\ client[c].slug = s}

\* is_available_for_sso, which /auth/authorize and /auth/token ask.
AvailableForSso(c) == client[c].state = "on" /\ tile[client[c].slug].state = "on"

\* Mutant: the second statement looks at the client alone.
OpenClientsOf(s) == {c \in ClientsOf(s) : client[c].state = "on"}

\* The join of the second statement: both records are on.
OpenPairsOf(s) == {c \in ClientsOf(s) : client[c].state = "on" /\ tile[s].state = "on"}

\* The roles that the user's global roles are mapped to.
MappedTo(c) == {mappings[c][g] : g \in globals} \ {None}

\* resolve_app_access_policy, of the roles G, E and M.
AccessFrom(c, G, E, M) ==
    ResolveAppAccess(G, E, M, RoleCardinality[c], MigrationEnabled[c])

\* The request begins, with its first statement.
OpenLauncher(v, s) ==
    /\ view[v].step \in {"idle", "done"}
    /\ tile[s].state # "none"
    /\ view' = [view EXCEPT ![v] = [NoView EXCEPT !.step = "pairs", !.tile = s,
                                                  !.shown = Listed(s)]]

LoadPairs(v) ==
    /\ view[v].step = "pairs"
    /\ \/ /\ OpenPairsOf(view[v].tile) = {}
          /\ view' = [view EXCEPT ![v].step = "done"]
       \/ \E c \in OpenPairsOf(view[v].tile) :
              view' = [view EXCEPT ![v].step = "globals", ![v].client = c]

ReadGlobals(v) ==
    /\ view[v].step = "globals"
    /\ view' = [view EXCEPT ![v].step = "explicit", ![v].globals = globals]

ReadExplicit(v) ==
    /\ view[v].step = "explicit"
    /\ view' = [view EXCEPT ![v].step = "mapped", ![v].explicit = explicit[view[v].client]]

\* The third statement joins the mappings with the global roles the user has by now.
ReadMapped(v) ==
    /\ view[v].step = "mapped"
    /\ view' = [view EXCEPT ![v].step = "done", ![v].shown = @ \/
           LET c == view[v].client IN
           IsProvisioned(AccessFrom(c, view[v].globals, view[v].explicit, MappedTo(c)))]

\* The request fails, or its user is no longer available.
AbandonLauncher(v) ==
    /\ view[v].step # "idle"
    /\ view' = [view EXCEPT ![v] = NoView]

\* The user is no guest.
IsMember(G) == G # {} /\ Guest \notin G

\* What resolve_access would say if it read everything now.
EntitledTo(c) == IsProvisioned(AccessFrom(c, globals, explicit[c], MappedTo(c)))

\* What holds of a tile now.
FactsOf(s) ==
    {f \in Facts :
        \/ f = "listed" /\ Listed(s)
        \/ f = "available" /\ \E c \in ClientsOf(s) : AvailableForSso(c)
        \/ f = "member" /\ IsMember(globals)
        \/ f = "entitled" /\ \E c \in ClientsOf(s) : EntitledTo(c)}

\* The tables that this step changes.
Moving ==
    {x \in Tables : \/ x = "globals" /\ globals' # globals
                    \/ x = "explicit" /\ explicit' # explicit
                    \/ x = "mappings" /\ mappings' # mappings}

\* Facts and changes are remembered from the request's start to its answer.
Remember ==
    held' = [v \in Views |->
        IF view'[v].step = "idle" THEN NoHistory
        ELSE IF view[v].step \in {"idle", "done"} /\ view'[v].step = "pairs"
             THEN LET now == FactsOf(view'[v].tile) IN
                  [ever |-> now, always |-> now, moved |-> {}]
        ELSE IF view[v].step = "done" THEN held[v]
        ELSE LET now == FactsOf(view[v].tile)' IN
             [ever |-> held[v].ever \cup now, always |-> held[v].always \cap now,
              moved |-> held[v].moved \cup Moving]]

LauncherStep(v) ==
    \/ \E s \in Slugs : OpenLauncher(v, s)
    \/ LoadPairs(v)
    \/ ReadGlobals(v)
    \/ ReadExplicit(v)
    \/ ReadMapped(v)
    \/ AbandonLauncher(v)

Regrant ==
    \/ \E s \in Slugs : Grant(s) \/ Revoke(s)
    \/ Reconcile
    \/ \E c \in Clients :
          \/ \E R \in SUBSET Roles : Assign(c, R)
          \/ \E g \in GlobalRoles, r \in Roles \cup {None} : Remap(c, g, r)
          \/ \E r \in Roles : Retire(c, r)

LauncherNext ==
    /\ \/ Next /\ UNCHANGED <<accessVars, view>>
       \/ Regrant /\ UNCHANGED <<vars, view>>
       \/ (\E v \in Views : LauncherStep(v)) /\ UNCHANGED <<vars, accessVars>>
    /\ Remember

LauncherSpec == LauncherInit /\ [][LauncherNext]_launcherVars

-----------------------------------------------------------------------------

\* At most one of the tables has changed.
Settled(h) == \A x, y \in h.moved : x = y

\* The launcher and /auth/authorize do not contradict each other, also while the
\* records of tile and client disagree.  A tile that is shown was a granted open
\* catalog tile at some moment of the request, or one whose client would have been
\* admitted and whose user was no guest; and the user had access to it, unless roles,
\* which resolve_access reads in three statements, changed in between.  A tile that
\* was so throughout is shown.  In particular a tile that was off all along is not.
LauncherAgreesWithAuthorize ==
    \A v \in Views :
        view[v].step = "done" =>
            IF view[v].shown
            THEN \/ "listed" \in held[v].ever
                 \/ /\ {"available", "member"} \subseteq held[v].ever
                    /\ Settled(held[v]) /\ "globals" \notin held[v].moved =>
                           "entitled" \in held[v].ever
            ELSE /\ "listed" \notin held[v].always
                 /\ Settled(held[v]) => ~({"available", "entitled"} \subseteq held[v].always)
=============================================================================
