---------------------------- MODULE AppLifecycle ----------------------------
(* The aggregate of a launcher tile (Application) and its SSO client (App):   *)
(* creation, availability, and the client's secret.  Every request loads the  *)
(* rows in statements of their own and writes them back later, only in the    *)
(* columns whose value it changes, so requests overwrite each other at READ   *)
(* COMMITTED.  The writes of a request are one step, taken when it commits.   *)

CONSTANTS
    Clients, Slugs,   \* client_id of apps, slug of applications
    Secrets,          \* bound: the secrets there are to generate
    Requests,         \* transactions in flight
    Operations,       \* bound: the operations requested
    None

AllOperations == {"create_sso", "create_catalog", "enable_client", "disable_client",
                  "enable_tile", "disable_tile", "rotate"}

ASSUME AppLifecycleAssumption ==
    /\ None \notin Clients \cup Slugs \cup Secrets
    /\ Operations \subseteq AllOperations

VARIABLES
    tile,      \* applications, by slug
    client,    \* apps, by client_id
    raced,     \* history: clients whose availability overlapping requests have set
    retired,   \* history: per client, the secrets that it has stopped accepting
    req        \* per request: its transaction

vars == <<tile, client, raced, retired, req>>

\* access_policy tells a catalog tile from the tile of an SSO client.
Tile == [state: {"none", "on", "off"}, policy: {"catalog", "sso_role"}]

NoTile == [state |-> "none", policy |-> "catalog"]

\* "grace": previous_secret_expires_at has not passed.
Client == [state: {"none", "on", "off"}, slug: Slugs \cup {None},
           current: Secrets \cup {None}, previous: Secrets \cup {None}, grace: BOOLEAN]

NoClient == [state |-> "none", slug |-> None, current |-> None, previous |-> None,
             grace |-> FALSE]

\* "tile" and "on" are the states that a request has loaded of the tile and of the
\* client, "secret" the current secret that a rotation has loaded.  "alone" is
\* history: no other request has run beside this one.
Request == [step: {"idle", "client", "tile", "register", "load", "write"},
            op: AllOperations \cup {"none"}, client: Clients \cup {None},
            slug: Slugs \cup {None}, tile: {"none", "on", "off"}, on: {"none", "on", "off"},
            secret: Secrets \cup {None}, alone: BOOLEAN]

NoRequest == [step |-> "idle", op |-> "none", client |-> None, slug |-> None,
              tile |-> "none", on |-> "none", secret |-> None, alone |-> FALSE]

\* Every row and every request in flight has the shape of the tables and handlers.
TypeOK ==
    /\ tile \in [Slugs -> Tile]
    /\ client \in [Clients -> Client]
    /\ raced \in SUBSET Clients
    /\ retired \in [Clients -> SUBSET Secrets]
    /\ req \in [Requests -> Request]

Init ==
    /\ tile = [s \in Slugs |-> NoTile]
    /\ client = [c \in Clients |-> NoClient]
    /\ raced = {}
    /\ retired = [c \in Clients |-> {}]
    /\ req = [t \in Requests |-> NoRequest]

-----------------------------------------------------------------------------

Running(t) == req[t].step # "idle"

Goto(t, step) == req' = [req EXCEPT ![t].step = step]

End(t) == req' = [req EXCEPT ![t] = NoRequest]

\* Requests that read or write the same aggregate.
Beside(t, c) == {s \in Requests \ {t} : Running(s) /\ req[s].client = c}

Begin(t, op, c, s, step) ==
    /\ ~Running(t)
    /\ req' = [q \in Requests |->
           IF q = t THEN [NoRequest EXCEPT !.step = step, !.op = op, !.client = c, !.slug = s,
                                           !.alone = Beside(t, c) = {}]
           ELSE IF q \in Beside(t, c) THEN [req[q] EXCEPT !.alone = FALSE] ELSE req[q]]
    /\ UNCHANGED <<tile, client, raced, retired>>

\* The request fails where it is, and its transaction is undone.
Fail(t) == Running(t) /\ End(t) /\ UNCHANGED <<tile, client, raced, retired>>

-----------------------------------------------------------------------------
(* Creation: look for the client_id and the slug, then insert *)

SecretsUsed == UNION {retired[c] \cup {client[c].current, client[c].previous} : c \in Clients}

FindClient(t) ==
    /\ req[t].step = "client"
    /\ req[t].op = "create_sso"
    /\ IF client[req[t].client].state = "none" THEN Goto(t, "tile") ELSE End(t)
    /\ UNCHANGED <<tile, client, raced, retired>>

FindTile(t) ==
    /\ req[t].step = "tile"
    /\ req[t].op \in {"create_sso", "create_catalog"}
    /\ IF tile[req[t].slug].state = "none" THEN Goto(t, "register") ELSE End(t)
    /\ UNCHANGED <<tile, client, raced, retired>>

\* Mutant: the tile is committed on its own, and stays when the client is refused.
RegisterTileFirst(t, x) ==
    LET c == req[t].client
        s == req[t].slug
    IN
    /\ req[t].step = "register"
    /\ IF tile[s].state = "none"
       THEN tile' = [tile EXCEPT ![s] =
                [state |-> "on", policy |-> IF c = None THEN "catalog" ELSE "sso_role"]]
       ELSE UNCHANGED tile
    /\ IF tile[s].state = "none" /\ c # None /\ client[c].state = "none"
       THEN client' = [client EXCEPT ![c] = [NoClient EXCEPT
                           !.state = "on", !.slug = s, !.current = x]]
       ELSE UNCHANGED client
    /\ End(t)
    /\ UNCHANGED <<raced, retired>>

\* Both rows or, when a unique key is violated, none.
Register(t, x) ==
    LET c == req[t].client
        s == req[t].slug
        free == tile[s].state = "none" /\ (c # None => client[c].state = "none")
    IN
    /\ req[t].step = "register"
    /\ IF free
       THEN /\ tile' = [tile EXCEPT ![s] =
                  [state |-> "on", policy |-> IF c = None THEN "catalog" ELSE "sso_role"]]
            /\ client' = [d \in Clients |->
                  IF d = c THEN [NoClient EXCEPT !.state = "on", !.slug = s, !.current = x]
                  ELSE client[d]]
       ELSE UNCHANGED <<tile, client>>
    /\ End(t)
    /\ UNCHANGED <<raced, retired>>

-----------------------------------------------------------------------------
(* Availability: the row that the request names is loaded, then the other one *)

Setting == {"enable_client", "disable_client", "enable_tile", "disable_tile"}

\* Mutant: the state is named after the operation.
WantedByOperation(t) == req[t].op

Wanted(t) == IF req[t].op \in {"enable_client", "enable_tile"} THEN "on" ELSE "off"

OfClient(t) == req[t].op \in {"enable_client", "disable_client"}

LoadClient(t) ==
    /\ req[t].step = "client"
    /\ req[t].op \in Setting
    /\ req' = [req EXCEPT
           ![t].on = IF req[t].client = None THEN "none" ELSE client[req[t].client].state,
           ![t].step = IF OfClient(t) THEN "tile" ELSE "write"]
    /\ UNCHANGED <<tile, client, raced, retired>>

LoadTile(t) ==
    /\ req[t].step = "tile"
    /\ req[t].op \in Setting
    /\ req' = [req EXCEPT ![t].tile = tile[req[t].slug].state,
                          ![t].step = IF OfClient(t) THEN "write" ELSE "client"]
    /\ UNCHANGED <<tile, client, raced, retired>>

\* Mutant: only the row that the request names is written.
SetNamedRow(t) ==
    LET c == req[t].client
        s == req[t].slug
    IN
    /\ req[t].step = "write"
    /\ tile' = IF OfClient(t) \/ req[t].tile = Wanted(t) THEN tile
               ELSE [tile EXCEPT ![s].state = Wanted(t)]
    /\ client' = IF ~OfClient(t) \/ req[t].on = Wanted(t) THEN client
                 ELSE [client EXCEPT ![c].state = Wanted(t)]
    /\ raced' = IF req[t].alone THEN raced \ {c} ELSE raced \cup ({c} \ {None})
    /\ End(t)
    /\ UNCHANGED retired

\* A row that was loaded with the wanted value is not written, nor is a client that
\* was not found: a catalog tile has none.
SetAvailability(t) ==
    LET c == req[t].client
        s == req[t].slug
    IN
    /\ req[t].step = "write"
    /\ tile' = IF req[t].tile = Wanted(t) THEN tile
               ELSE [tile EXCEPT ![s].state = Wanted(t)]
    /\ client' = IF c = None \/ req[t].on = Wanted(t) THEN client
                 ELSE [client EXCEPT ![c].state = Wanted(t)]
    /\ raced' = IF req[t].alone THEN raced \ {c} ELSE raced \cup ({c} \ {None})
    /\ End(t)
    /\ UNCHANGED retired

-----------------------------------------------------------------------------
(* Rotation of the secret *)

\* verify_client_secret.
Accepts(row, x) == x = row.current \/ (x = row.previous /\ row.grace)

LoadSecret(t) ==
    /\ req[t].step = "load"
    /\ req' = [req EXCEPT ![t].secret = client[req[t].client].current, ![t].step = "write"]
    /\ UNCHANGED <<tile, client, raced, retired>>

\* The secrets that the rows c and d of a client tell apart.
Dropped(c, d) == {x \in Secrets : Accepts(c, x) /\ ~Accepts(d, x)}

\* Mutant: the previous secret is kept while its grace lasts.
RotateInGrace(row, seen, x) ==
    [row EXCEPT !.current = x, !.previous = IF row.grace THEN row.previous ELSE seen,
                !.grace = TRUE]

\* All three columns are written, from the values that were loaded.
Rotated(row, seen, x) == [row EXCEPT !.current = x, !.previous = seen, !.grace = TRUE]

Rotate(t, x) ==
    LET c == req[t].client
        row == Rotated(client[c], req[t].secret, x)
    IN
    /\ req[t].step = "write"
    /\ req[t].op = "rotate"
    /\ client' = [client EXCEPT ![c] = row]
    /\ retired' = [retired EXCEPT ![c] = @ \cup Dropped(client[c], row)]
    /\ End(t)
    /\ UNCHANGED <<tile, raced>>

\* previous_secret_expires_at passes.
EndGrace(c) ==
    /\ client[c].grace
    /\ client' = [client EXCEPT ![c].grace = FALSE]
    /\ retired' = [retired EXCEPT ![c] = @ \cup Dropped(client[c], client'[c])]
    /\ UNCHANGED <<tile, raced, req>>

-----------------------------------------------------------------------------

Exists(c) == client[c].state # "none"

\* The client that get_sso_app_for_application finds for a tile, None for a catalog
\* tile.  It is the same when the request begins: a client comes with its tile.
IsClientOf(c, s) ==
    IF c = None THEN \A d \in Clients : client[d].slug # s ELSE client[c].slug = s

Call(t) ==
    \/ \E op \in {"create_sso"} \cap Operations, c \in Clients, s \in Slugs :
           Begin(t, op, c, s, "client")
    \/ \E op \in {"create_catalog"} \cap Operations, s \in Slugs : Begin(t, op, None, s, "tile")
    \/ \E op \in {"enable_client", "disable_client"} \cap Operations, c \in Clients :
           Exists(c) /\ Begin(t, op, c, client[c].slug, "client")
    \/ \E op \in {"enable_tile", "disable_tile"} \cap Operations, s \in Slugs,
          c \in Clients \cup {None} :
           tile[s].state # "none" /\ IsClientOf(c, s) /\ Begin(t, op, c, s, "tile")
    \/ \E op \in {"rotate"} \cap Operations, c \in Clients :
           Exists(c) /\ Begin(t, op, c, None, "load")

Step(t) ==
    \/ FindClient(t)
    \/ FindTile(t)
    \/ \E x \in Secrets \ SecretsUsed : Register(t, x) \/ Rotate(t, x)
    \/ LoadClient(t)
    \/ LoadTile(t)
    \/ req[t].op \in Setting /\ SetAvailability(t)
    \/ LoadSecret(t)

Next ==
    \/ \E t \in Requests : Call(t) \/ Step(t) \/ Fail(t)
    \/ \E c \in Clients : EndGrace(c)

Spec == Init /\ [][Next]_vars

-----------------------------------------------------------------------------

\* A client comes with a tile of its own, and the tile of an SSO client with a
\* client: no failed or racing creation leaves one without the other.
AggregateIsWhole ==
    /\ \A c \in Clients :
          Exists(c) => tile[client[c].slug].state # "none"
                       /\ tile[client[c].slug].policy = "sso_role"
    /\ \A s \in Slugs :
          tile[s].state # "none" /\ tile[s].policy = "sso_role" =>
              \E c \in Clients : /\ client[c].slug = s
                                 /\ \A d \in Clients : client[d].slug = s => d = c

\* Tile and client are on or off together, unless requests on them overlapped and
\* no request has set them alone since.
AgreeUnlessRaced ==
    \A c \in Clients : Exists(c) /\ c \notin raced => client[c].state = tile[client[c].slug].state

\* A rotation that nothing overlaps hands over: afterwards the new secret and the
\* one before it are accepted, and no secret that was refused before comes back.
SoloRotationHandsOver ==
    [][\A t \in Requests, c \in Clients, x \in Secrets :
          req[t].alone /\ req[t].client = c /\ Rotate(t, x) =>
              /\ Accepts(client'[c], x)
              /\ Accepts(client'[c], client[c].current)
              /\ \A y \in retired[c] : ~Accepts(client'[c], y)]_vars
=============================================================================
