--------------------------- MODULE LauncherProofs ---------------------------
(* The invariants of AppLifecycle and of Launcher, for any number of clients, *)
(* tiles, secrets, requests and launchers.                                    *)
EXTENDS Launcher, TLAPS

-----------------------------------------------------------------------------
(* The inductive invariant of AppLifecycle                                    *)

ClientOps == {"enable_client", "disable_client"}

\* The operation of a request tells which rows it names, and its step.
Proper(r) ==
    /\ r.step = "idle" => r = NoRequest
    /\ r.step # "idle" => r.op # "none"
    /\ r.step # "idle" /\ r.op \in ClientOps \cup {"rotate"} => r.client \in Clients
    /\ r.step # "idle" /\ r.op \in Setting \cup {"rotate"} /\ r.client \in Clients =>
           Exists(r.client) /\ (r.op \in Setting => r.slug = client[r.client].slug)
    /\ r.step # "idle" /\ r.op \in Setting /\ r.client \notin Clients =>
           r.client = None /\ r.slug \in Slugs /\ IsCatalogTile(r.slug)
    /\ r.step \in {"client", "tile"} => r.op \in AllOperations \ {"rotate"}
    /\ r.step = "client" /\ r.op = "create_sso" => r.client \in Clients
    /\ r.step \in {"client", "tile", "register"} => r.slug \in Slugs
    /\ r.step = "write" => r.op \in Setting \cup {"rotate"}
    /\ r.step = "load" => r.op = "rotate"

\* What a request that runs alone has loaded is still so.
Current(r) ==
    r.alone /\ r.client \in Clients =>
        /\ r.op \in ClientOps /\ r.step \in {"tile", "write"} => r.on = client[r.client].state
        /\ r.op \in Setting \ ClientOps /\ r.step \in {"client", "write"} =>
               r.tile = tile[r.slug].state
        /\ r.op \in ClientOps /\ r.step = "write" => r.tile = tile[r.slug].state
        /\ r.op \in Setting \ ClientOps /\ r.step = "write" => r.on = client[r.client].state
        /\ r.op = "rotate" /\ r.step = "write" => r.secret = client[r.client].current

\* A request that is alone is the only one of its client.
Lone ==
    \A t, u \in Requests :
        t # u /\ req[t].alone /\ Running(u) => req[t].client # req[u].client

\* The rows: a pair is whole, and a client does not accept what it has retired.
RowsInv ==
    /\ AggregateIsWhole
    /\ \A c \in Clients : client[c].slug \in Slugs <=> Exists(c)
    /\ AgreeUnlessRaced
    /\ \A c \in Clients : client[c].current \notin retired[c]

\* The inductive invariant: the rows, and what the requests in flight know of them.
LifecycleInv ==
    /\ TypeOK
    /\ RowsInv
    /\ \A t \in Requests : Proper(req[t]) /\ Current(req[t])
    /\ Lone

\* Two clients never share a tile.
LEMMA TilesAreOwn ==
    ASSUME LifecycleInv, NEW c \in Clients, NEW d \in Clients, Exists(c), Exists(d), c # d
    PROVE  client[c].slug # client[d].slug
  BY DEF LifecycleInv, RowsInv, AggregateIsWhole

-----------------------------------------------------------------------------
(* Steps of a request that leave the rows alone                               *)

\* A request that is over is one, and knows nothing (End).
LEMMA NoRequestIsProper == NoRequest \in Request /\ Proper(NoRequest) /\ Current(NoRequest)
  BY DEF NoRequest, Request, Proper, Current, Setting, ClientOps

\* A client's tile is no catalog tile.
LEMMA CatalogTilesAreFree ==
    ASSUME LifecycleInv, NEW s \in Slugs, IsCatalogTile(s), NEW c \in Clients
    PROVE  client[c].slug # s
  BY DEF LifecycleInv, RowsInv, AggregateIsWhole, IsCatalogTile

\* A request goes on to r, or ends.
LEMMA RequestStep ==
    ASSUME LifecycleInv, NEW t \in Requests, NEW r \in Request,
           req' = [req EXCEPT ![t] = r], UNCHANGED <<tile, client, raced, retired>>,
           r = NoRequest \/ (Running(t) /\ r.client = req[t].client /\ r.alone = req[t].alone),
           Proper(r), Current(r)
    PROVE  LifecycleInv'
  <1>1. req'[t] = r /\ \A u \in Requests \ {t} : req'[u] = req[u]
    BY DEF LifecycleInv, TypeOK
  <1>2. TypeOK'
    BY DEF LifecycleInv, TypeOK
  <1>3. RowsInv'
    BY DEF LifecycleInv, RowsInv, AggregateIsWhole, AgreeUnlessRaced, Exists
  <1>4. ASSUME NEW u \in Requests
        PROVE  (Proper(req[u]) /\ Current(req[u]))'
    <2>1. Proper(req'[u]) /\ Current(req'[u])
      BY <1>1 DEF LifecycleInv
    <2> QED
      BY <2>1 DEF Proper, Current, Exists, IsCatalogTile
  <1>5. Lone'
    <2>1. r = NoRequest => ~r.alone /\ r.step = "idle"
      BY DEF NoRequest
    <2> QED
      BY <1>1, <2>1 DEF LifecycleInv, Lone, Running
  <1> QED
    BY <1>2, <1>3, <1>4, <1>5 DEF LifecycleInv

\* A request begins: those it runs beside are no longer alone (Begin).
LEMMA BeginStep ==
    ASSUME LifecycleInv, NEW t \in Requests, NEW op \in AllOperations,
           NEW c \in Clients \cup {None}, NEW s \in Slugs \cup {None},
           NEW step \in {"client", "tile", "load"}, Begin(t, op, c, s, step),
           op \in ClientOps \cup {"rotate"} => c \in Clients,
           op \in Setting \cup {"rotate"} /\ c \in Clients =>
               Exists(c) /\ (op \in Setting => s = client[c].slug),
           op \in Setting /\ c \notin Clients => c = None /\ s \in Slugs /\ IsCatalogTile(s),
           op \in Setting => step = IF op \in ClientOps THEN "client" ELSE "tile",
           op = "create_sso" => c \in Clients,
           op = "rotate" <=> step = "load",
           op # "rotate" => s \in Slugs
    PROVE  LifecycleInv'
  <1> PICK r : r = [NoRequest EXCEPT !.step = step, !.op = op, !.client = c, !.slug = s,
                                     !.alone = Beside(t, c) = {}]
    OBVIOUS
  <1>1. /\ r.step = step /\ r.op = op /\ r.client = c /\ r.slug = s
        /\ (r.alone <=> Beside(t, c) = {}) /\ r \in Request
    BY DEF NoRequest, Request
  <1>2. Proper(r) /\ Current(r)
    BY <1>1 DEF Proper, Current, Setting, AllOperations, ClientOps
  <1>3. /\ req'[t] = r /\ ~Running(t)
        /\ \A u \in Beside(t, c) : req'[u] = [req[u] EXCEPT !.alone = FALSE]
        /\ \A u \in Requests \ {t} : u \notin Beside(t, c) => req'[u] = req[u]
        /\ req' = [u \in Requests |-> req'[u]]
        /\ UNCHANGED <<tile, client, raced, retired>>
    BY DEF Begin, Beside
  <1>4. ASSUME NEW u \in Beside(t, c)
        PROVE  /\ req'[u] \in Request /\ Proper(req'[u]) /\ Current(req'[u]) /\ ~req'[u].alone
               /\ req'[u].client = req[u].client /\ req'[u].step = req[u].step
    <2>1. req'[u] = [req[u] EXCEPT !.alone = FALSE] /\ req[u] \in Request /\ Proper(req[u])
          /\ req[u].step # "idle"
      BY <1>3, <1>4 DEF Beside, LifecycleInv, TypeOK, Running
    <2>2. /\ req'[u] \in Request /\ ~req'[u].alone
          /\ req'[u].step = req[u].step /\ req'[u].op = req[u].op
          /\ req'[u].client = req[u].client /\ req'[u].slug = req[u].slug
      BY <2>1 DEF Request
    <2> QED
      BY <2>1, <2>2 DEF Proper, Current
  <1>5. \A u \in Requests : req'[u] \in Request /\ Proper(req'[u]) /\ Current(req'[u])
    BY <1>1, <1>2, <1>3, <1>4 DEF LifecycleInv, TypeOK
  <1>6. TypeOK'
    BY <1>3, <1>5 DEF LifecycleInv, TypeOK
  <1>7. RowsInv'
    BY <1>3 DEF LifecycleInv, RowsInv, AggregateIsWhole, AgreeUnlessRaced, Exists
  <1>8. (\A u \in Requests : Proper(req[u]) /\ Current(req[u]))'
    BY <1>3, <1>5 DEF Proper, Current, Exists, IsCatalogTile
  <1>9. Lone'
    <2>1. \A u \in Requests \ {t} :
              /\ req'[u].client = req[u].client /\ req'[u].step = req[u].step
              /\ req'[u].alone => req[u].alone /\ u \notin Beside(t, c)
      BY <1>3, <1>4
    <2>2. \A u \in Requests \ {t} : u \notin Beside(t, c) /\ req[u].step # "idle" =>
              req[u].client # c
      BY DEF Beside, Running
    <2>3. \A u \in Requests : req[u].alone => req[u].step # "idle"
      BY DEF LifecycleInv, Proper, NoRequest
    <2> SUFFICES ASSUME NEW v \in Requests, NEW u \in Requests, v # u, req'[v].alone,
                        req'[u].step # "idle"
                 PROVE  req'[v].client # req'[u].client
      BY DEF Lone, Running
    <2>4. CASE v = t
      <3>1. Beside(t, c) = {} /\ req'[v].client = c
        BY <1>1, <1>3, <2>4
      <3> QED
        BY <2>1, <2>2, <2>4, <3>1
    <2>5. CASE u = t
      <3>1. req[v].alone /\ v \notin Beside(t, c) /\ req'[v].client = req[v].client
        BY <2>1, <2>5
      <3>2. req[v].client # c /\ req'[u].client = c
        BY <1>1, <1>3, <2>2, <2>3, <2>5, <3>1
      <3> QED
        BY <3>1, <3>2
    <2>6. CASE v # t /\ u # t
      BY <2>1, <2>6 DEF LifecycleInv, Lone, Running
    <2> QED
      BY <2>4, <2>5, <2>6
  <1> QED
    BY <1>6, <1>7, <1>8, <1>9 DEF LifecycleInv

\* A request reads a row, or ends (FindClient, FindTile, LoadClient, LoadTile,
\* LoadSecret, Fail).
LEMMA ReadStep ==
    ASSUME LifecycleInv, NEW t \in Requests,
           FindClient(t) \/ FindTile(t) \/ LoadClient(t) \/ LoadTile(t) \/ LoadSecret(t) \/ Fail(t)
    PROVE  LifecycleInv'
  <1>0. req[t] \in Request /\ Proper(req[t]) /\ Current(req[t])
    BY DEF LifecycleInv, TypeOK
  <1>1. ASSUME End(t), UNCHANGED <<tile, client, raced, retired>>
        PROVE  LifecycleInv'
    BY <1>1, RequestStep, NoRequestIsProper DEF End
  <1>2. ASSUME NEW r \in Request, req' = [req EXCEPT ![t] = r], Running(t),
               UNCHANGED <<tile, client, raced, retired>>,
               r.client = req[t].client, r.alone = req[t].alone, Proper(r), Current(r)
        PROVE  LifecycleInv'
    BY <1>2, RequestStep
  <1>3. ASSUME FindClient(t) \/ FindTile(t), ~End(t)
        PROVE  LifecycleInv'
    <2> DEFINE next == IF FindClient(t) THEN "tile" ELSE "register"
    <2>1. /\ req' = [req EXCEPT ![t].step = next]
          /\ req[t].step \in {"client", "tile"} /\ req[t].op \in {"create_sso", "create_catalog"}
          /\ UNCHANGED <<tile, client, raced, retired>>
      BY <1>3 DEF FindClient, FindTile, Goto
    <2> HIDE DEF next
    <2> PICK r : r = [req[t] EXCEPT !.step = next]
      OBVIOUS
    <2>2. next \in {"tile", "register"}
      BY DEF next
    <2>3. /\ r \in Request /\ r.step = next /\ r.op = req[t].op /\ r.client = req[t].client
          /\ r.slug = req[t].slug /\ r.alone = req[t].alone
      BY <1>0, <2>2 DEF Request
    <2>4. Proper(r) /\ Current(r)
      BY <1>0, <2>1, <2>2, <2>3 DEF Proper, Current, Setting, ClientOps, AllOperations
    <2>5. req' = [req EXCEPT ![t] = r]
      BY <2>1 DEF LifecycleInv, TypeOK
    <2> QED
      BY <1>2, <2>1, <2>3, <2>4, <2>5 DEF Running
  <1>4. CASE LoadClient(t)
    <2> DEFINE next == IF OfClient(t) THEN "tile" ELSE "write"
               state == IF req[t].client = None THEN "none" ELSE client[req[t].client].state
    <2>1. /\ req' = [req EXCEPT ![t].on = state, ![t].step = next]
          /\ req[t].step = "client" /\ req[t].op \in Setting
          /\ UNCHANGED <<tile, client, raced, retired>>
      BY <1>4 DEF LoadClient
    <2>2. next \in {"tile", "write"} /\ (next = "tile" <=> req[t].op \in ClientOps)
      BY DEF OfClient, ClientOps
    <2>3. state \in {"none", "on", "off"}
      BY <1>0, <2>1 DEF Request, LifecycleInv, TypeOK, Client
    <2> PICK r : r = [req[t] EXCEPT !.on = state, !.step = next]
      OBVIOUS
    <2> HIDE DEF next
    <2>4. /\ r \in Request /\ r.step = next /\ r.on = state /\ r.op = req[t].op
          /\ r.client = req[t].client /\ r.slug = req[t].slug /\ r.alone = req[t].alone
          /\ r.tile = req[t].tile
      BY <1>0, <2>2, <2>3 DEF Request
    <2>5. Proper(r)
      BY <1>0, <2>1, <2>2, <2>4 DEF Proper, Setting, ClientOps, AllOperations
    <2>6. Current(r)
      BY <1>0, <2>1, <2>2, <2>4, AppLifecycleAssumption DEF Current, Setting, ClientOps, AllOperations
    <2>7. req' = [req EXCEPT ![t] = r]
      BY <2>1 DEF LifecycleInv, TypeOK
    <2> QED
      BY <1>2, <2>1, <2>4, <2>5, <2>6, <2>7 DEF Running
  <1>5. CASE LoadTile(t)
    <2> DEFINE next == IF OfClient(t) THEN "write" ELSE "client"
               state == tile[req[t].slug].state
    <2>1. /\ req' = [req EXCEPT ![t].tile = state, ![t].step = next]
          /\ req[t].step = "tile" /\ req[t].op \in Setting
          /\ UNCHANGED <<tile, client, raced, retired>>
      BY <1>5 DEF LoadTile
    <2>2. next \in {"client", "write"} /\ (next = "write" <=> req[t].op \in ClientOps)
      BY DEF OfClient, ClientOps
    <2>3. state \in {"none", "on", "off"}
      BY <1>0, <2>1 DEF Proper, LifecycleInv, TypeOK, Tile, Setting
    <2> PICK r : r = [req[t] EXCEPT !.tile = state, !.step = next]
      OBVIOUS
    <2> HIDE DEF next
    <2>4. /\ r \in Request /\ r.step = next /\ r.tile = state /\ r.op = req[t].op
          /\ r.client = req[t].client /\ r.slug = req[t].slug /\ r.alone = req[t].alone
          /\ r.on = req[t].on
      BY <1>0, <2>2, <2>3 DEF Request
    <2>5. Proper(r)
      BY <1>0, <2>1, <2>2, <2>4 DEF Proper, Setting, ClientOps, AllOperations
    <2>6. Current(r)
      BY <1>0, <2>1, <2>2, <2>4 DEF Current, Setting, ClientOps, AllOperations
    <2>7. req' = [req EXCEPT ![t] = r]
      BY <2>1 DEF LifecycleInv, TypeOK
    <2> QED
      BY <1>2, <2>1, <2>4, <2>5, <2>6, <2>7 DEF Running
  <1>6. CASE LoadSecret(t)
    <2> DEFINE secret == client[req[t].client].current
    <2>1. /\ req' = [req EXCEPT ![t].secret = secret, ![t].step = "write"]
          /\ req[t].step = "load" /\ req[t].op = "rotate"
          /\ UNCHANGED <<tile, client, raced, retired>>
      BY <1>0, <1>6 DEF LoadSecret, Proper
    <2>2. secret \in Secrets \cup {None}
      BY <1>0, <2>1 DEF Proper, LifecycleInv, TypeOK, Client
    <2> PICK r : r = [req[t] EXCEPT !.secret = secret, !.step = "write"]
      OBVIOUS
    <2>3. /\ r \in Request /\ r.step = "write" /\ r.secret = secret /\ r.op = "rotate"
          /\ r.client = req[t].client /\ r.alone = req[t].alone
      BY <1>0, <2>1, <2>2 DEF Request
    <2>4. Proper(r) /\ Current(r)
      BY <1>0, <2>1, <2>3 DEF Proper, Current, Setting, ClientOps
    <2>5. req' = [req EXCEPT ![t] = r]
      BY <2>1 DEF LifecycleInv, TypeOK
    <2> QED
      BY <1>2, <2>1, <2>3, <2>4, <2>5 DEF Running
  <1> QED
    BY <1>1, <1>3, <1>4, <1>5, <1>6 DEF FindClient, FindTile, Fail

-----------------------------------------------------------------------------
(* Steps that change rows                                                     *)

\* Where the rows of a client keep what others have loaded, they stay right.
LEMMA OthersKeep ==
    ASSUME LifecycleInv, NEW K \in SUBSET Clients,
           \A d \in Clients : Exists(d) => Exists(d)' /\ client'[d].slug = client[d].slug,
           \A z \in Slugs : IsCatalogTile(z) => IsCatalogTile(z)',
           \A d \in K : Exists(d) =>
               /\ client'[d].state = client[d].state
               /\ client'[d].current = client[d].current
               /\ tile'[client[d].slug].state = tile[client[d].slug].state,
           NEW u \in Requests, req'[u] = req[u],
           req[u].alone /\ req[u].client \in Clients => req[u].client \in K
    PROVE  (Proper(req[u]) /\ Current(req[u]))'
  <1>0. PICK r : r = req[u]
    OBVIOUS
  <1>1. Proper(r) /\ Current(r)
    BY <1>0 DEF LifecycleInv
  <1>2. Proper(r)
    BY <1>1
  <1>3. /\ r.step # "idle" /\ r.op \in Setting \cup {"rotate"} /\ r.client \in Clients =>
               client'[r.client].state # "none" /\ (r.op \in Setting => r.slug = client'[r.client].slug)
        /\ r.step # "idle" /\ r.op \in Setting /\ r.client \notin Clients =>
               r.client = None /\ r.slug \in Slugs /\ IsCatalogTile(r.slug)'
    BY <1>2 DEF Proper, Exists
  <1>4. Proper(req[u])'
    <2>1. req'[u] = r
      BY <1>0
    <2> QED
      BY <1>2, <1>3, <2>1 DEF Proper, Exists, IsCatalogTile
  <1>5. r.alone /\ r.client \in Clients /\ r.op \in Setting \cup {"rotate"} /\ r.step # "idle" =>
            /\ client'[r.client].state = client[r.client].state
            /\ client'[r.client].current = client[r.client].current
            /\ r.op \in Setting => tile'[r.slug].state = tile[r.slug].state
    BY <1>0, <1>2 DEF Proper
  <1>6. Current(req[u])'
    <2>1. req'[u] = r
      BY <1>0
    <2>2. ClientOps \subseteq Setting
      BY DEF ClientOps, Setting
    <2> QED
      BY <1>1, <1>5, <2>1, <2>2 DEF Current
  <1> QED
    BY <1>4, <1>6

\* The request that has changed rows ends; the others are as they were.
LEMMA EndKeeps ==
    ASSUME LifecycleInv, NEW t \in Requests, End(t), NEW K \in SUBSET Clients,
           \A d \in Clients : Exists(d) => Exists(d)' /\ client'[d].slug = client[d].slug,
           \A z \in Slugs : IsCatalogTile(z) => IsCatalogTile(z)',
           \A d \in K : Exists(d) =>
               /\ client'[d].state = client[d].state
               /\ client'[d].current = client[d].current
               /\ tile'[client[d].slug].state = tile[client[d].slug].state,
           Running(t), \A d \in Clients \ K : d = req[t].client
    PROVE  /\ req' \in [Requests -> Request]
           /\ (\A u \in Requests : Proper(req[u]) /\ Current(req[u]))'
           /\ Lone'
  <1>1. req'[t] = NoRequest /\ \A u \in Requests \ {t} : req'[u] = req[u]
    BY DEF End, LifecycleInv, TypeOK
  <1>2. req' \in [Requests -> Request]
    BY NoRequestIsProper DEF End, LifecycleInv, TypeOK
  <1>3. ASSUME NEW u \in Requests \ {t}
        PROVE  (Proper(req[u]) /\ Current(req[u]))'
    <2>1. req[u].alone /\ req[u].client \in Clients => req[u].client \in K
      BY <1>3 DEF LifecycleInv, Lone
    <2>2. req'[u] = req[u]
      BY <1>1
    <2> QED
      BY <2>1, <2>2, OthersKeep
  <1>4. (Proper(req[t]) /\ Current(req[t]))'
    BY <1>1 DEF Proper, Current, NoRequest, Setting, ClientOps
  <1>5. Lone'
    <2>1. ~NoRequest.alone /\ NoRequest.step = "idle"
      BY DEF NoRequest
    <2> QED
      BY <1>1, <2>1 DEF LifecycleInv, Lone, Running
  <1> QED
    BY <1>2, <1>3, <1>4, <1>5

\* Both rows are inserted, or none (Register).
LEMMA RegisterStep ==
    ASSUME LifecycleInv, NEW t \in Requests, NEW x \in Secrets \ SecretsUsed, Register(t, x)
    PROVE  LifecycleInv'
  <1> DEFINE c == req[t].client
             s == req[t].slug
             free == tile[s].state = "none" /\ (c # None => client[c].state = "none")
             kind == IF c = None THEN "catalog" ELSE "sso_role"
  <1>0. /\ s \in Slugs /\ c \in Clients \cup {None} /\ Running(t) /\ None \notin Slugs
        /\ None \notin Clients
    BY AppLifecycleAssumption DEF Register, LifecycleInv, TypeOK, Request, Proper, Running
  <1>1. CASE ~free
    <2>1. UNCHANGED <<tile, client, raced, retired>> /\ End(t)
      BY <1>1 DEF Register
    <2> QED
      BY <2>1, RequestStep, NoRequestIsProper DEF End
  <1>2. CASE free
    <2> PICK new : new = [NoClient EXCEPT !.state = "on", !.slug = s, !.current = x]
      OBVIOUS
    <2>0. /\ new.state = "on" /\ new.slug = s /\ new.current = x /\ new \in Client
      BY <1>0 DEF NoClient, Client
    <2>1. /\ tile' = [tile EXCEPT ![s] = [state |-> "on", policy |-> kind]]
          /\ client' = [d \in Clients |-> IF d = c THEN new ELSE client[d]]
          /\ UNCHANGED <<raced, retired>> /\ End(t)
      BY <1>2 DEF Register
    <2>2. /\ tile'[s].state = "on" /\ (tile'[s].policy = "sso_role" <=> c # None)
          /\ \A z \in Slugs \ {s} : tile'[z] = tile[z]
          /\ \A d \in Clients \ {c} : client'[d] = client[d]
          /\ c \in Clients => client'[c] = new
      BY <1>0, <2>1 DEF LifecycleInv, TypeOK
    <2>3. \A d \in Clients : Exists(d) =>
              d # c /\ client[d].slug \in Slugs \ {s} /\ client'[d] = client[d]
      BY <1>0, <1>2, <2>2 DEF LifecycleInv, RowsInv, AggregateIsWhole, Exists
    <2>4. /\ tile' \in [Slugs -> Tile] /\ client' \in [Clients -> Client]
      BY <1>0, <2>0, <2>1 DEF LifecycleInv, TypeOK, Tile
    <2>5. /\ req' \in [Requests -> Request]
          /\ (\A u \in Requests : Proper(req[u]) /\ Current(req[u]))'
          /\ Lone'
      <3>1. \A d \in Clients : Exists(d) => Exists(d)' /\ client'[d].slug = client[d].slug
        BY <2>3 DEF Exists
      <3>2. \A d \in Clients : Exists(d) =>
                /\ client'[d].state = client[d].state
                /\ client'[d].current = client[d].current
                /\ tile'[client[d].slug].state = tile[client[d].slug].state
        BY <2>2, <2>3
      <3>3. \A z \in Slugs : IsCatalogTile(z) => IsCatalogTile(z)'
        BY <1>2, <2>2 DEF IsCatalogTile
      <3> QED
        BY <1>0, <2>1, <3>1, <3>2, <3>3, EndKeeps
    <2>6. AggregateIsWhole'
      <3>1. ASSUME NEW d \in Clients, Exists(d)'
            PROVE  tile'[client'[d].slug].state # "none"
                   /\ tile'[client'[d].slug].policy = "sso_role"
        <4>1. CASE d = c
          <5>1. client'[d].slug = s /\ c # None
            BY <1>0, <2>0, <2>2, <4>1
          <5> QED
            BY <2>2, <5>1
        <4>2. CASE d # c
          <5>1. Exists(d) /\ client[d].slug \in Slugs \ {s} /\ client'[d] = client[d]
            BY <2>2, <2>3, <3>1, <4>2 DEF Exists
          <5> QED
            BY <2>2, <5>1 DEF LifecycleInv, RowsInv, AggregateIsWhole
        <4> QED
          BY <4>1, <4>2
      <3>2. ASSUME NEW z \in Slugs, tile'[z].state # "none", tile'[z].policy = "sso_role"
            PROVE  \E d \in Clients : /\ client'[d].slug = z
                                      /\ \A e \in Clients : client'[e].slug = z => e = d
        <4>0. \A e \in Clients \ {c} : client'[e].slug = z => Exists(e) /\ z # s
          BY <2>2, <2>3, <3>2 DEF LifecycleInv, RowsInv
        <4>1. CASE z = s
          <5>1. c \in Clients /\ client'[c].slug = z
            BY <1>0, <2>0, <2>2, <3>2, <4>1
          <5> QED
            BY <4>0, <4>1, <5>1
        <4>2. CASE z # s
          <5>1. PICK d \in Clients : /\ client[d].slug = z
                                     /\ \A e \in Clients : client[e].slug = z => e = d
            BY <2>2, <3>2, <4>2 DEF LifecycleInv, RowsInv, AggregateIsWhole
          <5>2. d # c /\ client'[d].slug = z
            BY <2>2, <2>3, <5>1 DEF LifecycleInv, RowsInv
          <5>3. \A e \in Clients : client'[e].slug = z => e # c /\ client[e].slug = z
            BY <1>0, <2>0, <2>2, <4>2
          <5> QED
            BY <5>1, <5>2, <5>3
        <4> QED
          BY <4>1, <4>2
      <3> QED
        BY <3>1, <3>2 DEF AggregateIsWhole
    <2>7. (\A d \in Clients : client[d].slug \in Slugs <=> Exists(d))'
      BY <1>0, <2>0, <2>2 DEF LifecycleInv, RowsInv, Exists
    <2>8. AgreeUnlessRaced'
      <3> SUFFICES ASSUME NEW d \in Clients, Exists(d)', d \notin raced'
                   PROVE  client'[d].state = tile'[client'[d].slug].state
        BY DEF AgreeUnlessRaced
      <3>1. CASE d = c
        <4>1. client'[d].slug = s /\ client'[d].state = "on"
          BY <2>0, <2>2, <3>1
        <4> QED
          BY <2>2, <4>1
      <3>2. CASE d # c
        <4>1. Exists(d)
          BY <2>2, <3>2 DEF Exists
        <4> QED
          BY <2>1, <2>2, <2>3, <4>1 DEF LifecycleInv, RowsInv, AgreeUnlessRaced
      <3> QED
        BY <3>1, <3>2
    <2>9. \A d \in Clients : client'[d].current \notin retired'[d]
      <3>1. \A d \in Clients : x \notin retired[d]
        BY DEF SecretsUsed
      <3> QED
        BY <2>0, <2>1, <2>2, <3>1 DEF LifecycleInv, RowsInv
    <2>10. TypeOK'
      BY <2>1, <2>4, <2>5 DEF LifecycleInv, TypeOK
    <2> QED
      BY <2>5, <2>6, <2>7, <2>8, <2>9, <2>10 DEF LifecycleInv, RowsInv
  <1> QED
    BY <1>1, <1>2

\* A catalog tile is set alone (SetAvailability).
LEMMA SetTileStep ==
    ASSUME LifecycleInv, NEW t \in Requests, req[t].op \in Setting, req[t].client \notin Clients,
           SetAvailability(t)
    PROVE  LifecycleInv'
  <1> DEFINE s == req[t].slug
             w == Wanted(t)
  <1>0. /\ s \in Slugs /\ IsCatalogTile(s) /\ req[t].client = None /\ None \notin Clients
        /\ Running(t) /\ w \in {"on", "off"}
    BY AppLifecycleAssumption DEF SetAvailability, LifecycleInv, Proper, Running, Wanted
  <1>1. /\ tile' = tile \/ tile' = [tile EXCEPT ![s].state = w]
        /\ UNCHANGED <<client, raced, retired>> /\ End(t)
    <2>1. raced' = raced
      BY <1>0 DEF SetAvailability, LifecycleInv, TypeOK
    <2> QED
      BY <1>0, <2>1 DEF SetAvailability
  <1> HIDE DEF w
  <1>2. /\ tile' \in [Slugs -> Tile] /\ \A z \in Slugs \ {s} : tile'[z] = tile[z]
        /\ tile'[s].policy = tile[s].policy /\ tile'[s].state # "none"
    <2>1. tile[s] \in Tile /\ tile \in [Slugs -> Tile]
      BY <1>0 DEF LifecycleInv, TypeOK
    <2>2. CASE tile' = tile
      BY <1>0, <2>1, <2>2 DEF IsCatalogTile
    <2>3. CASE tile' = [tile EXCEPT ![s].state = w]
      <3>1. tile' = [tile EXCEPT ![s] = [tile[s] EXCEPT !.state = w]]
        BY <2>3
      <3>2. PICK x : x = [tile[s] EXCEPT !.state = w]
        OBVIOUS
      <3>3. x \in Tile /\ x.policy = tile[s].policy /\ x.state = w
        BY <1>0, <2>1, <3>2 DEF Tile
      <3> QED
        BY <1>0, <2>1, <3>1, <3>2, <3>3
    <2> QED
      BY <1>1, <2>2, <2>3
  <1>3. \A d \in Clients : Exists(d) => client[d].slug \in Slugs \ {s}
    BY <1>0, CatalogTilesAreFree DEF LifecycleInv, RowsInv
  <1>4. /\ req' \in [Requests -> Request]
        /\ (\A u \in Requests : Proper(req[u]) /\ Current(req[u]))'
        /\ Lone'
    <2>1. \A d \in Clients : Exists(d) => Exists(d)' /\ client'[d].slug = client[d].slug
      BY <1>1 DEF Exists
    <2>2. \A d \in Clients : Exists(d) =>
              /\ client'[d].state = client[d].state
              /\ client'[d].current = client[d].current
              /\ tile'[client[d].slug].state = tile[client[d].slug].state
      BY <1>1, <1>2, <1>3
    <2>3. \A z \in Slugs : IsCatalogTile(z) => IsCatalogTile(z)'
      BY <1>2 DEF IsCatalogTile
    <2> QED
      BY <1>0, <1>1, <2>1, <2>2, <2>3, EndKeeps
  <1>5. TypeOK'
    BY <1>1, <1>2, <1>4 DEF LifecycleInv, TypeOK
  <1>6. AggregateIsWhole' /\ AgreeUnlessRaced'
    <2>1. \A d \in Clients : Exists(d)' => Exists(d)
      BY <1>1 DEF Exists
    <2>2. \A z \in Slugs : tile'[z].policy = "sso_role" /\ tile'[z].state # "none" =>
              tile[z].policy = "sso_role" /\ tile[z].state # "none"
      BY <1>0, <1>2 DEF IsCatalogTile
    <2>3. AggregateIsWhole'
      BY <1>1, <1>2, <1>3, <2>1, <2>2 DEF LifecycleInv, RowsInv, AggregateIsWhole
    <2>4. AgreeUnlessRaced'
      BY <1>1, <1>2, <1>3, <2>1 DEF LifecycleInv, RowsInv, AgreeUnlessRaced
    <2> QED
      BY <2>3, <2>4
  <1>7. RowsInv'
    BY <1>1, <1>6 DEF LifecycleInv, RowsInv, Exists
  <1> QED
    BY <1>4, <1>5, <1>7 DEF LifecycleInv

\* Tile and client are set together (SetAvailability).
LEMMA SetPairStep ==
    ASSUME LifecycleInv, NEW t \in Requests, req[t].op \in Setting, req[t].client \in Clients,
           SetAvailability(t)
    PROVE  LifecycleInv'
  <1> DEFINE c == req[t].client
             s == req[t].slug
             w == Wanted(t)
  <1>0. /\ c \in Clients /\ Exists(c) /\ s = client[c].slug /\ s \in Slugs
        /\ Running(t) /\ Current(req[t]) /\ req[t].step = "write" /\ w \in {"on", "off"}
    BY DEF SetAvailability, LifecycleInv, RowsInv, Proper, Running, Wanted
  <1>1. /\ tile' = IF req[t].tile = w THEN tile ELSE [tile EXCEPT ![s].state = w]
        /\ client' = IF req[t].on = w THEN client ELSE [client EXCEPT ![c].state = w]
        /\ raced' = IF req[t].alone THEN raced \ {c} ELSE raced \cup {c}
        /\ End(t) /\ retired' = retired
    <2>1. c # None /\ {c} \ {None} = {c}
      BY AppLifecycleAssumption
    <2> QED
      BY <2>1 DEF SetAvailability
  <1> HIDE DEF w
  <1>2. /\ \A z \in Slugs \ {s} : tile'[z] = tile[z]
        /\ tile'[s] \in Tile /\ tile'[s].policy = tile[s].policy
        /\ tile'[s].state \in {w, tile[s].state}
        /\ req[t].tile # w \/ tile[s].state = w => tile'[s].state = w
    <2>1. tile[s] \in Tile
      BY <1>0 DEF LifecycleInv, TypeOK
    <2>2. CASE req[t].tile = w
      BY <1>1, <2>1, <2>2
    <2>3. CASE req[t].tile # w
      <3>1. tile'[s] = [tile[s] EXCEPT !.state = w]
        BY <1>0, <1>1, <2>3 DEF LifecycleInv, TypeOK
      <3>2. tile'[s] \in Tile /\ tile'[s].policy = tile[s].policy /\ tile'[s].state = w
        BY <1>0, <2>1, <3>1 DEF Tile
      <3> QED
        BY <1>1, <2>3, <3>2 DEF LifecycleInv, TypeOK
    <2> QED
      BY <2>2, <2>3
  <1>3. /\ \A d \in Clients \ {c} : client'[d] = client[d]
        /\ client'[c] \in Client /\ client'[c].slug = s
        /\ client'[c].current = client[c].current
        /\ client'[c].state \in {w, client[c].state}
        /\ req[t].on # w \/ client[c].state = w => client'[c].state = w
    <2>1. client[c] \in Client
      BY <1>0 DEF LifecycleInv, TypeOK
    <2>2. CASE req[t].on = w
      BY <1>0, <1>1, <2>1, <2>2
    <2>3. CASE req[t].on # w
      <3>1. client'[c] = [client[c] EXCEPT !.state = w]
        BY <1>0, <1>1, <2>3 DEF LifecycleInv, TypeOK
      <3>2. client'[c] \in Client /\ client'[c].slug = s /\ client'[c].state = w
            /\ client'[c].current = client[c].current
        BY <1>0, <2>1, <3>1 DEF Client
      <3> QED
        BY <1>1, <2>3, <3>2 DEF LifecycleInv, TypeOK
    <2> QED
      BY <2>2, <2>3
  <1>4. \A d \in Clients : /\ Exists(d)' <=> Exists(d)
                           /\ client'[d].slug = client[d].slug
                           /\ client'[d].current = client[d].current
    BY <1>0, <1>3 DEF Exists
  <1>5. \A d \in Clients \ {c} : Exists(d) =>
            client[d].slug \in Slugs \ {s} /\ tile'[client[d].slug] = tile[client[d].slug]
    BY <1>0, <1>2, TilesAreOwn DEF LifecycleInv, RowsInv
  <1>6. \A z \in Slugs : tile'[z].policy = tile[z].policy
                         /\ (tile'[z].state = "none" <=> tile[z].state = "none")
    <2>1. tile[s].state # "none"
      BY <1>0 DEF LifecycleInv, RowsInv, AggregateIsWhole
    <2> QED
      BY <1>0, <1>2, <2>1
  <1>7. /\ req' \in [Requests -> Request]
        /\ (\A u \in Requests : Proper(req[u]) /\ Current(req[u]))'
        /\ Lone'
    <2>1. \A d \in Clients \ {c} : Exists(d) =>
              /\ client'[d].state = client[d].state
              /\ client'[d].current = client[d].current
              /\ tile'[client[d].slug].state = tile[client[d].slug].state
      BY <1>3, <1>5
    <2>2. \A d \in Clients : Exists(d) => Exists(d)' /\ client'[d].slug = client[d].slug
      BY <1>4
    <2>3. \A d \in Clients \ (Clients \ {c}) : d = req[t].client
      OBVIOUS
    <2>4. \A z \in Slugs : IsCatalogTile(z) => IsCatalogTile(z)'
      BY <1>6 DEF IsCatalogTile
    <2> QED
      BY <1>0, <1>1, <2>1, <2>2, <2>3, <2>4, EndKeeps
  <1>8. TypeOK'
    <2>1. tile' \in [Slugs -> Tile]
      BY <1>0, <1>1, <1>2 DEF LifecycleInv, TypeOK
    <2>2. client' \in [Clients -> Client]
      BY <1>0, <1>1, <1>3 DEF LifecycleInv, TypeOK
    <2> QED
      BY <1>0, <1>1, <1>7, <2>1, <2>2 DEF LifecycleInv, TypeOK
  <1>9. AggregateIsWhole'
    <2>1. AggregateIsWhole /\ \A d \in Clients : Exists(d) => client[d].slug \in Slugs
      BY DEF LifecycleInv, RowsInv
    <2> QED
      BY <1>4, <1>6, <2>1 DEF AggregateIsWhole
  <1>10. AgreeUnlessRaced'
    <2>1. c \notin raced' => client'[c].state = tile'[s].state
      <3>1. c \notin raced' => req[t].alone
        BY <1>1
      <3>2. req[t].alone => req[t].on = client[c].state /\ req[t].tile = tile[s].state
        BY <1>0 DEF Current, Setting, ClientOps
      <3> QED
        BY <1>2, <1>3, <3>1, <3>2
    <2>2. \A d \in Clients \ {c} : Exists(d)' /\ d \notin raced' =>
              client'[d].state = tile'[client'[d].slug].state
      BY <1>1, <1>3, <1>4, <1>5 DEF LifecycleInv, RowsInv, AgreeUnlessRaced
    <2> QED
      BY <1>3, <2>1, <2>2 DEF AgreeUnlessRaced
  <1>11. RowsInv'
    <2>1. \A d \in Clients : client'[d].slug \in Slugs <=> Exists(d)'
      BY <1>4 DEF LifecycleInv, RowsInv
    <2>2. \A d \in Clients : client'[d].current \notin retired'[d]
      BY <1>1, <1>4 DEF LifecycleInv, RowsInv
    <2> QED
      BY <1>9, <1>10, <2>1, <2>2 DEF RowsInv
  <1> QED
    BY <1>7, <1>8, <1>11 DEF LifecycleInv

\* A change of a client's secrets alone keeps what is not said of them.
LEMMA SecretsStep ==
    ASSUME LifecycleInv, NEW c \in Clients, UNCHANGED <<tile, raced>>,
           NEW row \in Client, client' = [client EXCEPT ![c] = row],
           row.state = client[c].state, row.slug = client[c].slug,
           NEW R \in SUBSET Secrets, retired' = [retired EXCEPT ![c] = R], row.current \notin R,
           req' \in [Requests -> Request],
           (\A u \in Requests : Proper(req[u]) /\ Current(req[u]))',
           Lone'
    PROVE  LifecycleInv'
  <1>1. \A d \in Clients : /\ Exists(d)' <=> Exists(d)
                           /\ client'[d].state = client[d].state
                           /\ client'[d].slug = client[d].slug
    BY DEF LifecycleInv, TypeOK, Exists
  <1>2. TypeOK'
    BY DEF LifecycleInv, TypeOK
  <1>3. AggregateIsWhole' /\ AgreeUnlessRaced'
    BY <1>1 DEF LifecycleInv, RowsInv, AggregateIsWhole, AgreeUnlessRaced
  <1>4. \A d \in Clients : client'[d].current \notin retired'[d]
    BY DEF LifecycleInv, RowsInv, TypeOK
  <1>5. RowsInv'
    BY <1>1, <1>3, <1>4 DEF LifecycleInv, RowsInv
  <1> QED
    BY <1>2, <1>5 DEF LifecycleInv

\* A new secret is written, with the one loaded as the one before (Rotate).
LEMMA RotateStep ==
    ASSUME LifecycleInv, NEW t \in Requests, NEW x \in Secrets \ SecretsUsed, Rotate(t, x)
    PROVE  LifecycleInv'
  <1> DEFINE c == req[t].client
             row == Rotated(client[c], req[t].secret, x)
             R == retired[c] \cup Dropped(client[c], row)
  <1>0. c \in Clients /\ Running(t) /\ req[t].secret \in Secrets \cup {None}
    BY DEF Rotate, LifecycleInv, TypeOK, Request, Proper, Running
  <1>1. /\ client' = [client EXCEPT ![c] = row] /\ retired' = [retired EXCEPT ![c] = R]
        /\ UNCHANGED <<tile, raced>> /\ End(t)
    BY <1>0 DEF Rotate, LifecycleInv, TypeOK
  <1>2. /\ row \in Client /\ row.state = client[c].state /\ row.slug = client[c].slug
        /\ row.current = x
    <2>1. client[c] \in Client
      BY <1>0 DEF LifecycleInv, TypeOK
    <2> QED
      BY <1>0, <2>1 DEF Rotated, Client
  <1>3. R \in SUBSET Secrets /\ x \notin R
    <2>1. x \notin retired[c] /\ retired[c] \in SUBSET Secrets
      BY <1>0 DEF SecretsUsed, LifecycleInv, TypeOK
    <2>2. x \notin Dropped(client[c], row)
      BY <1>2 DEF Dropped, Accepts
    <2> QED
      BY <2>1, <2>2 DEF Dropped
  <1>4. /\ req' \in [Requests -> Request]
        /\ (\A u \in Requests : Proper(req[u]) /\ Current(req[u]))'
        /\ Lone'
    <2>1. \A d \in Clients \ {c} : client'[d] = client[d] /\ tile' = tile
      BY <1>1 DEF LifecycleInv, TypeOK
    <2>2. client'[c] = row
      BY <1>0, <1>1 DEF LifecycleInv, TypeOK
    <2> HIDE DEF row
    <2>3. \A d \in Clients : Exists(d) => Exists(d)' /\ client'[d].slug = client[d].slug
      BY <1>2, <2>1, <2>2 DEF Exists
    <2>4. \A d \in Clients \ {c} : Exists(d) =>
              /\ client'[d].state = client[d].state
              /\ client'[d].current = client[d].current
              /\ tile'[client[d].slug].state = tile[client[d].slug].state
      BY <2>1
    <2>5. \A d \in Clients \ (Clients \ {c}) : d = req[t].client
      OBVIOUS
    <2>6. \A z \in Slugs : IsCatalogTile(z) => IsCatalogTile(z)'
      BY <1>1 DEF IsCatalogTile
    <2> QED
      BY <1>0, <1>1, <2>3, <2>4, <2>5, <2>6, EndKeeps
  <1> HIDE DEF row, R
  <1> QED
    BY <1>0, <1>1, <1>2, <1>3, <1>4, SecretsStep

\* The grace of a secret ends (EndGrace).
LEMMA GraceStep ==
    ASSUME LifecycleInv, NEW c \in Clients, EndGrace(c)
    PROVE  LifecycleInv'
  <1> DEFINE R == retired[c] \cup Dropped(client[c], [client[c] EXCEPT !.grace = FALSE])
  <1>0. client[c] \in Client
    BY DEF LifecycleInv, TypeOK
  <1>1. [client[c] EXCEPT !.grace = FALSE] \in Client
    BY <1>0 DEF Client
  <1>2. PICK row \in Client : row = [client[c] EXCEPT !.grace = FALSE]
    BY <1>1
  <1>3. /\ row.state = client[c].state /\ row.slug = client[c].slug
        /\ row.current = client[c].current
    BY <1>0, <1>2 DEF Client
  <1>4. /\ client' = [client EXCEPT ![c] = row] /\ client'[c] = row
        /\ retired' = [retired EXCEPT ![c] = R]
        /\ UNCHANGED <<tile, raced, req>>
    <2>1. client' = [client EXCEPT ![c] = row] /\ UNCHANGED <<tile, raced, req>>
      BY <1>2 DEF EndGrace, LifecycleInv, TypeOK
    <2>2. client'[c] = row
      BY <2>1 DEF LifecycleInv, TypeOK
    <2> QED
      BY <1>2, <2>1, <2>2 DEF EndGrace, LifecycleInv, TypeOK
  <1>5. R \in SUBSET Secrets /\ row.current \notin R
    <2>1. row.current \notin retired[c] /\ retired[c] \in SUBSET Secrets
      BY <1>3 DEF LifecycleInv, RowsInv, TypeOK
    <2>2. row.current \notin Dropped(client[c], row)
      BY DEF Dropped, Accepts
    <2> QED
      BY <1>2, <2>1, <2>2 DEF Dropped
  <1> HIDE DEF R
  <1>6. \A d \in Clients : /\ Exists(d) => Exists(d)'
                           /\ client'[d].slug = client[d].slug
                           /\ client'[d].state = client[d].state
                           /\ client'[d].current = client[d].current
    BY <1>3, <1>4 DEF LifecycleInv, TypeOK, Exists
  <1>7. (\A u \in Requests : Proper(req[u]) /\ Current(req[u]))'
    <2> SUFFICES ASSUME NEW u \in Requests
                 PROVE  (Proper(req[u]) /\ Current(req[u]))'
      OBVIOUS
    <2>1. /\ \A d \in Clients : Exists(d) => Exists(d)' /\ client'[d].slug = client[d].slug
          /\ \A d \in Clients : Exists(d) =>
                /\ client'[d].state = client[d].state
                /\ client'[d].current = client[d].current
                /\ tile'[client[d].slug].state = tile[client[d].slug].state
      BY <1>4, <1>6
    <2>2. req'[u] = req[u] /\ \A z \in Slugs : IsCatalogTile(z) => IsCatalogTile(z)'
      BY <1>4 DEF IsCatalogTile
    <2> QED
      BY <2>1, <2>2, OthersKeep
  <1>8. Lone' /\ req' \in [Requests -> Request]
    BY <1>4 DEF LifecycleInv, TypeOK, Lone, Running
  <1> QED
    BY <1>3, <1>4, <1>5, <1>7, <1>8, SecretsStep

-----------------------------------------------------------------------------
(* Every step                                                                 *)

\* A request begins with any of the operations (Call).
LEMMA CallStep ==
    ASSUME LifecycleInv, NEW t \in Requests, Call(t)
    PROVE  LifecycleInv'
  <1> USE DEF AllOperations, Setting, ClientOps
  <1>1. ASSUME NEW c \in Clients, NEW s \in Slugs, Begin(t, "create_sso", c, s, "client")
        PROVE  LifecycleInv'
    BY <1>1, BeginStep
  <1>2. ASSUME NEW s \in Slugs, Begin(t, "create_catalog", None, s, "tile")
        PROVE  LifecycleInv'
    BY <1>2, BeginStep
  <1>3. ASSUME NEW op \in ClientOps, NEW c \in Clients, Exists(c),
               Begin(t, op, c, client[c].slug, "client")
        PROVE  LifecycleInv'
    <2>1. client[c].slug \in Slugs
      BY <1>3 DEF LifecycleInv, RowsInv
    <2> QED
      BY <1>3, <2>1, BeginStep
  <1>5. ASSUME NEW op \in {"enable_tile", "disable_tile"}, NEW s \in Slugs,
               NEW c \in Clients \cup {None}, tile[s].state # "none", IsClientOf(c, s),
               Begin(t, op, c, s, "tile")
        PROVE  LifecycleInv'
    <2>1. c \in Clients => Exists(c) /\ client[c].slug = s
      BY <1>5, AppLifecycleAssumption DEF IsClientOf, LifecycleInv, RowsInv
    <2>2. c \notin Clients => c = None /\ IsCatalogTile(s)
      <3>1. tile[s] \in Tile
        BY DEF LifecycleInv, TypeOK
      <3> QED
        BY <1>5, <3>1 DEF IsClientOf, IsCatalogTile, LifecycleInv, RowsInv, AggregateIsWhole, Tile
    <2> QED
      BY <1>5, <2>1, <2>2, BeginStep
  <1>4. ASSUME NEW c \in Clients, Exists(c), Begin(t, "rotate", c, None, "load")
        PROVE  LifecycleInv'
    BY <1>4, BeginStep
  <1> QED
    BY <1>1, <1>2, <1>3, <1>4, <1>5 DEF Call

\* Every step of AppLifecycle keeps the invariant (Next).
LEMMA LifecycleStep == LifecycleInv /\ [Next]_vars => LifecycleInv'
  <1> SUFFICES ASSUME LifecycleInv, [Next]_vars
               PROVE  LifecycleInv'
    OBVIOUS
  <1>1. CASE UNCHANGED vars
    BY <1>1 DEF vars, LifecycleInv, TypeOK, RowsInv, AggregateIsWhole, AgreeUnlessRaced, Proper,
                Current, Lone, Running, Exists, IsCatalogTile
  <1>2. ASSUME NEW t \in Requests, Step(t)
        PROVE  LifecycleInv'
    BY <1>2, ReadStep, RegisterStep, RotateStep, SetTileStep, SetPairStep DEF Step
  <1> QED
    BY <1>1, <1>2, CallStep, ReadStep, GraceStep DEF Next

\* The invariant of AppLifecycle, which holds at the start and is kept (Init, Next).
LEMMA LifecycleInvariant == Spec => []LifecycleInv
  <1>1. Init => LifecycleInv
    <2> SUFFICES ASSUME Init
                 PROVE  LifecycleInv
      OBVIOUS
    <2>1. \A c \in Clients : client[c] = NoClient /\ retired[c] = {}
      BY DEF Init
    <2>2. NoClient \in Client /\ NoTile \in Tile
      BY DEF NoClient, Client, NoTile, Tile
    <2>3. TypeOK
      BY <2>2, NoRequestIsProper DEF Init, TypeOK
    <2>4. RowsInv
      BY <2>1, AppLifecycleAssumption DEF Init, RowsInv, AggregateIsWhole, AgreeUnlessRaced,
         Exists, NoClient, NoTile
    <2>5. \A t \in Requests : req[t] = NoRequest
      BY DEF Init
    <2>6. (\A t \in Requests : Proper(req[t]) /\ Current(req[t])) /\ Lone
      BY <2>5, NoRequestIsProper DEF Lone, NoRequest
    <2> QED
      BY <2>3, <2>4, <2>6 DEF LifecycleInv
  <1> QED
    BY <1>1, LifecycleStep, PTL DEF Spec

\* Views of the launcher leave tiles and clients to the administration.
THEOREM LauncherKeepsLifecycle == LauncherSpec => Spec
  <1>1. LauncherInit => Init
    BY DEF LauncherInit
  <1>2. [LauncherNext]_launcherVars => [Next]_vars
    BY DEF LauncherNext, launcherVars
  <1> QED
    BY <1>1, <1>2, PTL DEF LauncherSpec, Spec

\* No creation leaves a tile without its client, or a client without its tile
\* (AggregateIsWhole).
THEOREM AggregatesAreWhole == LauncherSpec => []AggregateIsWhole
  <1>1. LifecycleInv => AggregateIsWhole
    BY DEF LifecycleInv, RowsInv
  <1> QED
    BY <1>1, LauncherKeepsLifecycle, LifecycleInvariant, PTL

\* Tile and client agree where no requests overlapped (AgreeUnlessRaced).
THEOREM TilesAndClientsAgree == LauncherSpec => []AgreeUnlessRaced
  <1>1. LifecycleInv => AgreeUnlessRaced
    BY DEF LifecycleInv, RowsInv
  <1> QED
    BY <1>1, LauncherKeepsLifecycle, LifecycleInvariant, PTL

\* A rotation that runs alone hands over (SoloRotationHandsOver).
THEOREM RotationsHandOver == LauncherSpec => SoloRotationHandsOver
  <1> DEFINE HandsOver(t, c, x) ==
               /\ Accepts(client'[c], x)
               /\ Accepts(client'[c], client[c].current)
               /\ \A y \in retired[c] : ~Accepts(client'[c], y)
  <1>1. ASSUME LifecycleInv, LifecycleInv', NEW t \in Requests, NEW c \in Clients,
               NEW x \in Secrets, req[t].alone, req[t].client = c, Rotate(t, x)
        PROVE  HandsOver(t, c, x)
    <2>1. /\ client'[c] = Rotated(client[c], req[t].secret, x) /\ retired[c] \subseteq retired'[c]
      BY <1>1 DEF Rotate, LifecycleInv, TypeOK
    <2>2. req[t].secret = client[c].current
      BY <1>1 DEF Rotate, LifecycleInv, Current
    <2>3. /\ client'[c].current = x /\ client'[c].previous = client[c].current
          /\ client'[c].grace
      BY <1>1, <2>1, <2>2 DEF Rotated, LifecycleInv, TypeOK, Client
    <2>4. x \notin retired[c] /\ client[c].current \notin retired[c]
      BY <1>1, <2>1, <2>3 DEF LifecycleInv, RowsInv
    <2> QED
      BY <2>3, <2>4 DEF Accepts
  <1>2. LifecycleInv /\ LifecycleInv' =>
            \A t \in Requests, c \in Clients, x \in Secrets :
                req[t].alone /\ req[t].client = c /\ Rotate(t, x) => HandsOver(t, c, x)
    BY <1>1
  <1>3. LauncherSpec => []LifecycleInv
    BY LauncherKeepsLifecycle, LifecycleInvariant, PTL
  <1> QED
    BY <1>2, <1>3, PTL DEF SoloRotationHandsOver

-----------------------------------------------------------------------------
(* The launcher                                                               *)

\* A client stays, with its tile (Next).
LEMMA ClientsStay ==
    ASSUME LifecycleInv, [Next]_vars, NEW s \in Slugs, NEW c \in ClientsOf(s)
    PROVE  c \in ClientsOf(s)'
  <1>0. c \in Clients /\ Exists(c) /\ client[c].slug = s
    BY DEF ClientsOf
  <1>1. SUFFICES client'[c].state # "none" /\ client'[c].slug = s
    BY <1>0 DEF ClientsOf, Exists
  <1>2. client[c] \in Client /\ client \in [Clients -> Client]
    BY <1>0 DEF LifecycleInv, TypeOK
  <1>3. CASE UNCHANGED client
    BY <1>0, <1>3 DEF Exists
  <1>4. ASSUME NEW t \in Requests, NEW x \in Secrets, Register(t, x)
        PROVE  client'[c] = client[c]
    <2>1. CASE UNCHANGED client
      BY <2>1
    <2>2. CASE ~UNCHANGED client
      <3>1. /\ req[t].client # None => client[req[t].client].state = "none"
            /\ client' = [d \in Clients |->
                  IF d = req[t].client
                  THEN [NoClient EXCEPT !.state = "on", !.slug = req[t].slug, !.current = x]
                  ELSE client[d]]
        BY <1>4, <2>2 DEF Register
      <3>2. c # req[t].client
        BY <1>0, <3>1, AppLifecycleAssumption DEF Exists
      <3> QED
        BY <1>0, <3>1, <3>2
    <2> QED
      BY <2>1, <2>2
  <1>5. ASSUME NEW t \in Requests, SetAvailability(t)
        PROVE  client'[c].state \in {client[c].state, "on", "off"} /\ client'[c].slug = s
    <2> DEFINE d == req[t].client
    <2>1. client' = client \/ client' = [client EXCEPT ![d].state = Wanted(t)]
      BY <1>5 DEF SetAvailability
    <2>2. CASE client' = [client EXCEPT ![d] = [client[d] EXCEPT !.state = Wanted(t)]]
      <3>1. CASE d = c
        <4>1. client'[c] = [client[c] EXCEPT !.state = Wanted(t)]
          BY <1>0, <1>2, <2>2, <3>1
        <4> QED
          BY <1>0, <1>2, <4>1 DEF Client, Wanted
      <3>2. CASE d # c
        BY <1>0, <1>2, <2>2, <3>2
      <3> QED
        BY <3>1, <3>2
    <2> QED
      BY <1>0, <2>1, <2>2
  <1>6. ASSUME NEW t \in Requests, NEW x \in Secrets, Rotate(t, x)
        PROVE  client'[c].state = client[c].state /\ client'[c].slug = s
    <2> DEFINE d == req[t].client
    <2>1. client' = [client EXCEPT ![d] = Rotated(client[d], req[t].secret, x)]
      BY <1>6 DEF Rotate
    <2>2. CASE d = c
      <3>1. client'[c] = Rotated(client[c], req[t].secret, x)
        BY <1>0, <1>2, <2>1, <2>2
      <3> QED
        BY <1>0, <1>2, <3>1 DEF Rotated, Client
    <2>3. CASE d # c
      BY <1>0, <1>2, <2>1, <2>3
    <2> QED
      BY <2>2, <2>3
  <1>7. ASSUME NEW d \in Clients, EndGrace(d)
        PROVE  client'[c].state = client[c].state /\ client'[c].slug = s
    <2>1. client' = [client EXCEPT ![d] = [client[d] EXCEPT !.grace = FALSE]]
      BY <1>7 DEF EndGrace
    <2> QED
      BY <1>0, <1>2, <2>1 DEF Client
  <1>8. CASE Next
    <2>1. ASSUME NEW t \in Requests, Call(t) \/ Fail(t) \/ FindClient(t) \/ FindTile(t)
                                      \/ LoadClient(t) \/ LoadTile(t) \/ LoadSecret(t)
          PROVE  UNCHANGED client
      BY <2>1 DEF Call, Begin, Fail, FindClient, FindTile, LoadClient, LoadTile, LoadSecret
    <2>2. ASSUME NEW t \in Requests, Step(t)
          PROVE  client'[c].state # "none" /\ client'[c].slug = s
      BY <1>0, <1>3, <1>4, <1>5, <1>6, <2>1, <2>2 DEF Step, Exists
    <2> QED
      BY <1>0, <1>3, <1>7, <1>8, <2>1, <2>2 DEF Next, Exists
  <1> QED
    BY <1>3, <1>8 DEF vars

\* A tile has one client (AggregateIsWhole).
LEMMA ClientIsUnique ==
    ASSUME LifecycleInv, NEW s \in Slugs, NEW c \in ClientsOf(s)
    PROVE  ClientsOf(s) = {c}
  BY DEF ClientsOf, LifecycleInv, RowsInv, AggregateIsWhole

\* Who has access to a client is no guest, and members with the same roles have the
\* same access (ResolveAppAccess).
LEMMA AccessOfMembers ==
    \A c, G, H, E, M :
        /\ IsProvisioned(AccessFrom(c, G, E, M)) => IsMember(G)
        /\ IsMember(G) /\ IsMember(H) => AccessFrom(c, G, E, M) = AccessFrom(c, H, E, M)
  BY DEF AccessFrom, ResolveAppAccess, NoAccess, IsProvisioned, IsMember

Reads == {"pairs", "globals", "explicit", "mapped"}

\* What a request w has gathered is among what has held of its tile since it began,
\* and what it has not was not there throughout; F is what holds now.
Gathered(w, h, F) ==
    /\ w.step # "idle" => w.tile \in Slugs
    /\ w.step \in Reads =>
           /\ h.always \subseteq F
           /\ F \subseteq h.ever
           /\ IF w.shown THEN "listed" \in h.ever ELSE "listed" \notin h.always
    /\ w.step \in Reads \ {"pairs"} => "available" \in h.ever
    /\ w.step \in {"explicit", "mapped"} =>
           /\ IsMember(w.globals) => "member" \in h.ever
           /\ "entitled" \in h.always => IsMember(w.globals)
    /\ w.step = "done" =>
           IF w.shown
           THEN \/ "listed" \in h.ever
                \/ /\ {"available", "member"} \subseteq h.ever
                   /\ Settled(h) /\ "globals" \notin h.moved => "entitled" \in h.ever
           ELSE /\ "listed" \notin h.always
                /\ Settled(h) => ~({"available", "entitled"} \subseteq h.always)

\* What the third statement would make of what a request w has read.
Prospect(w) == IsProvisioned(AccessFrom(w.client, w.globals, w.explicit, MappedTo(w.client)))

\* What a request w has read is still so where the tables have not moved since, and
\* its prospect is the access at some moment while the third table has not.
Known(w, h) ==
    /\ w.step \in Reads \ {"pairs"} => w.client \in ClientsOf(w.tile)
    /\ w.step \in {"explicit", "mapped"} /\ "globals" \notin h.moved => w.globals = globals
    /\ w.step = "mapped" =>
           /\ "explicit" \notin h.moved => w.explicit = explicit[w.client]
           /\ h.moved \subseteq {"explicit"} =>
                  IF Prospect(w) THEN "entitled" \in h.ever ELSE "entitled" \notin h.always

\* The inductive invariant of the views, beside that of the aggregate.
LauncherInv ==
    /\ granted \in SUBSET Slugs
    /\ globals \in SUBSET GlobalRoles
    /\ explicit \in [Clients -> SUBSET Roles]
    /\ mappings \in [Clients -> [GlobalRoles -> Roles \cup {None}]]
    /\ view \in [Views -> View]
    /\ held \in [Views -> History]
    /\ \A v \in Views :
          Gathered(view[v], held[v], FactsOf(view[v].tile)) /\ Known(view[v], held[v])

\* The pair of the second statement is the one that /auth/authorize would admit.
LEMMA FactsAreAsked ==
    \A s : /\ FactsOf(s) \in SUBSET Facts
           /\ Listed(s) <=> "listed" \in FactsOf(s)
           /\ OpenPairsOf(s) # {} <=> "available" \in FactsOf(s)
           /\ IsMember(globals) <=> "member" \in FactsOf(s)
           /\ (\E c \in ClientsOf(s) : EntitledTo(c)) <=> "entitled" \in FactsOf(s)
  BY DEF OpenPairsOf, FactsOf, Facts, AvailableForSso, ClientsOf

\* A view in flight stays where it is, while rows or tables change.
LEMMA StayStep ==
    ASSUME LifecycleInv, [Next]_vars, LauncherInv, Remember, NEW v \in Views, view'[v] = view[v]
    PROVE  /\ view'[v] \in View /\ held'[v] \in History
           /\ (Gathered(view[v], held[v], FactsOf(view[v].tile)) /\ Known(view[v], held[v]))'
  <1> PICK w : w = view[v]
    OBVIOUS
  <1> PICK h : h = held[v]
    OBVIOUS
  <1> PICK g : g = held'[v]
    OBVIOUS
  <1> PICK F : F = FactsOf(view[v].tile)
    OBVIOUS
  <1> PICK G : G = FactsOf(view[v].tile)'
    OBVIOUS
  <1>0. /\ w \in View /\ h \in History /\ Gathered(w, h, F) /\ Known(w, h)
        /\ F \in SUBSET Facts /\ G \in SUBSET Facts /\ Moving \in SUBSET Tables
    BY FactsAreAsked DEF LauncherInv, FactsOf, Moving
  <1>1. g = IF w.step = "idle" THEN NoHistory
            ELSE IF w.step = "done" THEN h
            ELSE [ever |-> h.ever \cup G, always |-> h.always \cap G, moved |-> h.moved \cup Moving]
    BY DEF Remember
  <1>2. view'[v] = w /\ held'[v] = g /\ FactsOf(view[v].tile)' = G
    OBVIOUS
  <1>3. SUFFICES g \in History /\ Gathered(w, g, G) /\ Known(view[v], held[v])'
    BY <1>0, <1>2
  <1>4. CASE w.step = "idle"
    BY <1>1, <1>2, <1>4 DEF NoHistory, History, Gathered, Known, Reads
  <1>5. CASE w.step = "done"
    BY <1>0, <1>1, <1>2, <1>5 DEF Gathered, Known, Reads
  <1>6. CASE w.step \in Reads
    <2>1. g.ever = h.ever \cup G /\ g.always = h.always \cap G /\ g.moved = h.moved \cup Moving
          /\ g \in History
      BY <1>0, <1>1, <1>6 DEF History, Reads
    <2>2. Gathered(w, g, G)
      BY <1>0, <1>6, <2>1 DEF Gathered, Reads
    <2>3. w.tile \in Slugs /\ (w.step # "pairs" => w.client \in ClientsOf(w.tile)')
      <3>1. w.tile \in Slugs /\ (w.step # "pairs" => w.client \in ClientsOf(w.tile))
        BY <1>0, <1>6 DEF Gathered, Known, Reads
      <3> QED
        BY <3>1, ClientsStay
    <2>4. /\ "globals" \notin Moving => globals' = globals
          /\ "explicit" \notin Moving => explicit' = explicit
          /\ "mappings" \notin Moving => mappings' = mappings
      BY DEF Moving, Tables
    <2>5. Moving \subseteq {"explicit"} => MappedTo(w.client)' = MappedTo(w.client)
      BY <2>4 DEF MappedTo
    <2>6. h.moved \cup Moving \subseteq {"explicit"} => (Prospect(w)' <=> Prospect(w))
      BY <2>5 DEF Prospect, AccessFrom
    <2>7. Known(w, g)'
      BY <1>0, <2>1, <2>3, <2>4, <2>6 DEF Known
    <2> QED
      BY <1>2, <2>1, <2>2, <2>7 DEF Known, Prospect
  <1> QED
    BY <1>0, <1>4, <1>5, <1>6 DEF View, Reads

\* A step of a view, while all else is as it was: what it gathers is so now.
LEMMA OwnStep ==
    ASSUME LifecycleInv, LauncherInv, Remember, NEW v \in Views,
           UNCHANGED <<vars, accessVars>>,
           \/ \E s \in Slugs : OpenLauncher(v, s)
           \/ LoadPairs(v) \/ ReadGlobals(v) \/ ReadExplicit(v) \/ ReadMapped(v)
    PROVE  /\ view'[v] \in View /\ held'[v] \in History
           /\ (Gathered(view[v], held[v], FactsOf(view[v].tile)) /\ Known(view[v], held[v]))'
  <1> PICK w : w = view[v]
    OBVIOUS
  <1> PICK x : x = view'[v]
    OBVIOUS
  <1> PICK h : h = held[v]
    OBVIOUS
  <1> PICK g : g = held'[v]
    OBVIOUS
  <1> PICK F : F = FactsOf(x.tile)
    OBVIOUS
  <1>0. /\ w \in View /\ h \in History /\ Gathered(w, h, FactsOf(w.tile)) /\ Known(w, h)
        /\ F \in SUBSET Facts
    BY FactsAreAsked DEF LauncherInv
  <1>1. UNCHANGED <<tile, client, granted, globals, explicit, mappings>>
    BY DEF vars, accessVars
  <1>2. FactsOf(view[v].tile)' = F /\ Moving = {}
    <2>1. FactsOf(view[v].tile)' = FactsOf(x.tile)
      BY <1>1 DEF FactsOf, Listed, IsCatalogTile, ClientsOf, AvailableForSso, Exists, EntitledTo,
                  AccessFrom, MappedTo
    <2> QED
      BY <1>1, <2>1 DEF Moving
  <1>3. Known(x, g) => Known(view[v], held[v])'
    <2>1. ClientsOf(x.tile)' = ClientsOf(x.tile) /\ MappedTo(x.client)' = MappedTo(x.client)
      BY <1>1 DEF ClientsOf, Exists, MappedTo
    <2>2. (Prospect(view[v]))' <=> Prospect(x)
      BY <2>1 DEF Prospect, AccessFrom
    <2> QED
      BY <1>1, <2>1, <2>2 DEF Known
  <1>4. SUFFICES x \in View /\ g \in History /\ Gathered(x, g, F) /\ Known(x, g)
    BY <1>2, <1>3
  <1>5. ASSUME w.step \in Reads, x.step \in Reads \cup {"done"}, x.step # "pairs", x.tile = w.tile
        PROVE  /\ g \in History /\ g.ever = h.ever \cup F /\ g.always = h.always \cap F
               /\ g.moved = h.moved
               /\ h.always \subseteq F /\ F \subseteq h.ever /\ g.ever = h.ever
               /\ g.always = h.always
    <2>1. g = [ever |-> h.ever \cup F, always |-> h.always \cap F, moved |-> h.moved]
      <3>1. g = [ever |-> h.ever \cup FactsOf(view[v].tile)', always |-> h.always \cap FactsOf(view[v].tile)',
                 moved |-> h.moved \cup Moving]
        BY <1>5 DEF Remember, Reads
      <3>2. h.moved \cup {} = h.moved
        OBVIOUS
      <3> QED
        BY <1>2, <3>1, <3>2
    <2>2. h.always \subseteq F /\ F \subseteq h.ever
      BY <1>0, <1>5 DEF Gathered
    <2> QED
      BY <1>0, <2>1, <2>2 DEF History
  <1>6. ASSUME NEW s \in Slugs, OpenLauncher(v, s)
        PROVE  x \in View /\ g \in History /\ Gathered(x, g, F) /\ Known(x, g)
    <2>1. x = [NoView EXCEPT !.step = "pairs", !.tile = s, !.shown = Listed(s)]
          /\ w.step \in {"idle", "done"}
      BY <1>6 DEF OpenLauncher, LauncherInv
    <2>2. Listed(s) \in BOOLEAN
      BY DEF Listed
    <2>3. x \in View /\ x.step = "pairs" /\ x.tile = s /\ (x.shown <=> Listed(s))
      BY <2>1, <2>2 DEF View, NoView
    <2>4. g = [ever |-> F, always |-> F, moved |-> {}]
      <3>1. FactsOf(view'[v].tile) = F
        OBVIOUS
      <3> QED
        BY <2>1, <2>3, <3>1 DEF Remember
    <2>5. Listed(s) <=> "listed" \in F
      BY <2>3, FactsAreAsked
    <2> QED
      BY <1>0, <2>3, <2>4, <2>5 DEF History, Gathered, Known, Reads
  <1>7. CASE LoadPairs(v) /\ OpenPairsOf(w.tile) = {} /\ x.step = "done"
    <2>1. x = [w EXCEPT !.step = "done"] /\ w.step = "pairs"
      BY <1>7 DEF LoadPairs, LauncherInv
    <2>2. x \in View /\ x.step = "done" /\ x.tile = w.tile /\ x.shown = w.shown
      BY <1>0, <2>1 DEF View
    <2>3. "available" \notin F
      BY <1>7, <2>2, FactsAreAsked
    <2> QED
      BY <1>0, <1>5, <2>1, <2>2, <2>3 DEF Gathered, Known, Reads
  <1>8. ASSUME NEW c \in OpenPairsOf(w.tile), w.step = "pairs",
               view' = [view EXCEPT ![v].step = "globals", ![v].client = c]
        PROVE  x \in View /\ g \in History /\ Gathered(x, g, F) /\ Known(x, g)
    <2>1. x = [w EXCEPT !.step = "globals", !.client = c]
      BY <1>8 DEF LauncherInv
    <2>2. /\ x \in View /\ x.step = "globals" /\ x.tile = w.tile /\ x.shown = w.shown
          /\ x.client = c /\ c \in ClientsOf(x.tile)
      BY <1>0, <1>8, <2>1 DEF View, OpenPairsOf, ClientsOf
    <2>3. "available" \in F
      BY <1>8, <2>2, FactsAreAsked
    <2> QED
      BY <1>0, <1>5, <1>8, <2>2, <2>3 DEF Gathered, Known, Reads
  <1>9. CASE ReadGlobals(v)
    <2>1. x = [w EXCEPT !.step = "explicit", !.globals = globals] /\ w.step = "globals"
      BY <1>9 DEF ReadGlobals, LauncherInv
    <2>2. /\ x \in View /\ x.step = "explicit" /\ x.tile = w.tile /\ x.shown = w.shown
          /\ x.client = w.client /\ x.globals = globals
      BY <1>0, <2>1 DEF View, LauncherInv
    <2>3. /\ IsMember(globals) <=> "member" \in F
          /\ "entitled" \in F => IsMember(globals)
      BY FactsAreAsked, AccessOfMembers DEF EntitledTo
    <2> QED
      BY <1>0, <1>5, <2>1, <2>2, <2>3 DEF Gathered, Known, Reads
  <1>10. ASSUME w.step \in Reads \ {"pairs"}, x.tile = w.tile
         PROVE  /\ w.client \in Clients /\ w.client \in ClientsOf(w.tile)
                /\ EntitledTo(w.client) <=> "entitled" \in F
    <2>1. w.tile \in Slugs /\ w.client \in ClientsOf(w.tile)
      BY <1>0, <1>10 DEF Gathered, Known, Reads
    <2>2. ClientsOf(w.tile) = {w.client}
      BY <2>1, ClientIsUnique
    <2> QED
      BY <1>10, <2>1, <2>2, FactsAreAsked DEF ClientsOf
  <1>11. CASE ReadExplicit(v)
    <2>1. x = [w EXCEPT !.step = "mapped", !.explicit = explicit[w.client]] /\ w.step = "explicit"
      BY <1>11 DEF ReadExplicit, LauncherInv
    <2>2. x.tile = w.tile
      BY <1>0, <2>1 DEF View
    <2>3. w.client \in Clients /\ (EntitledTo(w.client) <=> "entitled" \in F)
          /\ w.client \in ClientsOf(w.tile)
      BY <1>10, <2>1, <2>2 DEF Reads
    <2>4. /\ x \in View /\ x.step = "mapped" /\ x.shown = w.shown
          /\ x.client = w.client /\ x.globals = w.globals /\ x.explicit = explicit[w.client]
      BY <1>0, <2>1, <2>3 DEF View, LauncherInv
    <2>5. "globals" \notin h.moved => (Prospect(x) <=> EntitledTo(w.client))
      BY <1>0, <2>1, <2>4 DEF Prospect, EntitledTo, Known
    <2> QED
      BY <1>0, <1>5, <2>1, <2>2, <2>3, <2>4, <2>5 DEF Gathered, Known, Reads
  <1>12. CASE ReadMapped(v)
    <2> DEFINE shown == w.shown \/ Prospect(w)
    <2>1. x = [w EXCEPT !.step = "done", !.shown = shown] /\ w.step = "mapped"
      BY <1>12 DEF ReadMapped, LauncherInv, Prospect
    <2>2. shown \in BOOLEAN
      BY <1>0 DEF View, Prospect, IsProvisioned
    <2> HIDE DEF shown
    <2>3. x \in View /\ x.step = "done" /\ x.tile = w.tile /\ (x.shown <=> shown)
      BY <1>0, <2>1, <2>2 DEF View
    <2>4. w.client \in Clients /\ (EntitledTo(w.client) <=> "entitled" \in F)
      BY <1>10, <2>1, <2>3 DEF Reads
    <2>5. /\ Prospect(w) => IsMember(w.globals) /\ "member" \in h.ever
          /\ "available" \in h.ever
          /\ "entitled" \in h.always => IsMember(w.globals) /\ EntitledTo(w.client)
      <3>1. Prospect(w) => IsMember(w.globals)
        BY AccessOfMembers DEF Prospect
      <3> QED
        BY <1>0, <1>5, <2>1, <2>3, <2>4, <3>1 DEF Gathered, Reads
    <2>6. ASSUME h.moved \subseteq {"explicit"}
          PROVE  IF Prospect(w) THEN "entitled" \in h.ever ELSE "entitled" \notin h.always
      BY <1>0, <2>1, <2>6 DEF Known
    <2>7. ASSUME Settled(h), ~(h.moved \subseteq {"explicit"})
          PROVE  /\ w.explicit = explicit[w.client]
                 /\ "globals" \notin h.moved => w.globals = globals
      <3>1. "explicit" \notin h.moved
        BY <2>7 DEF Settled
      <3> QED
        BY <1>0, <2>1, <3>1 DEF Known
    <2>8. Prospect(w) /\ Settled(h) /\ "globals" \notin h.moved => "entitled" \in h.ever
      <3>1. CASE h.moved \subseteq {"explicit"}
        BY <2>6, <3>1
      <3>2. CASE ~(h.moved \subseteq {"explicit"})
        <4>1. Prospect(w) /\ Settled(h) /\ "globals" \notin h.moved => EntitledTo(w.client)
          BY <2>7, <3>2 DEF Prospect, EntitledTo
        <4> QED
          BY <1>5, <2>1, <2>3, <2>4, <4>1 DEF Reads
      <3> QED
        BY <3>1, <3>2
    <2>9. ~Prospect(w) /\ Settled(h) => "entitled" \notin h.always
      <3>1. CASE h.moved \subseteq {"explicit"}
        BY <2>6, <3>1
      <3>2. CASE ~(h.moved \subseteq {"explicit"})
        <4>1. SUFFICES ASSUME Settled(h), "entitled" \in h.always
                       PROVE  Prospect(w)
          OBVIOUS
        <4>2. IsMember(w.globals) /\ EntitledTo(w.client) /\ w.explicit = explicit[w.client]
          BY <2>5, <2>7, <3>2, <4>1
        <4>3. IsMember(globals)
          BY <4>2, AccessOfMembers DEF EntitledTo
        <4> QED
          BY <4>2, <4>3, AccessOfMembers DEF EntitledTo, Prospect
      <3> QED
        BY <3>1, <3>2
    <2>10. /\ g \in History /\ g.ever = h.ever /\ g.always = h.always /\ g.moved = h.moved
      BY <1>5, <2>1, <2>3 DEF Reads
    <2>11. Settled(g) <=> Settled(h)
      BY <2>10 DEF Settled
    <2>12. IF w.shown THEN "listed" \in h.ever ELSE "listed" \notin h.always
      BY <1>0, <2>1 DEF Gathered, Reads
    <2>13. w.tile \in Slugs
      BY <1>0, <2>1 DEF Gathered
    <2>14. Gathered(x, g, F)
      BY <2>3, <2>5, <2>8, <2>9, <2>10, <2>11, <2>12, <2>13 DEF Gathered, Reads, shown
    <2>15. Known(x, g)
      BY <2>3 DEF Known, Reads
    <2> QED
      BY <2>3, <2>10, <2>14, <2>15
  <1>13. CASE LoadPairs(v)
    <2>1. CASE OpenPairsOf(w.tile) = {} /\ view' = [view EXCEPT ![v].step = "done"]
      <3>1. x.step = "done"
        BY <2>1 DEF LauncherInv, View
      <3> QED
        BY <1>7, <1>13, <2>1, <3>1
    <2> QED
      BY <1>8, <1>13, <2>1 DEF LoadPairs
  <1> QED
    BY <1>6, <1>9, <1>11, <1>12, <1>13

\* Every step of the launcher, and of what changes beside it, keeps what a view knows
\* (LauncherNext).
LEMMA LauncherInvStep == LifecycleInv /\ LauncherInv /\ [LauncherNext]_launcherVars => LauncherInv'
  <1> SUFFICES ASSUME LifecycleInv, LauncherInv, [LauncherNext]_launcherVars
               PROVE  LauncherInv'
    OBVIOUS
  <1>1. CASE UNCHANGED launcherVars
    <2>1. UNCHANGED <<tile, client, granted, globals, explicit, mappings, view, held>>
      BY <1>1 DEF launcherVars, vars, accessVars
    <2>2. ASSUME NEW v \in Views
          PROVE  (Gathered(view[v], held[v], FactsOf(view[v].tile)) /\ Known(view[v], held[v]))'
      <3>1. FactsOf(view[v].tile)' = FactsOf(view[v].tile)
        BY <2>1 DEF FactsOf, Listed, IsCatalogTile, ClientsOf, AvailableForSso, Exists, EntitledTo,
                    AccessFrom, MappedTo
      <3>2. Known(view[v], held[v])' <=> Known(view[v], held[v])
        BY <2>1 DEF Known, Prospect, ClientsOf, Exists, MappedTo, AccessFrom
      <3>3. Gathered(view[v], held[v], FactsOf(view[v].tile))' <=>
                Gathered(view[v], held[v], FactsOf(view[v].tile))
        BY <2>1, <3>1
      <3> QED
        BY <3>2, <3>3 DEF LauncherInv
    <2> QED
      BY <2>1, <2>2 DEF LauncherInv
  <1>2. CASE LauncherNext
    <2>1. /\ granted' \in SUBSET Slugs /\ globals' \in SUBSET GlobalRoles
          /\ explicit' \in [Clients -> SUBSET Roles]
          /\ mappings' \in [Clients -> [GlobalRoles -> Roles \cup {None}]]
      <3>1. CASE UNCHANGED accessVars
        BY <3>1 DEF accessVars, LauncherInv
      <3>2. CASE Regrant
        <4>1. ASSUME NEW c \in Clients, NEW r \in Roles, Retire(c, r)
              PROVE  mappings' \in [Clients -> [GlobalRoles -> Roles \cup {None}]]
                     /\ explicit' \in [Clients -> SUBSET Roles]
          BY <4>1 DEF Retire, LauncherInv
        <4>2. ASSUME NEW c \in Clients, NEW g \in GlobalRoles, NEW r \in Roles \cup {None},
                     Remap(c, g, r)
              PROVE  mappings' \in [Clients -> [GlobalRoles -> Roles \cup {None}]]
          <5>1. mappings' = [mappings EXCEPT ![c] = [mappings[c] EXCEPT ![g] = r]]
            BY <4>2 DEF Remap
          <5> QED
            BY <5>1 DEF LauncherInv
        <4>3. (\E s \in Slugs : Grant(s) \/ Revoke(s)) \/ Reconcile
                  \/ (\E c \in Clients, R \in SUBSET Roles : Assign(c, R))
              => \/ UNCHANGED <<mappings, explicit>>
                 \/ /\ UNCHANGED mappings
                    /\ \E c \in Clients, R \in SUBSET Roles : explicit' = [explicit EXCEPT ![c] = R]
          BY DEF Grant, Revoke, Reconcile, Assign
        <4>4. granted' \in SUBSET Slugs /\ globals' \in SUBSET GlobalRoles
          BY <3>2, LauncherAssumption DEF Regrant, Grant, Revoke, Reconcile, Assign, Remap, Retire,
                                         LauncherInv
        <4>5. CASE \E c \in Clients, g \in GlobalRoles, r \in Roles \cup {None} : Remap(c, g, r)
          BY <4>2, <4>4, <4>5 DEF Remap, LauncherInv
        <4>6. CASE \E c \in Clients, r \in Roles : Retire(c, r)
          BY <4>1, <4>4, <4>6
        <4>7. CASE (\E s \in Slugs : Grant(s) \/ Revoke(s)) \/ Reconcile
                       \/ (\E c \in Clients, R \in SUBSET Roles : Assign(c, R))
          BY <4>3, <4>4, <4>7 DEF LauncherInv
        <4> QED
          BY <3>2, <4>5, <4>6, <4>7 DEF Regrant
      <3> QED
        BY <1>2, <3>1, <3>2 DEF LauncherNext
    <2>2. Remember /\ [Next]_vars
      BY <1>2 DEF LauncherNext
    <2>3. ASSUME NEW v \in Views
          PROVE  /\ view'[v] \in View /\ held'[v] \in History
                 /\ (Gathered(view[v], held[v], FactsOf(view[v].tile)) /\ Known(view[v], held[v]))'
      <3>1. CASE view'[v] = view[v]
        BY <2>2, <3>1, StayStep
      <3>2. CASE view'[v] = NoView
        <4>1. held'[v] = NoHistory
          BY <2>2, <3>2 DEF Remember, NoView
        <4> QED
          BY <3>2, <4>1 DEF NoView, View, NoHistory, History, Gathered, Known, Reads
      <3>3. ASSUME NEW u \in Views, LauncherStep(u), UNCHANGED <<vars, accessVars>>
            PROVE  \/ view'[v] = view[v]
                   \/ view'[v] = NoView
                   \/ /\ UNCHANGED <<vars, accessVars>>
                      /\ \/ \E s \in Slugs : OpenLauncher(v, s)
                         \/ LoadPairs(v) \/ ReadGlobals(v) \/ ReadExplicit(v) \/ ReadMapped(v)
        BY <3>3 DEF LauncherStep, OpenLauncher, LoadPairs, ReadGlobals, ReadExplicit, ReadMapped,
                    AbandonLauncher, LauncherInv
      <3>4. CASE UNCHANGED view
        BY <3>1, <3>4
      <3> QED
        BY <1>2, <2>2, <3>1, <3>2, <3>3, <3>4, OwnStep DEF LauncherNext
    <2>4. /\ view' \in [Views -> View]
          /\ held' \in [Views -> History]
      <3>1. view' = [v \in Views |-> view'[v]]
        BY <1>2 DEF LauncherNext, LauncherStep, OpenLauncher, LoadPairs, ReadGlobals, ReadExplicit,
                    ReadMapped, AbandonLauncher, LauncherInv
      <3>2. held' = [v \in Views |-> held'[v]]
        BY <2>2 DEF Remember
      <3> QED
        BY <2>3, <3>1, <3>2
    <2> QED
      BY <2>1, <2>3, <2>4 DEF LauncherInv
  <1> QED
    BY <1>1, <1>2

\* The invariant of the launcher (LauncherInit, LauncherNext).
LEMMA LauncherInvariant == LauncherSpec => []LauncherInv
  <1>1. LauncherInit => LauncherInv
    <2> SUFFICES ASSUME LauncherInit
                 PROVE  LauncherInv
      OBVIOUS
    <2>1. NoView \in View /\ NoHistory \in History
      BY DEF NoView, View, NoHistory, History
    <2>2. \A v \in Views : view[v].step = "idle"
      BY DEF LauncherInit, NoView
    <2>3. \A v \in Views :
              Gathered(view[v], held[v], FactsOf(view[v].tile)) /\ Known(view[v], held[v])
      BY <2>2 DEF Gathered, Known, Reads
    <2> QED
      BY <2>1, <2>3, LauncherAssumption DEF LauncherInit, LauncherInv
  <1> QED
    BY <1>1, LauncherInvStep, LauncherKeepsLifecycle, LifecycleInvariant, PTL DEF LauncherSpec

\* Records, requests and views keep their shape (LauncherTypeOK).
THEOREM LauncherTypeCorrect == LauncherSpec => []LauncherTypeOK
  <1>1. LifecycleInv /\ LauncherInv => LauncherTypeOK
    BY DEF LifecycleInv, LauncherInv, LauncherTypeOK
  <1> QED
    BY <1>1, LauncherInvariant, LauncherKeepsLifecycle, LifecycleInvariant, PTL

\* What the launcher shows /auth/authorize admits, and the other way round
\* (LauncherAgreesWithAuthorize).
THEOREM LauncherAgrees == LauncherSpec => []LauncherAgreesWithAuthorize
  <1>1. LauncherInv => LauncherAgreesWithAuthorize
    BY DEF LauncherInv, LauncherAgreesWithAuthorize, Gathered
  <1> QED
    BY <1>1, LauncherInvariant, PTL
=============================================================================
