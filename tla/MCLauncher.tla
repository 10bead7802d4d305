----------------------------- MODULE MCLauncher -----------------------------
(* A small instance of Launcher, and with it of AppLifecycle.                *)
EXTENDS Launcher, TLC

CONSTANTS guest, coder

SingleCardinality == [c \in Clients |-> "single"]

NoneMigrate == [c \in Clients |-> FALSE]

GuestOrCoder == {{guest}, {coder}}

Interchangeable ==
    Permutations(Requests) \cup Permutations(Secrets) \cup Permutations(Clients)
        \cup Permutations(Slugs)

Reading == \E v \in Views : view[v].step # "idle"

\* Bound: no secret has been rotated while a launcher is read, and nothing is created
\* beside it.  A rotation shares no column with it, and the tile that it is followed
\* for exists, with its client if it has one.
CreationsAndRotationsApart ==
    Reading =>
        /\ \A c \in Clients : client[c].previous = None
        /\ \A t \in Requests : Running(t) => req[t].op \in Setting

\* Bound: a launcher is read beside one request on tiles and clients at most.  It
\* reads the rows with one statement each, and the pairs that overlapping requests
\* leave are there when it begins.
RequestsOneByOne == Reading => \A t, u \in Requests : Running(t) /\ Running(u) => t = u

NoRoles ==
    /\ globals = {guest}
    /\ \A c \in Clients : explicit[c] = {} /\ \A g \in GlobalRoles : mappings[c][g] = None

\* Bound: catalog tiles are granted or roles given, and a launcher is followed for a
\* tile of that kind: no statement reads both.
GrantsOrRoles ==
    /\ granted = {} \/ NoRoles
    /\ \A v \in Views : view[v].tile # None => granted = {} \/ IsCatalogTile(view[v].tile)

\* Bound: roles change while no request is in flight, or beside a launcher, since
\* nothing else reads them; and a launcher that is over is not followed.
RolesBesideLaunchers ==
    /\ (\E t \in Requests : Running(t)) /\ ~Reading =>
           granted = {} /\ NoRoles
    /\ \A v \in Views : view[v].step # "done"

Bounded ==
    CreationsAndRotationsApart /\ GrantsOrRoles /\ RequestsOneByOne /\ RolesBesideLaunchers
=============================================================================
