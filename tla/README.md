# Órbita, specified

TLA+ models of the Órbita backend (`src/app`), a central identity and single sign-on
service: it authenticates people by local password, Moodle or Microsoft, hands them off
to registered apps with one-time authorization codes, tells the apps which roles a user
has, and revokes what it has handed out; and of the reference client (`src/clients`) with
which an app consumes it. The models are written from the code. TLC checks them on small
instances; every safety property is proved with TLAPS for instances of every size.

`PROJECT.json` lists for each definition the source lines it stands for, the runs, the
hazards of the code with the properties that cover them, the mutants (a plausible bug for
every property, which that property catches), and the theorems. Paths below are relative to
`src/app/modules` unless they say otherwise.

## 1. The system

Everything shared lives in PostgreSQL. A request has one database session
(`database/session.py`), READ COMMITTED, so each *statement* sees its own snapshot, a
transaction ends with the handler's commit or with the request, and nothing read before
is protected unless a row was written. `expire_on_commit=False` keeps loaded rows as they
were read. Handlers are coroutines of several processes: every `await` is a place where
any other request runs. That, far more than any single function, is what is hard here.

| Component | State | Operations | Hard parts | What makes it correct |
|---|---|---|---|---|
| Access policy (`apps/service.py`) | none | `resolve_app_access_policy` | three reads feed it | one role or the migration flag in a single-role app, never both |
| SSO handoff (`auth/router.py`, `auth/service.py`) | `authorization_codes`, `app_sessions` | authorize, resume, token; the revocations that disable, delete, close, unassign, retire | double exchange, rollback, expiry, revocation between read and commit | a code gives one session, to its own user and client; a failed exchange gives it back; a revocation misses only what it could not see |
| Introspection (`auth/router.py`) | none | introspect | five reads, each of another moment | "active" is never said of a token that was barred throughout |
| Global roles (`access/service.py`) | `user_global_role_sources`, `user_global_roles` | default, Moodle, manual, revoke, bulk, bootstrap | delete-then-insert against itself; locks; writes past the sources | one effective role, the one the sources resolve to; the transactions on a user deadlock only over a half-done DELETE |
| App roles (`apps/service.py`, `apps/router.py`, `apps/sync_router.py`) | `roles`, `user_app_roles`, migration sessions | create, sync, delete, assign, bulk assign, unassign, adopt | check-then-insert, two syncs, adoption in two transactions | the catalogue as declared; one role in a single-role app |
| App lifecycle (`apps/application_lifecycle.py`, routers) | `applications`, `apps`, secrets | create, enable and disable from both sides, rotate | half a creation, crossed switches, overlapping rotations | both records or neither; both on or both off; a secret handed out is accepted |
| Central session (`auth/router.py`) | access cookie, `pending_authorize` cookie, `logout_tickets` | authorize, resume, logins, password change, logout, end-session | cookies as old as the request, a temporary password, a disabled user who logs out | one code per handoff; no handoff under a temporary password; no session behind a logout but one whose exchange a disabling overtook |
| Login throttle (`auth/rate_limit.py`) | `moodle_login_failures` | ensure, record, clear | count before record | the overshoot is bounded by the requests in flight |
| Identity linking (`identity/service.py`) | `users`, `external_identities` | resolve, refresh, local creation | look before insert, promotion of addresses | no exception when alone; institutional addresses are kept; an account is linked once, to the user with its address |
| Launcher (`access/service.py`) | `user_applications`, `application_global_roles` | grant and revoke, single and bulk; `authorized_applications` | five statements, each of another moment | the launcher and `/auth/authorize` do not contradict each other |
| Moodle login (`auth/moodle.py`, `auth/router.py`, `access/service.py`) | Moodle role source, `user_federated_attributes` | authenticate, store role, store clan | parallel requests per course, three transactions, columns written by difference | a login that runs alone stores what the whole enrolment says |
| Reference client (`src/clients/fastapi/orbita_sso.py`) | cached discovery document and key set | authorization URL, exchange, role sync, verify | calls share the caches between awaits; a rolling deployment changes the keys | a token is refused for its key only when an instance does not publish it |
| Users, audit, URI registry | their tables | mostly single-row writes and listings | — | see "Not modelled" |
| Microsoft client, JWT, CSRF, headers, settings, migrations | none | — | — | see "Not modelled" |

How they interact: administration writes users, apps, roles and assignments, and revokes
`app_sessions` in the same transaction. The handoff reads all of those and inserts
sessions. Introspection reads sessions and resolves access again; so does the launcher, for
each open client. The central session decides who is present when a code is issued; identity
linking, the throttle and the Moodle login decide who gets a central session; the role
sources feed the access policy. The reference client is at the other end of the exchange,
the discovery document and the key set.

## 2. The modules

| Module | Models | Composes |
|---|---|---|
| `AccessPolicy` | the pure decision on roles | — |
| `OneTimeGrant` | abstract: what a one-time credential promises | — |
| `SsoHandoff` | codes, exchange, app sessions, revocation | `AccessPolicy`; refines `OneTimeGrant` |
| `TokenIntrospection` | introspection beside all of the above | extends `SsoHandoff` |
| `RoleSources` | sources and effective global roles | — |
| `AppRoles` | catalogue and assignments of one app | — |
| `AppLifecycle` | tile, client and secrets | — |
| `Launcher` | grants of tiles, roles of a user and the launcher, beside all of the above | extends `AppLifecycle`, `AccessPolicy` |
| `IdentityLinking` | users and their provider links | — |
| `LoginThrottle` | the limiter around a login | — |
| `MoodleLogin` | what Moodle answers and what a login stores of it, inside the limiter | extends and refines `LoginThrottle` |
| `CentralSession` | browser cookies, logins, password, logout, tickets | refines `OneTimeGrant` |
| `OrbitaClient` | the reference client while instances are deployed | — |
| `…Proofs` | theorems, see section 4 | extend their module |
| `MC…` | constants of the instances that TLC checks | extend their module |

The conventions are the same everywhere. A request, worker or transaction is a record with
a `step` (or a `pc`); an action is one statement or one commit, with the guard the code
has there; `Fail`, `Abort` or `Rollback` is an exception, a lost connection or a crash at
any step, which undoes what was not committed. Row locks are predicates over the
transactions that have written and not committed. Definitions whose comment begins with
"Mutant" are deliberate bugs that no specification uses: they are there to show that the
properties can fail. Variables and fields marked "history" record what
happened, for the properties; no code depends on them (`retired` in `AppLifecycle` also keeps a newly
generated secret distinct from the old ones).

### SsoHandoff

`account`, `available`, `globals`, `explicit`, `mapped` are the tables that administration writes;
`code`, `expired` and `session` those of the handoff; `pc` and `req` the requests;
`tx` the transactions that revoke. `StartAuthorize`/`ResumeAuthorize`, `RecheckClient` and
`IssueCode` are `/auth/authorize` and `/auth/resume`; `StartExchange`, `PresentCode`, `Redeem`,
`LoadUser`, `ReadGlobals`, `ReadExplicit`, `ReadMapped` and `RecordSession` are `/auth/token`,
statement by statement. `Redeem` is the conditional `UPDATE … RETURNING`: it waits while
another exchange is past it (`HoldsCode`), and the code is spent only by `RecordSession`,
whose commit also inserts the session. A revoking transaction sees the sessions that exist at
its UPDATE (`hit`) and takes effect at `Commit`. `late` marks a request, and `raced` a session,
that such a commit has overtaken. `Init` has every account and app switched on or off. `explicit` holds the
assignments of
*active* roles and `mapped` the mappings to them, so that retiring a role removes from both. `Remap` is an
upsert of a mapping, or a sync that brings a mapped role back; `Mappings` bounds what is mapped.
`RoleCardinality` and `MigrationEnabled` are constants. The code's redirect URI is that of its client.

### TokenIntrospection

`probe` is the request of `/auth/introspect`, `bars` a history: the reasons against a token
that have held in every state since the request started.

### RoleSources

`rows` has the committed rows of both tables, one set per user: a row is a role and a kind
(a source, or "effective"). A transaction has `found` (what its DELETE has matched),
`deleted` and `inserted`; `Visible` is what its statements see. `Wanted` are the rows that its
running statement needs to itself and `Held` those it keeps others from: it waits for whoever holds
what it wants (`WaitsFor`), until that one ends. A DELETE takes its rows one at a time, in any order,
and keeps those it has while it waits for the next (`Drop`), as PostgreSQL does; a row that another transaction
has
deleted meanwhile leaves `found` when that one commits. The bulk endpoints and the bootstrap write the rows
of several users in one transaction; here there is a transaction per user, as rows of different
users share no key. So `OnlyHalfDoneDeletesDeadlock` is about the transactions on one user, and says nothing of
two bulk calls that take their users in opposite orders.
`alone` is a history: no other request on the user has run beside it.

### AppRoles, AppLifecycle, IdentityLinking

One app with its `role`s, `assigned` rows and `migrating` users; clients and tiles with the
secrets a client accepts; users' addresses and `link`s of two providers. In each, a request
keeps what it has read, and writes from that. `Begin` and `alone` are as above. In
`AppLifecycle`, `SetAvailability` writes only the columns that differ from what was *loaded*,
as the ORM does. A catalog tile has no client, and is switched alone (`IsClientOf`, with None for
the client). Tenants of a provider are merged into the subject.

### Launcher

`granted` are the tiles that speak for themselves: a grant, direct or by a global role of the user. `globals`,
`explicit` and `mappings` are what `resolve_access` reads; reconciliations, assignments, mappings and
retired roles change them (`Regrant`). `OpenLauncher` and `LoadPairs` are the first two statements of
`authorized_applications`, `ReadGlobals`, `ReadExplicit` and `ReadMapped` the three SELECTs of
`resolve_access`, with `AccessPolicy` for what it makes of them. A view follows one arbitrary tile of
the list. `held` is a history: which facts have held at some
moment of the request (`ever`), which throughout (`always`), and which of the three tables have
changed (`moved`). All actions of `AppLifecycle` go on beside it.

`LauncherAgreesWithAuthorize` takes into account that the three SELECTs may be of three moments. If the
global roles change within the request, or two of the tables do, the launcher can show a tile to
a user who had access to it at no moment: it reads the global role of a coder, the user becomes a
guest, a role is assigned, and it reads that role. `/auth/authorize` reads with the same three statements and
can issue a code in the same way. What then remains, and is checked, is that tile and client were both open
and the user was no guest at some moment.

### LoginThrottle

`failure` holds the rows of `moodle_login_failures`, `request` the logins and password resets
between their two counts, the answer of Moodle and what they record or clear. Leaving the
window (`Age`) happens when a row stops being counted, which is when the counting statements
compute their cutoff.

### MoodleLogin

The actions of `LoginThrottle` with, between the count and the answer, those of
`MoodleClient.authenticate`: `Token`, `ListCourses`, one `ReadCourse` for each course in any
order, `Resolve`; and after the answer the clearing, `SyncRole`, and `DropClan` or `FindClan`
and `StoreClan`, in a transaction each. `Enrol` is a change on Moodle's side at any time.
`StoreClan` writes the columns that differ from what was loaded. `alone` and `steady` are
histories of a login (no other login of the account beside it; its enrolment as it was listed),
`raced` one of an account. What a login asks of Moodle ends in `LeaveLogin` when a course is no
longer there or does not answer: no login goes on with part of the courses.

### CentralSession

A request carries the cookies of the moment it was sent (`cookie`, `sent`) and its response sets
them when it arrives (`Respond`). Starlette's session middleware (1.3) may re-send a session that
the handler did not change; both outcomes are in the model. The temporary password is one flag.
Whether a user may enter an app is any choice here, as it is SsoHandoff's subject. An exchange looks at
the user (`CheckUser`) and commits its session later, or fails (`OpenAppSession`); a disabling revokes
the sessions that are there (`BeginDisabling`) and commits later (`Disable`) or fails. `overtaken` is a history
of
the sessions that were committed in between or after it. An `asked`
handoff merges client, redirect URI and state. The keys that Authlib keeps in the session during
the Microsoft exchange are left out.

### OrbitaClient

The client is one object whose coroutines share `discovery` and `jwks`, so a step reaches from one
`await` to the next: `ask_…` waits for an answer, `got_…` has it, `kept_…` has stored it and closes
its connection, and goes on with what is stored *by then*. `serving` are the keys of the running
instances, each of which publishes its own alone (`auth/jwt.py:118`). A discovery document is
`conforming` or `rejected` (another version or origin); it is stored before it is checked, as in the
code. `strayed` is a history: a document that is to be rejected has come in. `missing` collects, for
a call, the keys that some instance has not published since the oldest call it overlaps.

## 3. The runs

| Run | Instance | Distinct states | Properties |
|---|---|---|---|
| `exchange` | 1 user who begins as a guest, 2 apps, 1 role that is mapped or not, 1 code, 2 sessions, 2 workers, fair | 350 thousand | `HandoffInv`, `SingleUse`, `SpentIffRecorded`, `SessionMatchesCode`, `ImplementsOneTimeGrant`, `RequestsEnd` |
| `introspection` | 1 user, 1 single-role app with migration, 2 roles, a mapping that comes and goes, 1 worker, 1 revoker, 1 probe | 1.8 million | `IntrospectionTypeOK`, `LiveSessionIsCurrent`, `TokenCarriesAccess`, `NoActiveAnswerWhileBarred` |
| `role_sources` | 1 user, 4 global roles, 2 requests of any kind | 3.8 million | `TypeOK`, `OnlyHalfDoneDeletesDeadlock`, `SoloReconciliationHeals`, `UsersKeepARole` |
| `moodle_login` | 2 subjects, one of them an account, 2 courses, 2 groups, 1 address, 2 requests, limits 1 and 2, 4 rows | 609 thousand | `MoodleTypeOK`, `PairOvershootIsBounded`, `AddressOvershootIsBounded`, `ClanIsWholeUnlessRaced`, `SoloLoginSynchronizes` |
| `app_roles` | 1 user, 2 roles, 3 catalogues, 2 requests, every operation | 3.2 million | `TypeOK`, `SoloSyncDeclares`, `SoloAssignmentsKeepOneRole` |
| `launcher` | 1 client, 2 slugs, 3 secrets, 2 global roles, 1 role of the client, 2 requests of every operation, 1 view | 589 thousand | `LauncherTypeOK`, `AggregateIsWhole`, `AgreeUnlessRaced`, `LauncherAgreesWithAuthorize`, `SoloRotationHandsOver` |
| `identity` | 2 users, 2 subjects, 2 institutional addresses and one other, 2 requests | 146 thousand | `TypeOK`, `SoloLoginsNeverRaise`, `InstitutionalEmailIsKept`, `LinksFollowTheAddress` |
| `central` | 1 browser, 1 user, 1 handoff, 1 ticket, 2 app sessions, 2 requests | 946 thousand | `TypeOK`, `HandoffsAreAnsweredOnce`, `LogoutsLeaveNoSession`, `TemporaryPasswordNeverHandsOff`, `TicketsAreOneTimeGrants` |
| `client` | 2 calls, 2 keys, documents of both kinds, fair | 345 thousand | `TypeOK`, `RefusedKeysWereMissing`, `CallsEnd`, `RefusalsEnd` |
| `stale` | 1 worker, 1 revoker | counterexample | `IssuanceEnforcesCurrentState` |
| `bulk` | 1 request at a time | counterexample | `EffectiveIsResolved` |
| `client_discovery` | 1 call at a time, 1 key | counterexample | `UsesOnlyValidatedDiscovery` |

**What they show.** The three counterexamples are disagreements with the repository's own words:

- `stale`: `API_CONTRACT.md:70-71` demands that issuing a token *always* enforce the current
  state of user, app and role. `/auth/token` reads them, and commits the session later, locking
  only the code: a user disabled in between gets a token and a live session, which the disabling
  has not seen. Two theorems bound this. `IssuanceIsCurrentUnlessOvertaken`: an exchange that no
  revocation has overtaken between its reads and its commit does enforce the current state.
  `LiveSessionIsCurrent`: *only* sessions of an exchange that was overtaken survive a revocation.
  `NoActiveAnswerWhileBarred` bounds what such a session is
  worth: introspection does not confirm it while what it missed still holds.
- `bulk`: `access/models.py:25-26` calls `user_global_roles` the *resolved* role. The bulk
  endpoints write it past the sources. `SoloReconciliationHeals` says what limits this: the next
  reconciliation that runs alone, at the latest at the next login, restores the resolved
  role, which also undoes the bulk grant. `OrderlyRolesAreResolved` is the converse: as long
  as nothing but reconciliations writes a user's roles, and one at a time, the comment is true.
- `client_discovery`: `SSO_CLIENT_CONTRACT.md:17-18` has consumers require the contract version
  before they use an endpoint of the discovery document. `OrbitaSsoClient.discovery` stores the document
  first (`src/clients/fastapi/orbita_sso.py:86-94`), and the check is skipped once something is stored:
  the first call is refused and the next one uses the document. This is why `RefusedKeysWereMissing`
  and `RefusalsEnd` except what happens after such a document has come in.

Several properties are about operations that ran *alone* or about what was not `raced`. That
is the code's own limit, not a convenience: without the condition TLC finds within a few steps
that concurrent assignments give two roles in a single-role app, that crossed switches leave a
tile on and its client off (`API_CONTRACT.md:30-31` says that both change atomically), that
overlapping rotations hand out a secret which is never accepted, and that two first logins at
once end in an exception (the docstring at `auth/router.py:738` says that the callback never
raises). Likewise a logout is followed by a live session if the user's exchange was overtaken by a
disabling, and two role operations deadlock if one of them is half done deleting several effective
rows: it has locked one and waits for the next, which the other has deleted, while that one is about to insert
the
first. PostgreSQL then fails one of the two. Those are listed as hazards. The condition of being alone is on the
operation in question only: the
state it starts from is whatever races and crashes have left, so that each property says that
the next undisturbed operation sets things right.

**Bounds, and why they are enough.** Two requests (workers, transactions, calls) at a time, because
every race here is of a read of one with a write of another. `exchange` has two sessions so that a
second one could be recorded for the code, and two clients so that the wrong one can present it; it
has no administrator, as what a revocation does is the subject of `introspection`, whose single
worker races with a revoker and a probe. One user suffices where rows of different users share no
key and no lock; where they do (`identity`: subjects and addresses; `moodle_login`: an address)
there are two. `introspection` has two roles, so that a single-role app can refuse two assignments, and
`central` two app sessions, so that a logout has one to revoke beside one that a disabling missed. `launcher`
has three secrets because what a rotation may wrongly revive is the one
before the previous, and two slugs for one client so that a second creation can fail halfway.
`moodle_login` has two courses so that one can change while the other is read, and one row
more than the failures that `AddressOvershootIsBounded` allows, so a lack of rows hides no overshoot.
`client` has two keys: one that a cache holds and one that has replaced it. Rows and
sessions are not reused: an instance ends when they are all in use, which bounds the history.
`Calls` in `RoleSources` limits the roles
that an operation names (`MCRoleSources`), `Operations` and `Logins` which kinds of request exist;
all kinds are on, but for the
Moodle login in `central`, which takes the path of the local one, and its session that of the
Microsoft one. Symmetry is used for
interchangeable requests, codes, sessions and the like, and not in the runs with liveness.

Four runs have a CONSTRAINT that leaves out products of histories which do not touch each other.

- `Bounded` of `MCLauncher`. While a launcher is read, no secret has been rotated and nothing is created
  (`CreationsAndRotationsApart`: no statement of the launcher reads a secret, and a tile that is
  created during a request is not the one that it is followed for), and there is one request on tiles
  and clients at a time (`RequestsOneByOne`: the launcher reads the two rows with one statement each, and the
  pairs
  that overlapping requests leave are there when it begins). A launcher is followed either for a
  granted catalog tile or while roles are given (`GrantsOrRoles`: no statement reads both), and roles
  change while nothing is in flight or beside a launcher (`RolesBesideLaunchers`).
- `Bounded` of `MCTokenIntrospection`. Once the session is recorded the worker sends no more requests
  (`OneExchange`: its code is spent, and nothing it could still do is read by introspection), and nothing
  follows the answer of an introspection (`OneAnswer`: another one starts from the same states).
- `SessionsApart` of `MCCentralSession`. No exchange is in flight and no app session is live once a
  handoff has been asked for: a handoff neither reads nor writes what revocations do to sessions.
- `Apart` of `MCMoodleLogin`. Rows of failures, and requests of other subjects, exist only before
  anyone is enrolled or synchronized; the limiter neither reads nor writes what a login reads of
  Moodle and stores after it.

The theorems of these modules need no such bound.

Deadlock is checked everywhere except in `central`, where a browser that has used up its one
handoff and ticket may have nothing more to do.

**Fairness.** `FairSpec` of `SsoHandoff` (run `exchange`) has weak fairness for a worker's steps: the event loop
schedules a request that can run, and a request is not assumed to arrive or to succeed. It has
strong fairness for `Redeem`, because a request that waits for a row lock is offered it again and
again while others take it, and PostgreSQL serves the waiters of a row in order. Under it
`RequestsEnd` holds. `FairSpec` of `OrbitaClient` (run `client`) has weak fairness for the steps of a call,
because
httpx gives up after the client's timeout of 10 seconds and the event loop runs what is ready; callers are
not assumed to call. Under it every call ends (`CallsEnd`: the refresh of the key set is not repeated), and once
a
deployment has come to rest refusals of its key end (`RefusalsEnd`). No other run needs fairness.

## 4. The proofs

Each proof module assumes only what the `ASSUME` of its model says of the constants: what sets and
functions they are, and that `None` is in none of them. Sets may be of any size, except that
`LoginThrottle` needs its requests and rows finite and its limits positive in order to count.
Each theorem about a state is of the form `Spec => []P`, proved from an inductive invariant that
is named in the module, with one step of the proof per action.

- **`SsoHandoffProofs`** (`SsoHandoffAssumption`, `GuestAssumption`). `SingleUse` is not inductive: that
  no second exchange records a session for a code rests on `RowLock` (at most one exchange is past
  its UPDATE of a code, and then the code is still `issued` and the request is for the code's own
  user and client), and on `SpentIffRecorded`. `LiveSessionIsCurrent` rests on `ReadsAreCurrent` and
  `ExplicitRolesWin` (what an exchange has read still holds unless it is marked as late) and on
  `RevocationFinds` (an open revocation has found every session it concerns that was there
  when it looked). The layers are `Shape`, `GrantInv` and `CurrencyInv`, each preserved given those
  below it; together they are `HandoffInv`, which the run checks too. `HandoffImplementsGrant` is the
  refinement `Spec => Grant!Spec`: `IssueCode` is `Issue`, `RecordSession` is `Redeem`, every other step a
  stutter.
  `TokensCarryAccess` adds what `resolve_app_access_policy` returns for *any* mixture of reads
  (`CarryInv`). For introspection, `IntrospectionKeepsHandoff` says that it changes nothing which the
  handoff keeps, so its invariants carry over; `BarredTokensAreInactive` rests on `ProbeInv`: what a
  probe has passed so far was at some moment since its start not a bar.
  From the same invariants follow three theorems that no run states, as they would add nothing there:
  `SpentCodesStaySpent`; `RevocationIsFinal` (what is revoked or lapsed does not live again, and a session's
  claims
  do not change); and `RequestsAdvance`, the safety half of `RequestsEnd`: a number of steps, seven at
  most, falls with each statement (`Ahead`), and who waits for a code's row waits for one exchange,
  which waits for nobody, so that waits are never chained.
- **`RoleSourcesProofs`** (`RoleSourcesAssumption`). `SourcesInv`: for each transaction, what it has
  deleted and inserted fits its operation and step (`Shape`); only a bulk
  revocation deletes without an effective row of its own in return (`Kept`); and what a transaction that runs
  alone sees resolves to the role it
  inserts (`Healing`). The order of the sources enters as a lemma on `Precedence`.
  `LocksFree`, which is `OnlyHalfDoneDeletesDeadlock` for any number of transactions, needs a second layer,
  `LocksInv`, as
  deadlock is not excluded by what one transaction knows: a transaction has a grip on the rows that its DELETE
  has matched, until it has inserted in
  their place (`Grip`). Of two that delete and insert by the same condition (`Rivals`), the one that has looked
  later
  has found all that the other grips, so grips are nested and nothing is deleted twice. Hence,
  where no DELETE is half done, whoever waits, waits for a transaction that has come further in deleting and
  inserting (`Rank`,
  `WaitsForFarther`), and of any group the farthest waits for none of the group (`FarthestRuns`). The mutant
  `RescanOtherRoles` shows what this rests on: were reconciling to leave a row that already
  has the resolved role, two of them would wait for each other.
- **`AppRolesProofs`** (`AppRolesAssumption`). `RolesInv`: a request that is marked as alone is the only
  one (`Lone`), so what it has read is still so (`Current`).
- **`LauncherProofs`** (`AppLifecycleAssumption`). `LifecycleInv` says what the rows are (`RowsInv`) and what
  the requests in flight know of them (`Proper`, `Current`, `Lone`); a request that overlaps
  another on its client is not alone, which is what makes `AgreeUnlessRaced` inductive. `LauncherInv` adds that
  what a view has gathered was among the facts of its request (`Gathered`), that what it has read of
  the three tables is still so where they have not moved (`Known`), and that what the last SELECT would make of
  it (`Prospect`) is the access of some moment as long as no other table has moved. `LauncherAgrees` follows for
  any policies, roles and number of views.
- **`IdentityLinkingProofs`** (`IdentityAssumption`). `LinkingInv`: the unique keys hold (`KeysInv`), and the
  look-ups of a login that runs alone are still true at its insert (`Current`), for each of the ways
  in which it gets there. That the user it has found still has the address that the provider reports is
  one of them, and with it `LinksGoToTheAddress`.
- **`MoodleLoginProofs`** (`ThrottleAssumption`, `MoodleAssumption`). The two bounds are their own
  invariant, stated over failures *and* admitted requests together (`PassedOfPair`,
  `PassedOfAddress`): recording a failure moves one from the second set to the first (`Trading`),
  all else shrinks (`Shrinking`), and a request enters only below the limit (`Admission`), when the
  others in flight are at most all but itself. `LoginsImplementThrottle` shows every step of
  `MoodleLogin` to be a step of `LoginThrottle` or a stutter, which carries the bounds over to whole
  logins. `LoginInv` then has what a login knows (`Fits`): while its enrolment is steady, what
  is gathered and what is pending make up the whole enrolment.
- **`CentralSessionProofs`** (`CentralSessionAssumption`). `SessionInv` has a part per theorem: `OnceInv`
  (a handoff is the pending one of its browser, or of a request that carries it, until it is answered),
  `LogoutInv` (what a logout owes is live, until it is revoked, and a live session of a user
  who is disabled was overtaken), `GateInv` and `TicketInv`; `TicketsImplementGrants` is the
  refinement of `OneTimeGrant` (`TicketSimulation` maps the steps), through which what the abstract
  specification promises holds of tickets too: `SpentTicketsStaySpent`.
- **`OrbitaClientProofs`** (`ClientAssumption`). `ClientInv`: only what was checked is used unless a document
  has
  strayed (`Trusted`, which lets the others assume as much of an endpoint), and what is not in a key set that a
  call has received, or that has been stored since it asked,
  was missing from an instance that ran since then (`Missed`). Two theorems are the safety halves of the
  liveness
  properties. `CallsShrink`: what a call has ahead of it (`Left`, 18 steps at most, with one refresh) falls
  with each of its steps, and no other call can raise it. `SettledCachesStay`: once the one remaining key is
  what is
  stored and what every answer at hand contains (`Settled`), this stays so, and no token of the key is refused.

Only model-checked: that requests and calls end and that refusals do (`RequestsEnd`, `CallsEnd`,
`RefusalsEnd`). Their safety halves are the theorems just named; what is left is that fairness makes the
steps happen, which needs ENABLED, and temporal reasoning under a quantifier over requests, neither of
which the prover does. `OnlyHalfDoneDeletesDeadlock` is stated without ENABLED, by who waits for whom, and is
proved. The three counterexamples are behaviours that TLC exhibits.

## 5. Not modelled

- The registries of redirect and post-logout URIs, profile fields, the audit log: single-row writes or
  listings. A code's redirect URI is taken to be one of its client's; a code outlives the
  deletion of its URI by design, for its lifetime of 60 seconds.
- The OpenID Connect exchange (Authlib's), signatures, password hashing, HTTP and JSON, the CSRF
  check and the security headers: no state of their own. Their outcomes are choices of the environment.
- The schemas, filters, orders and texts of the listings; names, icons and URLs of tiles and clients.
- `POST /auth/register`: `src/app/main.py` does not expose it.
- Settings, wiring and migrations. The unique keys that migrations declare are those the models respect.
- Apps without a catalogue tile, which only old migrations can have left.
- A crash between spending a logout ticket and revoking (`auth/router.py:672`) is in the model, after which a
  retry is refused and the sessions live on,
  as is one between the two transactions of an adoption (`auth/router.py:648`), but no property
  speaks of them: the code promises nothing there, and what it does is listed as a hazard. The same goes for
  an exchange whose code is spent when the client then fails to fetch the keys
  (`src/clients/fastapi/orbita_sso.py:49`).

Three wordings met on the way concern no property of the models: `API_CONTRACT.md:59` lists an unavailable
app among the cases in which introspection answers `active: false`, where the handler answers 401 before it
looks at the
token (`auth/router.py:562`); the docstring of
`update_user_status` (`users/router.py`) says that a disabled user can still complete the login
itself, which the login handlers answer with 403; and the client's `verify_token` rejects a token with
empty `roles`, though a migration token carries none and the contract allows it.

## 6. Plan

Done, in this order: `AccessPolicy`, `OneTimeGrant` and `SsoHandoff`, `TokenIntrospection`,
`RoleSources`, `LoginThrottle`, `AppRoles`, `AppLifecycle`, `IdentityLinking`, `CentralSession`,
`Launcher`, `OrbitaClient`, `MoodleLogin`; the proofs for all of them.

Left:

1. The registry of redirect URIs against codes in flight and against `/auth/authorize`.
2. `RoleSources` beneath `MoodleLogin` and `Launcher`: both take its outcome as one step or one fact.
3. Transactions of several users in `RoleSources`, for the order in which bulk calls take their locks.
4. Liveness for instances of every size, as far as the prover allows.
