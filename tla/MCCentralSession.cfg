SPECIFICATION Spec
CONSTANTS
    Users = {u1}
    Browsers = {b1}
    States = {s1}
    Tickets = {k1}
    AppSessions = {j1, j2}
    Requests = {t1, t2}
    Logins = {"local", "microsoft"}
    None = None
CONSTRAINT SessionsApart
SYMMETRY Interchangeable
INVARIANTS
    TypeOK
    HandoffsAreAnsweredOnce
    LogoutsLeaveNoSession
PROPERTIES
    TemporaryPasswordNeverHandsOff
    TicketsAreOneTimeGrants
CHECK_DEADLOCK FALSE
