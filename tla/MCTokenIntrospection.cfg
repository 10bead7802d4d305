SPECIFICATION IntrospectionSpec
CONSTANTS
    u1 = u1
    a1 = a1
    r1 = r1
    guest = guest
    coder = coder
    Users = {u1}
    Apps = {a1}
    Roles = {r1, r2}
    GlobalRoles = {guest, coder}
    Guest = guest
    Codes = {c1}
    Sessions = {j1}
    Workers = {w1}
    Revokers = {m1}
    Probes = {p1}
    None = None
    RoleCardinality <- SingleCardinality
    MigrationEnabled <- AllMigrate
    Mappings <- NothingOrCoders
    RoleSets <- GuestOrCoder
CONSTRAINT Bounded
INVARIANTS
    IntrospectionTypeOK
    LiveSessionIsCurrent
    TokenCarriesAccess
    NoActiveAnswerWhileBarred
