SPECIFICATION LauncherSpec
CONSTANTS
    guest = guest
    coder = coder
    Clients = {c1}
    Slugs = {s1, s2}
    Secrets = {x1, x2, x3}
    Roles = {r1}
    GlobalRoles = {guest, coder}
    Guest = guest
    Requests = {t1, t2}
    Views = {v1}
    Operations = {"create_sso", "create_catalog", "enable_client", "disable_client",
                  "enable_tile", "disable_tile", "rotate"}
    None = None
    RoleCardinality <- SingleCardinality
    MigrationEnabled <- NoneMigrate
    RoleSets <- GuestOrCoder
CONSTRAINT Bounded
SYMMETRY Interchangeable
INVARIANTS
    LauncherTypeOK
    AggregateIsWhole
    AgreeUnlessRaced
    LauncherAgreesWithAuthorize
PROPERTY SoloRotationHandsOver
