SPECIFICATION FairSpec
CONSTANTS
    u1 = u1
    a1 = a1
    a2 = a2
    r1 = r1
    guest = guest
    coder = coder
    Users = {u1}
    Apps = {a1, a2}
    Roles = {r1}
    GlobalRoles = {guest, coder}
    Guest = guest
    Codes = {c1}
    Sessions = {j1, j2}
    Workers = {w1, w2}
    Revokers = {}
    None = None
    RoleCardinality <- SingleCardinality
    MigrationEnabled <- NoneMigrate
    Mappings <- NothingOrCoders
    RoleSets <- Promoted
INVARIANTS
    HandoffInv
    SingleUse
    SpentIffRecorded
    SessionMatchesCode
PROPERTIES
    ImplementsOneTimeGrant
    RequestsEnd
