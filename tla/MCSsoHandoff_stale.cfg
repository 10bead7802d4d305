SPECIFICATION Spec
CONSTANTS
    u1 = u1
    a1 = a1
    a2 = a2
    r1 = r1
    guest = guest
    coder = coder
    Users = {u1}
    Apps = {a1}
    Roles = {r1}
    GlobalRoles = {guest, coder}
    Guest = guest
    Codes = {c1}
    Sessions = {j1}
    Workers = {w1}
    Revokers = {m1}
    None = None
    RoleCardinality <- SingleCardinality
    MigrationEnabled <- NoneMigrate
    Mappings <- CodersMapped
    RoleSets <- GuestOrCoder
SYMMETRY Interchangeable
PROPERTIES
    IssuanceEnforcesCurrentState
