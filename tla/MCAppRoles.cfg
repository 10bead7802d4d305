SPECIFICATION Spec
CONSTANTS
    r1 = r1
    r2 = r2
    Users = {u1}
    Roles = {r1, r2}
    Requests = {t1, t2}
    Policies = {"single", "multiple"}
    Catalogues <- SomeCatalogues
    Groups <- AllUsers
    Operations = {"create", "sync", "delete", "assign", "bulk", "unassign", "adopt"}
SYMMETRY Interchangeable
INVARIANT TypeOK
PROPERTIES
    SoloSyncDeclares
    SoloAssignmentsKeepOneRole
