SPECIFICATION Spec
CONSTANTS
    Users = {u1, u2}
    Subjects = {s1, s2}
    Emails = {e1, e2, n1}
    Institutional = {e1, e2}
    LinkAnyMoodle = TRUE
    Requests = {t1, t2}
    None = None
SYMMETRY Interchangeable
INVARIANTS
    TypeOK
    SoloLoginsNeverRaise
PROPERTIES
    InstitutionalEmailIsKept
    LinksFollowTheAddress
