SPECIFICATION Spec
CONSTANTS
    admin = admin
    coder = coder
    lead = lead
    guest = guest
    Users = {u1}
    GlobalRoles = {admin, coder, lead, guest}
    Admin = admin
    Guest = guest
    None = None
    Requests = {t1}
    Calls <- EveryCall
INVARIANT EffectiveIsResolved
