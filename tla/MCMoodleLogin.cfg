SPECIFICATION MoodleSpec
CONSTANTS
    Subjects = {s1, s2}
    Accounts = {s1}
    Addresses = {a1}
    Requests = {t1, t2}
    Slots = {x1, x2, x3, x4}
    PairLimit = 1
    IpLimit = 2
    Courses = {k1, k2}
    Clans = {g1, g2}
    g1 = g1
    g2 = g2
    Enrolments <- SmallEnrolments
    None = None
CONSTRAINT Apart
SYMMETRY Interchangeable
INVARIANTS
    MoodleTypeOK
    PairOvershootIsBounded
    AddressOvershootIsBounded
    ClanIsWholeUnlessRaced
PROPERTY SoloLoginSynchronizes
