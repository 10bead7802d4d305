SPECIFICATION FairSpec
CONSTANTS
    Calls = {t1, t2}
    Keys = {k1, k2}
    Documents = {"conforming", "rejected"}
    None = None
INVARIANTS
    TypeOK
    RefusedKeysWereMissing
PROPERTIES
    CallsEnd
    RefusalsEnd
