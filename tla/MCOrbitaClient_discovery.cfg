SPECIFICATION Spec
CONSTANTS
    Calls = {t1}
    Keys = {k1}
    Documents = {"conforming", "rejected"}
    None = None
INVARIANT UsesOnlyValidatedDiscovery
