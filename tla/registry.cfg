CONSTANTS
    Workers = {w1, w2}
    Keys = {k1, k2}
    Mgrs = {m1, m2}
    Versions = {v1, v2}
    None = None
SPECIFICATION Spec
SYMMETRY Symmetric
INVARIANTS TypeOK NoSendOnClosed OneManagerPerCluster HolderMeetsThread MapFollowsResource
PROPERTIES ImplementsLifecycle
