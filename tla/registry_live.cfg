CONSTANTS
    Workers = {w1, w2}
    Keys = {k1, k2}
    Mgrs = {m1, m2}
    Versions = {v1}
    None = None
SPECIFICATION FairSpec
PROPERTY CallsReturn
