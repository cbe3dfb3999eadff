CONSTANTS
    Pods = {0, 1, 2}
    NoPod = NoPod
    Counts = {1}
    FailedCap = 2
    MaxFaults <- FailoverFaults
SPECIFICATION FairSpec
INVARIANT DeposedTracked
PROPERTY FailoverHappens
CHECK_DEADLOCK FALSE
