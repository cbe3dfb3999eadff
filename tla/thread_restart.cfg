CONSTANTS
    Pods = {0, 1}
    NoPod = NoPod
    Counts = {2}
    FailedCap = 3
    MaxFaults <- RestartFaults
SPECIFICATION Spec
INVARIANT PromotionKept

CHECK_DEADLOCK FALSE
