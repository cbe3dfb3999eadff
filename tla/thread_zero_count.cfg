CONSTANTS
    Pods = {0, 1}
    NoPod = NoPod
    Counts = {0}
    FailedCap = 1
    MaxFaults <- NoFaults
SPECIFICATION Spec
INVARIANT FailoverJustified

CHECK_DEADLOCK FALSE
