CONSTANTS
    Pods = {0, 1}
    NoPod = NoPod
    Counts = {1}
    FailedCap = 2
    MaxFaults <- RecoveryFaults
SPECIFICATION RecoverySpec

PROPERTY Convergence
CHECK_DEADLOCK FALSE
