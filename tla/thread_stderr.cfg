CONSTANTS
    Pods = {0, 1}
    NoPod = NoPod
    Counts = {2}
    FailedCap = 3
    MaxFaults <- StderrFaults
SPECIFICATION Spec
INVARIANT BelievedIsPrimary

CHECK_DEADLOCK FALSE
