CONSTANTS
    Pods = {0, 1}
    NoPod = NoPod
    Counts = {1, 2}
    FailedCap = 3
    MaxFaults <- OperatorFaults
SPECIFICATION Spec
INVARIANTS FailoverJustified BelievedIsPrimary SubStatusSound
PROPERTIES AdoptsLinked ImplementsLeadership
CHECK_DEADLOCK FALSE
