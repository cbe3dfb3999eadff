CONSTANTS
    Pods = {0, 1, 2}
    NoPod = NoPod
    Counts = {1}
    FailedCap = 2
    MaxFaults <- CrashFaults
SPECIFICATION Spec
INVARIANTS TypeOK SubStatusSound PromotionKept DeposedTracked StrayTracked
PROPERTIES PromotesReplica ImplementsLeadership
CHECK_DEADLOCK FALSE
