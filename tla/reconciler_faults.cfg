CONSTANTS
    Parts <- BothParts
    Nodes <- DatabaseNode
    Wanted <- OneReplica
    None = None
    MaxGen = 1
    MaxFaults = 1
SPECIFICATION Spec
INVARIANTS ClaimsSelectVolumes StatefulSetsSettled ManagerSettled
CHECK_DEADLOCK FALSE
