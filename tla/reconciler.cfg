CONSTANTS
    Parts <- OnePart
    Nodes <- NoNodes
    Wanted <- AnySize
    None = None
    MaxGen = 2
    MaxFaults = 1
SPECIFICATION FairSpec
INVARIANTS TypeOK StatefulSetsSettled ManagerSettled
PROPERTIES StatefulSetsFollow ServicesFollow ManagerFollows
CHECK_DEADLOCK FALSE
