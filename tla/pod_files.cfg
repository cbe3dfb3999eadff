CONSTANTS
    Wanted <- TwoManagers
    None = None
    Failures = {"waiting"}
    MaxChanges = 1
    MaxFaults = 1
SPECIFICATION FairSpec
INVARIANTS TypeOK SignalAfterFiles
PROPERTIES FilesComplete CmRuns
CHECK_DEADLOCK FALSE
