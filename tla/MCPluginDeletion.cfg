CONSTANTS
    s1 = s1
    s2 = s2
    None = None
    Servers <- TwoServers
    MaxVersion = 1
    MaxCreations = 2
    MaxRelabels = 0
    MaxServerLosses = 0
    MaxUpdates = 1
    MaxFaults = 0
SPECIFICATION Spec
SYMMETRY Symmetry
INVARIANTS TypeOK JARUnderFinalizer
PROPERTIES FinalizerAfterProgress ProgressNeverLost RemovalFollowsDeletion
CHECK_DEADLOCK FALSE
