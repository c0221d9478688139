CONSTANTS
    s1 = s1
    s2 = s2
    None = None
    Servers <- OneServer
    MaxVersion = 1
    MaxCreations = 1
    MaxRelabels = 1
    MaxServerLosses = 1
    MaxUpdates = 1
    MaxFaults = 1
SPECIFICATION FairSpec
PROPERTIES DeletionCompletes EntryDropped
CHECK_DEADLOCK FALSE
