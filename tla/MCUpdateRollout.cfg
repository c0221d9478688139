CONSTANTS
    InitialWindows <- WithWindow
    MaxVersion = 2
    MaxEdits = 1
    MaxUpdates = 1
    MaxFaults = 1
SPECIFICATION FairSpec
INVARIANTS TypeOK DowngradeGuarded
PROPERTIES VersionKept RolloutConverges
