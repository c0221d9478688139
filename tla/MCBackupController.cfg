CONSTANTS
    Schedules <- Nightly
    RconModes = {TRUE, FALSE}
    MaxCount = 1
    MaxBackups = 2
    MaxEdits = 1
    MaxRequests = 0
    MaxFires = 1
    MaxUpdates = 1
    MaxWrites = 1
    MaxFaults = 1
    MaxCrashes = 1
SPECIFICATION Spec
INVARIANTS TypeOK SerializedUntilEdited AutoSaveRestored
PROPERTIES RetentionKeepsNewest
CHECK_DEADLOCK FALSE
