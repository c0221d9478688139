CONSTANTS
    Schedules <- Nightly
    RconModes = {TRUE}
    MaxCount = 1
    MaxBackups = 2
    MaxEdits = 0
    MaxRequests = 1
    MaxFires = 1
    MaxUpdates = 1
    MaxWrites = 0
    MaxFaults = 1
    MaxCrashes = 0
SPECIFICATION FairSpec
PROPERTIES TriggerServed AnnotationRemoved
CHECK_DEADLOCK FALSE
