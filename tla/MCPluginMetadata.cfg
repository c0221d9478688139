CONSTANTS
    None = None
    Placeholder = "0.0.0"
    Sources <- MCSources
    Contents <- MCContents
    Servers <- MCServers
    TTL = 0
    MaxEdits = 2
    MaxChanges = 1
    MaxFaults = 1
SPECIFICATION FairSpec
INVARIANTS
    TypeOK
    AvailableIsCurrent
PROPERTIES
    ReleaseDateKept
    MatchedFollows
    MetadataFollows
