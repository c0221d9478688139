CONSTANTS
    None = None
    Slots = {1, 2}
    K8sNames = {"good"}
    DNSLabels = {"web"}
    SafeNames = {"cm", "map", "chat"}
    SafePaths = {"a", "b"}
    SafeKeys = {"k"}
    Crons = {"daily"}
    Durations = {"1h"}
    Hosts = {"a.org", "A.ORG", "b.org"}
    PathPrefixes = {"/"}
    Links = {"https"}
    PublicLinks = {"https"}
    Digests = {"sha"}
    BlankServer <- MCBlankServer
    BlankPlugin <- MCBlankPlugin
    Manifests <- MCManifests
    Requests <- MCRequests
    MaxWrites = 1
    MaxFaults = 1
SPECIFICATION Spec
INVARIANTS
    TypeOK
    
    AdmittedIsUsable
PROPERTY OnlyNamedFields
CHECK_DEADLOCK FALSE
