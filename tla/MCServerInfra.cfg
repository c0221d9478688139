CONSTANTS
    None = None
    Specs <- MCSpecs
    ConfigMaps = {"cm1", "cm2"}
    Foreign <- MCForeign
    Before <- MCBefore
    MaxEdits = 2
    MaxFaults = 1
SPECIFICATION FairSpec
INVARIANTS
    ScriptCarriesOut
    RestMeansEnsured
    Reachable
PROPERTIES
    OthersKept
    Converges
