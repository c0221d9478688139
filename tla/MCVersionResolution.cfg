CONSTANTS
    PaperVersions <- MCPaperVersions
    Catalog <- MCCatalog
    Published <- MCPublished
    PluginNames = {"p", "q"}
    Profiles <- MCProfiles
    Specs <- MCSpecs
    UpdateDelay = 1
    MaxEdits = 1
    MaxFaults = 2
SPECIFICATION FairSpec
INVARIANT TypeOK
PROPERTIES
    ImplementsContract
    AutoTakesTheBest
    PluginAtItsBest
    
    OfferTaken
CHECK_DEADLOCK FALSE
