CONSTANTS
    s1 = s1
    s2 = s2
    None = None
    Servers <- OneServer
    MaxVersion = 1
    MaxCreations = 1
    MaxRelabels = 0
    MaxServerLosses = 0
    MaxUpdates = 2
    MaxFaults = 0
SPECIFICATION Spec
PROPERTIES FinalizerGuardsJARs
CHECK_DEADLOCK FALSE
