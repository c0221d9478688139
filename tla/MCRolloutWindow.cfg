CONSTANTS
    InitialWindows <- WithWindow
    MaxVersion = 2
    MaxEdits = 1
    MaxUpdates = 0
    MaxFaults = 0
SPECIFICATION Spec
PROPERTY ImageGatedByWindow
