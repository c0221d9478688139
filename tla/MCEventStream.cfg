CONSTANTS
    Slots = {1, 2}
    Cap = 2
    QueueCap = 1
SPECIFICATION FairSpec
INVARIANT TypeOK
PROPERTY StreamEnds
CHECK_DEADLOCK FALSE
