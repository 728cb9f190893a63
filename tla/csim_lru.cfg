SPECIFICATION LruSpec
CONSTANTS
    Width = 4
    s = 1
    b = 1
    E = 2
    MaxAccess = 7
PROPERTY EvictsLeastRecent
CHECK_DEADLOCK FALSE
