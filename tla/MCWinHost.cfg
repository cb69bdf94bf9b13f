CONSTANTS
    Entities = {e1, e2}
    Windows = {w1, w2}
    None = None
    Limits = {1, 2, 4}
    MaxSeq = 3
SPECIFICATION FairWinSpec
INVARIANTS
    MapsInverse
    DesiredIsOpen
    FeedAgrees
    FeedDrains
PROPERTIES
    FeedInOrder
    WindowsRealised
