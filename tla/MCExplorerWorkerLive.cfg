CONSTANTS
    None = None
    NoCursor = NoCursor
    Entities = {e1, e2}
    Values = {v1}
    LogMax = 1
    MaxSeq = 2
    PollLimit = 1
    Viewable = {e1, e2}
    MaxFailures = 1
SPECIFICATION FairExplorerSpec
INVARIANT ShownTrue
PROPERTIES
    EventuallyUpToDate
    EventuallyShown
