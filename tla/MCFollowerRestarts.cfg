CONSTANTS
    None = None
    NoCursor = NoCursor
    Entities = {e1, e2}
    Values = {}
    LogMax = 3
    MaxSeq = 3
    PollLimit = 2
    MaxFailures = 1
    MaxRestarts = 1
SPECIFICATION RestartsSpec
PROPERTY UpToDateAcrossRestarts
