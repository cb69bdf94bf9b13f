CONSTANTS
    None = None
    NoCursor = NoCursor
    Entities = {e1, e2}
    Values = {}
    LogMax = 3
    MaxSeq = 4
    PollLimit = 1
    Viewable = {}
    MaxFailures = 2
SPECIFICATION ExplorerSpec
INVARIANTS
    CopyRight
    UpToDate
    TreeRight
PROPERTY CopyNeverRegresses
SYMMETRY EntitySymmetry
VIEW WorkerView
