CONSTANTS
    Connections = {c1}
    Ids = {1, 2}
    MaxEntries = 1
    MaxFrames = 3
SPECIFICATION FairPeersSpec
INVARIANTS
    AnswersInOrder
    RunsAgainOnlyWhenForgotten
PROPERTY InvocationsServed
