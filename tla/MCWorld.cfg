CONSTANTS
    None = None
    Entities = {1, 2}
    Values = {v1}
    LogMax = 3
    MaxSeq = 6
    MaxQuerySeq = 3
    Bits <- SomeBits
    Queries <- SomeQueries
SPECIFICATION FairQuerySpec
INVARIANTS
    TypeOK
    LogInv
    PollDrains
    QueryExact
PROPERTIES
    ChangesAreLogged
    QueryEnds
