CONSTANTS
    Entities = {1}
    None = None
    LogMax = 2
    IdOf <- FreshIdOf
    StringIdOf <- FreshIdOf
    MaxTableEntries = 22
    MaxNesting = 4
    TypeValues <- SomeValues
    Holdings <- SomeHoldings
    MaxSeq = 3
    Discovered <- SomeDiscovered
    Components <- SomeComponents
    Procedures <- SomeProcedures
    Called <- SomeCalled
    Inputs <- SomeInputs
    Spawns <- SomeSpawns
    MaxRegistrations = 2
SPECIFICATION ProcessSpec
CHECK_DEADLOCK FALSE
PROPERTIES
    HandlersKept
