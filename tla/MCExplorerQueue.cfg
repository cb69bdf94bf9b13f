CONSTANT MaxRequests = 5
SPECIFICATION FairQueueSpec
INVARIANT InFlightBacked
PROPERTY RefreshEnds
