CONSTANTS
    Connections = {c1, c2}
    MaxEntries = 1
    Clients = {p1}
    NoClient = NoClient
    NoConnection = NoConnection
    Timeouts = {"WouldBlock", "TimedOut"}
    MaxCalls = 2
SPECIFICATION FairClientSpec
INVARIANTS
    AtMostOnce
    AnswerIsOwn
PROPERTIES
    CallsEnd
    ImplementsRemoteCalls
