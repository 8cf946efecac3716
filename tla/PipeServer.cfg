SPECIFICATION Spec
CONSTANTS
    NPipes = 1
    c1 = c1
    h1 = h1
    Client = {c1}
    NoClient = NoClient
    Server = Server
    Host = {h1}
    Sends = {"fits", "long", "empty"}
    OutCap = 1
    MaxCalls = 2
INVARIANTS
    TypeOK
    OneReconnects
    OneOperation
    NoPipeLost
    NoCallbackUnderMutex

