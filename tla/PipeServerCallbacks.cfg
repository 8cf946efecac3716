SPECIFICATION FairSpec
CONSTANTS
    NPipes = 2
    c1 = c1
    h1 = h1
    Client = {c1}
    NoClient = NoClient
    Server = Server
    Host = {}
    Sends = {"fits", "long", "empty"}
    OutCap = 1
    MaxCalls = 1
INVARIANTS
    FieldsAgree
    MessagesWhole
PROPERTIES
    CallsReturn
    ClosedPipeReclaimed
    WrittenIsTaken
    ImplementsChannel
