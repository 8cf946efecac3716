SPECIFICATION Spec
CONSTANTS
    NPipes = 2
    c1 = c1
    c2 = c2
    c3 = c3
    a = a
    b = b
    topic = topic
    Client = {c1, c2}
    NoClient = NoClient
    Id = {a}
    NoId = NoId
    Absent = Absent
    Type = {topic}
    Sends <- PubSub
    ConnectVerdicts = {TRUE}
    AuthVerdicts = {TRUE}
    InCap = 1
    OutCap = 1
INVARIANT NoSelfDeadlock
