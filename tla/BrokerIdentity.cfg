SPECIFICATION Spec
CONSTANTS
    NPipes = 2
    c1 = c1
    c2 = c2
    c3 = c3
    a = a
    b = b
    topic = topic
    Client = {c1, c2, c3}
    NoClient = NoClient
    Id = {a, b}
    NoId = NoId
    Absent = Absent
    Type = {topic}
    Sends <- AnyId
    ConnectVerdicts = {TRUE, FALSE}
    AuthVerdicts = {TRUE, FALSE}
    InCap = 1
    OutCap = 1
SYMMETRY Symmetry
INVARIANTS
    TypeOK
    UniqueId
    OneSessionPerId
    NoLingeringSession
PROPERTIES
    UnicastReachesHolder
    KickReachesFormerHolder
    NotifiedMeansGone
