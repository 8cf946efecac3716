SPECIFICATION FairSpec
CONSTANTS
    Retries = 1
    Program = {p1}
PROPERTY ReturnedServiceEnds
