CONSTANTS
    c1 = c1
    c2 = c2
    Server = Server
    a1 = a1
    a2 = a2
    a3 = a3
    b1 = b1
    s1 = s1
    Clients = {c1}
    Ops = {a1, a2, a3}
    Needs <- MCNeeds
    AuthorOf <- MCAuthorOf
    Clashing = {}
    Refused = {a1}
    BatchSize = 3
    FaultKinds = {}
    MaxFaults = 0
SPECIFICATION FairSpec
PROPERTIES SoundOpsArrive
