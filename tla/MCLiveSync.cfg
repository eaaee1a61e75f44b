CONSTANTS
    c1 = c1
    c2 = c2
    Server = Server
    a1 = a1
    a2 = a2
    b1 = b1
    s1 = s1
    Clients = {c1}
    Ops = {a1, a2, s1}
    Needs <- NoNeeds
    AuthorOf <- MCAuthorOf
    Clashing = {}
    Refused = {a1}
    BatchSize = 2
    FaultKinds = {"crash"}
    MaxFaults = 1
    BacklogSize = 2
    Capacity = 1
    MaxUnanswered = 1
SPECIFICATION ScenariosSpec
INVARIANTS QuietSessionIsCurrent
PROPERTIES OpsArriveBesideRefusals ImplementsSharedLog
CHECK_DEADLOCK FALSE
