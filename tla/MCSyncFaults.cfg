CONSTANTS
    c1 = c1
    c2 = c2
    Server = Server
    a1 = a1
    a2 = a2
    a3 = a3
    b1 = b1
    s1 = s1
    Clients = {c1, c2}
    Ops = {a1, a2, b1}
    Needs <- MCNeeds
    AuthorOf <- MCAuthorOf
    Clashing = {a1}
    Refused = {}
    BatchSize = 2
    FaultKinds = {"network", "crash", "kill", "exit", "storage", "snapshot"}
    MaxFaults = 1
SPECIFICATION FaultsSpec
INVARIANTS TypeOK SequencesAgreeIfAppendOnly NoLostOpsIfAppendOnly
INVARIANTS CausalLog AuthorOrderKept HeldAreUnacceptable ServerMaterializesLog
PROPERTIES CommittedRowsStay
