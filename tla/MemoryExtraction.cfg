SPECIFICATION FairSpec
CONSTANTS
    a = a
    b = b
    g = g
    k1 = k1
    k2 = k2
    w1 = w1
    w2 = w2
    v1 = v1
    v2 = v2
    r1 = r1
    Stream = {"personal", "group"}
    FactKey = {k1, k2}
    EventKey <- AllKeys
    NoFactKey = NoFactKey
    Job = {a, b, g}
    InGroup = {g}
    WithAction = {g}
    ExtractedOf <- MCExtractedOf
    Worker = {w1, w2}
    Reviewer = {v1, v2}
    Deletion = {1}
    Command = {1}
    Run = {r1}
    ReadsOf <- MCReadsOf
    MaxAttempts = 2
    Nobody = Nobody
    NoJob = NoJob
    MaxFaults = 2
ACTION_CONSTRAINT Bound
INVARIANTS
    MemoryInv
    NothingForgotten
PROPERTIES
    NeverBack
    MemorySettles
CHECK_DEADLOCK FALSE
