SPECIFICATION Spec
CONSTANTS
    Agent = {a1}
    Admin = {m1, m2}
    Call = {c1}
    NoAgent = none
    MaxRevision = 4
    IdleConns = 1
INVARIANTS
    RemoteInv
    ReceivedOncePerSend
PROPERTIES
    ChangesWhatWasSeen
    JobEndsWithItsCaller
