SPECIFICATION Spec
CONSTANTS
    u1 = u1
    u2 = u2
    m1 = m1
    m2 = m2
    p1 = p1
    p2 = p2
    User = {u1, u2}
    Group = Group
    Member = {m1, m2}
    NoMember = NoMember
    Poller = {p1, p2}
    MaxUpdates = 2
    MaxChallenges = 2
    MaxFaults = 1
ACTION_CONSTRAINT Bound
INVARIANTS
    ChannelInv
    InOrderUnlessRefused
PROPERTIES
    EveryUpdateHandled
CHECK_DEADLOCK FALSE
