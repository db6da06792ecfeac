SPECIFICATION FairDelegationSpec
CONSTANTS
    p1 = p1
    c1 = c1
    c2 = c2
    w1 = w1
    w2 = w2
    here = here
    Run = {p1, c1, c2}
    Child = {c1, c2}
    Lane = {here}
    LaneOf <- MCLaneOf
    Worker = {w1, w2}
    MaxAttempts = 2
    MaxModelAttempts = 3
    Route = {"tool", "no_tool"}
    NoRun = NoRun
ACTION_CONSTRAINT Bound
INVARIANT DelegationInv
PROPERTIES
    DelegationRefinesRuns
    ConversationMovesOn
CHECK_DEADLOCK FALSE
