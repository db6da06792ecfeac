SPECIFICATION FairDeliverySpec
CONSTANTS
    r1 = r1
    r2 = r2
    s1 = s1
    s2 = s2
    here = here
    w1 = w1
    Run = {r1, r2}
    Lane = {here}
    LaneOf <- MCLaneOf
    Worker = {w1}
    Sender = {s1, s2}
    MaxAttempts = 1
    MaxModelAttempts = 1
    MaxDeliveryAttempts = 2
    Route = {"no_tool"}
    NoRun = NoRun
ACTION_CONSTRAINT Bound
INVARIANTS
    DeliveryInv
    NoBlindRepeat
PROPERTIES
    DeliveryRefinesRuns
    OutcomeFinal
    DeliveryEnds
CHECK_DEADLOCK FALSE
