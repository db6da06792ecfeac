SPECIFICATION FairIngestSpec
CONSTANTS
    r1 = r1
    r2 = r2
    w1 = w1
    p1 = p1
    p2 = p2
    c1 = c1
    c2 = c2
    here = here
    Run = {r1, r2}
    Lane = {here}
    LaneOf <- MCLaneOf
    Worker = {w1}
    MaxAttempts = 1
    MaxModelAttempts = 1
    Route = {"clarify"}
    NoRun = NoRun
    Source <- MCSource
    Publisher = {p1, p2}
    Consumer = {c1, c2}
    Batch = 2
    MaxFaults = 2
    NoOffset = NoOffset
ACTION_CONSTRAINT Bound
INVARIANT IngestInv
PROPERTIES
    IngestRefinesRuns
    EveryMessageHandled
CHECK_DEADLOCK FALSE
