SPECIFICATION FairActionSpec
CONSTANTS
    r1 = r1
    x1 = x1
    x2 = x2
    w1 = w1
    here = here
    Run = {r1}
    Lane = {here}
    LaneOf <- MCLaneOf
    Worker = {w1}
    Executor = {x1, x2}
    MaxAttempts = 1
    MaxModelAttempts = 1
    MaxExecutionAttempts = 3
    Route = {"ticket"}
    NoRun = NoRun
ACTION_CONSTRAINT ControlUnset
INVARIANT ActionInv
PROPERTIES
    ActionsRefineRuns
    ExecutorsFenced
    ActionEndsUnlessUsedUp
CHECK_DEADLOCK FALSE
