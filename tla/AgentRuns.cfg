SPECIFICATION Spec
CONSTANTS
    r1 = r1
    r2 = r2
    r3 = r3
    w1 = w1
    w2 = w2
    here = here
    there = there
    Run = {r1, r2}
    Lane = {here, there}
    LaneOf <- MCLaneOf
    Worker = {w1, w2}
    MaxAttempts = 2
    MaxModelAttempts = 1
    Route = {"tool"}
    NoRun = NoRun
ACTION_CONSTRAINT ControlUnset
SYMMETRY AlikeSymmetry
INVARIANT RunsInv
PROPERTIES
    StaleWorkerInert
    NothingTakenBack
    ServesInOrder
CHECK_DEADLOCK FALSE
