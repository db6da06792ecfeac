SPECIFICATION ToolSpec
CONSTANTS
    r1 = r1
    r2 = r2
    w1 = w1
    w2 = w2
    here = here
    there = there
    Run = {r1, r2}
    Lane = {here, there}
    LaneOf <- MCLaneOf
    RiskOf <- MCRiskOf
    Worker = {w1, w2}
    MaxAttempts = 3
    MaxModelAttempts = 1
    Route = {"tool"}
    NoRun = NoRun
ACTION_CONSTRAINT ToolPhase
SYMMETRY WorkerSymmetry
INVARIANTS
    ToolInv
    EffectApprovedOnce
PROPERTIES
    ToolsRefineRuns
    DecisionsFinal
CHECK_DEADLOCK FALSE
