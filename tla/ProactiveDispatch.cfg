SPECIFICATION FairSpec
CONSTANTS
    p1 = p1
    p2 = p2
    Process = {p1, p2}
    Papers = 3
    Window = 2
    MaxAttempts = 2
    DayLength = 3
    Preferences <- MCPreferences
    Scores = {1}
    Nobody = Nobody
    MaxFaults = 2
ACTION_CONSTRAINT Bound
INVARIANTS
    ProactiveInv
    BudgetKept
PROPERTIES
    EveryEventEnds
