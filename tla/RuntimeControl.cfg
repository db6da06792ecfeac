SPECIFICATION ControlSpec
CONSTANTS
    Admin = {a1, a2}
    NotRead = NotRead
PROPERTY ConflictMeansStale
CHECK_DEADLOCK FALSE
