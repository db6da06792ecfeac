SPECIFICATION Spec
CONSTANTS
    npx = npx
    uvx = uvx
    readOnly = readOnly
    readWrite = readWrite
    Caller = {c1, c2}
    Supervisor = supervisor
    Nobody = nobody
    Config = {npx, uvx}
    Catalog = {readOnly, readWrite}
    NoServer = NoServer
    MaxRestarts = 2
    MaxLate = 1
    MaxChanges = 1
    MaxFaults = 1
CONSTRAINT Begin
ACTION_CONSTRAINT Bound
INVARIANTS
    McpInv
    ServesWhatWasChecked
PROPERTIES
    ServerSettles
CHECK_DEADLOCK FALSE
