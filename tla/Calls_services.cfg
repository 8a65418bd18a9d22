SPECIFICATION PlanOnly
CONSTANTS
    Flags <- MCAllFlags
    Requests <- MCRequests
    Classes <- MCClasses
    MaxPrefix = 3
    MaxLabel = 3
    LastAttempt = 2
    Boxes <- MCBoxes
    MaxArchive = 4
    MaxWrite = 3
    ChunkSize = 2
    Window = 1
    Steps = 2
    Tries = 2
    MaxPid = 2
    LateRuns = FALSE
    Base = 4
    MaxPayload = 3
    Logs <- MCLogs
    Calls <- MCCalls_
INVARIANT
    ServicesVetted
CHECK_DEADLOCK FALSE
