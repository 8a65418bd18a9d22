CONSTANTS
    Envs = {a, b}
    Foreign = {}
    Mine = Mine
    Other = Other
    NoJob = NoJob
    Labels = {Mine}
    Faults = {"crash", "sigterm"}
SPECIFICATION FairSpec
CHECK_DEADLOCK FALSE
PROPERTY JobsEnd
INVARIANTS RemovedIsGone OrphansSwept
