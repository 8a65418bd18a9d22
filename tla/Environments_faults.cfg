CONSTANTS
    Envs = {a, f}
    Foreign = {f}
    Mine = Mine
    Other = Other
    NoJob = NoJob
    Labels = {Mine, Other}
    Faults = {"api", "late", "timeout", "crash", "sigterm"}
SPECIFICATION Spec
CHECK_DEADLOCK FALSE
INVARIANTS TypeOK ForeignJobsStay NoUntendedJob FailedStartLeavesNothing
PROPERTY NoDeleteUnderway
