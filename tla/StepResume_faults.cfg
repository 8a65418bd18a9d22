CONSTANTS
    Procs = {p1, p2}
    NoProc = NoProc
    Codes = {0}
    FailCodes = {127}
    MaxChunks = 1
    Faults = {"process", "disk"}
    LivenessEvery = 2
SPECIFICATION Spec
SYMMETRY Symmetry
INVARIANTS ExitIsReal FollowIsComplete NoCorruption
PROPERTY ImplementsDelivery
