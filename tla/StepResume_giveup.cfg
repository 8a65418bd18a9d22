CONSTANTS
    Procs = {p1, p2}
    NoProc = NoProc
    Codes = {0}
    FailCodes = {127}
    MaxChunks = 1
    Faults = {}
    LivenessEvery = 1
SPECIFICATION Spec
SYMMETRY Symmetry
INVARIANT GivesUpAfterRetrying
