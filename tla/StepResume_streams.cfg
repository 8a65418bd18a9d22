CONSTANTS
    Procs = {p1, p2}
    NoProc = NoProc
    Codes = {0}
    FailCodes = {127}
    MaxChunks = 2
    Faults = {"leftover", "pod"}
    LivenessEvery = 1
SPECIFICATION Spec
SYMMETRY Symmetry
INVARIANTS TypeOK ExactlyOnce StartedOnce CompleteOutput
