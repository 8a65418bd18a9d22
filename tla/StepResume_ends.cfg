CONSTANTS
    Procs = {p1, p2}
    NoProc = NoProc
    Codes = {0}
    FailCodes = {127}
    MaxChunks = 0
    Faults = {"process", "leftover", "pod"}
    LivenessEvery = 1
SPECIFICATION FairSpec
PROPERTY ExecEnds
