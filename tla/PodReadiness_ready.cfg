CONSTANTS
    Inits = {install}
    Sidecars = {db}
    Main = main
    Extras = {proxy}
    PullFailAfter = 2
    SidecarRestartLimit = 2
    MaxExits = 3
SPECIFICATION FairSpec
INVARIANTS TypeOK BlamesRepeatOffenders HiccupsForgiven
PROPERTY SettledIsReported
