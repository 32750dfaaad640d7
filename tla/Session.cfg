SPECIFICATION FairSpec
CONSTANTS
    Confs <- MCConfs
    Modes <- MCModes
    Streams = 1
    Duration = 1
    ResponseSlack = 1
    CancelWait = 1
    JoinWait = 1
    CloseGrace = 1
    MaxPause = 1
    MaxIntervals = 2
    ProgressCap = 1
    TuiWait = 2
    RestartWait = 1
    MaxRuns = 2
    MaxPresses = 2
INVARIANTS
    SummaryIsOfThisRun
    FullDuration
    NoStrayTraffic
    FilesSurviveCrash
PROPERTIES
    QuitEnds
CHECK_DEADLOCK FALSE
