SPECIFICATION FairSpec
CONSTANTS
    tx = tx
    rx = rx
    SendTasks = {tx}
    RecvTasks = {rx}
    Tests <- LiveTests
    StatsInterval = 1
    DrainGrace = 1
    CancelFlush = 1
    ResultFlush = 1
    FrameLen = 1
    MaxBytes = 0
    MaxCmds = 2
    MaxNow = 2
PROPERTIES TestEnds
