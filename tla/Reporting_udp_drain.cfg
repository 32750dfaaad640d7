SPECIFICATION Spec
CONSTANTS
    tx = tx
    rx = rx
    SendTasks = {tx}
    RecvTasks = {rx}
    Tests <- UdpBudgetTests
    StatsInterval = 2
    DrainGrace = 2
    CancelFlush = 1
    ResultFlush = 2
    FrameLen = 2
    MaxBytes = 1
    MaxCmds = 1
    MaxNow = 3
PROPERTIES DrainHonoured
