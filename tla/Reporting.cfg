SPECIFICATION Spec
CONSTANTS
    tx = tx
    rx = rx
    SendTasks = {tx}
    RecvTasks = {rx}
    Tests <- SafetyTests
    StatsInterval = 1
    DrainGrace = 2
    CancelFlush = 1
    ResultFlush = 2
    FrameLen = 2
    MaxBytes = 1
    MaxCmds = 2
    MaxNow = 3
INVARIANTS NothingSampledIsLost SequenceUnbroken ResultIsFinal
PROPERTIES TerminalOrder RowsInTestTime DrainHonoured
