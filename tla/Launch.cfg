SPECIFICATION Spec
CONSTANTS
    Confs <- MCConfs
    None = None
    ProgressCap = 2
    BarInterval = 1
    BarStall = 2
    LogAt = 1
    MaxAge = 3
    Asked <- MCAsked
    NoDefaults <- MCNoDefaults
    Unset = Unset
    MaxStreams = 3
    MaxPort = 6
    DefaultPort = 2
    Ephemeral = {5, 6}
    Sec = 2
    MaxSecs = 4
    DefaultSecs = 2
    ProbeSecs = 3
    MaxNumber = 9
    DurStep = 2
    DurMax = 3
    BitrateSteps <- MCBitrateSteps
    MaxEdits = 3
    Locals <- MCPeers
    Peers <- MCPeers
    Kernels <- MCKernels
    Others <- MCOthers
INVARIANTS
    StartsAsConfigured
    ServersApart
    LossCountedOnce
    BarsTile
    BytesShownOnce
CHECK_DEADLOCK FALSE
