SPECIFICATION FairSpec
CONSTANTS
    Configs <- MCConfigs
    Streams <- MCStreams
    MaxAttempts = 2
    HelloCap = 1
    MaxNetFaults = 1
    Paths <- MCPaths
INVARIANTS
    OnlyWithTheSameKey
    NothingDowngraded
    StreamsHaveSockets
    SetupFailsForAReason
    ProbeReportRight
PROPERTIES
    SetupSettles
CHECK_DEADLOCK FALSE
