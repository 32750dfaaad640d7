SPECIFICATION Spec
CONSTANTS
    Configs <- MCProbeConfigs
    Streams <- MCStreams
    MaxAttempts = 2
    HelloCap = 1
    MaxNetFaults = 1
    Paths <- MCProbePaths
INVARIANTS
    ControlIsProtected
CHECK_DEADLOCK FALSE
