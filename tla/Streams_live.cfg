SPECIFICATION FairSpec
CONSTANTS
    Conns = {c1, c2}
    NumStreams = 1
    MaxIndex = 1
    Tests <- MCTests
    Kinds = {"own", "unknown"}
    MaxUnits = 0
    NoConn = NoConn
PROPERTIES
    CleansUp
