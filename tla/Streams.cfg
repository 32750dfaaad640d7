SPECIFICATION Spec
CONSTANTS
    Conns = {c1, c2}
    NumStreams = 2
    MaxIndex = 1
    Tests <- MCTests
    Kinds = {"own", "stranger"}
    MaxUnits = 1
    NoConn = NoConn
SYMMETRY Perms
INVARIANTS
    OneHandlerPerStream
    DoneMeansOver
    StreamsAccounted
    LiveDescriptorOwn
