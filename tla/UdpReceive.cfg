SPECIFICATION FairSpec
CONSTANTS
    Window = 4
    WordBits = 2
    MaxSeq = 30
    MaxSent = 6
    Strays = {12}
    IdleTimeout = 1
    MaxToggles = 1
INVARIANTS
    LossExact
PROPERTIES
    ProgressMonotone
    ReceiverEnds
