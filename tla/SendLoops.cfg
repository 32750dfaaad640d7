SPECIFICATION FairSpec
CONSTANTS
    s1 = s1
    s2 = s2
    Streams = {s1, s2}
    Budget = 3
    Chunk = 2
    Header = 2
    Tests <- MCTests
    MaxToggles = 1
INVARIANTS BudgetConserved SpentMeansDelivered UnclaimedHasTaker
PROPERTIES ImplementsTransfer LoopsEnd
