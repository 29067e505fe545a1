SPECIFICATION FairSpec
CONSTANTS
    Commands = {v1}
    Limit = 2
    MaxSha = 2
    MaxFaults = 1
    MaxMoves = 1
INVARIANTS
    TypeOK
    RepairsAreBounded
    RepairsAreShown
PROPERTIES
    ReadyIsEarned
    CandidateSettles
CHECK_DEADLOCK FALSE
