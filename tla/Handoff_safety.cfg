SPECIFICATION FairSpec
CONSTANTS
    Callers = {c1, c2}
    MaxSha = 2
    MaxFaults = 1
    MaxChanges = 1
INVARIANTS
    TypeOK
    RaisedIsProven
    NothingTwice
PROPERTY CrashesAreRecovered
CHECK_DEADLOCK FALSE
