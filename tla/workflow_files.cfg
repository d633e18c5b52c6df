\* Every workflow file with at most three steps and two dependencies each.
CONSTANTS
    NoList = NoList
    MaxSteps = 3
    MaxDeps = 2
SPECIFICATION FairSpec
INVARIANT TypeOK
INVARIANT ValidateExact
INVARIANT NormalizeOnce
PROPERTY RunsToTheEnd
CHECK_DEADLOCK FALSE
