SPECIFICATION FairSpec
CONSTANTS
    NumChecks = 4
    Concurrency = 2
    Hanging <- MCHanging
INVARIANTS
    TypeOK
    CountersExact
    NothingLeftBehind
    EmptyMeansAllRan
    AtMostOneLateStart
PROPERTIES
    ErrsOnlyGrow
    CancelReturns
    NoStarvation
    ImplementsBatch
