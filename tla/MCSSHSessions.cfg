SPECIFICATION FairSpec
CONSTANTS
    NumCalls <- MCNumCalls
    Concurrency = 2
    MaxSessions = 3
INVARIANTS
    TypeOK
    AnswerMeansEnded
PROPERTIES
    RefusedOnlyByStrays
    CallsEnd
