SPECIFICATION FairSpec
CONSTANTS
    Deadline <- MCDeadline
INVARIANTS
    TypeOK
    ChannelIsCurrent
PROPERTIES
    NoLeakOnceCreated
    SuccessIsOwn
    ImplementsTarget
    ReturnsUnlessKeptWaiting
