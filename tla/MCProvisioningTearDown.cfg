SPECIFICATION Spec
CONSTANTS
    Deadline <- MCDeadline
INVARIANT
    TearDownGuaranteed
