SPECIFICATION Spec
CONSTANTS
    Required <- MCRequired
    OSes <- MCOSes
    MaxRuns = 2
INVARIANT
    RequiredToolsInstalled
