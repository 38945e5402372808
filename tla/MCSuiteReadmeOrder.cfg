SPECIFICATION Spec
CONSTANTS
    gate = gate
    greedyGate = greedyGate
    plain = plain
    dependent = dependent
    exotic = exotic
    mutator = mutator
    wrecker = wrecker
    careless = careless
    docker = docker
    kind = kind
    helm = helm
    Checks <- MCChecks
    Tools <- MCTools
    Concurrency = 2
    Tier0Checks <- MCTier0Checks
    DestructiveChecks <- MCDestructiveChecks
    CleanableChecks <- MCCleanableChecks
    Needs <- MCNeeds
    InstallableTools <- MCInstallableTools
    ReconnectTools <- MCReconnectTools
INVARIANT
    PlainChecksBeforeInstallation
