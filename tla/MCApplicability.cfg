SPECIFICATION Spec
CONSTANTS
    plain = plain
    bfq = bfq
    cryptsetup = cryptsetup
    newer = newer
    window = window
    onlyCos = onlyCos
    notUbuntu = notUbuntu
    unlessUbuntu = unlessUbuntu
    skipRule = skipRule
    versionRule = versionRule
    Texts <- MCTexts
    OSNames <- MCOSNames
    Lower <- MCLower
    Trim <- MCTrim
    Checks <- MCChecks
    Constraints <- MCConstraints
INVARIANTS
    TypeOK
    NoGap
    OldMinimumsNeverSkip
    RuledOutIsSkipped
