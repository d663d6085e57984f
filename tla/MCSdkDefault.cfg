SPECIFICATION FairSpec
CONSTANTS
    main = main
    stark = stark
    mute = mute
    bad = bad
    mev = mev
    Providers = {main, mev}
    BadURLs = {}
    Default = main
    Mev = mev
    DisableMev = FALSE
    Requested <- Nothing
    Chain <- MCChain
    Family <- MCFamily
    Slots = {s1, s2}
    Faults = {"failure"}
    MaxChecks = 1
PROPERTY ProtectionSettles
