SPECIFICATION FairSpec
CONSTANTS
    main = main
    stark = stark
    mute = mute
    bad = bad
    mev = mev
    Providers = {main, stark, mute, bad, mev}
    BadURLs = {bad}
    Default = main
    Mev = mev
    DisableMev = FALSE
    Requested <- AllOrNothing
    Chain <- MCChain
    Family <- MCFamily
    Slots = {s1, s2}
    Faults = {"failure", "badAnswer", "emptyBody", "version"}
    MaxChecks = 1
INVARIANT ChainIdsCorrect
INVARIANT OnlyMainnetRedirected
PROPERTY ReportsOwnChainId
PROPERTY ProbesSettle
