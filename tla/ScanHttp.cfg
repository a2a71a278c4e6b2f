SPECIFICATION FairSpec
CONSTANTS
    Texts <- MCTexts
    Scans = {s1, s2}
    Calls <- MCScanCalls
    Chains <- MCTwoChains
    Transport = "http"
    RowsPerTick = 4
    MaxNow = 1
    MaxResends = 1
INVARIANTS TypeOK ScansCoherent NoTornScan DoneIsComplete TokenMatchesRows
PROPERTIES KeepsPromise EveryScanEnds
