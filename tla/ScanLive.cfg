SPECIFICATION FairSpec
CONSTANTS
    Texts <- MCTexts
    Scans = {s1, s2}
    Calls <- MCAllCalls
    Chains <- MCChains
    Transport = "unix"
    RowsPerTick = 4
    MaxNow = 1
    MaxResends = 0
PROPERTIES KeepsPromise EveryScanEnds
