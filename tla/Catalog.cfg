SPECIFICATION Spec
CONSTANTS
    Texts <- MCTexts
    Specs <- MCSpecs
    MaxNow = 2
INVARIANTS TypeOK ViewMatchesDump ToldCallsWork
