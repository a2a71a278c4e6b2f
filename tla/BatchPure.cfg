SPECIFICATION Spec
CONSTANTS
    Texts <- MCTexts
    Columns <- MCRepeated
    MaxNow = 1
INVARIANT EqualRowsEqualAnswers
