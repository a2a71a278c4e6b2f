SPECIFICATION Spec
CONSTANTS
    Texts <- MCTexts
    Columns <- MCColumns
    MaxNow = 1
INVARIANTS TypeOK ColumnMatchesRows FirstErrorWins NoPlaceholderEscapes
