SPECIFICATION Spec
CONSTANTS
    NoWord = ""
    NoInline = "no inline value"
    Words <- MCWords
    Lines <- MCLines
INVARIANTS TypeOK LauncherFlagsTolerated StartsAsIntended ParserReadsAll
