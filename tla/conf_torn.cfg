SPECIFICATION Spec
CONSTANTS
    Sections <- MCSections
    Fields <- MCFields
    Tables <- MCTables
    Inputs <- MCInputs
    Modulus <- MCModulus
    StrLen = 3
    StrSize = 3
    Behind <- MCBehind
    Foreign <- NoForeign
    MaxEdits = 1
    MaxChanges = 2
    Tears = TRUE
CHECK_DEADLOCK FALSE
INVARIANT ParserStaysInside
