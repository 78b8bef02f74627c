SPECIFICATION Spec
CONSTANTS
    named = named
    text = text
    other = other
    noText = noText
    NoText = noText
    absent = absent
    Absent = absent
    Keys <- Rows
    DefaultKeys = {}
    Texts <- Justifications
    Outcomes <- AllOutcomes
    MaxGens = 4
SYMMETRY SameTexts
INVARIANTS
    TypeOK
    ChangesArePossible
    TextIsSafe
PROPERTIES
    NamedRowsRehydrated
CHECK_DEADLOCK FALSE
