CONSTANTS
    Inputs <- MCInputs
    NumElements = 2
    Operands = {0, 1, 3, 7, 8, 15}
    WordWidth = 4
SPECIFICATION Spec
CHECK_DEADLOCK FALSE
INVARIANTS
    FieldsReadBack
    LoadedIsFaithful
    SetReachesPattern
    ResultsAgree
