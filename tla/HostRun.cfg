CONSTANTS
    System = "element"
    CounterWords = 1
    RegisterWords = 1
    InstructionWords = 2
    Size = 4
    Programs <- MCPrograms
    Inputs <- MCInputs
    NumOutputs = 2
    Depth = 2
    Reach = 4
    CountersAnswer = TRUE
SPECIFICATION Spec
INVARIANTS
    LandedBeforeExecution
    ReadsShowMemory
    ResultsAreRead
PROPERTIES
    DriverFinishes
