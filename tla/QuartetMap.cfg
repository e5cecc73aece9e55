CONSTANTS
    System = "quartet"
    CounterWords = 1
    RegisterWords = 1
    InstructionWords = 1
    Size = 8
    Programs <- MCPrograms
    Inputs <- MCInputs
    NumOutputs = 2
    Depth = 2
    Reach = 8
    CountersAnswer = TRUE
SPECIFICATION Spec
INVARIANTS
    LandedBeforeExecution
