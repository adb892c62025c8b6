SPECIFICATION Spec
CONSTANTS
    Functions <- TwoFunctions
    Globals = 1
    GlobalRegs = 2
    DataMax = 9
    RegMax = 12
    MaxFrames = 9
    QuietErrors = TRUE
    Patient = FALSE
INVARIANTS TypeOK Balanced
PROPERTIES ErrorsPropagate
