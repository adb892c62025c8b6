SPECIFICATION Spec
CONSTANTS
    Program <- SmallProgram
    Increment = 32
    MaxDepth = 2
    MaxBreaks = 4
    Polite = TRUE
INVARIANTS TypeOK Recoverable FramesValid StepStops
PROPERTIES BreakpointsLast Transparent
