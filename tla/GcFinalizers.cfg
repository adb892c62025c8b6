SPECIFICATION Spec
CONSTANTS
    None = None
    Blocks = {b1, b2}
    Big = {b1, b2}
    Shapes <- AllShapes
    Chunk = 2
    Nesting = 1
    FinalizersFail = TRUE
    MaxRuns = 3
    MaxRoots = 2
    MaxStale = 0
    MaxPointers = 1
CHECK_DEADLOCK FALSE
INVARIANTS TypeOK  FinalizeOnce 
PROPERTIES FinalizerCalled
SYMMETRY Symmetry
