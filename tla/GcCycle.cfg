SPECIFICATION FairSpec
CONSTANTS
    Blocks = {b1, b2}
    Shapes <- AllShapes
    MaxRoots = 1
    MaxStale = 1
    MaxPointers = 1
INVARIANTS NoDangling IInv
PROPERTIES FinalizedBeforeFreed Implements CollectionEnds
