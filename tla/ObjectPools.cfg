SPECIFICATION Spec
CONSTANTS
    Pools <- TwoPools
    Slots = {128, 256, 384, 512}
    Room = 80
    Sizes = {4, 20, 40}
    BaseMinimum = 64
    Limit = 96
    Limits = {72}
    Grain = 4
CONSTRAINT MinimumBound
INVARIANTS TypeOK NoOverlap Accounted LookupExact
 
