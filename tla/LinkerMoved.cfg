SPECIFICATION Spec
CONSTANTS
    Texts <- LibTexts
    Types = {"T"}
    LastName = "__last.nc"
    Overriding = {"over"}
    Risks = {}
    MaxUnits = 4
    MaxDepth = 2
INVARIANT FramesFound
CHECK_DEADLOCK FALSE
