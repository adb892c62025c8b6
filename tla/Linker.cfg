SPECIFICATION Spec
CONSTANTS
    Texts <- LibTexts
    Types = {"T"}
    LastName = "__last.nc"
    Overriding = {"over"}
    Risks = {}
    MaxUnits = 4
    MaxDepth = 2
INVARIANTS TypeOK Resolved OneDefinition CodeAlive
PROPERTIES LinkAdds
CHECK_DEADLOCK FALSE
