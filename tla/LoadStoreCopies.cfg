SPECIFICATION SpecLS
CONSTANTS
    None = None
    x = x
    y = y
    z = z
    p = p
    q = q
    r = r
    v0 = v0
    v1 = v1
    Pair = Pair
    Containers = {x, y, z}
    Size <- SmallSize
    Values = {v0, v1}
    Taken = {x}
    Global = {z}
    Pointers = {p, q, r}
    Objects <- SmallObjects
    Known <- SmallKnown
    Operands <- SmallOperands
    Long = {}
    Scalars = {"int"}
    Risks = {"copies"}
    MaxEntries = 2
    MaxWritten = 1
VIEW Kept
SYMMETRY Symmetry
PROPERTIES Implements
