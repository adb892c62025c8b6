SPECIFICATION Spec
CONSTANTS
    None = None
    f = f
    i = i
    b = b
    w = w
    g = g
    l = l
    c1 = c1
    c2 = c2
    Scopes <- SmallScopes
    Kind <- SmallKind
    Parent <- SmallParent
    Encl <- SmallEncl
    BreakDepth <- Breaks
    ContinueDepth <- Continues
    Captured = {f, i, w, g, l}
    Contexts = {c1, c2}
    Body <- TwoBodies
    Ids = {h1, h2}
    MaxDepth = 3
    Unordered = {"inner"}
SYMMETRY Symmetry
PROPERTIES SharedWhileLive
