SPECIFICATION SpecRuns
CONSTANTS
    a = a
    b = b
    c = c
    None = None
    Coords = {a, b, c}
    Points <- MCPoints
    Levels = 3
    Blocks = 2
INVARIANTS MapInStep
PROPERTY CallsReturn
