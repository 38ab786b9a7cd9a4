SPECIFICATION SpecRuns
CONSTANTS
    a = a
    b = b
    c = c
    None = None
    Coords = {a, b, c}
    Points <- MCPoints
    Tokens = {5, 10}
    MaxSteps = 2
INVARIANTS RopeIsCurrent GraphFits GivenBack
PROPERTY CallsReturn
