SPECIFICATION TopologySpec
CONSTANTS
    Surfaces <- MCSurfaces
    Size = 4
INVARIANTS HolesClosed SplitApart
PROPERTY PlainLoopsClose
\* A call returns.
CHECK_DEADLOCK FALSE
