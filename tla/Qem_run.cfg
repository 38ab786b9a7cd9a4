\* Of the costs 1 needs the second rung, 2 is infinite and 3 negative.
SPECIFICATION Spec
CONSTANTS
    Meshes <- MCMeshes
    Costs = {1, 2, 3}
    Target = 1
    Infinite = 2
    TopLevel = 1
    MaxRounds = 3
    SlowShare = 3
INVARIANTS RaceFree NoHoleMade LikeTheLoop
\* The decimation returns.
CHECK_DEADLOCK FALSE
