\* Four calls: a load and three uses of a model, or two loads and two uses.
CONSTANTS
    MaxCalls = 4
    Steps = 2
    Tokens = {1, 2}
    Convs = 2
    MaxStages = 2
SPECIFICATION Spec
CHECK_DEADLOCK FALSE
INVARIANTS
    ComputedFromThisCall
    MandatoryGpu
    NothingLeftOver
    FreedInOrder
    StagesOfOneImage
    CellsPooled
