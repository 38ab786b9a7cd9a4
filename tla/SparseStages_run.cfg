SPECIFICATION Spec
CONSTANTS
    Inputs <- MCInputs
    Context <- MCContext
    Flow <- MCFlow
    Decoder <- MCDecoder
    Foreseen <- MCForeseen
    Signs = {0, 1, 2, 3}
    Crossed <- MCCrossed
CHECK_DEADLOCK FALSE
INVARIANTS
    BatchesApart
    OnlyNumbersFail
    LevelsAgree
    QuadsCovered
