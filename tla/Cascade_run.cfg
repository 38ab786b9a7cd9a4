SPECIFICATION Spec
CONSTANTS
    Cells = {1, 2, 3}
    Configs <- MCConfigs
INVARIANTS TensorsTogether WithinBounds 
\* A run stops when the command has returned.
CHECK_DEADLOCK FALSE
