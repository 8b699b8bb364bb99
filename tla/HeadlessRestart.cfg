CONSTANTS
    Desktop = FALSE
    Resets = {r1, r2}
    MaxLaunches = 2
SPECIFICATION Spec
PROPERTIES ResetRestarts
CHECK_DEADLOCK FALSE
