CONSTANTS
    Procs = {p1, p2}
    Nobody = Nobody
    MaxStarts = 2
SPECIFICATION Spec
PROPERTIES ServeExits
CHECK_DEADLOCK FALSE
