CONSTANTS
    Stranger = r1
    Familiar = {r2}
    MaxChanges = 1
    Nobody = Nobody
SPECIFICATION Spec
INVARIANTS OwnDatabase
CHECK_DEADLOCK FALSE
