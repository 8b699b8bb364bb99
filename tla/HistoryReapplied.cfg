SPECIFICATION Spec
INVARIANT NotReapplied
CHECK_DEADLOCK FALSE
