SPECIFICATION Spec
CONSTANT NPipes = 2
INVARIANT ReleasedAfterThread
CHECK_DEADLOCK FALSE
