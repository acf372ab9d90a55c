SPECIFICATION Spec
CONSTANTS
    Partitions = {1}
    MaxOffset = 2
    MaxStarts = 2
INVARIANT SessionRecreated
CHECK_DEADLOCK FALSE
