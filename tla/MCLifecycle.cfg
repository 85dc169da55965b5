CONSTANTS
    NPROC = 2
    Creators = {c1, c2}
    Stacks = {1, 2, 3}
    SAMECORE = TRUE
    VICTIMS = {}
    CREATES = 3
SPECIFICATION Spec
CHECK_DEADLOCK FALSE
INVARIANT FreeProcessId
