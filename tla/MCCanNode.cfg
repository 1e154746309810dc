CONSTANTS
    DEPTH = 2
    HwDepth = 1
    MaxFrames = 2
    MaxCopies = 6
    SingleFrames = {0, 1}
SPECIFICATION Spec
INVARIANTS TypeOK CopiesInOrder EveryCopyAccounted
PROPERTIES RefusedOnlyWhenFull
CHECK_DEADLOCK FALSE
