CONSTANTS
    DEPTH = 2
    HwDepth = 1
    MaxFrames = 2
    MaxCopies = 3
    SingleFrames = {0, 1}
SPECIFICATION FairSpec
PROPERTIES HandlerReturns
CHECK_DEADLOCK FALSE
