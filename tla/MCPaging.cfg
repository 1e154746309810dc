CONSTANTS
    NFrames = 6
    NKernel = 1
    HeapPages = 4
    MaxCount = 2
    PerTable = 3
    DemandPaging = TRUE
SPECIFICATION Spec
INVARIANTS TypeOK NoFrameTwice FramesAccounted RangesExclusive
PROPERTIES FailureUndone
