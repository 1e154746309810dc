CONSTANTS
    NFrames = 6
    NKernel = 1
    HeapPages = 4
    MaxCount = 2
    PerTable = 3
    DemandPaging = FALSE
SPECIFICATION Spec
INVARIANTS OwnersDisjoint
