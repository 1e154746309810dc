CONSTANTS
    SIZE = 3
    FIFO = 2
    MaxInput = 5
    DESCS = 3
    MaxFrames = 6
    NumNodes = 3
    Total <- MCTotal
    Distance <- MCDistance
    MaxSize = 2
    CAP = 3
    Devices = {0, 6, 8, 12}
    Machines = {"pic", "xapic", "x2apic"}
    BiosMasks <- MCBiosMasks
SPECIFICATION Spec
INVARIANTS TypeOK InputInOrder FramesInOrder RefusedWhenFull InService
PROPERTIES RequestsServed
CHECK_DEADLOCK FALSE
