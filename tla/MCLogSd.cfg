CONSTANTS
    SD_BLOCK_SIZE = 11
    EntrySize = 3
    MaxBlock = 3
    MaxBoots = 2
SPECIFICATION Spec
INVARIANTS TypeOK SessionInPlace BufferedSinceFlush
CHECK_DEADLOCK FALSE
