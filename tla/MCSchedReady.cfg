CONSTANTS
    MAX_TASKS = 4
    MaxPid = 5
SPECIFICATION Spec
PROPERTIES ReadyKeepsSlot
