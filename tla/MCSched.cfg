CONSTANTS
    MAX_TASKS = 4
    MaxPid = 5
SPECIFICATION Spec
INVARIANTS TypeOK OneRunning TwoSlots
PROPERTIES YieldTurnsToWaiting 
