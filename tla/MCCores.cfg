CONSTANTS
    M7 = "m7"
    M4 = "m4"
    Lengths = {1, 3}
    MaxRecv = 2
    SIZE = 4
    Boards = {"b1", "b2"}
    Strangers = {"x", "y"}
    MyMac = "m"
    SLOTS = 2
    PAGE = 4
    FLASH = 11
    W = 2
SPECIFICATION CoresSpec
INVARIANTS CoresTypeOK StationsDistinct ConnectedOrExcused WritesItsRange
PROPERTIES ImplementsCounts WaiterWakes
CHECK_DEADLOCK FALSE
