SPECIFICATION Spec
CONSTANTS
    Kind = {"vk"}
    WEDGE_AFTER = 2
    MaxPending = 0
    MaxLost = 0
PROPERTY TeardownEnds
CHECK_DEADLOCK FALSE
