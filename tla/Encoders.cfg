SPECIFICATION Spec
CONSTANTS
  Kind <- MCKind
  WEDGE_AFTER = 2
  MaxPending = 1
  MaxLost = 2
CHECK_DEADLOCK FALSE
INVARIANTS
    ObjectsOutliveTheirUse
    
    NothingLeft
PROPERTIES
    CallsReturn
