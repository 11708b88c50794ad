SPECIFICATION Spec
CONSTANTS
    Client = {"A", "B"}
    Device = {"k1", "p1"}
    Owner <- MCOwner
    Kind <- MCKind
    HostCode = {"key", "btn"}
    SdkEvent <- MCSdkEvent
    CodeKind <- MCCodeKind
    MaxWindow = 2
CHECK_DEADLOCK FALSE
INVARIANTS
    FocusIsFollowed
    PressedIsHeld
