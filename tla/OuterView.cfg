SPECIFICATION OuterSpec
CONSTANTS
    d1 = d1
    s1 = s1
    c1 = c1
    c2 = c2
    None = None
    Buf = {d1, s1}
    Dmabuf = {d1}
    MaxFlight = 2
    MaxTaken = 1
    Client = {c1, c2}
    MaxCount = 2
    MaxEvents = 2
    MaxInner = 2
    MaxHost = 1
CHECK_DEADLOCK FALSE
INVARIANTS
    HeadlessReadIsStable
    
    GrabsAreOwned
PROPERTIES
    
    
    ClipboardTravels
