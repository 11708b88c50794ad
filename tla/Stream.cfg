SPECIFICATION Spec
CONSTANTS
    stdout = stdout
    stderr = stderr
    None = None
    Other = Other
    Response = Response
    Stream = {stdout, stderr}
    MaxLines = 2
    MaxOther = 1
    MaxSubs = 2
    MaxWork = 3
    HistoryCap = 1
    RingCap = 2
    OutCap = 1
CHECK_DEADLOCK FALSE
INVARIANTS
    NoLineIsLost
    StreamsStayInOrder

    
