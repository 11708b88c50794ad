SPECIFICATION Spec
CONSTANTS
    stdout = stdout
    stderr = stderr
    None = None
    Other = Other
    Response = Response
    Stream = {stdout}
    MaxLines = 2
    MaxOther = 0
    MaxSubs = 1
    MaxWork = 3
    HistoryCap = 1
    RingCap = 1
    OutCap = 1
PROPERTY LaggedIsDropped
CHECK_DEADLOCK FALSE
