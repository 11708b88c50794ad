CONSTANTS
    s1 = s1
    s2 = s2
    n1 = n1
    None = None
    Sid = {s1, s2}
    Name = {n1}
    NameOf <- NameOfPair
    Quota = {s1}
SPECIFICATION Spec
CHECK_DEADLOCK FALSE
INVARIANTS
    UnregisteredIsKilled
    NoOrphanProcess
    StopLedger
PROPERTIES
    RegistrySettles
    ImplementsLifecycle
