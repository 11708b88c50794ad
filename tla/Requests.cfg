SPECIFICATION RequestSpec
CONSTANTS
    g1 = g1
    g2 = g2
    k1 = k1
    None = None
    Gen = {g1, g2}
    Kid = {k1}
    Compositor = {k1}
    MaxTries = 2
    Call = {1, 2}
    MaxInstance = 2
    MaxPolls = 1
CHECK_DEADLOCK FALSE
INVARIANTS
    TrackedIsAwaited
    SpawnedIsAccounted
    ExecutedOnce
    ReplyIsOwn
PROPERTIES
    ChildrenSettle
    CallReturns
