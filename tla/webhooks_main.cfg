SPECIFICATION FairSpec
CONSTANTS
    d1 = d1
    d2 = d2
    w1 = w1
    w2 = w2
    e1 = e1
    p1 = p1
    p2 = p2
    None = None
    Deliveries <- MCDeliveries
    Events = {e1}
    EventOf <- MCEventOf
    Workers <- MCWorkers
    Procs = {p1, p2}
    ProcOf <- MCProcOf
    MaxAttempts = 2
INVARIANTS
    TypeOK
    SuccessIsSettled
    EventNotLost
    OneHandlerUntilFailure
PROPERTIES
    AcceptedIsSettled
    JobsEnd
CHECK_DEADLOCK FALSE
