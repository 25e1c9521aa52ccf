\* Three threads, two legs, room for one.
SPECIFICATION Spec
CONSTANTS
    d1 = d1
    d2 = d2
    d3 = d3
    k1 = k1
    k2 = k2
    Deliveries = {d1, d2, d3}
    Keys = {k1, k2}
    Incoming = {"queued", "ringing", "completed", "canceled"}
    MaxConflictRetries = 1
    MaxEntries = 1
SYMMETRY Symmetry
PROPERTIES CapacityIsExact AnswersAreCurrent ImplementsRegister
CHECK_DEADLOCK FALSE
