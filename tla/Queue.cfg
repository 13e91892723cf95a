SPECIFICATION Spec
CONSTANTS
    p1 = p1
    t1 = t1
    c1 = c1
    c2 = c2
    k1 = k1
    Producers = {p1, t1}
    Timed = {t1}
    Consumers = {c1, c2}
    Closers = {k1}
    RequestedCapacity = 2
    MaxCalls <- Calls
INVARIANTS
    TypeOK
    FifoOrder
    NoLostItem
    NoLostRoom
    EndReachesSleepers
PROPERTIES
    ImplementsFifo
    EveryoneLeaves
    AcceptedIsDelivered
CHECK_DEADLOCK FALSE
