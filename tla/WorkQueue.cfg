SPECIFICATION Spec
CONSTANTS
    p1 = p1
    p2 = p2
    c1 = c1
    c2 = c2
    Producers <- MCProducers
    Consumers <- MCConsumers
    MaxPush = 2
    NoThread = NoThread
INVARIANTS
    TypeOK
    MutexOwned
    NeverPopsEmpty
    NoLostWakeup
PROPERTY
    ImplementsFifo
