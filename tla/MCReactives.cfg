SPECIFICATION FairSpec
CONSTANTS
    d1 = d1
    d2 = d2
    a = a
    b = b
    c = c
    Dispatchers <- MCDispatchers
    Reactives <- MCReactives
    Home <- MCHome
    QueueSize = 2
    IdSpace = 4
    MaxRequests <- MCRequests
    MaxSends = 2
INVARIANTS
    TypeOK
    AcceptsOwnOnly
    AwaitedExists
PROPERTIES
    KeepsPromise
    QueuesDrain
CHECK_DEADLOCK FALSE
