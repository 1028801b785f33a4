SPECIFICATION FairSpec
CONSTANTS
    x = x
    y = y
    A = A
    B = B
    Mailboxes <- MCMailboxes
    Async <- MCAsync
    Limited <- MCLimited
    Types <- MCTypes
    Asked <- MCAsked
    QueueSize = 2
    MaxRequests <- MCRequests
    MaxNotifications <- MCNotifications
INVARIANTS
    TypeOK
    EachMessageOnce
    AnswerNotMissed
PROPERTIES
    OvertakesOnlyAside
    LimitedReturns
    KeepsPromise
CHECK_DEADLOCK FALSE
