SPECIFICATION FairSpec
CONSTANTS
    Infinity = Infinity
    DurationMax = DurationMax
    a = a
    b = b
    t1 = t1
    t2 = t2
    Actors <- MCActors
    Timers <- TwoTimers
    Owner <- MCOwner
    QueueSize = 2
    IdSpace = 3
    Deadlines <- MCDeadlines
    Delays <- MCDelays
    MaxTime = 3
    MaxSchedulings = 3
INVARIANTS
    TypeOK
    ArmedTimerNotLost
    OneTimeoutInQueue
    OneTimeoutPerScheduling
    DeadlineOrder
    NoOversleep
PROPERTIES
    NeverEarly
    ArmedTimerSettles
