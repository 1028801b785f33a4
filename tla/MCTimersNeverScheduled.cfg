SPECIFICATION Spec
CONSTANTS
    Infinity = Infinity
    DurationMax = DurationMax
    a = a
    b = b
    t1 = t1
    t2 = t2
    Actors <- MCActors
    Timers <- TwoTimers
    Owner <- MCOwner
    QueueSize = 2
    IdSpace = 4
    Deadlines <- MCDeadlines
    Delays <- MCDelays
    MaxTime = 3
    MaxSchedulings = 2
INVARIANTS
    OneTimerPerTimeout
