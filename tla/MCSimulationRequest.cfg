SPECIFICATION SimSpec
CONSTANTS
    Infinity = Infinity
    DurationMax = DurationMax
    a = a
    t1 = t1
    t2 = t2
    Actors <- MCActors
    Timers <- MCTimers
    Owner <- MCOwner
    QueueSize = 1
    IdSpace = 8
    Deadlines <- MCDeadlines
    Delays <- MCDelays
    MaxTime = 0
    MaxSchedulings = 2
    Ends <- MCEnds
    Spans <- MCSpans
    MailboxSize = 1
    MaxCalls = 2
    MaxSends = 1
PROPERTIES
    RequestRunsUntilResponse
CHECK_DEADLOCK FALSE
