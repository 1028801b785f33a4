SPECIFICATION Spec
CONSTANTS
    c1 = c1
    c2 = c2
    Clients <- MCClients
    Patient <- MCPatient
    Ops <- LateOps
    QueueSize = 2
    MailboxSize = 1
    MaxActors = 2
    MaxRequests <- TwoRequests
INVARIANTS
    ErrorIsOwn
