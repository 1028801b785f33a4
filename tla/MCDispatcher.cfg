SPECIFICATION FairSpec
CONSTANTS
    c1 = c1
    c2 = c2
    Clients <- MCClients
    Patient <- MCPatient
    Ops <- AllOps
    QueueSize = 2
    MailboxSize = 1
    MaxActors = 2
    MaxRequests <- MCRequests
INVARIANTS
    TypeOK
    RequestInOnePlace
    EffectsLast
    PatientMailboxHasRoom
PROPERTIES
    StopOrder
    KeepsPromise
    PatientReturns
    StopEnds
