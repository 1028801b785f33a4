SPECIFICATION FairSpec
CONSTANTS
    p = p
    q = q
    o = o
    Names <- MCNames
    Addrs <- MCAddrs
    Failing <- MCFailing
    Observers <- MCObservers
    NameLists <- MCNameLists
    MaxSnapshots = 3
INVARIANTS
    TypeOK
    OneRequestOut
PROPERTIES
    ReportIsFresh
    ReportIsComplete
    SnapshotEnds
