CONSTANTS
    t1 = t1
    t2 = t2
    a1 = a1
    Transactions <- MCTransactions
    Adapters <- MCOneAdapter
    Closed = Closed
    Capacity = 2
    MaxRevision = 4
SPECIFICATION FairSpec
INVARIANTS
    ReplayExact
    AdapterSeesHistory
    BoundedRetention
PROPERTIES
    NoLostUpdate
    NobodyStranded
