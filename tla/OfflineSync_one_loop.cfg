SPECIFICATION FairSpec
CONSTANTS
    k1 = k1
    k2 = k2
    m1 = m1
    Bags = {b1, b2, b3}
    Faults = {}
    Flushes = {k1}
    PageOf <- MCPageOf
    QueueLimit = 2
    MaxRetries = 2
    MaxCloses = 1
    MaxCopies = 1
CHECK_DEADLOCK FALSE
INVARIANT SyncedIsStored
PROPERTY AlwaysSettledStays
PROPERTY EntrySettles
