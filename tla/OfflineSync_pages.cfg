SPECIFICATION Spec
CONSTANTS
    k1 = k1
    k2 = k2
    m1 = m1
    Bags = {b1}
    Faults = {f1}
    Flushes = {k1, k2, m1}
    PageOf <- MCPageOf
    QueueLimit = 2
    MaxRetries = 2
    MaxCloses = 1
    MaxCopies = 1
CHECK_DEADLOCK FALSE
INVARIANT BagStoredOnce
