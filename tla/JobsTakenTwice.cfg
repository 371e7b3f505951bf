CONSTANTS
    n1 = n1
    n2 = n2
    n3 = n3
    t1 = t1
    Nightlies = {n1, n2, n3}
    Tasks = {t1}
    MaxRetries = 0
    MaxEvents = 1
    MaxFaults = 1
SPECIFICATION JobsSpec
INVARIANT ClaimsAreExclusive
\* Processes end.
CHECK_DEADLOCK FALSE
