CONSTANTS
    r1 = r1
    r2 = r2
    e1 = e1
    e2 = e2
    p1 = p1
    p2 = p2
    l1 = l1
    none = none
    Requests = {r1, r2}
    Emails = {e1, e2}
    Passwords = {p1, p2}
    Locations = {l1}
    NoLocation = none
    FirstTables <- MCFirstTables
    MaxUsers = 3
    MaxWork = 4
SYMMETRY Threads
SPECIFICATION SessionsSpec
INVARIANTS    AccountsDistinct
\* A behaviour may stop once the bound on its work is reached.
CHECK_DEADLOCK FALSE
