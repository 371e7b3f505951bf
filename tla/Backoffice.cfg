\* A form and two threads, or the telemetry of one page, or two threads of
\* the supplier directory.  Nobody need order, log in or change anything:
\* the system may stop.
SPECIFICATION BackofficeSpec
CONSTANTS
    Pages = {"orders", "logins", "suppliers"}
    Bounds <- MCBounds
    Forms = {f1}
    Threads = {s1, s2}
    Locations = {l1, l2}
    Claims <- MCClaims
    Quantities = {1}
    NoForm = noform
    NoThread = nothread
    MaxOrders = 3
    QUEUE_FLUSH_SIZE = 2
    MAX_FLUSH_RETRIES = 1
    MaxEvents = 3
    MaxPosts = 2
    MaxReports = 1
    Servers = {h1, h2}
    Names = {"Carnes", "CarboCo"}
    MaxSuppliers = 3
    MaxChanges = 5
CHECK_DEADLOCK FALSE
INVARIANTS
    StockNeverNegative
    OrdersReported
PROPERTIES
    SuppliersStand
