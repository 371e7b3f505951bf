CONSTANTS
    n1 = n1
    n2 = n2
    n3 = n3
    t1 = t1
    Nightlies = {n1, n2}
    Tasks = {t1}
    MaxRetries = 1
    MaxEvents = 2
    MaxFaults = 1
SPECIFICATION JobsSpec
INVARIANTS CompletedMeansDone CsvIsWhole OneRunningUnlessRaced
PROPERTIES CompletedIsFinal ReportKeepsUp TasksSettle
\* Processes end.
CHECK_DEADLOCK FALSE
