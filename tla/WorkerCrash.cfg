SPECIFICATION Spec
CONSTANTS
  marketing = marketing
  operaciones = operaciones
  procurement = procurement
  Departments = {marketing, operaciones}
  Marketing = marketing
  ITERATION_LIMIT = 1
  MaxQueue = 2
  MaxCrashes = 2
  MaxFaults = 1
INVARIANTS
  InterruptsAreLive
PROPERTIES
  ImplementsLifecycle
  ApprovalFrozen
\* The flow of a ticket ends: a worker with nothing left to do waits.
CHECK_DEADLOCK FALSE
