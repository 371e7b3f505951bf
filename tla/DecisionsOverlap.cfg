SPECIFICATION Spec
CONSTANTS
  marketing = marketing
  operaciones = operaciones
  r1 = r1
  r2 = r2
  Departments = {marketing, operaciones}
  Marketing = marketing
  ITERATION_LIMIT = 1
  Requests = {r1, r2}
  MaxDecisions = 4
  MaxDeaths = 0
INVARIANTS
  DoneIsComplete
PROPERTY ImplementsLifecycle
SYMMETRY DecisionSymmetry
\* A ticket that is done, or that the CEO rejected, takes no more decisions.
CHECK_DEADLOCK FALSE
