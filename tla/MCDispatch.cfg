\* One caller, a pool of every kind; two workers whose loads LB0 compares.
SPECIFICATION Spec
CONSTANTS
  Pools <- AllPools
  Size <- AllSizes
  Policy <- AllPolicies
  Callers = {c1}
  Runtimes <- SomeRuntimes
  MaxTasks = 3
  MaxRuns = 3
INVARIANTS
  TypeOK
  AverageWithinRuntimes
PROPERTY
  LeastLoadedChosen
CHECK_DEADLOCK FALSE
