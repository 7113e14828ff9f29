\* The round-robin pool of four workers, given ten jobs by one thread.
SPECIFICATION Spec
CONSTANTS
  Pools = {"rr"}
  Size <- RoundRobinSize
  Policy <- RoundRobinPolicy
  Callers = {c1}
  Runtimes = {}
  MaxTasks = 0
  MaxRuns = 10
INVARIANT
  ChosenWorkerExists
CHECK_DEADLOCK FALSE
