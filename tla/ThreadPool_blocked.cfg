\* One worker with a queue of one place and two clients.
SPECIFICATION FairSpec
CONSTANTS
  N = 1
  Clients = {c1, c2}
  Owner = owner
  Capacities = {1}
  MaxJobs = 2
CHECK_DEADLOCK FALSE
PROPERTY
  BlockedSubmitExecuted
