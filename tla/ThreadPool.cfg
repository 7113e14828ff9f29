\* Two workers, with queues of one place or with room for everything.
SPECIFICATION FairSpec
CONSTANTS
  N = 2
  Clients = {c1, c2}
  Owner = owner
  Capacities = {1, 4}
  MaxJobs = 2
CHECK_DEADLOCK FALSE
INVARIANTS
  TypeOK
  InitCallbackFirst
  StopReachesWorker
  StoppedIsQuiet
PROPERTIES
  QueuesAsSpecified
  AcceptedJobRuns
  StopReturns
  FuturesSettle
