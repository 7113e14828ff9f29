\* A loop without acceptors, and one other thread that queues a functor.
SPECIFICATION FairSpec
CONSTANTS
  Channels = {wakeup}
  Fds = {f1}
  NoChannel = NoChannel
  Wakeup = wakeup
  Acceptors = {}
  LoopThread = me
  Outsiders = {t1}
  MaxFunctors = 1
CHECK_DEADLOCK FALSE
PROPERTY
  FunctorWakesLoop
