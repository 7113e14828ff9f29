\* The wakeup channel, two acceptors and another channel on three descriptors.
SPECIFICATION FairSpec
CONSTANTS
  Channels = {wakeup, acceptor1, acceptor2, channel1}
  Fds = {f1, f2, f3}
  NoChannel = NoChannel
  Wakeup = wakeup
  Acceptors = {acceptor1, acceptor2}
  LoopThread = me
  Outsiders = {t1}
  MaxFunctors = 1
CHECK_DEADLOCK FALSE
INVARIANTS
  TypeOK
  KernelAgrees
  NoDanglingChannel
  ActiveChannelsAlive
PROPERTIES
  PollerUsedAsSpecified
