\* Three threads, any of which produces and consumes, on a queue of two places.
SPECIFICATION FairSpec
CONSTANTS
  Threads = {t1, t2, t3}
  Items = {a, b}
  MaxQueueSize = 2
  MaxPushes = 3
INVARIANTS
  TypeOK
  NoConsumerSleepsOnItems
  Conservation
PROPERTIES
  ImplementsFifo
  ConsumersServed
