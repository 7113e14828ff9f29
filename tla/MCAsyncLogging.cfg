\* A shared bucket, and buffers of two lines: buckets fill and rounds overflow.
SPECIFICATION FairSpec
CONSTANTS
  t1 = t1
  t2 = t2
  t3 = t3
  Threads = {t1, t2, t3}
  NumBuckets = 2
  BucketOf <- SharedBucket
  BufferSize = 3
  DropLimit = 2
  Kept = 1
  InitPool = 1
  MaxPool = 1
  MaxLines = 4
  thread_ = thread_
  NoBuffer = NoBuffer
  Free = Free
CHECK_DEADLOCK FALSE
INVARIANTS
  TypeOK
  StartedHasTid
  WriterAsserts
  NoWriteAfterDestruction
  BufferInPlace
  RoundKeepsLines
PROPERTIES
  HandshakeUsesLatch
  ImplementsLog
  LinesReachFile
  OwnerCallsReturn
