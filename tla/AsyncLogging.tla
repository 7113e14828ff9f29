---------------------------- MODULE AsyncLogging ----------------------------
(***************************************************************************)
(* ycnt::base::AsyncLogging: front-end threads append lines to the buffer  *)
(* of their bucket; full buffers go to frontBuffers_; one writer thread    *)
(* takes whatever there is, now and then, and writes it to the file.  The  *)
(* owner starts the writer through a base::Thread, stops it and destroys   *)
(* the logger.                                                             *)
(* mutex_ is never held across a step: a critical section of mutex_ is one *)
(* action.  A bucket's mutex is: append() keeps it from the moment it      *)
(* gives the full buffer away until it has put a fresh one in its place.   *)
(***************************************************************************)
EXTENDS LogLines, SequencesExt

CONSTANTS Threads,    \* front-end threads
          NumBuckets, \* bucketSize
          BucketOf,   \* tid % fixedBuffers_.size(), per thread
          BufferSize, \* bytes of a buffer, in lines of one length
          DropLimit,  \* more buffers than this (25) and the newest are dropped
          Kept,       \* all but so many (2)
          InitPool, MaxPool, \* 4 and 16 empty buffers
          MaxLines,   \* bound: lines appended in a behaviour
          thread_,    \* the Thread object
          NoBuffer,   \* a BufferPtr after release()
          Free        \* the holder of a mutex nobody holds

Buckets == 0 .. NumBuckets - 1

ASSUME LoggingAssumption ==
  /\ {NumBuckets, BufferSize, DropLimit, Kept, InitPool, MaxPool, MaxLines} \subseteq Nat
  /\ NumBuckets > 0 /\ BufferSize > 1 /\ Kept <= DropLimit /\ InitPool <= MaxPool
  /\ BucketOf \in [Threads -> Buckets]
  /\ Free \notin Threads /\ NoBuffer \notin Seq(Threads \X Nat)

VARIABLES node,     \* node.buffer_ of each bucket
          lock,     \* node.mutex_ of each bucket
          front,    \* frontBuffers_
          back,     \* backBuffers_, in the writer
          pool,     \* number of buffers in bufferPool_
          running,  \* running_
          ready,    \* latch_: its count
          wpc, next, \* where threadFunc() is; the bucket its loop has reached
          opc,      \* where the owner is
          file,     \* what output has been given: lines and drop notices
          appended, \* history: lines appended by each thread
          seen,     \* history: appended when the writer last found running_ true
          user, thread, started, joined, tidSet, latch, asleep, alive, data \* of thread_

frontVars == <<node, lock, appended>>
writerVars == <<back, wpc, next, file, seen>>
ownerVars == <<running, opc>>
threadVars == <<user, thread, started, joined, tidSet, latch, asleep, alive, data>>
vars == <<frontVars, front, pool, writerVars, ready, ownerVars, threadVars>>

T == INSTANCE Thread WITH Objects <- {thread_}

Init ==
  /\ node = [b \in Buckets |-> <<>>]
  /\ lock = [b \in Buckets |-> Free]
  /\ front = <<>> /\ back = <<>> /\ pool = InitPool
  /\ running = FALSE /\ ready = 1
  /\ wpc = "begin" /\ next = 0 /\ opc = "new"
  /\ file = <<>>
  /\ appended = [t \in Threads |-> 0]
  /\ seen = appended
  /\ T!Init

\* Mutants of the code that the properties below must notice.
OneTooMany == Len(front) - Kept + 1
FirstBucketSkipped == 1
LockReleased(b, t) == UNCHANGED lock
NoTimeout == FALSE
PoolUnbounded == TRUE
RunningLater == UNCHANGED running

(* cv_.notify_all(): the writer is the only one that waits.  *)
Notified == IF wpc = "asleep" THEN "collect" ELSE wpc

PushFront(buf) == front' = Append(front, buf)
Lock(b, t) == lock' = [lock EXCEPT ![b] = t]

-----------------------------------------------------------------------------
(* append(): the line fits if avail() > len, one byte is never used. *)
Fits(buf) == Len(buf) + 1 < BufferSize
LineOf(t) == <<t, appended[t] + 1>>
Appended(t) ==
  LET b == BucketOf[t] IN
  /\ node' = [node EXCEPT ![b] = IF @ = NoBuffer THEN <<LineOf(t)>>
                                                 ELSE Append(@, LineOf(t))]
  /\ appended' = [appended EXCEPT ![t] = @ + 1]

TotalAppended == FoldFunction(+, 0, appended)
MayAppend(t) ==
  /\ opc # "gone" /\ TotalAppended < MaxLines
  /\ lock[BucketOf[t]] = Free

AppendFits(t) ==
  /\ MayAppend(t) /\ Fits(node[BucketOf[t]])
  /\ Appended(t)
  /\ UNCHANGED <<lock, front, pool, writerVars, ready, ownerVars, threadVars>>

AppendFull(t) == \* the full buffer to the front, under both locks
  LET b == BucketOf[t] IN
  /\ MayAppend(t) /\ ~Fits(node[b])
  /\ Lock(b, t)
  /\ PushFront(node[b])
  /\ node' = [node EXCEPT ![b] = NoBuffer]
  /\ wpc' = Notified
  /\ UNCHANGED <<pool, appended, back, next, file, seen, ready, ownerVars, threadVars>>

TakeFromPool == pool' = IF pool > 0 THEN pool - 1 ELSE 0

Refill(t) == \* an empty buffer from the pool, or a new one
  /\ lock[BucketOf[t]] = t
  /\ TakeFromPool
  /\ Appended(t)
  /\ lock' = [lock EXCEPT ![BucketOf[t]] = Free]
  /\ UNCHANGED <<front, writerVars, ready, ownerVars, threadVars>>

-----------------------------------------------------------------------------
(* The new thread: Thread's own steps, with threadFunc() as its function.  *)
WriterAt(from, to) == wpc = from /\ wpc' = to

NewThread ==
  /\ \/ T!SetTid(thread_) \/ T!CountDown(thread_) \/ T!Finish(thread_)
     \/ wpc = "exited" /\ T!Func(thread_)
  /\ UNCHANGED <<frontVars, front, pool, writerVars, ready, ownerVars>>

Begin == \* assert(running_ == true), latch_.countDown()
  /\ thread[thread_] = "func" /\ WriterAt("begin", "test")
  /\ ready' = ready - 1
  /\ UNCHANGED <<frontVars, front, pool, back, next, file, seen, ownerVars, threadVars>>

FirstBucket == 0
TestRunning ==
  /\ WriterAt("test", IF running THEN "decide" ELSE "exited")
  /\ next' = FirstBucket
  /\ seen' = IF running THEN appended ELSE seen
  /\ UNCHANGED <<frontVars, front, pool, back, file, ready, ownerVars, threadVars>>

WaitIfEmpty ==
  /\ WriterAt("decide", IF front = <<>> THEN "asleep" ELSE "collect")
  /\ UNCHANGED <<frontVars, front, pool, back, next, file, seen, ready, ownerVars, threadVars>>

CanTimeout == TRUE
Wake == \* flushInterval_ is over, or a spurious wakeup: no condition is tested
  /\ CanTimeout /\ WriterAt("asleep", "collect")
  /\ UNCHANGED <<frontVars, front, pool, back, next, file, seen, ready, ownerVars, threadVars>>

Collect == \* one bucket after the other, node lock before front lock
  /\ wpc = "collect" /\ next < NumBuckets
  /\ lock[next] = Free
  /\ IF node[next] # <<>>
     THEN PushFront(node[next]) /\ TakeFromPool /\ node' = [node EXCEPT ![next] = <<>>]
     ELSE UNCHANGED <<front, pool, node>>
  /\ next' = next + 1
  /\ UNCHANGED <<lock, appended, back, wpc, file, seen, ready, ownerVars, threadVars>>

Excess == Len(front) - Kept
Notice(n) == <<"dropped", n>>

Swap == \* backBuffers_ is empty here; too many buffers are dropped at once
  /\ WriterAt("collect", "write") /\ next = NumBuckets
  /\ IF Len(front) > DropLimit
     THEN back' = SubSeq(front, 1, Kept) /\ file' = Append(file, Notice(Excess))
     ELSE back' = front /\ UNCHANGED file
  /\ front' = <<>>
  /\ UNCHANGED <<frontVars, pool, next, seen, ready, ownerVars, threadVars>>

Write ==
  /\ WriterAt("write", "recycle")
  /\ file' = file \o FlattenSeq(back)
  /\ back' = [i \in DOMAIN back |-> <<>>]
  /\ UNCHANGED <<frontVars, front, pool, next, seen, ready, ownerVars, threadVars>>

PoolHasRoom == pool < MaxPool
Recycle == \* one buffer; only the writer adds to the pool
  /\ wpc = "recycle" /\ back # <<>>
  /\ pool' = IF PoolHasRoom THEN pool + 1 ELSE pool
  /\ back' = SubSeq(back, 1, Len(back) - 1)
  /\ UNCHANGED <<frontVars, front, wpc, next, file, seen, ready, ownerVars, threadVars>>

Flush == \* end of the loop body
  /\ WriterAt("recycle", "test") /\ back = <<>>
  /\ UNCHANGED <<frontVars, front, pool, back, next, file, seen, ready, ownerVars, threadVars>>

Writer ==
  \/ NewThread \/ Begin
  \/ TestRunning \/ WaitIfEmpty \/ Wake \/ Collect \/ Swap \/ Write \/ Recycle \/ Flush

-----------------------------------------------------------------------------
(* The owner: start(), which is Thread::start() and a wait for latch_;     *)
(* stop(); ~AsyncLogging(), which stops a running logger first.            *)
OwnerAt(from, to) == opc = from /\ opc' = to

SetRunning == running' = TRUE
Start ==
  /\ OwnerAt("new", "starting")
  /\ SetRunning
  /\ UNCHANGED <<frontVars, front, pool, writerVars, ready, threadVars>>

StartThread ==
  /\ opc = "starting"
  /\ T!Create(thread_) \/ T!CreateFails(thread_) \/ T!Await(thread_)
  /\ UNCHANGED <<frontVars, front, pool, writerVars, ready, ownerVars>>

SpuriousWakeup ==
  /\ opc = "starting" /\ T!SpuriousWakeup(thread_)
  /\ UNCHANGED <<frontVars, front, pool, writerVars, ready, ownerVars>>

StartReturns == \* latch_ is a CountDownLatch: its waiter goes on at zero
  /\ OwnerAt("starting", "started")
  /\ user[thread_] = "returned" /\ ready <= 0
  /\ UNCHANGED <<frontVars, front, pool, writerVars, ready, running, threadVars>>

Stop ==
  /\ OwnerAt("started", "notify")
  /\ running' = FALSE
  /\ UNCHANGED <<frontVars, front, pool, writerVars, ready, threadVars>>

NotifyWriter == \* without mutex_: the writer may be about to wait
  /\ OwnerAt("notify", "join")
  /\ wpc' = Notified
  /\ UNCHANGED <<frontVars, front, pool, back, next, file, seen, ready, running, threadVars>>

Join ==
  /\ opc = "join" /\ T!Join(thread_)
  /\ UNCHANGED <<frontVars, front, pool, writerVars, ready, ownerVars>>

JoinReturns ==
  /\ OwnerAt("join", "stopped") /\ T!JoinReturns(thread_)
  /\ UNCHANGED <<frontVars, front, pool, writerVars, ready, running>>

Destroy == \* nobody may be inside append()
  /\ opc \in {"new", "stopped"} /\ opc' = "gone"
  /\ \A b \in Buckets : lock[b] = Free
  /\ T!Destroy(thread_)
  /\ UNCHANGED <<frontVars, front, pool, writerVars, ready, running>>

InCall == StartThread \/ StartReturns \/ NotifyWriter \/ Join \/ JoinReturns

Next ==
  \/ \E t \in Threads : AppendFits(t) \/ AppendFull(t) \/ Refill(t)
  \/ Writer
  \/ InCall \/ Start \/ SpuriousWakeup \/ Stop \/ Destroy

Spec == Init /\ [][Next]_vars

(* The writer is scheduled and its waits time out; an append that holds a  *)
(* bucket's mutex ends, and the owner goes on with a call it has begun.    *)
(* Nobody has to append, and nobody has to start or stop the logger.       *)
FairSpec ==
  /\ Spec
  /\ WF_vars(Writer) /\ WF_vars(InCall)
  /\ \A t \in Threads : WF_vars(Refill(t))

-----------------------------------------------------------------------------
(* Types of the variables: whatever is in a buffer or in the file has been *)
(* appended.  The pool never grows beyond maxPoolSize_ (the size is read   *)
(* and the buffer pushed in two steps, but by one thread).                 *)
Lines == {l \in Threads \X Nat : l[2] \in 1 .. appended[l[1]]}
TypeOK ==
  /\ \A b \in Buckets :
       /\ node[b] = NoBuffer \/ (node[b] \in Seq(Lines) /\ Len(node[b]) < BufferSize)
       /\ lock[b] \in {Free} \cup {t \in Threads : BucketOf[t] = b}
  /\ front \in Seq(Seq(Lines)) /\ back \in Seq(Seq(Lines))
  /\ pool \in 0 .. MaxPool
  /\ running \in BOOLEAN /\ ready \in {0, 1}
  /\ wpc \in {"begin", "test", "decide", "asleep", "collect", "write", "recycle", "exited"}
  /\ next \in 0 .. NumBuckets
  /\ opc \in {"new", "starting", "started", "notify", "join", "stopped", "gone"}
  /\ file \in Seq(Lines \cup ({"dropped"} \X Nat))
  /\ appended \in [Threads -> Nat] /\ seen \in [Threads -> Nat]
  /\ T!TypeOK

(* The assertions of Thread::start() (Thread.cpp:129: tid_ is written when *)
(* it returns).                                                            *)
StartedHasTid == T!StartedHasTid

(* The assertions of the writer: running_ when it begins, although the     *)
(* owner may go on to stop(), and an empty backBuffers_ in every round     *)
(* (AsyncLogging.cpp:105, 111).                                            *)
WriterAsserts ==
  /\ thread[thread_] = "func" /\ wpc = "begin" => running
  /\ wpc \in {"test", "decide", "asleep", "collect"} => back = <<>>

(* Nothing of the logger or of its Thread object is used after the         *)
(* destructors: not by the handshake (Thread.cpp:69-72), and not by        *)
(* threadFunc() (AsyncLogging.cpp:74-80, AsyncLogging.h:47).               *)
NoWriteAfterDestruction ==
  T!NoWriteAfterDestruction /\ (thread[thread_] = "func" => alive[thread_])

(* Thread::start() uses the Thread's latch_ as a CountDownLatch of one.    *)
HandshakeUsesLatch == T!HandshakeUsesLatch

(* The buffer of a bucket is away only while a thread inside append()      *)
(* holds the bucket's mutex: nobody else can dereference a null node       *)
(* (AsyncLogging.cpp:82-101 against 119-126).                              *)
BufferInPlace ==
  \A b \in Buckets : (node[b] = NoBuffer) <=> (lock[b] # Free)

(* Every line is in one place, the lines of one thread stay in the order   *)
(* in which it appended them, from the bucket through front and back       *)
(* buffers to the file, and what is dropped is announced: the logger is an *)
(* implementation of Log.                                                  *)
InBucket(b) == IF node[b] = NoBuffer THEN <<>> ELSE node[b]
Pending(t) == Of(t, FlattenSeq(back) \o FlattenSeq(front) \o InBucket(BucketOf[t]))
AbstractLog == INSTANCE Log
  WITH PerBuffer <- BufferSize - 1, accepted <- appended, log <- file,
       pending <- [t \in Threads |-> Pending(t)]
ImplementsLog == AbstractLog!Spec

(* A line appended while the logger runs is written or dropped, or the     *)
(* logger is stopped, whether or not anybody appends again                 *)
(* (AsyncLogging.cpp:110-152).                                             *)
Settled(t, k) == <<t, k>> \notin ToSet(Pending(t))
LinesReachFile ==
  \A t \in Threads, k \in 1 .. MaxLines :
    (appended[t] >= k /\ opc = "started") ~> (Settled(t, k) \/ opc # "started")

(* stop() returns even if its notification comes before the writer waits:  *)
(* the wait has a timeout (AsyncLogging.h:43-48, AsyncLogging.cpp:115).    *)
(* start() returns, too, unless its thread could not be created: then      *)
(* nobody counts latch_ down, and it waits for ever (AsyncLogging.h:41).   *)
NotCreated == user[thread_] = "returned" /\ ~started[thread_]
OwnerCallsReturn ==
  /\ (opc = "starting") ~> (opc = "started" \/ NotCreated)
  /\ (opc = "notify") ~> (opc = "stopped")

(* The writer keeps what it owes when it is stopped: lines appended before *)
(* it last found running_ true are written or dropped when it exits.  Of   *)
(* later ones this does not hold (AsyncLogging.cpp:110, 153: no round      *)
(* follows).                                                               *)
RoundKeepsLines ==
  wpc = "exited" => \A t \in Threads : \A k \in 1 .. seen[t] : Settled(t, k)
=============================================================================
