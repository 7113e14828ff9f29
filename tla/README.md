# A TLA+ development of ycnt

ycnt is a C++ network library in the manner of muduo: threads, queues, a thread
pool and asynchronous logging in `src/ycnt/base`, and the beginning of an event
loop in `src/ycnt/net`.  This directory models the parts of it that are hard to
test, model-checks them with TLC on small instances, and proves their safety
with TLAPS for every size.  `PROJECT.json` says, for each definition, which
lines it models (`map`), what each run checks (`runs`), a bug that each property
would notice (`mutants`), what is hard to test and where (`hazards`), where the
code disagrees with its own words (`findings`), and what is proved (`theorems`).

## Inventory: the system and its parts

| component | state | operations | used by |
|---|---|---|---|
| `BoundedBlockingQueue` (`ThreadSafeContainer.h`) | `queue_`, two condition variables, a capacity | `push`, `pop`, `tryPop`, `popAll` | each worker of a `ThreadPool` |
| `BlockingQueue` (same file) | `queue_`, one condition variable | `push`, `pop`, `try_pop`, `size` | the pool of empty buffers of `AsyncLogging` |
| `CountDownLatch` | `count_`, a condition variable | `wait`, `countDown` | `Thread::start`, `AsyncLogging::start` |
| `Thread` | `started_`, `joined_`, `tid_`, `latch_`, a `ThreadData` on the heap | `start`, `join`, destruction; the new thread | `ThreadPool`, `AsyncLogging` |
| `ThreadPool` | workers, each with a queue, `running_` and a running average | `newThreadPool`, `start`, `stop`, `run`, `waitableRun`, destruction | users |
| its scheduling | a static `idx` | `run` by RAN, RR, LB0 or a worker's number; `workload` | users |
| `LogStream`, `Logger` | the buffer of one message, the level filter | `operator<<`, construction, destruction, `init` | everybody |
| number formatting (`Utils`) | none | `convert`, `dtoa_milo` (Grisu2) | `LogStream` |
| `AsyncLogging` | a buffer per bucket, `frontBuffers_`, `backBuffers_`, a pool of buffers, `running_`, a `Thread` and a latch | `append`, the writer thread, `start`, `stop`, destruction | `Logger` |
| `LogFile`, `AppendFile` | the open file, `writtenBytes_`, `count_`, times of the last roll and flush | `append`, `rollFile`, `flush` | the writer of `AsyncLogging` |
| `Channel`, `EpollPoller` | events, flag and `addedToLoop_` of a channel; `channels_`; what epoll was told | `enable...`, `disable...`, `remove`, `poll` | `Acceptor`, `EventLoop` |
| `EventLoop` | `quit_`, `functors_`, `activeChannels_`, the wakeup channel on an eventfd | `loop`, `quit`, `runInLoop`, `queueInLoop`, destruction | `Acceptor`, other threads |
| `Acceptor` | its socket and channel | `listen`, destruction, `pause`, `resume`, `handleRead` | users |
| `EventLoopThreadPool`, `Socket`, `InetAddress`, `Connector` | see *Not modelled* | | |

How they interact: a client calls `ThreadPool::run`, which picks a worker by the
loads it reads and pushes to its `BoundedBlockingQueue`; the worker's `Thread`
pops and executes.  `LOG_...` builds a message in a `LogStream` and hands it to
`AsyncLogging::append`, which copies it to the buffer of the caller's bucket;
full buffers, and now and then all others, go to the writer's `Thread` and from
there to a `LogFile`.  The owner of a logger waits in `start()` for two latches,
the `Thread`'s and the logger's own.  An `Acceptor` and the wakeup channel tell
the `EventLoop`'s `EpollPoller`, and that the kernel, which events they wait for;
other threads reach the loop through `quit_`, `functors_` and the eventfd.

What is hard: condition variables whose notification is missed or never sent;
shutdown against workers and callers that are in the middle of something;
statics and averages shared without a lock; an object whose address another
thread holds; buffers that change hands under two kinds of locks; a clock that
is set back; a registration kept in four places, and pointers in it that outlive
their channel; a text in a buffer that is full.  `hazards` lists each at its
line.

## Modules

| module | models | composes, or refines |
|---|---|---|
| `BoundedFifo` | what a bounded queue promises | abstract specification |
| `BoundedBlockingQueue` | the queue, one action per critical section | implements `BoundedFifo` |
| `ThreadPool` | owner, workers, clients, futures | N instances of `BoundedBlockingQueue` |
| `Dispatch`, `MCDispatch` | how `run()` chooses the worker, and the loads it chooses by | |
| `CountDownLatch` | the latch | |
| `Thread` | the start handshake and the lifetime of the object | one `CountDownLatch` per object |
| `LogLines` | lines of several threads, and those of one | used by `Log` and `AsyncLogging` |
| `Log` | what a logger promises | abstract specification |
| `AsyncLogging`, `MCAsyncLogging` | append, writer, buffer pool, start, stop and destruction | one `Thread`; implements `Log` |
| `LogFile` | rolling and flushing | |
| `NumberFormat` | the conversions, as operators | |
| `LogStream`, `MCLogStream` | messages | `NumberFormat` |
| `Registration` | the operations of `Channel` and `EpollPoller`, each as it is | |
| `EpollPoller` | these under callers that know what they ask of them | abstract specification for callers |
| `Reactor` | `EventLoop`, its `Acceptor`s and other threads | `Registration`; uses it as `EpollPoller` says |
| `BlockingProofs`, `ThreadProofs`, `ThreadPoolProofs`, `DispatchProofs`, `AsyncLoggingProofs`, `LogFileProofs`, `LogStreamProofs`, `ReactorProofs` | proofs; `BlockingProofs` has those of the queue and of the latch, `ReactorProofs` those of the poller | `AsyncLoggingProofs` cites `ThreadProofs` |

Conventions.  A critical section is one action, for nothing outside can see
into it; what a thread does between two of them is another action.  A variable
carries the name of the member it stands for, and a comment says `history`
where it stands for none: histories are never read by a guard.  A thread inside
`cv.wait` is a member of a wait set; `notify_all` empties the set, spurious
wakeups remove a member, and in both cases the thread tests its condition again.
Under `Mutants of the code` a module defines plausible bugs; no specification
uses them, and each property is violated when one of them replaces the
definition it resembles.  Assertions are taken to be compiled in: one that fails
stops the program (`aborted`), or is itself a property.

Where the abstraction lies:

* `ThreadPool`: which worker a job goes to is left open (that is `Dispatch`);
  a task is a number.  `StartWorker` is one step because `Thread::start` returns
  when the thread runs (`Thread`).  `maxQueueSize` is a variable that never
  changes, so that one run covers queues that fill up and queues that do not.
  A future is ready when its task has run or has been destroyed with its queue.
* `Dispatch`: `idx++` is a read and a write, since `idx` is neither atomic nor
  locked, and LB0 reads the average and the size of a queue one after the other.
  Averages pass through a `double` of the size of the time of day: they are kept
  in its last place, 2^-12 ms, and truncated to milliseconds where the code
  does; loads are read in halves.  A runtime below zero is a clock set back.  An
  index beyond `workers_` is undefined behaviour, and the caller is followed no
  further.  Queues do not get full here; they do in `ThreadPool`.
* `Log`: the lines of a thread that are on their way are a sequence.  Delivery
  takes a beginning of it, in order; a discard cuts successive lines out of it:
  before them may be lines in the buffers that are kept, behind them lines still
  in the bucket.  The notice counts buffers, of which none was empty.
* `AsyncLogging`: lines have one length, so a buffer holds a number of lines;
  `mutex_` is never held across a step, a bucket's mutex is.  The start of the
  writer is `Thread`'s own actions, `pthread_create` failing among them.
* `LogFile`: time is in whole seconds, as the file names are.  Stdio may write
  its buffer at any time.  An `append()` reads the clock, and `rollFile()` reads it
  once more when the period is over (`File.cpp:82`, `121`): in between it may have
  moved on or been set back.
* `Thread`: each object has one user that calls `start()` and perhaps `join()`,
  as `Worker` and `AsyncLogging` do.
* `Registration`: a failed assertion is a state in which nothing happens any
  more.  `epoll_ctl` fails for the reasons the calls themselves give, not for
  lack of memory.  A descriptor has one owner, and is free again when it is
  closed.  What callers have to know, because the code reports it to nobody, is
  in `EpollPoller`: `MayAskFor`, `RemoveAdded` and `DestroyRemoved`.
* `Reactor`: only the loop's thread touches channels, which `assertInLoopThread()`
  is there for; a violation of it is not modelled.  `poll()` reports any set of
  registered descriptors, and the wakeup descriptor exactly when its counter is
  not zero.  Contexts and addresses are left out.
* `LogStream`: a text is its length; a number keeps its characters, because
  what the conversions write is what the properties are about.  The trailer of
  `~Logger()` is appended piece by piece, its line number by `formatNumeric()`,
  which leaves it out where there is no room.  What is logged is assumed to fit 64
  bits, and what `DigitGen()` gets to be a scaled interval as `Grisu2()` makes them
  (`IsInterval`, part of `StreamAssumption`).  The model begins after the first
  `init()`.
* `NumberFormat`: `DigitGen()` works on fixed-point numbers with `shift` bits
  behind the point: 64 bits in the code, a few in the runs, any number of them in
  the theorems.  What fits 32 bits in front of the point is kept (`p1`); that the
  products by ten stay within 64 bits is not stated.  The table `kPow10` has
  `PowerEntries` entries, ten in the code; what `DigitGen()` reads behind its end,
  with more digits behind the point than that, is any number (`beyond`).  The
  scaling in front of it (`DiyFp`, `GetCachedPower`) is not modelled.

## Runs

Every run finishes within five minutes with two workers; all but
`MCAsyncLogging` within two.

| run | bounds | properties |
|---|---|---|
| `BoundedBlockingQueue` | 3 threads, capacity 2, 2 items, 3 pushes | no consumer sleeps while there are items; what is inside is what entered and has not left; implements `BoundedFifo`; a waiting consumer is served |
| `ThreadPool` | 2 workers, 2 clients, 2 jobs, capacity 1 or 4 | init callback first; `stop()` reaches a worker inside `pop()`, returns, and leaves no thread; queues used as `BoundedBlockingQueue`; accepted jobs run; futures settle once the pool is destroyed |
| `ThreadPool_blocked` | 1 worker, capacity 1 | *refuted*: a `run()` that waits for room is executed |
| `MCDispatch` | pools of 1 (RAN), 1 (RR), 2 (LB0) and 0 workers, 3 calls by one caller, 3 tasks of -2, 1 or 3 ms | averages stay between the runtimes; LB0 takes the first least loaded by what it read |
| `MCDispatch_rr` | 4 workers, 10 calls, as in the test | *refuted*: the chosen worker exists |
| `MCAsyncLogging` | 3 threads on 2 buckets, 4 lines, buffers of two lines, a round of more than 2 buffers drops all but 1, a pool of 1 | the assertions of `start()` and of the writer; nothing is used after its destructor; no null buffer is used; a round keeps its lines; the handshake is a `CountDownLatch`; implements `Log`; lines reach the file; `start()` and `stop()` return |
| `LogFile` | 5 seconds, lines of 2 lengths, period 4, check every 3 | names are distinct; size rolls; period and flush lag by fewer than `checkEveryN` lines |
| `Reactor` | the wakeup channel, 2 acceptors, 1 other channel on 3 descriptors; 1 other thread, 1 functor | the kernel agrees with the channels; no dangling pointer in map, kernel or `activeChannels_`; the poller is used as `EpollPoller` asks |
| `Reactor_quit` | the wakeup channel, 1 other thread | *refuted*: `quit()` ends the loop |
| `Reactor_wakeup` | the same | *refuted*: a functor ends the wait of the loop |
| `MCLogStream` | 2 pieces with one number, and the trailer, in 80 bytes; a `kPow10` of 3 entries and up to 5 digits behind the point | numbers stay inside the buffer; what is written denotes the number; digits are the fewest, and the closest as far as `kPow10` goes |
| `MCLogStream_double` | the same | *refuted*: a number enters the message whole |

Why the bounds are enough: in `BoundedBlockingQueue` three threads on two places
let both wait sets be occupied, emptied and entered again.  In `ThreadPool` a
capacity of one makes construction, clients and `stop()` meet a full queue,
and 4 is `MaxJobs + 2`, room for every task.  In `MCDispatch` three tasks let an
average rise, truncate and fall below zero while the scan of the two LB0 workers
is under way; RR and RAN are there because they move the same `idx`.  In
`MCAsyncLogging` a bucket with two threads contends for its mutex while the other
one is only emptied by the writer, a buffer of two lines is given away full and
taken half full, a pool of one buffer is empty and full in turn, and the lines
suffice for a round that drops.  In `LogFile` five seconds contain the end of a
period, a flush that is due, and a clock set back before the last roll; the
lines pass both the size and the check.  Four channels on three descriptors use
one again, by another owner.  In `MCLogStream` the room left is more than enough,
exactly enough and too little for a number, be it logged or the line in the trailer;
the exponents reach each branch of `Prettify()` and both sides of each boundary,
with 17 digits as the longest that occur; intervals with 3 bits behind the point
end inside `kPow10`, those with 10 and 14 bits behind its end, where `beyond` makes
the distance to W zero, too short or too long.

### Fairness

Threads that can run are scheduled: `WF` on the steps a thread takes inside an
operation it has begun, on the worker and writer threads, and on blocked calls
whose condition holds.  Nobody has to begin an operation, to start, stop or
join anything, to call `loop()` or `quit()`, or to wake up spuriously.  Tasks and
thread functions terminate, which the library asks of its users.  The wait of
the writer times out (`wait_for` with `flushInterval_`): that is weak fairness
of `Writer`, whose step `Wake` it is, and with the timeout taken away
`OwnerCallsReturn` and `LinesReachFile` are violated.  `poll()` times out, too:
`WF` of `InLoop`.  `OwnerCallsReturn` excepts a `start()` whose thread could not
be created, which waits for ever.  `StopReturns` of `ThreadPool` is stated for
queues with room for all tasks: with fewer places `stop()` may wait in `push()`
for ever, for the same reason as in `ThreadPool_blocked`.

### What the refuted runs say of the code

1. `pop()` makes room and does not notify `notFull_` (`ThreadSafeContainer.h:110`),
   so a `run()` that has waited for room once waits for good.
2. `case RR` increments the index and never reduces it (`ThreadPool.cpp:191`).
3. `loop()` runs while `quit_` is true (`EventLoop.cpp:80`): it returns at once,
   or, if `quit()` comes between its two lines, never.  A `quit()` that comes
   before `loop()` is overwritten.
4. `wakeup()` writes zero to the eventfd (`EventLoop.cpp:144`), which does not
   make it readable.
5. `dtoa_milo()` returns the number of digits plus one (`Utils.cpp:425`),
   whatever `Prettify()` wrote: `100.0` is logged as `10`.

Two more disagreements are written into properties that hold.
`PollerUsedAsSpecified` excepts two destructors that fail an assertion each time:
`~EventLoop()`, whose wakeup channel is still registered, and `~Acceptor()` of an
acceptor that has never listened.  `RoundKeepsLines` says what the writer owes
when it is stopped: lines appended before it last found `running_` true.  Lines
appended after that stay in buckets and front buffers and are lost.

Noted while modelling, without a run of its own:

* `DigitGen()` reads behind the ten entries of `kPow10` when there are ten or more
  digits behind the point (`Utils.cpp:296`), as with most doubles of 16 or 17
  digits: 3.141592653589793 ends at `kappa` = -11 and 0.30000000000000004 at -13.
  What it reads becomes the distance to W for `GrisuRound()`, which then lowers the
  last digit too often or not often enough; compiled with g++, the second number is
  written as 0.30000000000000007.  That the closest digits are found is therefore
  stated as far as the table goes (`ClosestWithinTable`), and `ShortestDigits` says
  what is left behind it: a number inside the interval, with the fewest digits,
  whatever was read.
* The index of `run()` is one for all pools and callers (`ThreadPool.cpp:184`): with
  two callers and two pools of different size one of them leaves `workers_`, under
  the default policy, too; and of two callers of LB0 one submits to the other's
  choice.
* `start()` of `AsyncLogging` never returns if `pthread_create` fails, and `stop()` of
  a `ThreadPool` not on a queue that stays full.
* Tasks of one millisecond keep the average at zero; queued functors never run, and
  `wakeupFd_` is never closed; the level filter of `~Logger()` (`LogStream.cpp:174`)
  selects the levels below `logLevel_` and not those above, so at the default level
  `LOG_FATAL` does not abort.

## Proofs

All by TLAPS with SMT, Zenon and LS4, for every value of the constants, from the
assumptions named in the modules.

* `BlockingProofs`, the queue.  `TypeCorrect` and `ConsumersAwake` are inductive
  as they stand: `push()`, the only section that makes the queue non-empty, also
  empties `notEmpty`, and a consumer joins it only when the queue is empty.
  `ItemsConserved` needs the capacity as a second conjunct.  `Refinement`, that
  the queue implements `BoundedFifo`, maps `sent` to `pushed` and `received` to
  `taken`: `pushed = taken \o queue` turns the room in the queue into the room
  the FIFO wants, and an item removed into the next one received.
* `BlockingProofs`, the latch.  Each invariant is inductive on top of the types.
  `SleepersAreWoken` is the interesting one: `countDown()` notifies at zero
  only, and it is enough because it goes down by one and nobody goes to sleep
  at or below zero.  Assumption: the initial counts are integers.
* `ThreadProofs`.  That the object is alive while the new thread writes to it
  depends on where its user is.  `IInv` adds `Handshake`: the latch is open
  exactly when the thread has reported, and a user past `start()` whose thread
  exists has seen it open, so it destroys the object only after the last write.
  `LatchIsUsedAsSpecified` shows that each step is one of the `CountDownLatch` of
  the object it is about, and leaves those of all others alone.
* `ThreadPoolProofs`.  `InOrder` says how far the owner's loops over `workers_`
  have come: threads behind `start()` do not exist yet, threads behind `stop()`
  have exited.  With it the types, `NobodyIsLeft` and `StopIsSeen` are inductive;
  the latter because a worker enters `pop()` only when it has seen `running_`,
  and the owner clears that before it pushes the empty task.  `JobsInOrder`
  follows what enters a queue through the task held to what has run, and
  `CallbackFirst` uses it: the first to enter a queue is the init callback,
  which is pushed by the constructor.  `QueuesAreUsedAsSpecified` shows that each
  step of the pool is one of a `BoundedBlockingQueue` for every worker or leaves
  its queue alone.  It takes two more invariants: who sleeps in `notFull_` is
  inside `push()` (`Waiting`), and what enters a queue is counted by the calls
  begun (`Counted`), so that the bound on pushes of that module is kept.  With it
  the invariants of `BlockingProofs` hold of every queue of the pool.
* `AsyncLoggingProofs`.  `UsesThread` shows that every step of the logger is a
  step of `Thread` or leaves its variables alone, so that the invariant of
  `ThreadProofs` holds of the composition.  `Life` relates owner, writer and
  thread on top of it: `threadFunc()` runs between the handshake and the end of
  the thread, the logger's latch tells the owner that it has begun, and the
  owner goes past `join()` only when it has ended.  `TidIsKnown`,
  `WriterAssertionsHold` and `LoggerOutlivesWriter` follow.  `NoNullBuffer` is an
  induction of its own (`Buffers`): the bucket's mutex is held exactly while its
  buffer is away.
  `TypeCorrect` adds that what has been appended goes on existing (`LinesStay`),
  and keeps the types of the writer's variables (`Rounds`) step by step.
  `NothingOwed` needs `Round`, which says where all lines are *fresh*, appended
  after the writer last found `running_` true: until the swap in the buckets it
  has collected, and from the swap to the next test of `running_` in the front
  buffers and all buckets.  So what is on its way when the writer exits is fresh.
  `LoggerImplementsLog` maps the lines of a thread that are on their way to what
  back buffers, front buffers and its bucket hold of it, in this order, which is
  the order of appending by `Queued`: what a thread has in front is earlier than
  what it has in its bucket, and of two front buffers the first has its earlier
  lines.  Giving a buffer to the front, collecting, and a swap that drops nothing
  move lines along this sequence and are stutters; `Write` takes its beginning;
  a swap that drops cuts out the buffers after the first `Kept`, none empty,
  none with more than `BufferSize - 1` lines and no line in two of them, so that
  the notice counts what `Log` lets it count.  The facts about sequences this
  takes come first in the module: `Of` and `FlattenSeq` over concatenation, and
  the induction they rest on.  `LatchIsUsedAsSpecified` lifts the theorem of
  `ThreadProofs` to the logger.
* `DispatchProofs`.  `TypeCorrect` contains the bound of the queues, which is not
  inductive by itself: a call that has not submitted yet will add a task, so
  `Counted` counts the calls in flight, too.  `AveragesStayWithin` is about the
  arithmetic of ThreadPool.cpp:83-85: rounding to 2^-12 ms and truncation towards
  zero in every step never leave the interval of zero and the runtimes so far.
  `Scans` follows one caller through LB0: the worker it remembers is the first
  least loaded of those it has read, by the loads as it read them, whatever
  workers and other callers do meanwhile.  It holds for any number of callers,
  for it depends on the caller's locals only, and takes the bounds of averages
  and queues, for every load must be less than the one the scan starts with.
  From there to `LeastLoadedIsChosen` one thing is missing: that the static `idx`
  still holds the choice when it is used (`OwnIndex`).  That is so with one
  caller and not with two, and is the theorem's hypothesis.  `ChosenWorkerIsThere`
  likewise assumes what the code needs for its index to be good (`IndexOK`): no
  round-robin pool, whose index counts past the end (`MCDispatch_rr`), and pools
  of one size, since all share the static; the callers may be
  any.  Assumptions:
  runtimes of at most 1000 ms either way and at most 1000 calls, which keeps the
  loads below `NoLoad`, as the code expects of the largest 64-bit integer; and a
  largest pool.
* `LogFileProofs`.  `NoNameTwice` needs that the names increase and that the last
  one is `lastRoll_` (`NamesGrow`); `ChecksAreInTime` needs that lines that came
  too late have been counted since the last check, and that this check would do
  something (`ChecksPending`).  `SizeIsLimited` is inductive with the types.
* `LogStreamProofs`.  `NothingBehindTheEnd` is inductive with the types once it is
  known how long the text of a number can be.  For an integer that is the length
  of a list made by recursion: `convert()` divides by ten until nothing is left,
  which ends because division of C goes towards zero (`DivisionOfC`), so the
  function exists (`LowDigitsExist`); numbers ten times as large have one digit
  more (`OneDigitMore`), numbers below 10^20 at most 20, and with the sign there
  are 21 characters.  For a double it is a matter of cases: 17 digits behind
  `0.00000` and a sign are the 25 that `Prettify()` writes at most
  (`PrettifyFits`).  With the `'\0'` that is 26, and `kMaxNumericSize` is 32.
  The line number of the trailer is such a number, too (`TrailerFits`).
  Assumptions: integers have 64 bits, doubles have at most 17 digits and
  exponents of the range of 64 bits, and at least 26 characters are asked for.
* `LogStreamProofs`, what the texts denote.  `TextsDenoteTheirNumbers` is inductive
  by itself, for a number is written in one step; the work is in the operators.
  `Denotes` reads a text in five parts: minus, digits in front of the point, point,
  digits behind it, exponent.  A text that is such a row is taken apart into the
  same parts (`ReadingOfRow`), and reads back as the number whose digits are the
  two parts, whatever zeros there are at their ends (`ReadsBack`, with
  `ZerosBehind` and `ZerosInFront`).  So each branch of `Prettify()` has only to be
  such a row with the right parts: `ScaledReadsBack`, `InsideReadsBack`,
  `SmallReadsBack` and `ScientificReadsBack`, and `PrettifyForms` says that there
  is no fifth.  An exponent is read by value, which takes the recursion of
  `DigitsOf` against that of `ValueOf` (`ValueOfDigits`, `ExponentReadsBack`).
  For integers, the low digits that `convert()` takes from negative remainders
  are, reversed, the decimal digits of the absolute value (`LowDigitsReversed`,
  `ConvertWrites`).
* `LogStreamProofs`, the digits of a double.  `DigitsAreShortest` and
  `DigitsAreClosestWithinTable` have three parts.  `GrisuRound()` lowers the last
  digit only while that stays inside the interval, whatever it takes for the distance
  to W; so it stops before the digit is below zero, at the latest when the digit is
  zero: the position before was not cut at, so that number is too far below Mp
  (`Rounds`, `Lowers`).  Where it stops neither neighbour is closer, if the distance
  it was given is the one to W (`ClosestBelow`, `Rounding`), and that is so while
  `kPow10` has an entry.  In front of the point, the number of digits that
  `CountDecimalDigit32()` finds is that of `p1` (`CountsDigits`), and the first
  position where the rest is within delta is the highest at which to cut
  (`CutInFront`, `FoundInFront`).  Behind it, the loop ends after at most `shift`
  digits, for 10^shift is a multiple of 2^shift and leaves no rest
  (`TwosAndFives`, `StopsBehind`), and what has been multiplied by ten is cut in
  the same way (`DigitBehind`, `FoundBehind`), however many digits that takes.
  Assumptions, all in `IsInterval`: W is between Mp - delta and Mp, 0 < delta < Mp,
  the part of Mp in front of the point is at least 1 and below 2^32, and has no more
  digits than `kPow10` has entries, which with ten entries follows.  Digits behind
  the point are not limited.
* `ReactorProofs`, the poller by itself.  The registration of a channel is kept in
  its flag, its `addedToLoop_`, the map and the kernel; none of the properties says
  how one determines the others, so `PollerInvariant` does: `FlagTells` (not new
  means added and in the map, `kAdded` means that it asks for something),
  `OneOwner` (two living channels have two descriptors, which is what leaves the
  others alone when one is updated), `Fresh` for channels to come, and `Quiet`.
  That no assertion fails is then part of the induction: an update that aborted
  would break the rest.  Assumption: `NoChannel` is no channel.
* `ReactorProofs`, loop and acceptors.  While the program runs, `PollerInvariant`
  holds of them, too (`Running`), because each of their steps is one that
  `EpollPoller` allows (`Uses`): `AcceptorKnows` and `LoopKnows` say what an owner
  knows of its channel at each point of its life, which is what the callers of
  the poller have to know.  The two failing destructors change nothing but
  `addedToLoop_`, so the promises outlive them (`PollerPromises`).
  `ActiveAreAlive` is `LoopKept`: nothing is destroyed while `loop()` runs, and a
  loop that has polled never returns.

Induction.  The induction theorems of the library take a predicate as a
parameter, which these provers cannot instantiate.  `AsyncLoggingProofs` therefore
proves induction for sets instead: every set of naturals that is not empty has a
least member, since the intervals below them are well-founded under inclusion
(`LeastNumber`), so a set that contains 0 and every successor contains `Nat`
(`InductionOnNumbers`), and likewise for `<<>>`, `Append` and the sequences
(`InductionOnSequences`).  That a recursive function exists and satisfies its
equation is `PrimitiveRecursion` for sequences and, in `LogStreamProofs`,
`RecursionExists` for any domain with a rank that goes down.  It gives the powers,
the digits of a number and their value (`PowersExist`, `DigitsExist`,
`ValuesExist`).

Only model-checked: all liveness, since neither fairness nor `ENABLED` can be
handled by the prover; and, by its nature, what is refuted.  Every invariant that a
run checks is a theorem; `JobsInOrder`, that a worker executes its tasks in order, is
proved and not run, being for the most part the order of one queue.

## Not modelled, and why

* `Acceptor::pause`, `resume` and `handleRead`, `Channel::handleEvent`, `tie` and
  the callbacks: `loop()` polls and handles nothing, so none of them has a caller
  that can reach it, no connection is accepted and `pause_` is never read.
* `EventLoopThreadPool`: `start()` allocates threads and never starts them.
* `Socket`, `InetAddress`, `Connector`, `Timestamp`, `Singleton`, `Types`: thin
  wrappers of system calls, value types, an empty class.
* The waiting `pop()` of `BlockingQueue`, which nothing in the library calls.
* The scaling of `dtoa_milo()` (`DiyFp`, `GetCachedPower`): arithmetic of 64 and
  128 bits on tables of constants.
* Tasks that throw (the process aborts), write errors of a file (reported to
  `stderr` and ignored), not-a-number and infinity (asserted against), thread
  names and cached thread ids.

## Plan

The order was: the queue, because everything is built on it; the pool and its
shutdown; logging, from the front end to the file; `Thread` under both; the
poller; the formatting; then the composition of logger and `Thread`, the event
loop and its acceptors on the poller, running averages under LB0, and the proofs
of pool, logger, file, loop and dispatcher.  What is left:

1. The scaling of `dtoa_milo()` in 64 bits, which would show that what it makes of
   every double satisfies `IsInterval`.
2. `Channel::handleEvent`, `pause` and `resume`, and functors, as soon as `loop()`
   dispatches events.
