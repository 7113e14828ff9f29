------------------------------ MODULE ThreadPool ------------------------------
(***************************************************************************)
(* ycnt::base::ThreadPool: an owner that builds, starts and stops the      *)
(* pool, N worker threads with a BoundedBlockingQueue each, and clients    *)
(* that submit jobs with run() and waitableRun().  The worker a job goes   *)
(* to is any worker here; module Dispatch is about how it is chosen.       *)
(***************************************************************************)
EXTENDS Naturals, Sequences, Functions

CONSTANTS N,            \* number of workers (at least one: see RunInline in Dispatch)
          Clients,      \* threads that call run() or waitableRun()
          Owner,        \* the thread that builds, starts and stops the pool
          Capacities,   \* what a pool may be given as maxQueueSize
          MaxJobs       \* bound: jobs submitted in a behaviour

Workers == 0 .. N - 1
Jobs == 1 .. MaxJobs
InitTask == 0            \* initCallback_
StopTask == MaxJobs + 1  \* the empty task that stop() pushes
Tasks == Jobs \cup {InitTask, StopTask}

ASSUME PoolAssumption ==
  /\ N \in Nat \ {0} /\ Capacities \subseteq Nat /\ MaxJobs \in Nat
  /\ Owner \notin Clients \cup Workers /\ Clients \cap Workers = {}

VARIABLES opc,      \* where the owner is
          at,       \* the worker its loop has reached
          running,  \* Worker::running_
          wpc,      \* where each worker thread is
          cur,      \* the task a worker holds: at most one
          tasks,    \* Worker::tasks_
          maxQueueSize, \* and the capacity they all have
          asleep,   \* workers in notEmpty_.wait of their queue
          blocked,  \* threads in notFull_.wait of the queue they push to
          cpc,      \* where each client is
          req,      \* <<worker, job>> of a client's last call
          issued,   \* jobs 1 .. issued have been handed to run()
          accepted, \* history: what entered each queue
          ran       \* history: what each worker executed

ownerVars == <<opc, at>>
clientVars == <<cpc, req, issued>>
vars == <<opc, at, running, wpc, cur, tasks, maxQueueSize, asleep, blocked, cpc, req,
          issued, accepted, ran>>

Init ==
  /\ opc = "none" /\ at = 0
  /\ running = [w \in Workers |-> FALSE]
  /\ wpc = [w \in Workers |-> "unstarted"]
  /\ cur = [w \in Workers |-> <<>>]
  /\ tasks = [w \in Workers |-> <<>>]
  /\ maxQueueSize \in Capacities
  /\ asleep = {} /\ blocked = {}
  /\ cpc = [c \in Clients |-> "idle"]
  /\ req = [c \in Clients |-> <<0, 0>>]
  /\ issued = 0
  /\ accepted = [w \in Workers |-> <<>>]
  /\ ran = [w \in Workers |-> <<>>]

\* Mutants of the code that the properties below must notice.
HasRoomOffByOne(w) == Len(tasks[w]) <= maxQueueSize
NotifyNobody(w) == asleep
NewestFirst(w) == tasks[w][Len(tasks[w])]
NeverClears(w, b) == running' = [running EXCEPT ![w] = @ \/ b]
NoReset(i) == i + 1
NotDestroyed(w, j) == FALSE
Detached(w) == wpc[w] # "unstarted"

(* Critical sections of the worker's BoundedBlockingQueue. *)
HasRoom(w) == Len(tasks[w]) < maxQueueSize
Notify(w) == asleep \ {w}
Front(w) == Head(tasks[w])

Enqueue(w, task) ==
  /\ HasRoom(w)
  /\ tasks' = [tasks EXCEPT ![w] = Append(@, task)]
  /\ accepted' = [accepted EXCEPT ![w] = Append(@, task)]
  /\ asleep' = Notify(w)

SleepUntilRoom(t, w) ==
  /\ ~HasRoom(w)
  /\ blocked' = blocked \cup {t}

-----------------------------------------------------------------------------
(* The owner.  Its loops over workers_ take one worker after the other. *)
NextIndex(i) == (i + 1) % N
Advance(again, done) ==
  /\ at' = NextIndex(at)
  /\ opc' = IF at = N - 1 THEN done ELSE again

SetRunning(w, b) == running' = [running EXCEPT ![w] = b]

NewThreadPool ==
  /\ opc = "none"
  /\ opc' = "construct"
  /\ UNCHANGED <<at, running, wpc, cur, tasks, asleep, blocked, clientVars,
                 accepted, ran, maxQueueSize>>

Construct == \* the constructor of a Worker pushes the callback
  /\ opc = "construct" /\ Owner \notin blocked
  /\ Enqueue(at, InitTask)
  /\ Advance("construct", "built")
  /\ UNCHANGED <<running, wpc, cur, blocked, clientVars, ran, maxQueueSize>>

StartWorker == \* thread_.start() returns once the thread runs
  /\ opc \in {"built", "start"}
  /\ SetRunning(at, TRUE)
  /\ wpc' = [wpc EXCEPT ![at] = "test"]
  /\ Advance("start", "started")
  /\ UNCHANGED <<cur, tasks, asleep, blocked, clientVars, accepted, ran,
                 maxQueueSize>>

ClearRunning == \* stop(), or ~ThreadPool() of a pool that was started
  /\ opc \in {"started", "clear"}
  /\ SetRunning(at, FALSE)
  /\ opc' = "push"
  /\ UNCHANGED <<at, wpc, cur, tasks, asleep, blocked, clientVars, accepted,
                 ran, maxQueueSize>>

PushStopTask ==
  /\ opc = "push" /\ Owner \notin blocked
  /\ Enqueue(at, StopTask)
  /\ opc' = "join"
  /\ UNCHANGED <<at, running, wpc, cur, blocked, clientVars, ran,
                 maxQueueSize>>

OwnerBlocks ==
  /\ opc \in {"construct", "push"} /\ Owner \notin blocked
  /\ SleepUntilRoom(Owner, at)
  /\ UNCHANGED <<ownerVars, running, wpc, cur, tasks, asleep, clientVars,
                 accepted, ran, maxQueueSize>>

Exited(w) == wpc[w] = "exited"
Join ==
  /\ opc = "join"
  /\ Exited(at)
  /\ Advance("clear", "stopped")
  /\ UNCHANGED <<running, wpc, cur, tasks, asleep, blocked, clientVars,
                 accepted, ran, maxQueueSize>>

(* ~ThreadPool() of a pool that has never run, or has been stopped: nobody *)
(* may be inside run(), but callers of waitableRun() may hold futures.     *)
Destroy ==
  /\ opc \in {"built", "stopped"} /\ \A c \in Clients : cpc[c] # "push"
  /\ opc' = "gone"
  /\ UNCHANGED <<at, running, wpc, cur, tasks, asleep, blocked, clientVars, accepted,
                 ran, maxQueueSize>>

OwnerBegins ==
  \/ NewThreadPool \/ Destroy
  \/ opc = "built" /\ StartWorker
  \/ opc = "started" /\ ClearRunning
OwnerContinues ==
  \/ Construct \/ PushStopTask \/ OwnerBlocks \/ Join
  \/ opc = "start" /\ StartWorker
  \/ opc = "clear" /\ ClearRunning

-----------------------------------------------------------------------------
(* A worker thread: runInThread(). *)
TestRunning(w) ==
  /\ wpc[w] = "test"
  /\ wpc' = [wpc EXCEPT ![w] = IF running[w] THEN "pop" ELSE "exited"]
  /\ UNCHANGED <<ownerVars, running, cur, tasks, asleep, blocked, clientVars,
                 accepted, ran, maxQueueSize>>

PopWait(w) ==
  /\ wpc[w] = "pop" /\ w \notin asleep
  /\ tasks[w] = <<>>
  /\ asleep' = asleep \cup {w}
  /\ UNCHANGED <<ownerVars, running, wpc, cur, tasks, blocked, clientVars,
                 accepted, ran, maxQueueSize>>

PopDone(w) ==
  /\ wpc[w] = "pop" /\ w \notin asleep
  /\ tasks[w] # <<>>
  /\ cur' = [cur EXCEPT ![w] = <<Front(w)>>]
  /\ tasks' = [tasks EXCEPT ![w] = Tail(@)]
  /\ wpc' = [wpc EXCEPT ![w] = "run"]
  /\ UNCHANGED <<ownerVars, running, asleep, blocked, clientVars, accepted,
                 ran, maxQueueSize>>

RunTask(w) == \* up to the end of the task; a packaged_task sets its future
  /\ wpc[w] = "run"
  /\ ran' = [ran EXCEPT ![w] = @ \o cur[w]]
  /\ cur' = [cur EXCEPT ![w] = <<>>]
  /\ wpc' = [wpc EXCEPT ![w] = "test"]
  /\ UNCHANGED <<ownerVars, running, tasks, asleep, blocked, clientVars,
                 accepted, maxQueueSize>>

Worker(w) == TestRunning(w) \/ PopWait(w) \/ PopDone(w) \/ RunTask(w)

-----------------------------------------------------------------------------
(* A client: run() or waitableRun() of the next job, at any time of the    *)
(* life of the pool: nothing in run() looks at running_.                   *)
BeginRun(c, w) ==
  /\ cpc[c] = "idle" /\ issued < MaxJobs /\ opc \notin {"none", "construct", "gone"}
  /\ issued' = issued + 1
  /\ req' = [req EXCEPT ![c] = <<w, issued + 1>>]
  /\ cpc' = [cpc EXCEPT ![c] = "push"]
  /\ UNCHANGED <<ownerVars, running, wpc, cur, tasks, asleep, blocked,
                 accepted, ran, maxQueueSize>>

Submit(c) == \* then run() is over, and the caller of waitableRun() waits
  /\ cpc[c] = "push" /\ c \notin blocked
  /\ Enqueue(req[c][1], req[c][2])
  /\ \E then \in {"idle", "wait"} : cpc' = [cpc EXCEPT ![c] = then]
  /\ UNCHANGED <<ownerVars, running, wpc, cur, blocked, req, issued, ran,
                 maxQueueSize>>

SubmitBlocks(c) ==
  /\ cpc[c] = "push" /\ c \notin blocked
  /\ SleepUntilRoom(c, req[c][1])
  /\ UNCHANGED <<ownerVars, running, wpc, cur, tasks, asleep, clientVars,
                 accepted, ran, maxQueueSize>>

Done(w, j) == j \in Range(ran[w])
Broken(w, j) == opc = "gone" /\ j \in Range(tasks[w]) \* destroyed with its queue

FutureReady(c) == \* with a result, or with broken_promise
  /\ cpc[c] = "wait"
  /\ Done(req[c][1], req[c][2]) \/ Broken(req[c][1], req[c][2])
  /\ cpc' = [cpc EXCEPT ![c] = "idle"]
  /\ UNCHANGED <<ownerVars, running, wpc, cur, tasks, asleep, blocked, req, issued,
                 accepted, ran, maxQueueSize>>

Client(c) == Submit(c) \/ SubmitBlocks(c) \/ FutureReady(c)

SpuriousWakeup ==
  /\ \/ \E w \in asleep : asleep' = asleep \ {w} /\ UNCHANGED blocked
     \/ \E t \in blocked : blocked' = blocked \ {t} /\ UNCHANGED asleep
  /\ UNCHANGED <<ownerVars, running, wpc, cur, tasks, clientVars, accepted,
                 ran, maxQueueSize>>

Next ==
  \/ OwnerBegins \/ OwnerContinues
  \/ \E w \in Workers : Worker(w)
  \/ \E c \in Clients : Client(c) \/ \E w \in Workers : BeginRun(c, w)
  \/ SpuriousWakeup

Spec == Init /\ [][Next]_vars

(* The scheduler runs every thread that can run, and jobs terminate.       *)
(* Nobody has to start or stop the pool, to submit, or to wake spuriously. *)
FairSpec ==
  /\ Spec
  /\ WF_vars(OwnerContinues)
  /\ \A w \in Workers : WF_vars(Worker(w))
  /\ \A c \in Clients : WF_vars(Client(c))

-----------------------------------------------------------------------------
(* Types of the variables, and who may be in which wait set. *)
TypeOK ==
  /\ opc \in {"none", "construct", "built", "start", "started", "clear", "push", "join",
              "stopped", "gone"}
  /\ at \in Workers
  /\ running \in [Workers -> BOOLEAN]
  /\ wpc \in [Workers -> {"unstarted", "test", "pop", "run", "exited"}]
  /\ cur \in [Workers -> Seq(Tasks)]
  /\ tasks \in [Workers -> Seq(Tasks)]
  /\ maxQueueSize \in Capacities
  /\ asleep \in SUBSET {w \in Workers : wpc[w] = "pop"}
  /\ blocked \subseteq Clients \cup {Owner}
  /\ cpc \in [Clients -> {"idle", "push", "wait"}]
  /\ req \in [Clients -> Workers \X (Jobs \cup {0})]
  /\ issued \in 0 .. MaxJobs
  /\ accepted \in [Workers -> Seq(Tasks)]
  /\ ran \in [Workers -> Seq(Tasks)]

(* Each worker executes what entered its queue once, in order, whatever    *)
(* the clients, the owner and the spurious wakeups do in between           *)
(* (ThreadPool.cpp:57-60, 74-87).                                          *)
WorkerOrder == \A w \in Workers : accepted[w] = ran[w] \o cur[w] \o tasks[w]

(* A worker executes the init callback before any job, also when clients   *)
(* submit before start() (ThreadPool.cpp:32, 45).                          *)
InitCallbackFirst ==
  \A w \in Workers : ran[w] # <<>> => ran[w][1] = InitTask

(* The worker that stop() joins never sleeps for good: if it is inside     *)
(* pop() there is a task for it, for running_ was cleared before the empty *)
(* task was pushed (ThreadPool.cpp:48-55 against 77-78).                   *)
StopReachesWorker ==
  opc = "join" /\ wpc[at] = "pop" => tasks[at] # <<>> /\ at \notin asleep

(* When stop() has returned, and when the pool is destroyed, no worker     *)
(* thread is left (ThreadPool.cpp:163-169, 145-150).                       *)
StoppedIsQuiet ==
  opc \in {"stopped", "gone"} =>
    \A w \in Workers : wpc[w] \in {"unstarted", "exited"} /\ cur[w] = <<>>

(* Every worker's queue is used as a BoundedBlockingQueue and nothing      *)
(* else: the pool composes N of them with its threads.                     *)
CallOn(w) ==
  [t \in Clients \cup {Owner, w} |->
     CASE t = w -> IF wpc[w] = "pop" THEN "pop" ELSE "idle"
       [] t = Owner -> IF at = w /\ opc \in {"construct", "push"}
                       THEN "push" ELSE "idle"
       [] OTHER -> IF cpc[t] = "push" /\ req[t][1] = w THEN "push" ELSE "idle"]
Queue(n, w) == INSTANCE BoundedBlockingQueue
  WITH MaxQueueSize <- n, Threads <- Clients \cup {Owner, w}, Items <- Tasks, MaxPushes <- MaxJobs + 2,
       queue <- tasks[w], call <- CallOn(w), notEmpty <- asleep \cap {w},
       notFull <- {t \in blocked : CallOn(w)[t] = "push"},
       pushed <- accepted[w], taken <- ran[w] \o cur[w]
QueuesAsSpecified ==
  /\ \A w \in Workers : Queue(maxQueueSize, w)!Init
  /\ [][\A w \in Workers, n \in Capacities :
          n = maxQueueSize => Queue(n, w)!Next \/ UNCHANGED Queue(n, w)!vars]_vars

(* A job that entered the queue of a running worker is executed, or the    *)
(* worker is being stopped.                                                *)
AcceptedJobRuns ==
  \A w \in Workers, j \in Jobs :
    (j \in Range(accepted[w]) /\ running[w]) ~> (Done(w, j) \/ ~running[w])

(* stop() returns: every worker sees running_ or gets the empty task, if   *)
(* there is room for it: an owner asleep in notFull_ is never notified.    *)
RoomForAll == maxQueueSize >= MaxJobs + 2
StopReturns == (opc = "push" /\ RoomForAll) ~> (opc = "stopped")

(* Whoever waits for a future when the pool is destroyed gets an answer:   *)
(* jobs that stop() left in the queues are not executed, but their         *)
(* promises die with them (ThreadPool.cpp:77-78, ThreadPool.h:50-68).      *)
FuturesSettle ==
  \A c \in Clients : (cpc[c] = "wait" /\ opc = "gone") ~> (cpc[c] = "idle")

(* ThreadPool.h:44-45: "the submitted job will be executed in thread       *)
(* workers[workerId % workerSize]", of a run() that has to wait for room in *)
(* a pool that is never stopped.  Refuted: pop() does not notify notFull_. *)
BlockedSubmitExecuted ==
  \A c \in Clients, j \in Jobs :
    (cpc[c] = "push" /\ req[c][2] = j /\ running[req[c][1]])
      ~> (Done(req[c][1], j) \/ ~running[req[c][1]])
=============================================================================
