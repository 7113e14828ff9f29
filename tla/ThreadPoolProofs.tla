-------------------------- MODULE ThreadPoolProofs --------------------------
(***************************************************************************)
(* Safety of ThreadPool, for every number of workers, every set of clients *)
(* and every capacity of the queues.                                       *)
(***************************************************************************)
EXTENDS ThreadPool, SequenceTheorems, FiniteSetTheorems, TLAPS

(* The front of a queue leaves it in two steps: it is held on its own for  *)
(* a while.                                                                *)
LEMMA FrontHeld ==
  ASSUME NEW S, NEW q \in Seq(S), NEW s \in Seq(S), q # <<>>
  PROVE  s \o q = (s \o <<Head(q)>>) \o Tail(q)
<1>1. q = <<Head(q)>> \o Tail(q)
  OBVIOUS
<1> QED
  BY <1>1

(* What enters a queue at its end enters what leaves it, too. *)
LEMMA EndMoves ==
  ASSUME NEW S, NEW q \in Seq(S), NEW s \in Seq(S), NEW x \in S
  PROVE  s \o Append(q, x) = Append(s \o q, x)
OBVIOUS

(* Nothing to add. *)
LEMMA NothingAdded ==
  ASSUME NEW S, NEW s \in Seq(S)
  PROVE  s \o <<>> = s
OBVIOUS

(* The front of a queue is the front of whatever it is the beginning of. *)
LEMMA FrontOfBoth ==
  ASSUME NEW S, NEW s \in Seq(S), NEW q \in Seq(S), s # <<>>
  PROVE  s \o q \in Seq(S) /\ s \o q # <<>> /\ (s \o q)[1] = s[1]
<1>1. Len(s) \in Nat /\ Len(q) \in Nat /\ Len(s) # 0
  OBVIOUS
<1>2. Len(s \o q) = Len(s) + Len(q)
  OBVIOUS
<1>3. s \o q \in Seq(S) /\ (s \o q)[1] = s[1]
  BY <1>1, <1>2
<1> QED
  BY <1>1, <1>2, <1>3

(* The loops of start() and stop() over workers_ visit one index after the *)
(* other and begin at zero again.                                          *)
LEMMA NextIndexIs ==
  ASSUME NEW i \in Workers
  PROVE  NextIndex(i) = IF i = N - 1 THEN 0 ELSE i + 1
<1>1. N \in Nat \ {0} /\ i \in 0 .. N - 1
  BY PoolAssumption DEF Workers
<1>2. CASE i = N - 1
  BY <1>1, <1>2, N % N = 0 DEF NextIndex
<1>3. CASE i # N - 1
  <2>1. i + 1 \in 0 .. N - 1
    BY <1>1, <1>3
  <2> QED
    BY <1>1, <1>3, <2>1, (i + 1) % N = i + 1 DEF NextIndex
<1> QED
  BY <1>2, <1>3

(* The order in which the owner starts and joins the workers, which the    *)
(* types alone do not give: threads behind its loop are not yet, or not    *)
(* any more, and a worker holds a task only while it executes it.          *)
NotYet(w) == opc \in {"none", "construct", "built"} \/ (opc = "start" /\ w >= at)
Over(w) == opc = "stopped" \/ (opc \in {"clear", "push", "join"} /\ w < at)
InOrder ==
  /\ opc \in {"none", "built", "started"} => at = 0
  /\ \A w \in Workers :
       /\ NotYet(w) => wpc[w] = "unstarted"
       /\ Over(w) => wpc[w] = "exited"
       /\ opc = "gone" => wpc[w] \in {"unstarted", "exited"}
       /\ wpc[w] # "run" => cur[w] = <<>>
  /\ opc \in {"push", "join"} => ~running[at]

(* A task that enters a queue keeps the types, and nobody falls asleep. *)
LEMMA EnqueueTypes ==
  ASSUME TypeOK, NEW w \in Workers, NEW task \in Tasks, Enqueue(w, task)
  PROVE  /\ tasks' \in [Workers -> Seq(Tasks)] /\ accepted' \in [Workers -> Seq(Tasks)]
         /\ asleep' \subseteq asleep
BY DEF TypeOK, Enqueue, Notify

(* Every step keeps the types.                                             *)
LEMMA TypeStep == TypeOK /\ InOrder /\ [Next]_vars => TypeOK'
<1> SUFFICES ASSUME TypeOK, InOrder, [Next]_vars PROVE TypeOK'
  OBVIOUS
<1> USE PoolAssumption DEF TypeOK
<1>a. InitTask \in Tasks /\ StopTask \in Tasks /\ Jobs \subseteq Tasks
  BY DEF Tasks
<1>b. NextIndex(at) \in Workers
  <2>1. NextIndex(at) = IF at = N - 1 THEN 0 ELSE at + 1
    BY NextIndexIs
  <2> QED
    BY <2>1 DEF Workers
<1>c. \A c \in Clients : req[c][1] \in Workers /\ req[c][2] \in Tasks
  BY DEF Tasks, InitTask
<1>1. CASE NewThreadPool \/ Destroy
  BY <1>1 DEF NewThreadPool, Destroy, clientVars
<1>2. CASE Construct
  <2>1. at' \in Workers /\ opc' \in {"construct", "built"}
    BY <1>b, <1>2 DEF Construct, Advance
  <2>2. UNCHANGED <<running, wpc, cur, blocked, cpc, req, issued, ran, maxQueueSize>>
    BY <1>2 DEF Construct, clientVars
  <2>3. Enqueue(at, InitTask)
    BY <1>2 DEF Construct
  <2> QED
    BY <1>a, <2>1, <2>2, <2>3, EnqueueTypes
<1>3. CASE StartWorker
  <2>1. at' \in Workers /\ opc' \in {"start", "started"}
    BY <1>b, <1>3 DEF StartWorker, Advance
  <2>2. running' \in [Workers -> BOOLEAN]
    BY <1>3 DEF StartWorker, SetRunning
  <2>3. wpc[at] = "unstarted"
    BY <1>3 DEF StartWorker, InOrder, NotYet, Workers
  <2>4. /\ wpc' \in [Workers -> {"unstarted", "test", "pop", "run", "exited"}]
        /\ asleep' \in SUBSET {w \in Workers : wpc'[w] = "pop"}
    BY <1>3, <2>3 DEF StartWorker
  <2> QED
    BY <1>3, <2>1, <2>2, <2>4 DEF StartWorker, clientVars
<1>4. CASE ClearRunning
  BY <1>4 DEF ClearRunning, SetRunning, clientVars
<1>5. CASE PushStopTask
  BY <1>a, <1>5 DEF PushStopTask, Enqueue, Notify, clientVars
<1>6. CASE OwnerBlocks
  BY <1>6 DEF OwnerBlocks, SleepUntilRoom, ownerVars, clientVars
<1>7. CASE Join
  BY <1>b, <1>7 DEF Join, Advance, clientVars
<1>8. ASSUME NEW w \in Workers, Worker(w) PROVE TypeOK'
  <2> USE DEF ownerVars, clientVars
  <2>1. CASE TestRunning(w)
    BY <2>1 DEF TestRunning
  <2>2. CASE PopWait(w)
    BY <2>2 DEF PopWait
  <2>3. CASE PopDone(w)
    BY <2>3, SMTT(30) DEF PopDone, Front
  <2>4. CASE RunTask(w)
    BY <2>4 DEF RunTask
  <2> QED
    BY <1>8, <2>1, <2>2, <2>3, <2>4 DEF Worker
<1>9. ASSUME NEW c \in Clients, NEW w \in Workers, BeginRun(c, w) PROVE TypeOK'
  <2>1. issued + 1 \in Jobs /\ issued' = issued + 1
    BY <1>9 DEF BeginRun, Jobs
  <2>2. req' \in [Clients -> Workers \X (Jobs \cup {0})]
    BY <1>9, <2>1 DEF BeginRun
  <2>3. issued' \in 0 .. MaxJobs
    BY <2>1 DEF Jobs
  <2> QED
    BY <1>9, <2>2, <2>3 DEF BeginRun, ownerVars
<1>10. ASSUME NEW c \in Clients, Submit(c) PROVE TypeOK'
  <2>1. Enqueue(req[c][1], req[c][2])
    BY <1>10 DEF Submit
  <2>2. cpc' \in [Clients -> {"idle", "push", "wait"}]
    BY <1>10 DEF Submit
  <2>3. UNCHANGED <<opc, at, running, wpc, cur, blocked, req, issued, ran, maxQueueSize>>
    BY <1>10 DEF Submit, ownerVars
  <2> QED
    BY <1>c, <2>1, <2>2, <2>3, EnqueueTypes
<1>11. ASSUME NEW c \in Clients, SubmitBlocks(c) \/ FutureReady(c) PROVE TypeOK'
  BY <1>11 DEF SubmitBlocks, SleepUntilRoom, FutureReady, ownerVars, clientVars
<1>12. CASE SpuriousWakeup
  BY <1>12 DEF SpuriousWakeup, ownerVars, clientVars
<1>13. CASE UNCHANGED vars
  BY <1>13 DEF vars
<1> QED
  BY <1>1, <1>2, <1>3, <1>4, <1>5, <1>6, <1>7, <1>8, <1>9, <1>10, <1>11, <1>12, <1>13
  DEF Next, OwnerBegins, OwnerContinues, Client

(* ... and the place of the loops.                                         *)
LEMMA OrderStep == TypeOK /\ InOrder /\ [Next]_vars => InOrder'
<1> SUFFICES ASSUME TypeOK, InOrder, [Next]_vars PROVE InOrder'
  OBVIOUS
<1> USE PoolAssumption DEF InOrder, NotYet, Over
<1>a. at \in Workers /\ NextIndex(at) = IF at = N - 1 THEN 0 ELSE at + 1
  BY NextIndexIs DEF TypeOK
<1>b. \A w \in Workers : w \in Int /\ 0 <= w /\ w <= N - 1
  BY DEF Workers
<1>1. CASE NewThreadPool \/ Destroy
  BY <1>1 DEF NewThreadPool, Destroy
<1>2. CASE Construct
  BY <1>a, <1>2 DEF Construct, Advance
<1>3. CASE StartWorker
  <2>1. /\ opc \in {"built", "start"} /\ wpc' = [wpc EXCEPT ![at] = "test"] /\ cur' = cur
        /\ opc' = (IF at = N - 1 THEN "started" ELSE "start") /\ at' = NextIndex(at)
    BY <1>3 DEF StartWorker, Advance
  <2>2. \A w \in Workers : opc' = "start" /\ w >= at' => wpc'[w] = "unstarted"
    BY <1>a, <1>b, <2>1 DEF TypeOK
  <2>3. \A w \in Workers : wpc'[w] # "run" => cur'[w] = <<>>
    <3>1. wpc[at] = "unstarted"
      BY <1>a, <1>b, <2>1
    <3> QED
      BY <1>a, <2>1, <3>1 DEF TypeOK
  <2> QED
    BY <1>a, <2>1, <2>2, <2>3
<1>4. CASE ClearRunning
  BY <1>a, <1>b, <1>4 DEF ClearRunning, SetRunning, TypeOK
<1>5. CASE PushStopTask \/ OwnerBlocks
  BY <1>5 DEF PushStopTask, OwnerBlocks, ownerVars
<1>6. CASE Join
  <2>1. /\ opc = "join" /\ wpc[at] = "exited" /\ UNCHANGED <<wpc, cur>>
        /\ opc' = (IF at = N - 1 THEN "stopped" ELSE "clear") /\ at' = NextIndex(at)
    BY <1>6 DEF Join, Exited, Advance
  <2>2. \A w \in Workers : w <= at => wpc[w] = "exited"
    BY <1>a, <1>b, <2>1
  <2> QED
    BY <1>a, <1>b, <2>1, <2>2
<1>7. ASSUME NEW w \in Workers, Worker(w) PROVE InOrder'
  <2>1. CASE TestRunning(w)
    BY <2>1 DEF TestRunning, ownerVars, TypeOK
  <2>2. CASE PopWait(w)
    BY <2>2 DEF PopWait, ownerVars
  <2>3. CASE PopDone(w)
    BY <2>3 DEF PopDone, ownerVars, TypeOK
  <2>4. CASE RunTask(w)
    BY <2>4 DEF RunTask, ownerVars, TypeOK
  <2> QED
    BY <1>7, <2>1, <2>2, <2>3, <2>4 DEF Worker
<1>8. ASSUME NEW c \in Clients, Client(c) \/ \E w \in Workers : BeginRun(c, w) PROVE InOrder'
  BY <1>8 DEF Client, Submit, SubmitBlocks, FutureReady, BeginRun, ownerVars
<1>9. CASE SpuriousWakeup \/ UNCHANGED vars
  BY <1>9 DEF SpuriousWakeup, vars, ownerVars
<1> QED
  BY <1>1, <1>2, <1>3, <1>4, <1>5, <1>6, <1>7, <1>8, <1>9 DEF Next, OwnerBegins, OwnerContinues

LEMMA TypedAndInOrder == Spec => [](TypeOK /\ InOrder)
<1>1. Init => TypeOK /\ InOrder
  BY PoolAssumption DEF Init, TypeOK, InOrder, NotYet, Over, Workers, Tasks, InitTask
<1> QED
  BY <1>1, TypeStep, OrderStep, PTL DEF Spec

(* Types of the pool: the index of the owner's loop stays inside workers_, *)
(* and only workers inside pop() sleep there.                              *)
THEOREM TypeCorrect == Spec => []TypeOK
BY TypedAndInOrder, PTL

(* When stop() has returned, and when the pool is destroyed, no worker     *)
(* thread is left and none holds a task.                                   *)
THEOREM NobodyIsLeft == Spec => []StoppedIsQuiet
<1>1. InOrder => StoppedIsQuiet
  BY DEF InOrder, Over, StoppedIsQuiet
<1> QED
  BY <1>1, TypedAndInOrder, PTL

(* The worker that stop() joins does not sleep for good: running_ was      *)
(* cleared first, so the worker tests it, or it is in pop() and finds the  *)
(* empty task, at the latest.                                              *)
THEOREM StopIsSeen == Spec => []StopReachesWorker
<1> USE DEF StopReachesWorker
<1>1. Init => StopReachesWorker
  BY DEF Init
<1>2. TypeOK /\ InOrder /\ StopReachesWorker /\ [Next]_vars => StopReachesWorker'
  <2> SUFFICES ASSUME TypeOK, InOrder, StopReachesWorker, [Next]_vars
               PROVE  StopReachesWorker'
    OBVIOUS
  <2>1. CASE PushStopTask
    <3>1. at \in Workers /\ tasks \in [Workers -> Seq(Tasks)] /\ StopTask \in Tasks
      BY DEF TypeOK, Tasks
    <3>2. tasks'[at] = Append(tasks[at], StopTask) /\ asleep' = asleep \ {at} /\ at' = at
      BY <2>1, <3>1 DEF PushStopTask, Enqueue, Notify
    <3>3. tasks'[at] # <<>>
      BY <3>1, <3>2
    <3> QED
      BY <3>2, <3>3
  <2>2. CASE NewThreadPool \/ Destroy \/ Construct \/ StartWorker \/ ClearRunning \/ OwnerBlocks \/ Join
    BY <2>2 DEF NewThreadPool, Destroy, Construct, StartWorker, ClearRunning, OwnerBlocks, Join, Advance, ownerVars
  <2>3. ASSUME NEW w \in Workers, Worker(w) PROVE StopReachesWorker'
    <3>1. CASE TestRunning(w)
      BY <3>1 DEF TestRunning, ownerVars, TypeOK, InOrder
    <3>2. CASE PopWait(w)
      BY <3>2 DEF PopWait, ownerVars
    <3>3. CASE PopDone(w) \/ RunTask(w)
      BY <3>3 DEF PopDone, RunTask, ownerVars, TypeOK
    <3> QED
      BY <2>3, <3>1, <3>2, <3>3 DEF Worker
  <2>4. ASSUME NEW c \in Clients, Submit(c) PROVE StopReachesWorker'
    <3>1. at \in Workers /\ req[c][1] \in Workers /\ tasks \in [Workers -> Seq(Tasks)]
      BY DEF TypeOK
    <3>2. req[c][2] \in Tasks
      BY DEF TypeOK, Tasks, InitTask
    <3>3. tasks'[at] = tasks[at] \/ tasks'[at] = Append(tasks[at], req[c][2])
      BY <2>4, <3>1 DEF Submit, Enqueue
    <3>4. tasks[at] # <<>> => tasks'[at] # <<>>
      BY <3>1, <3>2, <3>3
    <3>5. asleep' \subseteq asleep /\ UNCHANGED <<opc, at, wpc>>
      BY <2>4 DEF Submit, Enqueue, Notify, ownerVars
    <3> QED
      BY <3>4, <3>5
  <2>5. ASSUME NEW c \in Clients, SubmitBlocks(c) \/ FutureReady(c) \/ \E w \in Workers : BeginRun(c, w)
        PROVE  StopReachesWorker'
    BY <2>5 DEF SubmitBlocks, FutureReady, BeginRun, ownerVars
  <2>6. CASE SpuriousWakeup \/ UNCHANGED vars
    BY <2>6 DEF SpuriousWakeup, vars, ownerVars
  <2> QED
    BY <2>1, <2>2, <2>3, <2>4, <2>5, <2>6 DEF Next, OwnerBegins, OwnerContinues, Client
<1> QED
  BY <1>1, <1>2, TypedAndInOrder, PTL DEF Spec

(* Each worker executes what entered its queue once and in order: a task   *)
(* goes from the queue to the worker's hands and from there to what it has *)
(* executed, and nothing overtakes it.                                     *)
THEOREM JobsInOrder == Spec => []WorkerOrder
<1> USE DEF WorkerOrder
<1>1. Init => WorkerOrder
  BY DEF Init
<1>2. TypeOK /\ InOrder /\ WorkerOrder /\ [Next]_vars => WorkerOrder'
  <2> SUFFICES ASSUME TypeOK, InOrder, WorkerOrder, [Next]_vars PROVE WorkerOrder'
    OBVIOUS
  <2>a. /\ accepted \in [Workers -> Seq(Tasks)] /\ ran \in [Workers -> Seq(Tasks)]
        /\ cur \in [Workers -> Seq(Tasks)] /\ tasks \in [Workers -> Seq(Tasks)]
    BY DEF TypeOK
  <2>1. ASSUME NEW v \in Workers, NEW task \in Tasks, Enqueue(v, task),
               UNCHANGED <<ran, cur>>
        PROVE  WorkerOrder'
    <3>1. /\ tasks' = [tasks EXCEPT ![v] = Append(@, task)]
          /\ accepted' = [accepted EXCEPT ![v] = Append(@, task)]
      BY <2>1 DEF Enqueue
    <3>2. ran[v] \o cur[v] \in Seq(Tasks)
      BY <2>a
    <3>3. (ran[v] \o cur[v]) \o Append(tasks[v], task) = Append((ran[v] \o cur[v]) \o tasks[v], task)
      BY <2>a, <3>2, EndMoves
    <3> QED
      BY <2>a, <2>1, <3>1, <3>3
  <2>2. ASSUME NEW v \in Workers, Worker(v) PROVE WorkerOrder'
    <3>1. CASE TestRunning(v) \/ PopWait(v)
      BY <3>1 DEF TestRunning, PopWait
    <3>2. CASE PopDone(v)
      <4>1. /\ tasks[v] # <<>> /\ UNCHANGED <<accepted, ran>>
            /\ cur' = [cur EXCEPT ![v] = <<Head(tasks[v])>>]
            /\ tasks' = [tasks EXCEPT ![v] = Tail(@)]
        BY <3>2 DEF PopDone, Front
      <4>2. cur[v] = <<>>
        BY <3>2 DEF PopDone, InOrder
      <4>3. ran[v] \o tasks[v] = (ran[v] \o <<Head(tasks[v])>>) \o Tail(tasks[v])
        BY <2>a, <4>1, FrontHeld
      <4>4. ran[v] \o cur[v] = ran[v]
        BY <2>a, <4>2, NothingAdded
      <4> QED
        BY <2>a, <4>1, <4>3, <4>4
    <3>3. CASE RunTask(v)
      <4>1. /\ UNCHANGED <<accepted, tasks>>
            /\ ran' = [ran EXCEPT ![v] = @ \o cur[v]] /\ cur' = [cur EXCEPT ![v] = <<>>]
        BY <3>3 DEF RunTask
      <4>2. (ran[v] \o cur[v]) \o <<>> = ran[v] \o cur[v]
        BY <2>a, NothingAdded
      <4> QED
        BY <2>a, <4>1, <4>2
    <3> QED
      BY <2>2, <3>1, <3>2, <3>3 DEF Worker
  <2>3. CASE Construct \/ PushStopTask
    BY <2>1, <2>3 DEF Construct, PushStopTask, TypeOK, Tasks
  <2>4. ASSUME NEW c \in Clients, Submit(c) PROVE WorkerOrder'
    <3>1. req[c][1] \in Workers /\ req[c][2] \in Tasks
      BY DEF TypeOK, Tasks, InitTask
    <3> QED
      BY <2>1, <2>4, <3>1 DEF Submit
  <2>5. ASSUME NEW c \in Clients, SubmitBlocks(c) \/ FutureReady(c) \/ \E w \in Workers : BeginRun(c, w)
        PROVE  WorkerOrder'
    BY <2>5 DEF SubmitBlocks, FutureReady, BeginRun
  <2>6. CASE NewThreadPool \/ Destroy \/ StartWorker \/ ClearRunning \/ OwnerBlocks \/ Join
    BY <2>6 DEF NewThreadPool, Destroy, StartWorker, ClearRunning, OwnerBlocks, Join
  <2>7. CASE SpuriousWakeup \/ UNCHANGED vars
    BY <2>7 DEF SpuriousWakeup, vars
  <2> QED
    BY <2>2, <2>3, <2>4, <2>5, <2>6, <2>7 DEF Next, OwnerBegins, OwnerContinues, Client
<1> QED
  BY <1>1, <1>2, TypedAndInOrder, PTL DEF Spec

(* The callback is the first to enter every queue: clients cannot reach a  *)
(* pool before its construction is over, and they only append.             *)
Built(w) == opc \notin {"none", "construct"} \/ (opc = "construct" /\ w < at)
CallbackEntersFirst ==
  /\ opc \in {"none", "construct"} => \A c \in Clients : cpc[c] = "idle"
  /\ \A w \in Workers : IF Built(w) THEN accepted[w] # <<>> /\ accepted[w][1] = InitTask
                                    ELSE accepted[w] = <<>>

LEMMA EntersFirstStep ==
  TypeOK /\ InOrder /\ CallbackEntersFirst /\ [Next]_vars => CallbackEntersFirst'
<1> SUFFICES ASSUME TypeOK, InOrder, CallbackEntersFirst, [Next]_vars
             PROVE  CallbackEntersFirst'
  OBVIOUS
<1> USE DEF CallbackEntersFirst, Built
<1>a. /\ at \in Workers /\ NextIndex(at) = (IF at = N - 1 THEN 0 ELSE at + 1)
      /\ accepted \in [Workers -> Seq(Tasks)] /\ InitTask \in Tasks /\ StopTask \in Tasks
  BY NextIndexIs DEF TypeOK, Tasks
<1>b. \A w \in Workers : w \in Int /\ 0 <= w /\ w <= N - 1
  BY PoolAssumption DEF Workers
<1>c. ASSUME NEW s \in Seq(Tasks), NEW task \in Tasks
      PROVE  /\ Append(s, task) # <<>>
             /\ s # <<>> => Append(s, task)[1] = s[1]
             /\ s = <<>> => Append(s, task)[1] = task
  OBVIOUS
<1>1. ASSUME NEW v \in Workers, NEW task \in Tasks, Built(v), Enqueue(v, task),
             opc \notin {"none", "construct"}, opc' \notin {"none", "construct"}
      PROVE  CallbackEntersFirst'
  BY <1>a, <1>c, <1>1 DEF Enqueue
<1>2. CASE NewThreadPool
  <2>1. at = 0 /\ at' = 0 /\ UNCHANGED <<accepted, cpc>> /\ opc = "none" /\ opc' = "construct"
    BY <1>2 DEF NewThreadPool, InOrder, clientVars
  <2> QED
    BY <1>b, <2>1
<1>3. CASE Construct
  <2>1. /\ opc = "construct" /\ UNCHANGED cpc
        /\ accepted' = [accepted EXCEPT ![at] = Append(@, InitTask)]
        /\ opc' = (IF at = N - 1 THEN "built" ELSE "construct") /\ at' = NextIndex(at)
    BY <1>3 DEF Construct, Enqueue, Advance, clientVars
  <2>2. accepted[at] = <<>>
    BY <1>a, <1>b, <2>1
  <2>3. ASSUME NEW w \in Workers
        PROVE  IF w <= at THEN accepted'[w] # <<>> /\ accepted'[w][1] = InitTask
                          ELSE accepted'[w] = <<>>
    BY <1>a, <1>b, <1>c, <2>1, <2>2
  <2> QED
    BY <1>a, <1>b, <2>1, <2>3
<1>4. CASE PushStopTask
  BY <1>1, <1>a, <1>4 DEF PushStopTask
<1>5. CASE StartWorker \/ Join
  BY <1>5 DEF StartWorker, Join, Advance
<1>6. CASE Destroy \/ ClearRunning \/ OwnerBlocks
  BY <1>6 DEF Destroy, ClearRunning, OwnerBlocks, ownerVars, clientVars
<1>7. ASSUME NEW w \in Workers, Worker(w) PROVE CallbackEntersFirst'
  BY <1>7 DEF Worker, TestRunning, PopWait, PopDone, RunTask, ownerVars, clientVars
<1>8. ASSUME NEW c \in Clients, Submit(c) PROVE CallbackEntersFirst'
  <2>1. req[c][1] \in Workers /\ req[c][2] \in Tasks
    BY DEF TypeOK, Tasks, InitTask
  <2>2. opc \notin {"none", "construct"} /\ opc' = opc
    BY <1>8 DEF Submit, ownerVars
  <2> QED
    BY <1>1, <1>8, <2>1, <2>2 DEF Submit
<1>9. ASSUME NEW c \in Clients, SubmitBlocks(c) \/ FutureReady(c) \/ \E w \in Workers : BeginRun(c, w)
      PROVE  CallbackEntersFirst'
  BY <1>9 DEF SubmitBlocks, FutureReady, BeginRun, ownerVars, clientVars
<1>10. CASE SpuriousWakeup \/ UNCHANGED vars
  BY <1>10 DEF SpuriousWakeup, vars, ownerVars, clientVars
<1> QED
  BY <1>2, <1>3, <1>4, <1>5, <1>6, <1>7, <1>8, <1>9, <1>10
  DEF Next, OwnerBegins, OwnerContinues, Client

(* Every worker executes the init callback before anything else. *)
THEOREM CallbackFirst == Spec => []InitCallbackFirst
<1>1. Init => CallbackEntersFirst
  BY PoolAssumption DEF Init, CallbackEntersFirst, Built, Workers
<1>2. TypeOK /\ WorkerOrder /\ CallbackEntersFirst => InitCallbackFirst
  <2> SUFFICES ASSUME TypeOK, WorkerOrder, CallbackEntersFirst, NEW w \in Workers, ran[w] # <<>>
               PROVE  ran[w][1] = InitTask
    BY DEF InitCallbackFirst
  <2>1. ran[w] \in Seq(Tasks) /\ cur[w] \in Seq(Tasks) /\ tasks[w] \in Seq(Tasks)
    BY DEF TypeOK
  <2>2. accepted[w] = (ran[w] \o cur[w]) \o tasks[w]
    BY DEF WorkerOrder
  <2>3. (ran[w] \o cur[w])[1] = ran[w][1] /\ ran[w] \o cur[w] # <<>> /\ ran[w] \o cur[w] \in Seq(Tasks)
    BY <2>1, FrontOfBoth
  <2>4. accepted[w][1] = (ran[w] \o cur[w])[1] /\ accepted[w] # <<>>
    <3>1. \A s, q \in Seq(Tasks) : s # <<>> => s \o q # <<>> /\ (s \o q)[1] = s[1]
      BY FrontOfBoth
    <3> QED
      BY <2>1, <2>2, <2>3, <3>1, ZenonT(30)
  <2> QED
    BY <2>3, <2>4 DEF CallbackEntersFirst
<1> QED
  BY <1>1, <1>2, EntersFirstStep, TypedAndInOrder, TypeCorrect, JobsInOrder, PTL DEF Spec

-----------------------------------------------------------------------------
(* Who sleeps in notFull_ is inside push().                                *)
Waiting ==
  /\ \A c \in Clients : c \in blocked => cpc[c] = "push"
  /\ Owner \in blocked => opc \in {"construct", "push"}

LEMMA WaitingStep == TypeOK /\ Waiting /\ [Next]_vars => Waiting'
<1> SUFFICES ASSUME TypeOK, Waiting, [Next]_vars PROVE Waiting'
  OBVIOUS
<1> USE PoolAssumption DEF Waiting
<1>1. CASE OwnerBegins \/ OwnerContinues
  BY <1>1 DEF OwnerBegins, OwnerContinues, NewThreadPool, Destroy, Construct, StartWorker,
              ClearRunning, PushStopTask, OwnerBlocks, SleepUntilRoom, Join, Advance,
              ownerVars, clientVars
<1>2. ASSUME NEW w \in Workers, Worker(w) PROVE Waiting'
  BY <1>2 DEF Worker, TestRunning, PopWait, PopDone, RunTask, ownerVars, clientVars
<1>3. ASSUME NEW c \in Clients, Client(c) \/ \E w \in Workers : BeginRun(c, w) PROVE Waiting'
  <2> USE DEF TypeOK, ownerVars, clientVars
  <2>1. CASE Submit(c)
    BY <2>1 DEF Submit
  <2>2. CASE SubmitBlocks(c)
    BY <2>2 DEF SubmitBlocks, SleepUntilRoom
  <2>3. CASE FutureReady(c)
    BY <2>3 DEF FutureReady
  <2>4. CASE \E w \in Workers : BeginRun(c, w)
    BY <2>4 DEF BeginRun
  <2> QED
    BY <1>3, <2>1, <2>2, <2>3, <2>4 DEF Client
<1>4. CASE SpuriousWakeup \/ UNCHANGED vars
  BY <1>4 DEF SpuriousWakeup, vars, ownerVars, clientVars
<1> QED
  BY <1>1, <1>2, <1>3, <1>4 DEF Next

(* What enters a queue is counted by the calls that were begun: those of   *)
(* clients, the constructor's and stop()'s.                                *)
Pushing(w) == {c \in Clients : cpc[c] = "push" /\ req[c][1] = w}
StopPushed(w) ==
  \/ opc = "join" /\ w <= at
  \/ opc \in {"clear", "push"} /\ w < at
  \/ opc \in {"stopped", "gone"}
OfOwner(w) == (IF Built(w) THEN 1 ELSE 0) + (IF StopPushed(w) THEN 1 ELSE 0)
Counted ==
  \A w \in Workers :
    /\ IsFiniteSet(Pushing(w))
    /\ Len(accepted[w]) + Cardinality(Pushing(w)) <= issued + OfOwner(w)

(* Nothing to count: the owner may have gone on.                           *)
LEMMA CountedKept ==
  ASSUME TypeOK, Counted, UNCHANGED <<cpc, req, issued, accepted>>,
         \A w \in Workers : OfOwner(w) <= OfOwner(w)'
  PROVE  Counted'
<1> SUFFICES ASSUME NEW w \in Workers
             PROVE  /\ IsFiniteSet(Pushing(w))'
                    /\ (Len(accepted[w]) + Cardinality(Pushing(w)) <= issued + OfOwner(w))'
  BY DEF Counted
<1>1. Pushing(w)' = Pushing(w)
  BY DEF Pushing
<1>2. Cardinality(Pushing(w)) \in Nat /\ Len(accepted[w]) \in Nat /\ issued \in Nat
  BY FS_CardinalityType DEF Counted, TypeOK
<1>3. OfOwner(w) \in Nat /\ OfOwner(w)' \in Nat /\ OfOwner(w) <= OfOwner(w)'
  BY DEF OfOwner
<1> QED
  BY <1>1, <1>2, <1>3 DEF Counted

(* A call that begins is counted, and one that ends has appended a task.   *)
LEMMA CountedStep == TypeOK /\ InOrder /\ Counted /\ [Next]_vars => Counted'
<1> SUFFICES ASSUME TypeOK, InOrder, Counted, [Next]_vars PROVE Counted'
  OBVIOUS
<1>a. /\ at \in Workers /\ NextIndex(at) = (IF at = N - 1 THEN 0 ELSE at + 1)
      /\ \A w \in Workers : w \in Int /\ 0 <= w /\ w <= N - 1
  BY NextIndexIs, PoolAssumption DEF TypeOK, Workers
<1>b. ASSUME NEW w \in Workers
      PROVE  /\ Cardinality(Pushing(w)) \in Nat /\ Len(accepted[w]) \in Nat /\ issued \in Nat
             /\ accepted[w] \in Seq(Tasks)
             /\ Len(accepted[w]) + Cardinality(Pushing(w)) <= issued + OfOwner(w)
             /\ OfOwner(w) \in Nat
  BY FS_CardinalityType DEF Counted, TypeOK, OfOwner
<1>1. CASE NewThreadPool
  BY <1>a, <1>1, CountedKept DEF NewThreadPool, InOrder, OfOwner, Built, StopPushed, clientVars
<1>2. CASE Construct \/ PushStopTask
  <2>1. PICK task \in Tasks :
          /\ accepted' = [accepted EXCEPT ![at] = Append(@, task)]
          /\ UNCHANGED <<cpc, req, issued>>
    BY <1>2 DEF Construct, PushStopTask, Enqueue, Tasks, clientVars
  <2>2. ASSUME NEW w \in Workers
        PROVE  OfOwner(w)' = IF w = at THEN OfOwner(w) + 1 ELSE OfOwner(w)
    <3>1. CASE Construct
      BY <1>a, <3>1 DEF Construct, Advance, OfOwner, Built, StopPushed
    <3>2. CASE PushStopTask
      BY <1>a, <3>2 DEF PushStopTask, OfOwner, Built, StopPushed
    <3> QED
      BY <1>2, <3>1, <3>2
  <2> SUFFICES ASSUME NEW w \in Workers
               PROVE  /\ IsFiniteSet(Pushing(w))'
                      /\ (Len(accepted[w]) + Cardinality(Pushing(w)) <= issued + OfOwner(w))'
    BY DEF Counted
  <2>3. Pushing(w)' = Pushing(w) /\ IsFiniteSet(Pushing(w))
    BY <2>1 DEF Pushing, Counted
  <2>4. Len(accepted'[w]) = IF w = at THEN Len(accepted[w]) + 1 ELSE Len(accepted[w])
    BY <1>b, <2>1 DEF TypeOK
  <2> QED
    BY <1>b, <2>1, <2>2, <2>3, <2>4
<1>3. CASE StartWorker \/ ClearRunning \/ OwnerBlocks \/ Join \/ Destroy
  <2>1. UNCHANGED <<cpc, req, issued, accepted>>
    BY <1>3 DEF StartWorker, ClearRunning, OwnerBlocks, Join, Destroy, clientVars
  <2>2. ASSUME NEW w \in Workers PROVE OfOwner(w) <= OfOwner(w)'
    <3> USE DEF OfOwner, Built, StopPushed
    <3>1. CASE StartWorker
      BY <1>a, <3>1 DEF StartWorker, Advance
    <3>2. CASE ClearRunning
      BY <1>a, <3>2 DEF ClearRunning
    <3>3. CASE Destroy \/ OwnerBlocks
      BY <1>a, <3>3 DEF Destroy, OwnerBlocks, ownerVars
    <3>4. CASE Join
      BY <1>a, <3>4 DEF Join, Advance
    <3> QED
      BY <1>3, <3>1, <3>2, <3>3, <3>4
  <2> QED
    BY <2>1, <2>2, CountedKept
<1>4. ASSUME UNCHANGED <<ownerVars, clientVars, accepted>> PROVE Counted'
  <2>1. \A w \in Workers : OfOwner(w)' = OfOwner(w) /\ OfOwner(w) \in Nat
    BY <1>4 DEF OfOwner, Built, StopPushed, ownerVars
  <2> QED
    BY <1>4, <2>1, CountedKept DEF clientVars
<1>5. ASSUME NEW c \in Clients, NEW v \in Workers, BeginRun(c, v) PROVE Counted'
  <2>1. /\ cpc[c] = "idle" /\ cpc' = [cpc EXCEPT ![c] = "push"]
        /\ req' = [req EXCEPT ![c] = <<v, issued + 1>>]
        /\ issued' = issued + 1 /\ UNCHANGED <<opc, at, accepted>>
    BY <1>5 DEF BeginRun, ownerVars
  <2> SUFFICES ASSUME NEW w \in Workers
               PROVE  /\ IsFiniteSet(Pushing(w))'
                      /\ (Len(accepted[w]) + Cardinality(Pushing(w)) <= issued + OfOwner(w))'
    BY DEF Counted
  <2>2. Pushing(w)' = IF w = v THEN Pushing(w) \cup {c} ELSE Pushing(w)
    BY <2>1 DEF Pushing, TypeOK
  <2>3. OfOwner(w)' = OfOwner(w)
    BY <2>1 DEF OfOwner, Built, StopPushed
  <2>4. /\ IsFiniteSet(Pushing(w))' /\ Cardinality(Pushing(w))' \in Nat
        /\ Cardinality(Pushing(w))' <= Cardinality(Pushing(w)) + 1
    <3>1. IsFiniteSet(Pushing(w)) /\ Cardinality(Pushing(w)) \in Nat
      BY <1>b DEF Counted
    <3>2. /\ IsFiniteSet(Pushing(w) \cup {c})
          /\ \/ Cardinality(Pushing(w) \cup {c}) = Cardinality(Pushing(w)) + 1
             \/ Cardinality(Pushing(w) \cup {c}) = Cardinality(Pushing(w))
      BY <3>1, FS_AddElement
    <3> QED
      BY <2>2, <3>1, <3>2
  <2> QED
    BY <1>b, <2>1, <2>3, <2>4, SMTT(30)
<1>6. ASSUME NEW c \in Clients, Submit(c) PROVE Counted'
  <2>1. /\ cpc[c] = "push" /\ cpc'[c] # "push" /\ \A d \in Clients \ {c} : cpc'[d] = cpc[d]
        /\ accepted' = [accepted EXCEPT ![req[c][1]] = Append(@, req[c][2])]
        /\ UNCHANGED <<opc, at, req, issued>>
        /\ req[c][2] \in Tasks
    BY <1>6 DEF Submit, Enqueue, ownerVars, TypeOK, Tasks, InitTask
  <2> SUFFICES ASSUME NEW w \in Workers
               PROVE  /\ IsFiniteSet(Pushing(w))'
                      /\ (Len(accepted[w]) + Cardinality(Pushing(w)) <= issued + OfOwner(w))'
    BY DEF Counted
  <2>2. Pushing(w)' = IF w = req[c][1] THEN Pushing(w) \ {c} ELSE Pushing(w)
    BY <2>1 DEF Pushing
  <2>3. OfOwner(w)' = OfOwner(w)
    BY <2>1 DEF OfOwner, Built, StopPushed
  <2>4. Len(accepted'[w]) = IF w = req[c][1] THEN Len(accepted[w]) + 1 ELSE Len(accepted[w])
    <3>1. accepted'[w] = IF w = req[c][1] THEN Append(accepted[w], req[c][2]) ELSE accepted[w]
      BY <2>1 DEF TypeOK
    <3>2. Len(Append(accepted[w], req[c][2])) = Len(accepted[w]) + 1
      BY <1>b, <2>1
    <3> QED
      BY <3>1, <3>2
  <2>5. w = req[c][1] => c \in Pushing(w)
    BY <2>1 DEF Pushing
  <2>6. /\ IsFiniteSet(Pushing(w))'
        /\ Cardinality(Pushing(w))' = IF w = req[c][1] THEN Cardinality(Pushing(w)) - 1
                                                       ELSE Cardinality(Pushing(w))
    BY <2>2, <2>5, FS_RemoveElement DEF Counted
  <2> QED
    BY <1>b, <2>1, <2>3, <2>4, <2>6
<1>7. ASSUME NEW c \in Clients, FutureReady(c) PROVE Counted'
  <2>1. /\ cpc[c] = "wait" /\ cpc' = [cpc EXCEPT ![c] = "idle"]
        /\ UNCHANGED <<opc, at, req, issued, accepted>>
    BY <1>7 DEF FutureReady, ownerVars
  <2>2. \A w \in Workers : Pushing(w)' = Pushing(w) /\ OfOwner(w)' = OfOwner(w)
    BY <2>1 DEF Pushing, OfOwner, Built, StopPushed, TypeOK
  <2> QED
    BY <2>1, <2>2 DEF Counted
<1>8. ASSUME NEW w \in Workers, Worker(w) PROVE UNCHANGED <<ownerVars, clientVars, accepted>>
  BY <1>8 DEF Worker, TestRunning, PopWait, PopDone, RunTask
<1>9. ASSUME NEW c \in Clients, SubmitBlocks(c) PROVE UNCHANGED <<ownerVars, clientVars, accepted>>
  BY <1>9 DEF SubmitBlocks
<1>10. SpuriousWakeup \/ UNCHANGED vars => UNCHANGED <<ownerVars, clientVars, accepted>>
  BY DEF SpuriousWakeup, vars, ownerVars, clientVars
<1> QED
  BY <1>1, <1>2, <1>3, <1>4, <1>5, <1>6, <1>7, <1>8, <1>9, <1>10
  DEF Next, OwnerBegins, OwnerContinues, Client

-----------------------------------------------------------------------------
(* What threads do with the queue of one worker.                           *)
Callers(w) == Clients \cup {Owner, w}
OwnerPushes(w) == at = w /\ opc \in {"construct", "push"}
ClientPushes(c, w) == cpc[c] = "push" /\ req[c][1] = w

CallIs(w) ==
  /\ CallOn(w) \in [Callers(w) -> {"idle", "push", "pop"}]
  /\ CallOn(w)[w] = IF wpc[w] = "pop" THEN "pop" ELSE "idle"
  /\ CallOn(w)[Owner] = IF OwnerPushes(w) THEN "push" ELSE "idle"
  /\ \A c \in Clients : CallOn(w)[c] = IF ClientPushes(c, w) THEN "push" ELSE "idle"

(* The calls of all threads, now and after a step.                         *)
LEMMA CallsAre == \A w \in Workers : CallIs(w)
BY PoolAssumption, Zenon DEF CallIs, CallOn, Callers, OwnerPushes, ClientPushes

LEMMA CallsWillBe == \A w \in Workers : CallIs(w)'
<1>1. (\A w \in Workers : CallIs(w))'
  BY CallsAre, PTL
<1> QED
  BY <1>1

(* One thread begins or ends a call, or none does.                         *)
LEMMA CallChanges ==
  ASSUME NEW w \in Workers, NEW t \in Callers(w), NEW op,
         CallOn(w)'[t] = op,
         \A u \in Callers(w) : u # t => CallOn(w)'[u] = CallOn(w)[u]
  PROVE  CallOn(w)' = [CallOn(w) EXCEPT ![t] = op]
<1>1. /\ CallOn(w) \in [Callers(w) -> {"idle", "push", "pop"}]
      /\ CallOn(w)' \in [Callers(w) -> {"idle", "push", "pop"}]
  BY CallsAre, CallsWillBe DEF CallIs, Callers
<1> QED
  BY <1>1

(* Nobody begins or ends a call to this queue.                             *)
LEMMA CallsStay ==
  ASSUME NEW w \in Workers, (wpc'[w] = "pop") <=> (wpc[w] = "pop"),
         OwnerPushes(w)' <=> OwnerPushes(w),
         \A c \in Clients : ClientPushes(c, w)' <=> ClientPushes(c, w)
  PROVE  CallOn(w)' = CallOn(w)
<1>1. /\ CallOn(w) \in [Callers(w) -> {"idle", "push", "pop"}]
      /\ CallOn(w)' \in [Callers(w) -> {"idle", "push", "pop"}]
  BY CallsAre, CallsWillBe DEF CallIs, Callers
<1>2. CallOn(w)'[w] = CallOn(w)[w] /\ CallOn(w)'[Owner] = CallOn(w)[Owner]
  BY CallsAre, CallsWillBe DEF CallIs
<1>3. \A c \in Clients : CallOn(w)'[c] = CallOn(w)[c]
  BY CallsAre, CallsWillBe DEF CallIs
<1> QED
  BY <1>1, <1>2, <1>3 DEF Callers

-----------------------------------------------------------------------------
(* The steps of a worker's queue, as the pool takes them.                  *)
SleepersAt(w) == {t \in blocked : CallOn(w)[t] = "push"}
Taken(w) == ran[w] \o cur[w]

(* Nothing happens to this queue.                                          *)
LEMMA QueueStays ==
  ASSUME NEW w \in Workers, NEW n, CallOn(w)' = CallOn(w),
         tasks'[w] = tasks[w], accepted'[w] = accepted[w], Taken(w)' = Taken(w),
         asleep' \cap {w} = asleep \cap {w}, SleepersAt(w)' = SleepersAt(w)
  PROVE  UNCHANGED Queue(n, w)!vars
BY DEF Queue!vars, SleepersAt, Taken

(* push() or pop() is called.                                              *)
LEMMA CallBegins ==
  ASSUME NEW w \in Workers, NEW n, NEW t \in Callers(w), NEW op \in {"push", "pop"},
         CallOn(w)[t] = "idle", CallOn(w)' = [CallOn(w) EXCEPT ![t] = op],
         op = "push" => Len(accepted[w]) < MaxJobs + 2,
         tasks'[w] = tasks[w], accepted'[w] = accepted[w], Taken(w)' = Taken(w),
         asleep' \cap {w} = asleep \cap {w}, SleepersAt(w)' = SleepersAt(w)
  PROVE  Queue(n, w)!Next
<1>1. Queue(n, w)!Enter(t, op)
  BY DEF Queue!Enter, SleepersAt, Taken
<1> QED
  BY <1>1 DEF Queue!Next, Queue!BeginPush, Queue!BeginPop, Callers

(* push() appends and notifies everybody (ThreadSafeContainer.h).          *)
LEMMA PushEnds ==
  ASSUME NEW w \in Workers, NEW n, n = maxQueueSize, NEW t \in Callers(w) \ {w}, NEW task \in Tasks,
         tasks \in [Workers -> Seq(Tasks)], accepted \in [Workers -> Seq(Tasks)],
         CallOn(w)[t] = "push", CallOn(w)' = [CallOn(w) EXCEPT ![t] = "idle"],
         t \notin blocked, Enqueue(w, task),
         Taken(w)' = Taken(w), SleepersAt(w)' = SleepersAt(w)
  PROVE  Queue(n, w)!Next
<1>1. /\ Len(tasks[w]) < n
      /\ tasks'[w] = Append(tasks[w], task) /\ accepted'[w] = Append(accepted[w], task)
      /\ asleep' \cap {w} = {}
  BY DEF Enqueue, HasRoom, Notify
<1>2. Queue(n, w)!Awake(t, "push")
  BY DEF Queue!Awake
<1>3. Queue(n, w)!PushDone(t, task)
  BY <1>1, <1>2 DEF Queue!PushDone, Queue!HasRoom, Queue!Notify, Queue!Leave, SleepersAt, Taken
<1> QED
  BY <1>3 DEF Queue!Next, Queue!Push, Callers

(* push() waits for room.                                                  *)
LEMMA PushSleeps ==
  ASSUME NEW w \in Workers, NEW n, n = maxQueueSize, NEW t \in Callers(w) \ {w},
         CallOn(w)[t] = "push", CallOn(w)' = CallOn(w), t \notin blocked,
         SleepUntilRoom(t, w), tasks'[w] = tasks[w], accepted'[w] = accepted[w],
         Taken(w)' = Taken(w), asleep' = asleep
  PROVE  Queue(n, w)!Next
<1>1. Queue(n, w)!Awake(t, "push")
  BY DEF Queue!Awake
<1>2. Queue(n, w)!PushWait(t)
  BY <1>1 DEF Queue!PushWait, Queue!HasRoom, SleepUntilRoom, HasRoom, SleepersAt, Taken
<1> QED
  BY <1>2 DEF Queue!Next, Queue!Push, Callers

(* pop() waits for an item.                                                *)
LEMMA PopSleeps ==
  ASSUME NEW w \in Workers, NEW n, w \notin blocked, w \notin asleep,
         CallOn(w)[w] = "pop", CallOn(w)' = CallOn(w), tasks[w] = <<>>,
         tasks'[w] = tasks[w], accepted'[w] = accepted[w], Taken(w)' = Taken(w),
         asleep' = asleep \cup {w}, SleepersAt(w)' = SleepersAt(w)
  PROVE  Queue(n, w)!Next
<1>1. Queue(n, w)!Awake(w, "pop")
  BY DEF Queue!Awake
<1>2. Queue(n, w)!PopWait(w)
  BY <1>1 DEF Queue!PopWait, SleepersAt, Taken
<1> QED
  BY <1>2 DEF Queue!Next, Queue!Pop, Callers

(* pop() takes the front.                                                  *)
LEMMA PopEnds ==
  ASSUME NEW w \in Workers, NEW n, w \notin blocked, w \notin asleep,
         CallOn(w)[w] = "pop", CallOn(w)' = [CallOn(w) EXCEPT ![w] = "idle"],
         tasks[w] # <<>>, tasks'[w] = Tail(tasks[w]), accepted'[w] = accepted[w],
         Taken(w)' = Append(Taken(w), Head(tasks[w])),
         asleep' = asleep, SleepersAt(w)' = SleepersAt(w)
  PROVE  Queue(n, w)!Next
<1>1. Queue(n, w)!Awake(w, "pop")
  BY DEF Queue!Awake
<1>2. Queue(n, w)!RemoveFront
  BY DEF Queue!RemoveFront, Queue!Front, Taken
<1>3. Queue(n, w)!PopDone(w)
  BY <1>1, <1>2 DEF Queue!PopDone, Queue!Leave, SleepersAt
<1> QED
  BY <1>3 DEF Queue!Next, Queue!Pop, Callers

(* One thread wakes up although nobody has notified it.                    *)
LEMMA WakesUp ==
  ASSUME NEW w \in Workers, NEW n, NEW t \in Callers(w),
         CallOn(w)' = CallOn(w), tasks'[w] = tasks[w], accepted'[w] = accepted[w],
         Taken(w)' = Taken(w),
         \/ t = w /\ w \in asleep /\ w \notin blocked /\ asleep' = asleep \ {t} /\ blocked' = blocked
         \/ t # w /\ t \in blocked /\ CallOn(w)[t] = "push" /\ blocked' = blocked \ {t} /\ asleep' = asleep
  PROVE  Queue(n, w)!Next
<1>1. Queue(n, w)!SpuriousWakeup(t)
  BY DEF Queue!SpuriousWakeup, SleepersAt, Taken
<1> QED
  BY <1>1 DEF Queue!Next, Callers

-----------------------------------------------------------------------------
(* A thread that begins or ends push() does not sleep in it.               *)
LEMMA SleepersStay ==
  ASSUME NEW w \in Workers, UNCHANGED blocked, blocked \subseteq Callers(w),
         \A t \in blocked : CallOn(w)'[t] = CallOn(w)[t]
  PROVE  SleepersAt(w)' = SleepersAt(w)
BY DEF SleepersAt

Known ==
  /\ TypeOK /\ InOrder /\ Waiting /\ Counted

(* A call that is about to begin is within the bound on pushes.            *)
LEMMA RoomInCount ==
  ASSUME Known, NEW w \in Workers, \/ issued < MaxJobs
                                   \/ ~StopPushed(w)
  PROVE  Len(accepted[w]) < MaxJobs + 2
<1>1. /\ Cardinality(Pushing(w)) \in Nat /\ Len(accepted[w]) \in Nat
      /\ issued \in 0 .. MaxJobs
      /\ Len(accepted[w]) + Cardinality(Pushing(w)) <= issued + OfOwner(w)
  BY FS_CardinalityType DEF Known, Counted, TypeOK
<1> QED
  BY <1>1, PoolAssumption DEF OfOwner

(* What is known of a worker's queue in every step.                        *)
LEMMA Facts ==
  ASSUME Known, [Next]_vars, NEW w \in Workers
  PROVE  /\ CallIs(w) /\ CallIs(w)'
         /\ blocked \subseteq Callers(w) /\ w \notin blocked
         /\ Owner \in Callers(w) \ {w} /\ Clients \subseteq Callers(w) \ {w} /\ w \in Callers(w)
         /\ Owner \notin Clients
         /\ tasks \in [Workers -> Seq(Tasks)] /\ accepted \in [Workers -> Seq(Tasks)]
         /\ ran[w] \in Seq(Tasks) /\ cur[w] \in Seq(Tasks)
         /\ at \in Workers /\ NextIndex(at) = (IF at = N - 1 THEN 0 ELSE at + 1)
         /\ w \in Int /\ 0 <= w /\ w <= N - 1
<1>1. at \in Workers /\ blocked \subseteq Clients \cup {Owner}
  BY DEF Known, TypeOK
<1>2. w \in Int /\ 0 <= w /\ w <= N - 1
  BY PoolAssumption DEF Workers
<1>3. /\ tasks \in [Workers -> Seq(Tasks)] /\ accepted \in [Workers -> Seq(Tasks)]
      /\ ran[w] \in Seq(Tasks) /\ cur[w] \in Seq(Tasks)
  BY DEF Known, TypeOK
<1> QED
  BY <1>1, <1>2, <1>3, CallsAre, CallsWillBe, NextIndexIs, PoolAssumption DEF Callers

(* The owner's steps.                                                      *)
LEMMA OwnerUses ==
  ASSUME Known, [Next]_vars, OwnerBegins \/ OwnerContinues,
         NEW w \in Workers, NEW n \in Capacities, n = maxQueueSize
  PROVE  Queue(n, w)!Next \/ UNCHANGED Queue(n, w)!vars
<1> USE DEF CallIs
<1>a. UNCHANGED <<ran, cur>> => Taken(w)' = Taken(w)
  BY DEF Taken
<1>b. \A c \in Clients : UNCHANGED clientVars => (ClientPushes(c, w)' <=> ClientPushes(c, w))
  BY DEF ClientPushes, clientVars
<1>c. \A c \in Clients : UNCHANGED clientVars => CallOn(w)'[c] = CallOn(w)[c]
  BY <1>b, Facts
<1>1. ASSUME UNCHANGED <<ran, cur, blocked, clientVars>>,
             tasks'[w] = tasks[w], accepted'[w] = accepted[w],
             asleep' \cap {w} = asleep \cap {w}, (wpc'[w] = "pop") <=> (wpc[w] = "pop"),
             OwnerPushes(w)' <=> OwnerPushes(w)
      PROVE  UNCHANGED Queue(n, w)!vars
  <2>1. CallOn(w)' = CallOn(w)
    BY <1>1, <1>b, CallsStay
  <2> QED
    BY <1>1, <1>a, <2>1, QueueStays DEF SleepersAt
<1>2. ASSUME UNCHANGED <<ran, cur, blocked, clientVars, wpc>>, Owner \notin blocked,
             tasks'[w] = tasks[w], accepted'[w] = accepted[w],
             asleep' \cap {w} = asleep \cap {w},
             ~OwnerPushes(w), OwnerPushes(w)', Len(accepted[w]) < MaxJobs + 2
      PROVE  Queue(n, w)!Next
  <2>1. CallOn(w)[Owner] = "idle" /\ CallOn(w)'[Owner] = "push" /\ CallOn(w)'[w] = CallOn(w)[w]
    BY <1>2, Facts
  <2>2. \A u \in Callers(w) : u # Owner => CallOn(w)'[u] = CallOn(w)[u]
    BY <1>2, <1>c, <2>1 DEF Callers
  <2>3. CallOn(w)' = [CallOn(w) EXCEPT ![Owner] = "push"]
    BY <2>1, <2>2, CallChanges, Facts
  <2>4. SleepersAt(w)' = SleepersAt(w)
    <3>1. blocked \subseteq Callers(w) /\ \A t \in blocked : CallOn(w)'[t] = CallOn(w)[t]
      BY <1>2, <2>2, Facts
    <3> QED
      BY <1>2, <3>1, SleepersStay
  <2> QED
    BY <1>2, <1>a, <2>1, <2>3, <2>4, CallBegins, Facts
<1>3. ASSUME NEW task \in Tasks, Enqueue(w, task), UNCHANGED <<ran, cur, blocked, clientVars, wpc>>,
             Owner \notin blocked, OwnerPushes(w), ~OwnerPushes(w)'
      PROVE  Queue(n, w)!Next
  <2>1. CallOn(w)[Owner] = "push" /\ CallOn(w)'[Owner] = "idle" /\ CallOn(w)'[w] = CallOn(w)[w]
    BY <1>3, Facts
  <2>2. \A u \in Callers(w) : u # Owner => CallOn(w)'[u] = CallOn(w)[u]
    BY <1>3, <1>c, <2>1 DEF Callers
  <2>3. CallOn(w)' = [CallOn(w) EXCEPT ![Owner] = "idle"]
    BY <2>1, <2>2, CallChanges, Facts
  <2>4. SleepersAt(w)' = SleepersAt(w)
    <3>1. blocked \subseteq Callers(w) /\ \A t \in blocked : CallOn(w)'[t] = CallOn(w)[t]
      BY <1>3, <2>2, Facts
    <3> QED
      BY <1>3, <3>1, SleepersStay
  <2> QED
    BY <1>3, <1>a, <2>1, <2>3, <2>4, PushEnds, Facts
<1>4. CASE NewThreadPool
  <2> USE DEF NewThreadPool, OwnerPushes
  <2>1. at = 0 /\ Owner \notin blocked /\ ~StopPushed(w)
    BY <1>4 DEF Known, InOrder, Waiting, StopPushed
  <2>2. CASE w = at
    BY <1>2, <1>4, <2>1, <2>2, RoomInCount
  <2>3. CASE w # at
    BY <1>1, <1>4, <2>3
  <2> QED
    BY <2>2, <2>3
<1>5. CASE ClearRunning
  <2> USE DEF ClearRunning, OwnerPushes
  <2>1. Owner \notin blocked
    BY <1>5 DEF Known, Waiting
  <2>2. CASE w = at
    <3>1. ~StopPushed(w)
      BY <1>5, <2>2, Facts DEF StopPushed
    <3> QED
      BY <1>2, <1>5, <2>1, <2>2, <3>1, RoomInCount
  <2>3. CASE w # at
    BY <1>1, <1>5, <2>3
  <2> QED
    BY <2>2, <2>3
<1>6. CASE Construct
  <2>1. /\ opc = "construct" /\ Owner \notin blocked /\ Enqueue(at, InitTask)
        /\ at' = NextIndex(at) /\ opc' = (IF at = N - 1 THEN "built" ELSE "construct")
        /\ UNCHANGED <<ran, cur, blocked, clientVars, wpc>> /\ InitTask \in Tasks
    BY <1>6 DEF Construct, Advance, Tasks
  <2>2. CASE w = at
    <3>1. OwnerPushes(w) /\ ~OwnerPushes(w)'
      BY <2>1, <2>2, Facts DEF OwnerPushes
    <3>2. Enqueue(w, InitTask)
      BY <2>1, <2>2 DEF Enqueue, HasRoom, Notify
    <3> QED
      BY <1>3, <2>1, <3>1, <3>2
  <2>3. CASE w # at
    <3>1. /\ tasks'[w] = tasks[w] /\ accepted'[w] = accepted[w]
          /\ asleep' \cap {w} = asleep \cap {w}
      BY <2>1, <2>3, Facts DEF Enqueue, Notify
    <3>2. ~OwnerPushes(w) /\ ~StopPushed(w)
      BY <2>1, <2>3 DEF OwnerPushes, StopPushed
    <3>3. CASE OwnerPushes(w)'
      BY <1>2, <2>1, <3>1, <3>2, <3>3, RoomInCount
    <3>4. CASE ~OwnerPushes(w)'
      BY <1>1, <2>1, <3>1, <3>2, <3>4
    <3> QED
      BY <3>3, <3>4
  <2> QED
    BY <2>2, <2>3
<1>7. CASE PushStopTask
  <2>1. /\ opc = "push" /\ Owner \notin blocked /\ Enqueue(at, StopTask)
        /\ at' = at /\ opc' = "join"
        /\ UNCHANGED <<ran, cur, blocked, clientVars, wpc>> /\ StopTask \in Tasks
    BY <1>7 DEF PushStopTask, Tasks
  <2>2. CASE w = at
    <3>1. OwnerPushes(w) /\ ~OwnerPushes(w)'
      BY <2>1, <2>2 DEF OwnerPushes
    <3>2. Enqueue(w, StopTask)
      BY <2>1, <2>2 DEF Enqueue, HasRoom, Notify
    <3> QED
      BY <1>3, <2>1, <3>1, <3>2
  <2>3. CASE w # at
    <3>1. /\ tasks'[w] = tasks[w] /\ accepted'[w] = accepted[w]
          /\ asleep' \cap {w} = asleep \cap {w}
      BY <2>1, <2>3, Facts DEF Enqueue, Notify
    <3>2. ~OwnerPushes(w) /\ ~OwnerPushes(w)'
      BY <2>1, <2>3 DEF OwnerPushes
    <3> QED
      BY <1>1, <2>1, <3>1, <3>2
  <2> QED
    BY <2>2, <2>3
<1>8. CASE OwnerBlocks
  <2>1. /\ SleepUntilRoom(Owner, at) /\ Owner \notin blocked /\ OwnerPushes(at)
        /\ UNCHANGED <<opc, at, wpc, ran, cur, tasks, accepted, asleep, clientVars>>
    BY <1>8 DEF OwnerBlocks, OwnerPushes, ownerVars
  <2>2. CallOn(w)' = CallOn(w)
    BY <2>1, <1>b, CallsStay DEF OwnerPushes
  <2>3. CASE w = at
    <3>1. CallOn(w)[Owner] = "push" /\ SleepUntilRoom(Owner, w)
      BY <2>1, <2>3, Facts DEF OwnerPushes, SleepUntilRoom, HasRoom
    <3> QED
      BY <1>a, <2>1, <2>2, <3>1, PushSleeps, Facts
  <2>4. CASE w # at
    <3>1. CallOn(w)[Owner] = "idle"
      BY <2>4, Facts DEF OwnerPushes
    <3>2. SleepersAt(w)' = SleepersAt(w)
      BY <2>1, <2>2, <3>1 DEF SleepersAt, SleepUntilRoom
    <3> QED
      BY <1>a, <2>1, <2>2, <3>2, QueueStays
  <2> QED
    BY <2>3, <2>4
<1>9. CASE StartWorker
  <2>1. /\ wpc' = [wpc EXCEPT ![at] = "test"] /\ wpc[at] = "unstarted"
        /\ opc \in {"built", "start"} /\ opc' \in {"started", "start"}
        /\ UNCHANGED <<ran, cur, blocked, tasks, accepted, asleep, clientVars>>
    BY <1>9, Facts DEF StartWorker, Advance, Known, InOrder, NotYet
  <2>2. (wpc'[w] = "pop") <=> (wpc[w] = "pop")
    BY <2>1, Facts DEF Known, TypeOK
  <2> QED
    BY <1>1, <2>1, <2>2 DEF OwnerPushes
<1>10. CASE Join \/ Destroy
  BY <1>1, <1>10 DEF Join, Destroy, Advance, OwnerPushes
<1> QED
  BY <1>4, <1>5, <1>6, <1>7, <1>8, <1>9, <1>10 DEF OwnerBegins, OwnerContinues

(* The steps of the workers.                                               *)
LEMMA WorkerUses ==
  ASSUME Known, [Next]_vars, NEW v \in Workers, Worker(v),
         NEW w \in Workers, NEW n \in Capacities
  PROVE  Queue(n, w)!Next \/ UNCHANGED Queue(n, w)!vars
<1> USE DEF CallIs, ownerVars, clientVars
<1>a. UNCHANGED <<opc, at, cpc, req, blocked, accepted>>
  BY DEF Worker, TestRunning, PopWait, PopDone, RunTask
<1>b. /\ OwnerPushes(w)' <=> OwnerPushes(w)
      /\ \A c \in Clients : ClientPushes(c, w)' <=> ClientPushes(c, w)
  BY <1>a DEF OwnerPushes, ClientPushes
<1>c. \A t \in Callers(w) \ {w} : CallOn(w)'[t] = CallOn(w)[t]
  <2>1. CallOn(w)'[Owner] = CallOn(w)[Owner]
    BY <1>b, Facts
  <2>2. \A c \in Clients : CallOn(w)'[c] = CallOn(w)[c]
    BY <1>b, Facts, SMTT(30)
  <2> QED
    BY <2>1, <2>2 DEF Callers
<1>d. SleepersAt(w)' = SleepersAt(w)
  <2>1. \A t \in blocked : CallOn(w)'[t] = CallOn(w)[t]
    BY <1>c, Facts
  <2> QED
    BY <1>a, <2>1, SleepersStay, Facts
<1>1. ASSUME (wpc'[w] = "pop") <=> (wpc[w] = "pop"), tasks'[w] = tasks[w],
             Taken(w)' = Taken(w), asleep' \cap {w} = asleep \cap {w}
      PROVE  UNCHANGED Queue(n, w)!vars
  <2>1. CallOn(w)' = CallOn(w)
    BY <1>1, <1>b, CallsStay
  <2> QED
    BY <1>1, <1>a, <1>d, <2>1, QueueStays
<1>2. CASE w # v
  <2>1. /\ wpc'[w] = wpc[w] /\ tasks'[w] = tasks[w] /\ ran'[w] = ran[w] /\ cur'[w] = cur[w]
        /\ asleep' \cap {w} = asleep \cap {w}
    BY <1>2 DEF Worker, TestRunning, PopWait, PopDone, RunTask, Known, TypeOK
  <2> QED
    BY <1>1, <2>1 DEF Taken
<1>3. CASE w = v
  <2>1. CASE TestRunning(w)
    <3>1. /\ wpc[w] = "test" /\ wpc'[w] = (IF running[w] THEN "pop" ELSE "exited")
          /\ UNCHANGED <<ran, cur, tasks, asleep>>
      BY <2>1 DEF TestRunning, Known, TypeOK
    <3>2. Taken(w)' = Taken(w)
      BY <3>1 DEF Taken
    <3>3. CASE running[w]
      <4>1. CallOn(w)[w] = "idle" /\ CallOn(w)'[w] = "pop"
        BY <3>1, <3>3, Facts
      <4>2. CallOn(w)' = [CallOn(w) EXCEPT ![w] = "pop"]
        BY <1>c, <4>1, CallChanges, Facts
      <4> QED
        BY <1>a, <1>d, <3>1, <3>2, <4>1, <4>2, CallBegins, Facts
    <3>4. CASE ~running[w]
      BY <1>1, <3>1, <3>2, <3>4
    <3> QED
      BY <3>3, <3>4
  <2>2. CASE PopWait(w)
    <3>1. /\ wpc[w] = "pop" /\ w \notin asleep /\ tasks[w] = <<>>
          /\ asleep' = asleep \cup {w} /\ UNCHANGED <<ran, cur, tasks, wpc>>
      BY <2>2 DEF PopWait
    <3>2. Taken(w)' = Taken(w) /\ CallOn(w)' = CallOn(w) /\ CallOn(w)[w] = "pop"
      BY <1>b, <3>1, CallsStay, Facts DEF Taken
    <3> QED
      BY <1>a, <1>d, <3>1, <3>2, PopSleeps, Facts
  <2>3. CASE PopDone(w)
    <3>1. /\ wpc[w] = "pop" /\ w \notin asleep /\ tasks[w] # <<>>
          /\ cur'[w] = <<Head(tasks[w])>> /\ tasks'[w] = Tail(tasks[w]) /\ wpc'[w] = "run"
          /\ UNCHANGED <<ran, asleep>>
      BY <2>3 DEF PopDone, Front, Known, TypeOK
    <3>2. CallOn(w)[w] = "pop" /\ CallOn(w)'[w] = "idle"
      BY <3>1, Facts
    <3>3. CallOn(w)' = [CallOn(w) EXCEPT ![w] = "idle"]
      BY <1>c, <3>2, CallChanges, Facts
    <3>4. Taken(w)' = Append(Taken(w), Head(tasks[w]))
      <4>1. cur[w] = <<>>
        BY <3>1 DEF Known, InOrder
      <4>2. ran[w] \o <<>> = ran[w]
        BY Facts, NothingAdded
      <4>3. Head(tasks[w]) \in Tasks
        BY <3>1, Facts
      <4>4. ran[w] \o <<Head(tasks[w])>> = Append(ran[w], Head(tasks[w]))
        BY <4>3, Facts
      <4> QED
        BY <3>1, <4>1, <4>2, <4>4 DEF Taken
    <3> QED
      BY <1>a, <1>d, <3>1, <3>2, <3>3, <3>4, PopEnds, Facts
  <2>4. CASE RunTask(w)
    <3>1. /\ wpc[w] = "run" /\ wpc'[w] = "test" /\ UNCHANGED <<tasks, asleep>>
          /\ ran'[w] = ran[w] \o cur[w] /\ cur'[w] = <<>>
      BY <2>4 DEF RunTask, Known, TypeOK
    <3>2. (ran[w] \o cur[w]) \o <<>> = ran[w] \o cur[w]
      BY Facts, NothingAdded
    <3> QED
      BY <1>1, <3>1, <3>2 DEF Taken
  <2> QED
    BY <1>3, <2>1, <2>2, <2>3, <2>4 DEF Worker
<1> QED
  BY <1>2, <1>3

(* The steps of the clients.                                               *)
LEMMA ClientUses ==
  ASSUME Known, [Next]_vars, NEW c \in Clients, Client(c) \/ \E v \in Workers : BeginRun(c, v),
         NEW w \in Workers, NEW n \in Capacities, n = maxQueueSize
  PROVE  Queue(n, w)!Next \/ UNCHANGED Queue(n, w)!vars
<1> USE DEF CallIs, ownerVars, clientVars
<1>a. UNCHANGED <<opc, at, wpc, ran, cur>>
  BY DEF Client, Submit, SubmitBlocks, FutureReady, BeginRun
<1>b. Taken(w)' = Taken(w) /\ (OwnerPushes(w)' <=> OwnerPushes(w))
  BY <1>a DEF Taken, OwnerPushes
<1>c. CallOn(w)'[Owner] = CallOn(w)[Owner] /\ CallOn(w)'[w] = CallOn(w)[w]
  BY <1>a, <1>b, Facts
<1>1. ASSUME \A d \in Clients \ {c} : ClientPushes(d, w)' <=> ClientPushes(d, w)
      PROVE  /\ \A t \in Callers(w) \ {c} : CallOn(w)'[t] = CallOn(w)[t]
             /\ c \notin blocked /\ blocked' = blocked => SleepersAt(w)' = SleepersAt(w)
  <2>1. \A d \in Clients \ {c} : CallOn(w)'[d] = CallOn(w)[d]
    BY <1>1, Facts
  <2>2. \A t \in Callers(w) \ {c} : CallOn(w)'[t] = CallOn(w)[t]
    BY <1>c, <2>1 DEF Callers
  <2> QED
    BY <2>2, SleepersStay, Facts
<1>2. ASSUME NEW v \in Workers, BeginRun(c, v)
      PROVE  Queue(n, w)!Next \/ UNCHANGED Queue(n, w)!vars
  <2>1. /\ cpc[c] = "idle" /\ issued < MaxJobs /\ cpc'[c] = "push" /\ req'[c][1] = v
        /\ \A d \in Clients \ {c} : cpc'[d] = cpc[d] /\ req'[d] = req[d]
        /\ UNCHANGED <<tasks, asleep, blocked, accepted>>
    BY <1>2 DEF BeginRun, Known, TypeOK
  <2>2. c \notin blocked
    BY <2>1 DEF Known, Waiting
  <2>3. /\ \A t \in Callers(w) \ {c} : CallOn(w)'[t] = CallOn(w)[t]
        /\ SleepersAt(w)' = SleepersAt(w)
    BY <1>1, <2>1, <2>2 DEF ClientPushes
  <2>4. CASE v = w
    <3>1. CallOn(w)[c] = "idle" /\ CallOn(w)'[c] = "push"
      BY <2>1, <2>4, Facts DEF ClientPushes
    <3>2. CallOn(w)' = [CallOn(w) EXCEPT ![c] = "push"]
      BY <2>3, <3>1, CallChanges, Facts
    <3>3. Len(accepted[w]) < MaxJobs + 2
      BY <2>1, RoomInCount
    <3> QED
      BY <1>b, <2>1, <2>3, <3>1, <3>2, <3>3, CallBegins, Facts
  <2>5. CASE v # w
    <3>1. CallOn(w)' = CallOn(w)
      BY <1>a, <1>b, <2>1, <2>5, CallsStay DEF ClientPushes
    <3> QED
      BY <1>b, <2>1, <2>3, <3>1, QueueStays
  <2> QED
    BY <2>4, <2>5
<1>3. CASE Submit(c)
  <2>1. /\ cpc[c] = "push" /\ cpc'[c] # "push" /\ c \notin blocked
        /\ Enqueue(req[c][1], req[c][2])
        /\ \A d \in Clients \ {c} : cpc'[d] = cpc[d]
        /\ UNCHANGED <<req, blocked>>
        /\ req[c][1] \in Workers /\ req[c][2] \in Tasks
    BY <1>3 DEF Submit, Known, TypeOK, Tasks, InitTask
  <2>2. /\ \A t \in Callers(w) \ {c} : CallOn(w)'[t] = CallOn(w)[t]
        /\ SleepersAt(w)' = SleepersAt(w)
    BY <1>1, <2>1 DEF ClientPushes
  <2>3. CASE req[c][1] = w
    <3>1. CallOn(w)[c] = "push" /\ CallOn(w)'[c] = "idle"
      BY <2>1, <2>3, Facts DEF ClientPushes
    <3>2. CallOn(w)' = [CallOn(w) EXCEPT ![c] = "idle"]
      BY <2>2, <3>1, CallChanges, Facts
    <3>3. PICK task \in Tasks : Enqueue(w, task)
      BY <2>1, <2>3 DEF Enqueue, HasRoom, Notify
    <3> QED
      BY <1>b, <2>1, <2>2, <3>1, <3>2, <3>3, PushEnds, Facts
  <2>4. CASE req[c][1] # w
    <3>1. CallOn(w)' = CallOn(w)
      BY <1>a, <1>b, <2>1, <2>4, CallsStay DEF ClientPushes
    <3>2. /\ tasks'[w] = tasks[w] /\ accepted'[w] = accepted[w]
          /\ asleep' \cap {w} = asleep \cap {w}
      BY <2>1, <2>4, Facts DEF Enqueue, Notify
    <3> QED
      BY <1>b, <2>2, <3>1, <3>2, QueueStays, SMTT(30)
  <2> QED
    BY <2>3, <2>4
<1>4. CASE SubmitBlocks(c)
  <2>1. /\ cpc[c] = "push" /\ c \notin blocked /\ SleepUntilRoom(c, req[c][1])
        /\ UNCHANGED <<cpc, req, tasks, asleep, accepted>>
    BY <1>4 DEF SubmitBlocks
  <2>2. CallOn(w)' = CallOn(w)
    BY <1>a, <1>b, <2>1, CallsStay DEF ClientPushes
  <2>3. CASE req[c][1] = w
    <3>1. CallOn(w)[c] = "push" /\ SleepUntilRoom(c, w)
      BY <2>1, <2>3, Facts DEF ClientPushes, SleepUntilRoom, HasRoom
    <3> QED
      BY <1>b, <2>1, <2>2, <3>1, PushSleeps, Facts
  <2>4. CASE req[c][1] # w
    <3>1. CallOn(w)[c] = "idle"
      BY <2>4, Facts DEF ClientPushes
    <3>2. SleepersAt(w)' = SleepersAt(w)
      BY <2>1, <2>2, <3>1 DEF SleepersAt, SleepUntilRoom
    <3> QED
      BY <1>b, <2>1, <2>2, <3>2, QueueStays
  <2> QED
    BY <2>3, <2>4
<1>5. CASE FutureReady(c)
  <2>1. /\ cpc[c] = "wait" /\ cpc' = [cpc EXCEPT ![c] = "idle"]
        /\ UNCHANGED <<req, tasks, asleep, blocked, accepted>>
    BY <1>5 DEF FutureReady
  <2>2. \A d \in Clients : ClientPushes(d, w)' <=> ClientPushes(d, w)
    BY <2>1 DEF ClientPushes, Known, TypeOK
  <2>3. CallOn(w)' = CallOn(w)
    BY <1>a, <1>b, <2>2, CallsStay
  <2> QED
    BY <1>b, <2>1, <2>3, QueueStays DEF SleepersAt
<1> QED
  BY <1>2, <1>3, <1>4, <1>5 DEF Client

(* Spurious wakeups, in one queue or the other.                            *)
LEMMA WakeupUses ==
  ASSUME Known, [Next]_vars, SpuriousWakeup, NEW w \in Workers, NEW n \in Capacities
  PROVE  Queue(n, w)!Next \/ UNCHANGED Queue(n, w)!vars
<1> USE DEF CallIs, ownerVars, clientVars
<1>1. UNCHANGED <<opc, at, wpc, cpc, req, ran, cur, tasks, accepted>>
  BY DEF SpuriousWakeup
<1>2. CallOn(w)' = CallOn(w) /\ Taken(w)' = Taken(w)
  BY <1>1, CallsStay DEF OwnerPushes, ClientPushes, Taken
<1>3. ASSUME NEW v \in asleep, asleep' = asleep \ {v}, UNCHANGED blocked
      PROVE  Queue(n, w)!Next \/ UNCHANGED Queue(n, w)!vars
  <2>1. CASE v = w
    BY <1>1, <1>2, <1>3, <2>1, WakesUp, Facts
  <2>2. CASE v # w
    BY <1>1, <1>2, <1>3, <2>2, QueueStays DEF SleepersAt
  <2> QED
    BY <2>1, <2>2
<1>4. ASSUME NEW t \in blocked, blocked' = blocked \ {t}, UNCHANGED asleep
      PROVE  Queue(n, w)!Next \/ UNCHANGED Queue(n, w)!vars
  <2>1. CASE CallOn(w)[t] = "push"
    BY <1>1, <1>2, <1>4, <2>1, WakesUp, Facts
  <2>2. CASE CallOn(w)[t] # "push"
    BY <1>1, <1>2, <1>4, <2>2, QueueStays DEF SleepersAt
  <2> QED
    BY <2>1, <2>2
<1> QED
  BY <1>3, <1>4 DEF SpuriousWakeup

(* Every worker's queue is a BoundedBlockingQueue of its own, whatever     *)
(* owner, workers and clients do at the same time: what is proved of the   *)
(* queue holds of each (ThreadPool.h:90-115, ThreadSafeContainer.h).       *)
THEOREM QueuesAreUsedAsSpecified == Spec => QueuesAsSpecified
<1>1. ASSUME Init, NEW w \in Workers PROVE Queue(maxQueueSize, w)!Init
  <2>1. w \notin Clients /\ w # Owner
    BY PoolAssumption
  <2>2. CallOn(w) = [t \in Clients \cup {Owner, w} |-> "idle"]
    BY <1>1, <2>1 DEF CallOn, Init
  <2>3. ran[w] \o cur[w] = <<>>
    BY <1>1 DEF Init
  <2> QED
    BY <1>1, <2>2, <2>3 DEF Queue!Init, Init
<1>2. Init => Waiting /\ Counted
  <2> SUFFICES ASSUME Init PROVE Waiting /\ Counted
    OBVIOUS
  <2>1. Waiting
    BY DEF Init, Waiting
  <2>2. ASSUME NEW w \in Workers
        PROVE  /\ IsFiniteSet(Pushing(w))
               /\ Len(accepted[w]) + Cardinality(Pushing(w)) <= issued + OfOwner(w)
    <3>1. Pushing(w) = {}
      BY DEF Init, Pushing
    <3>2. IsFiniteSet(Pushing(w)) /\ Cardinality(Pushing(w)) = 0
      BY <3>1, FS_EmptySet
    <3>3. Len(accepted[w]) = 0 /\ issued = 0 /\ OfOwner(w) \in Nat
      BY <2>2 DEF Init, OfOwner
    <3> QED
      BY <3>2, <3>3
  <2> QED
    BY <2>1, <2>2 DEF Counted
<1>3. Spec => []Known
  <2>1. Spec => [](TypeOK /\ InOrder)
    BY TypedAndInOrder
  <2>2. TypeOK /\ InOrder /\ Waiting /\ Counted /\ [Next]_vars => Waiting' /\ Counted'
    BY WaitingStep, CountedStep
  <2>3. TypeOK /\ InOrder /\ Waiting /\ Counted => Known
    BY DEF Known
  <2> QED
    BY <1>2, <2>1, <2>2, <2>3, PTL DEF Spec
<1>4. Known /\ [Next]_vars =>
        [\A w \in Workers, n \in Capacities :
           n = maxQueueSize => Queue(n, w)!Next \/ UNCHANGED Queue(n, w)!vars]_vars
  <2> SUFFICES ASSUME Known, Next, NEW w \in Workers, NEW n \in Capacities, n = maxQueueSize
               PROVE  Queue(n, w)!Next \/ UNCHANGED Queue(n, w)!vars
    OBVIOUS
  <2> QED
    BY OwnerUses, WorkerUses, ClientUses, WakeupUses DEF Next
<1> QED
  <2>1. Init => \A w \in Workers : Queue(maxQueueSize, w)!Init
    BY <1>1
  <2> QED
    BY <2>1, <1>3, <1>4, PTL DEF Spec, QueuesAsSpecified
=============================================================================
