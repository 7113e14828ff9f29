------------------------------ MODULE Dispatch ------------------------------
(***************************************************************************)
(* ThreadPool::run(): how a caller finds the worker for a job.  The index  *)
(* it computes is kept in a function-level static, `idx', which all pools  *)
(* and all callers of the process share without a lock, and which is read  *)
(* again when the job is submitted.  The workers take tasks from their     *)
(* queues meanwhile, and keep a running average of how long these took, by *)
(* the wall clock, from which LB0 computes their loads.  The queues (of    *)
(* 100000 places) do not get full here.                                    *)
(***************************************************************************)
EXTENDS Integers

CONSTANTS Pools,   \* the pools of the process
          Size,    \* workers_.size() of each
          Policy,  \* policy_ of each: "RAN", "RR" or "LB0"
          Callers, \* threads that call run()
          Runtimes, \* milliseconds a task takes; below zero if the clock is set back
          MaxTasks, \* bound: tasks the workers take
          MaxRuns  \* bound: calls of run()

ASSUME DispatchAssumption ==
  /\ Size \in [Pools -> Nat] /\ Policy \in [Pools -> {"RAN", "RR", "LB0"}]
  /\ \E p \in Pools : \A q \in Pools : Size[q] <= Size[p]   \* there are finitely many
  /\ Runtimes \subseteq -1000 .. 1000 /\ MaxTasks \in Nat /\ MaxRuns \in 0 .. 1000

WorkersOf(p) == 0 .. Size[p] - 1
LargestSize == CHOOSE n \in {Size[p] : p \in Pools} : \A p \in Pools : Size[p] <= n
NoLoad == 10000000   \* INT64_MAX: more than any load here

VARIABLES idx,     \* the static
          tasks,   \* tasks_.size() of each worker of each pool
          busy,    \* it runs a task
          avg,     \* avgTaskRuntime_, which only its worker writes
          span,    \* history: the least and the largest of zero and its runtimes
          taken,   \* tasks taken so far
          pc, pool, \* where a caller is, and the pool of its call
          step,    \* the worker its LB0 scan has reached, or the idx it has read
          half,    \* the operand of workload() that has been read
          minLoad, best, \* locals of the scan: minLoad, _idx
          target,  \* the worker its last job was submitted to
          seen,    \* history: the loads its last scan read
          runs     \* calls of run() so far

workerVars == <<busy, avg, span, taken>>
locals == <<step, half, minLoad, best, seen>>
vars == <<idx, tasks, workerVars, pc, pool, locals, target, runs>>

Nowhere == [what |-> "none", value |-> 0]
OfAllWorkers(v) == [p \in Pools |-> [w \in WorkersOf(p) |-> v]]

Init ==
  /\ idx = 0
  /\ tasks = OfAllWorkers(1)   \* the initCallback
  /\ busy = OfAllWorkers(FALSE) /\ avg = OfAllWorkers(0)
  /\ span = OfAllWorkers([lo |-> 0, hi |-> 0]) /\ taken = 0
  /\ pc = [c \in Callers |-> "idle"]
  /\ pool \in [Callers -> Pools]
  /\ step = [c \in Callers |-> 0] /\ half = [c \in Callers |-> Nowhere]
  /\ minLoad = [c \in Callers |-> NoLoad]
  /\ best = [c \in Callers |-> 0]
  /\ target = [c \in Callers |-> 0]
  /\ seen = [c \in Callers |-> [w \in 0 .. LargestSize |-> NoLoad]]
  /\ runs = 0

Truncated(a, b) == IF a < 0 THEN -((-a) \div b) ELSE a \div b

\* Mutants of the code that the properties below must notice.
MostLoaded(a, b) == a >= b \/ b = NoLoad
Unreduced(id, p) == id
Undivided(a, runtime) == Truncated(9 * a + 10 * runtime, 10)

Set(f, c, v) == [f EXCEPT ![c] = v]
Less(a, b) == a < b
Reduced(id, p) == id % Size[p]

-----------------------------------------------------------------------------
(* A worker: takes a task, and averages (0.9 * average + runtime) / 1.9,   *)
(* truncated.  0.9 * average is added to the time of day first: a double   *)
(* of that size (2^40 ms and more) ends with the bit of 2^-12 ms, so it is *)
(* rounded to the nearest multiple of that, half to even.                  *)
Rounded(n) ==
  LET q == n \div 10  rest == n % 10 IN
  IF rest > 5 \/ (rest = 5 /\ q % 2 = 1) THEN q + 1 ELSE q
Average(a, runtime) == Truncated(10 * (Rounded(36864 * a) + 4096 * runtime), 77824)

TakeTask(p, w) ==
  /\ ~busy[p][w] /\ tasks[p][w] > 0 /\ taken < MaxTasks
  /\ tasks' = [tasks EXCEPT ![p][w] = @ - 1]
  /\ busy' = [busy EXCEPT ![p][w] = TRUE]
  /\ taken' = taken + 1
  /\ UNCHANGED <<idx, avg, span, pc, pool, locals, target, runs>>

EndTask(p, w, runtime) ==
  /\ busy[p][w]
  /\ busy' = [busy EXCEPT ![p][w] = FALSE]
  /\ avg' = [avg EXCEPT ![p][w] = Average(@, runtime)]
  /\ span' = [span EXCEPT ![p][w] = [lo |-> IF runtime < @.lo THEN runtime ELSE @.lo,
                                     hi |-> IF runtime > @.hi THEN runtime ELSE @.hi]]
  /\ UNCHANGED <<idx, tasks, taken, pc, pool, locals, target, runs>>

-----------------------------------------------------------------------------
MayRun(c) == pc[c] = "idle" /\ runs < MaxRuns
Submit(p, w) == tasks' = [tasks EXCEPT ![p][w] = @ + 1]

(* Run by the caller itself when the pool has no workers. *)
RunInline(c, p) ==
  /\ MayRun(c) /\ Size[p] = 0
  /\ runs' = runs + 1
  /\ pool' = Set(pool, c, p)
  /\ UNCHANGED <<idx, tasks, workerVars, pc, locals, target>>

(* With a workerId the static is not used. *)
RunOn(c, p, workerId) ==
  /\ MayRun(c) /\ Size[p] > 0
  /\ runs' = runs + 1
  /\ pool' = Set(pool, c, p)
  /\ target' = Set(target, c, Reduced(workerId, p))
  /\ Submit(p, Reduced(workerId, p))
  /\ UNCHANGED <<idx, workerVars, pc, locals>>

Begin(c, p) ==
  /\ MayRun(c) /\ Size[p] > 0
  /\ runs' = runs + 1
  /\ pool' = Set(pool, c, p)
  /\ pc' = Set(pc, c, Policy[p])
  /\ step' = Set(step, c, 0) /\ half' = Set(half, c, Nowhere)
  /\ minLoad' = Set(minLoad, c, NoLoad)
  /\ best' = Set(best, c, 0)
  /\ seen' = Set(seen, c, [w \in 0 .. LargestSize |-> NoLoad])
  /\ UNCHANGED <<idx, tasks, workerVars, target>>

PickRandom(c) ==
  /\ pc[c] = "RAN"
  /\ \E w \in WorkersOf(pool[c]) : idx' = w
  /\ pc' = Set(pc, c, "use")
  /\ UNCHANGED <<tasks, workerVars, pool, locals, target, runs>>

(* idx++ of an int that is not atomic: a read and a write. *)
ReadIdx(c) ==
  /\ pc[c] = "RR"
  /\ step' = Set(step, c, idx)
  /\ pc' = Set(pc, c, "write")
  /\ UNCHANGED <<idx, tasks, workerVars, pool, half, minLoad, best, target, seen, runs>>

WriteIdx(c) ==
  /\ pc[c] = "write"
  /\ idx' = step[c] + 1
  /\ pc' = Set(pc, c, "use")
  /\ UNCHANGED <<tasks, workerVars, pool, locals, target, runs>>

(* The loads are read one by one while they change, and so are the average *)
(* and the size of each, in an order that C++ leaves open.                 *)
Scanning(c) == pc[c] = "LB0" /\ step[c] < Size[pool[c]]
ReadHalf(c) ==
  LET p == pool[c]  w == step[c] IN
  /\ Scanning(c) /\ half[c] = Nowhere
  /\ \/ half' = Set(half, c, [what |-> "avg", value |-> avg[p][w]])
     \/ half' = Set(half, c, [what |-> "size", value |-> tasks[p][w]])
  /\ UNCHANGED <<idx, tasks, workerVars, pc, pool, step, minLoad, best, target, seen, runs>>

Workload(c) ==
  LET p == pool[c]  w == step[c] IN
  half[c].value * (IF half[c].what = "avg" THEN tasks[p][w] ELSE avg[p][w])
Scan(c) ==
  /\ Scanning(c) /\ half[c] # Nowhere
  /\ IF Less(Workload(c), minLoad[c])
     THEN minLoad' = Set(minLoad, c, Workload(c)) /\ best' = Set(best, c, step[c])
     ELSE UNCHANGED <<minLoad, best>>
  /\ seen' = [seen EXCEPT ![c][step[c]] = Workload(c)]
  /\ step' = Set(step, c, step[c] + 1) /\ half' = Set(half, c, Nowhere)
  /\ UNCHANGED <<idx, tasks, workerVars, pc, pool, target, runs>>

ScanDone(c) ==
  /\ pc[c] = "LB0" /\ step[c] = Size[pool[c]]
  /\ idx' = best[c]
  /\ pc' = Set(pc, c, "use")
  /\ UNCHANGED <<tasks, workerVars, pool, locals, target, runs>>

(* workers_[idx]->submit(): beyond the vector anything may happen, and the *)
(* call is followed no further.                                            *)
Use(c) ==
  /\ pc[c] = "use"
  /\ IF idx \in WorkersOf(pool[c])
     THEN pc' = Set(pc, c, "idle") /\ target' = Set(target, c, idx) /\ Submit(pool[c], idx)
     ELSE pc' = Set(pc, c, "undefined") /\ UNCHANGED <<target, tasks>>
  /\ UNCHANGED <<idx, workerVars, pool, locals, runs>>

Continue(c) ==
  \/ PickRandom(c) \/ ReadIdx(c) \/ WriteIdx(c)
  \/ ReadHalf(c) \/ Scan(c) \/ ScanDone(c) \/ Use(c)

Work(p, w) == TakeTask(p, w) \/ \E runtime \in Runtimes : EndTask(p, w, runtime)

Next ==
  \/ \E c \in Callers, p \in Pools :
       \/ RunInline(c, p) \/ Begin(c, p)
       \/ \E workerId \in 0 .. LargestSize + 1 : RunOn(c, p, workerId)
  \/ \E c \in Callers : Continue(c)
  \/ \E p \in Pools : \E w \in WorkersOf(p) : Work(p, w)

Spec == Init /\ [][Next]_vars

-----------------------------------------------------------------------------
(* Types of the variables. *)
TypeOK ==
  /\ idx \in Nat
  /\ \A p \in Pools :
       /\ tasks[p] \in [WorkersOf(p) -> 0 .. MaxRuns + 1]
       /\ busy[p] \in [WorkersOf(p) -> BOOLEAN] /\ avg[p] \in [WorkersOf(p) -> Int]
  /\ pc \in [Callers -> {"idle", "RAN", "RR", "LB0", "write", "use", "undefined"}]
  /\ pool \in [Callers -> Pools]
  /\ step \in [Callers -> Nat]
  /\ half \in [Callers -> [what : {"none", "avg", "size"}, value : Int]]
  /\ minLoad \in [Callers -> Int]
  /\ best \in [Callers -> 0 .. LargestSize]
  /\ target \in [Callers -> 0 .. LargestSize]
  /\ runs \in 0 .. MaxRuns

(* No call of run() indexes workers_ beyond its end (ThreadPool.cpp:209).  *)
(* Refuted with a round-robin pool: the index is never reduced.            *)
ChosenWorkerExists == \A c \in Callers : pc[c] # "undefined"

(* A worker's average stays within the runtimes of its tasks, zero, from   *)
(* where it starts, and what rounding and truncation take (ThreadPool.cpp: *)
(* 83-85): with tasks of a millisecond it is zero for good, and LB0 takes  *)
(* the worker for idle, however many of them it has in its queue.          *)
AverageWithinRuntimes ==
  \A p \in Pools : \A w \in WorkersOf(p) :
    LET s == span[p][w] IN
    s.lo <= avg[p][w] /\ avg[p][w] <= (IF s.hi = 1 THEN 0 ELSE s.hi)

(* LB0 submits to the first of the least loaded workers, by the loads the  *)
(* call has read (ThreadPool.cpp:194-209).  With one caller only: a second *)
(* one overwrites the static between the scan and its use.                 *)
LeastLoadedChosen ==
  [][\A c \in Callers :
       (pc[c] = "use" /\ pc'[c] = "idle" /\ Policy[pool[c]] = "LB0") =>
         \A w \in WorkersOf(pool[c]) :
           \/ seen[c][target'[c]] < seen[c][w]
           \/ seen[c][target'[c]] = seen[c][w] /\ target'[c] <= w]_vars
=============================================================================
