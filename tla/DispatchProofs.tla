--------------------------- MODULE DispatchProofs ---------------------------
(***************************************************************************)
(* Dispatch for every set of pools and callers: the types, with what the   *)
(* queues can hold; the averages; the scan of LB0, which is right whatever *)
(* the other callers do; and from these, with the conditions under which   *)
(* the static idx still holds the choice, where a job is submitted.        *)
(***************************************************************************)
EXTENDS Dispatch, FiniteSetTheorems, TLAPS

(* Something kept for each worker of each pool.                            *)
OfWorkers(f, S) ==
  /\ f = [p \in Pools |-> f[p]]
  /\ \A p \in Pools : f[p] \in [WorkersOf(p) -> S]

(* Changing the value of one worker changes no other's.                    *)
LEMMA OneWorker ==
  ASSUME NEW S, NEW f, OfWorkers(f, S), NEW p \in Pools, NEW w \in WorkersOf(p), NEW v \in S
  PROVE  /\ OfWorkers([f EXCEPT ![p][w] = v], S)
         /\ \A q \in Pools : \A x \in WorkersOf(q) :
              [f EXCEPT ![p][w] = v][q][x] = IF q = p /\ x = w THEN v ELSE f[q][x]
<1> DEFINE g == [f EXCEPT ![p][w] = v]
<1>1. g = [q \in Pools |-> IF q = p THEN [f[p] EXCEPT ![w] = v] ELSE f[q]]
  BY DEF OfWorkers
<1>2. \A q \in Pools : g[q] = IF q = p THEN [f[p] EXCEPT ![w] = v] ELSE f[q]
  BY <1>1
<1>3. f[p] \in [WorkersOf(p) -> S] /\ [f[p] EXCEPT ![w] = v] \in [WorkersOf(p) -> S]
  BY DEF OfWorkers
<1>4. g = [q \in Pools |-> g[q]]
  BY <1>1
<1> HIDE DEF g
<1>5. OfWorkers(g, S)
  BY <1>2, <1>3, <1>4 DEF OfWorkers
<1>6. \A q \in Pools : \A x \in WorkersOf(q) : g[q][x] = IF q = p /\ x = w THEN v ELSE f[q][x]
  BY <1>2, <1>3
<1> QED
  BY <1>5, <1>6 DEF g

(* The largest pool.                                                       *)
LEMMA Largest == LargestSize \in Nat /\ \A p \in Pools : Size[p] \in Nat /\ Size[p] <= LargestSize
<1> DEFINE M == {Size[p] : p \in Pools}
           Top(n) == \A p \in Pools : Size[p] <= n
<1>1. M \subseteq Nat /\ (\E n \in M : Top(n)) /\ Size \in [Pools -> Nat]
  BY DispatchAssumption
<1>2. LargestSize = CHOOSE n \in M : Top(n)
  BY DEF LargestSize
<1>3. LargestSize \in M /\ Top(LargestSize)
  <2> HIDE DEF M, Top
  <2> QED
    BY <1>1, <1>2
<1> QED
  BY <1>1, <1>3

-----------------------------------------------------------------------------
(* What runtimes and averages can be, the ends of a worker's runtimes, and *)
(* the size of a queue.                                                    *)
Runtime == -1000 .. 1000
Early == -1000 .. 0
Late == 0 .. 1000
QueueSize == 0 .. 1001
Spans == [lo : Early, hi : Late]

(* All of them are numbers.                                                *)
LEMMA Ranges ==
  /\ \A x \in Runtime : x \in Int
  /\ \A x \in Early : x \in Int /\ x <= 0
  /\ \A x \in Late : x \in Int /\ 0 <= x
  /\ Runtimes \subseteq Runtime
<1>1. \A x \in Runtime : x \in Int
  BY SMT DEF Runtime
<1>2. \A x \in Early : x \in Int /\ x <= 0
  BY SMT DEF Early
<1>3. \A x \in Late : x \in Int /\ 0 <= x
  BY SMT DEF Late
<1>4. Runtimes \subseteq Runtime
  BY DispatchAssumption, SMT DEF Runtime
<1> QED
  BY <1>1, <1>2, <1>3, <1>4

(* The types of the variables of the workers and of the callers.           *)
WorkerTypes ==
  /\ OfWorkers(tasks, Nat) /\ OfWorkers(busy, BOOLEAN) /\ OfWorkers(avg, Int)
  /\ OfWorkers(span, Spans)

CallerTypes ==
  /\ idx \in Nat
  /\ pc \in [Callers -> {"idle", "RAN", "RR", "LB0", "write", "use", "undefined"}]
  /\ pool \in [Callers -> Pools]
  /\ step \in [Callers -> Nat]
  /\ half \in [Callers -> [what : {"none", "avg", "size"}, value : Int]]
  /\ minLoad \in [Callers -> Int]
  /\ best \in [Callers -> 0 .. LargestSize]
  /\ target \in [Callers -> 0 .. LargestSize]
  /\ seen \in [Callers -> [0 .. LargestSize -> Int]]
  /\ runs \in 0 .. MaxRuns

(* A call of run() submits at most one job, so no queue holds more than    *)
(* the init callback and one for each call that has not still to submit.   *)
InFlight == {c \in Callers : pc[c] \notin {"idle", "undefined"}}
Counted ==
  /\ IsFiniteSet(InFlight)
  /\ \A p \in Pools : \A w \in WorkersOf(p) : tasks[p][w] + Cardinality(InFlight) <= runs + 1

(* Together they give the types, and the bound of the queues.              *)
LEMMA TypeIsParts == WorkerTypes /\ CallerTypes /\ Counted => TypeOK
<1> SUFFICES ASSUME WorkerTypes, CallerTypes, Counted PROVE TypeOK
  OBVIOUS
<1>1. Cardinality(InFlight) \in Nat
  BY FS_CardinalityType DEF Counted
<1>2. runs \in 0 .. MaxRuns /\ MaxRuns \in Nat
  BY DispatchAssumption DEF CallerTypes
<1>3. ASSUME NEW p \in Pools PROVE tasks[p] \in [WorkersOf(p) -> 0 .. MaxRuns + 1]
  <2>1. tasks[p] \in [WorkersOf(p) -> Nat]
    BY DEF WorkerTypes, OfWorkers
  <2>2. \A w \in WorkersOf(p) : tasks[p][w] <= MaxRuns + 1
    BY <1>1, <1>2, <2>1 DEF Counted
  <2> QED
    BY <1>2, <2>1, <2>2
<1>4. \A p \in Pools : busy[p] \in [WorkersOf(p) -> BOOLEAN] /\ avg[p] \in [WorkersOf(p) -> Int]
  BY DEF WorkerTypes, OfWorkers
<1> QED
  BY <1>3, <1>4 DEF TypeOK, CallerTypes

(* All workers start alike.                                                *)
LEMMA AllWorkersAlike ==
  ASSUME NEW S, NEW v \in S
  PROVE  OfWorkers(OfAllWorkers(v), S)
BY DEF OfWorkers, OfAllWorkers

(* The first state has its types.                                          *)
LEMMA TypeInit == Init => WorkerTypes /\ CallerTypes /\ Counted
<1> SUFFICES ASSUME Init PROVE WorkerTypes /\ CallerTypes /\ Counted
  OBVIOUS
<1>1. OfWorkers(OfAllWorkers(1), Nat) /\ OfWorkers(OfAllWorkers(0), Int)
      /\ OfWorkers(OfAllWorkers(FALSE), BOOLEAN)
  <2>1. OfWorkers(OfAllWorkers(1), Nat)
    BY AllWorkersAlike
  <2>2. OfWorkers(OfAllWorkers(0), Int)
    BY AllWorkersAlike
  <2>3. OfWorkers(OfAllWorkers(FALSE), BOOLEAN)
    BY AllWorkersAlike
  <2> QED
    BY <2>1, <2>2, <2>3
<1>2. WorkerTypes
  <2>1. [lo |-> 0, hi |-> 0] \in Spans
    <3>1. 0 \in Early /\ 0 \in Late
      BY SMT DEF Early, Late
    <3> QED
      BY <3>1, SMT DEF Spans
  <2>2. OfWorkers(OfAllWorkers([lo |-> 0, hi |-> 0]), Spans)
    BY <2>1, AllWorkersAlike
  <2> QED
    BY <1>1, <2>2 DEF Init, WorkerTypes
<1>3. CallerTypes
  BY Largest, DispatchAssumption DEF Init, CallerTypes, Nowhere, NoLoad
<1>4. Counted
  <2>1. InFlight = {}
    BY DEF Init, InFlight
  <2>2. \A p \in Pools : \A w \in WorkersOf(p) : tasks[p][w] = 1
    BY DEF Init, OfAllWorkers
  <2> QED
    BY <2>1, <2>2, FS_EmptySet DEF Counted, Init
<1> QED
  BY <1>2, <1>3, <1>4

(* An average is a number.                                                 *)
LEMMA AverageIsInt == \A a, r \in Int : Average(a, r) \in Int
<1>1. \A a, b \in Int : b > 0 => Truncated(a, b) \in Int
  BY DEF Truncated
<1>2. \A n \in Int : Rounded(n) \in Int
  BY DEF Rounded
<1> QED
  BY <1>1, <1>2 DEF Average

(* A span's ends are numbers on either side of zero.                       *)
LEMMA SpanParts ==
  ASSUME NEW s \in Spans
  PROVE  /\ s = [lo |-> s.lo, hi |-> s.hi]
         /\ s.lo \in Early /\ s.lo \in Int /\ s.lo <= 0
         /\ s.hi \in Late /\ s.hi \in Int /\ 0 <= s.hi
<1>1. s = [lo |-> s.lo, hi |-> s.hi] /\ s.lo \in Early /\ s.hi \in Late
  BY DEF Spans
<1> QED
  BY <1>1, Ranges

(* A span still is one with one runtime more.                              *)
LEMMA SpanGrows ==
  ASSUME NEW r \in Runtime, NEW s \in Spans
  PROVE  [lo |-> IF r < s.lo THEN r ELSE s.lo, hi |-> IF r > s.hi THEN r ELSE s.hi] \in Spans
<1>1. ASSUME NEW l \in Early PROVE (IF r < l THEN r ELSE l) \in Early
  BY SMT DEF Early, Runtime
<1>2. ASSUME NEW h \in Late PROVE (IF r > h THEN r ELSE h) \in Late
  BY SMT DEF Late, Runtime
<1>3. s.lo \in Early /\ s.hi \in Late
  BY SpanParts
<1> QED
  BY <1>1, <1>2, <1>3 DEF Spans

(* A worker that takes or ends a task keeps the types.                     *)
LEMMA WorkersOfWorker ==
  ASSUME WorkerTypes, NEW p \in Pools, NEW w \in WorkersOf(p), Work(p, w)
  PROVE  WorkerTypes'
<1> USE DEF WorkerTypes
<1>1. CASE TakeTask(p, w)
  <2>1. tasks[p][w] \in Nat /\ tasks[p][w] > 0
    BY <1>1 DEF TakeTask, OfWorkers
  <2>2. OfWorkers(tasks', Nat)
    <3>1. tasks[p][w] - 1 \in Nat
      BY <2>1
    <3>2. tasks' = [tasks EXCEPT ![p][w] = tasks[p][w] - 1]
      BY <1>1 DEF TakeTask
    <3> QED
      BY <3>1, <3>2, OneWorker
  <2>3. OfWorkers(busy', BOOLEAN)
    BY <1>1, OneWorker DEF TakeTask
  <2> QED
    BY <1>1, <2>2, <2>3 DEF TakeTask
<1>2. ASSUME NEW runtime \in Runtimes, EndTask(p, w, runtime) PROVE WorkerTypes'
  <2>0. runtime \in Runtime /\ runtime \in Int
    BY Ranges
  <2>1. OfWorkers(busy', BOOLEAN)
    BY <1>2, OneWorker DEF EndTask
  <2>2. OfWorkers(avg', Int)
    <3>1. avg[p][w] \in Int /\ avg' = [avg EXCEPT ![p][w] = Average(avg[p][w], runtime)]
      BY <1>2 DEF EndTask, OfWorkers
    <3>2. Average(avg[p][w], runtime) \in Int
      BY <2>0, <3>1, AverageIsInt
    <3> QED
      BY <3>1, <3>2, OneWorker
  <2>3. OfWorkers(span', Spans)
    <3> DEFINE s == span[p][w]
               v == [lo |-> IF runtime < s.lo THEN runtime ELSE s.lo,
                     hi |-> IF runtime > s.hi THEN runtime ELSE s.hi]
    <3>1. s \in Spans
      BY DEF OfWorkers
    <3>2. v \in Spans
      <4> HIDE DEF s
      <4> QED
        BY <2>0, <3>1, SpanGrows
    <3>3. span' = [span EXCEPT ![p][w] = v]
      BY <1>2 DEF EndTask
    <3> HIDE DEF v
    <3> QED
      BY <3>2, <3>3, OneWorker
  <2> QED
    BY <1>2, <2>1, <2>2, <2>3 DEF EndTask
<1> QED
  BY <1>1, <1>2 DEF Work

(* Submitting a job to a worker, and every other step of a caller.         *)
LEMMA WorkersOfCaller ==
  ASSUME WorkerTypes, UNCHANGED workerVars,
         \/ UNCHANGED tasks
         \/ \E p \in Pools : \E w \in WorkersOf(p) : Submit(p, w)
  PROVE  WorkerTypes'
<1> USE DEF WorkerTypes, workerVars
<1>1. CASE UNCHANGED tasks
  BY <1>1
<1>2. ASSUME NEW p \in Pools, NEW w \in WorkersOf(p), Submit(p, w) PROVE WorkerTypes'
  <2>1. tasks[p][w] + 1 \in Nat
    BY DEF OfWorkers
  <2>2. tasks' = [tasks EXCEPT ![p][w] = tasks[p][w] + 1]
    BY <1>2 DEF Submit
  <2>3. OfWorkers(tasks', Nat)
    BY <2>1, <2>2, OneWorker
  <2> QED
    BY <2>3
<1> QED
  BY <1>1, <1>2

(* Each step keeps the types of the callers' variables.                    *)
LEMMA CallersStep ==
  ASSUME WorkerTypes, CallerTypes, [Next]_vars
  PROVE  CallerTypes'
<1> USE DEF CallerTypes, Set
<1>0. /\ LargestSize \in Nat /\ MaxRuns \in Nat
      /\ \A p \in Pools : Size[p] \in Nat /\ Size[p] <= LargestSize
      /\ Policy \in [Pools -> {"RAN", "RR", "LB0"}]
  BY Largest, DispatchAssumption
<1>1. ASSUME NEW c \in Callers, NEW p \in Pools, RunInline(c, p) PROVE CallerTypes'
  <2>1. runs' \in 0 .. MaxRuns
    BY <1>0, <1>1 DEF RunInline, MayRun
  <2> QED
    BY <1>1, <2>1 DEF RunInline, locals
<1>2. ASSUME NEW c \in Callers, NEW p \in Pools, NEW workerId \in 0 .. LargestSize + 1, RunOn(c, p, workerId)
      PROVE  CallerTypes'
  <2>1. Reduced(workerId, p) \in 0 .. LargestSize
    BY <1>0, <1>2 DEF RunOn, Reduced
  <2>2. runs' \in 0 .. MaxRuns
    BY <1>0, <1>2 DEF RunOn, MayRun
  <2> QED
    BY <1>2, <2>1, <2>2 DEF RunOn, locals
<1>3. ASSUME NEW c \in Callers, NEW p \in Pools, Begin(c, p) PROVE CallerTypes'
  <2>1. Policy[p] \in {"RAN", "RR", "LB0"} /\ NoLoad \in Int
        /\ Nowhere \in [what : {"none", "avg", "size"}, value : Int]
    BY <1>0 DEF NoLoad, Nowhere
  <2>2. [w \in 0 .. LargestSize |-> NoLoad] \in [0 .. LargestSize -> Int]
    BY <2>1
  <2> QED
    BY <1>0, <1>3, <2>1, <2>2 DEF Begin, MayRun, workerVars
<1>4. ASSUME NEW c \in Callers, PickRandom(c) PROVE CallerTypes'
  <2>1. idx' \in Nat
    BY <1>0, <1>4 DEF PickRandom, WorkersOf
  <2> QED
    BY <1>4, <2>1 DEF PickRandom, locals
<1>5. ASSUME NEW c \in Callers, ReadIdx(c) PROVE CallerTypes'
  BY <1>5 DEF ReadIdx, workerVars
<1>6. ASSUME NEW c \in Callers, WriteIdx(c) PROVE CallerTypes'
  BY <1>6 DEF WriteIdx, workerVars, locals
<1>7. ASSUME NEW c \in Callers, ReadHalf(c) PROVE CallerTypes'
  <2>1. pool[c] \in Pools /\ step[c] \in WorkersOf(pool[c])
    BY <1>0, <1>7 DEF ReadHalf, Scanning, WorkersOf
  <2>2. avg[pool[c]][step[c]] \in Int /\ tasks[pool[c]][step[c]] \in Int
    BY <2>1 DEF WorkerTypes, OfWorkers
  <2>3. half' \in [Callers -> [what : {"none", "avg", "size"}, value : Int]]
    <3>1. CASE half' = Set(half, c, [what |-> "avg", value |-> avg[pool[c]][step[c]]])
      BY <2>2, <3>1
    <3>2. CASE half' = Set(half, c, [what |-> "size", value |-> tasks[pool[c]][step[c]]])
      BY <2>2, <3>2
    <3> QED
      BY <1>7, <3>1, <3>2 DEF ReadHalf
  <2> QED
    BY <1>7, <2>3 DEF ReadHalf, workerVars
<1>8. ASSUME NEW c \in Callers, Scan(c) PROVE CallerTypes'
  <2>1. pool[c] \in Pools /\ step[c] \in WorkersOf(pool[c]) /\ step[c] \in 0 .. LargestSize
    <3>1. pool[c] \in Pools /\ step[c] \in Nat /\ step[c] < Size[pool[c]]
      BY <1>8 DEF Scan, Scanning
    <3> HIDE DEF CallerTypes
    <3> QED
      BY <1>0, <3>1 DEF WorkersOf
  <2>2. avg[pool[c]][step[c]] \in Int /\ tasks[pool[c]][step[c]] \in Int
    BY <2>1 DEF WorkerTypes, OfWorkers
  <2>3. Workload(c) \in Int
    BY <2>2 DEF Workload
  <2>4. Nowhere \in [what : {"none", "avg", "size"}, value : Int]
    BY DEF Nowhere
  <2>5. minLoad' \in [Callers -> Int] /\ best' \in [Callers -> 0 .. LargestSize]
    BY <1>8, <2>1, <2>3 DEF Scan
  <2>6. seen' \in [Callers -> [0 .. LargestSize -> Int]]
    BY <1>8, <2>1, <2>3 DEF Scan
  <2>7. step' \in [Callers -> Nat] /\ half' \in [Callers -> [what : {"none", "avg", "size"}, value : Int]]
    BY <1>8, <2>4 DEF Scan
  <2> QED
    BY <1>8, <2>5, <2>6, <2>7 DEF Scan, workerVars
<1>9. ASSUME NEW c \in Callers, ScanDone(c) PROVE CallerTypes'
  BY <1>0, <1>9 DEF ScanDone, workerVars, locals
<1>10. ASSUME NEW c \in Callers, Use(c) PROVE CallerTypes'
  <2>1. UNCHANGED <<idx, pool, locals, runs>>
    BY <1>10 DEF Use
  <2>2. CASE idx \in WorkersOf(pool[c])
    <3>1. idx \in 0 .. LargestSize
      BY <1>0, <2>2 DEF WorkersOf
    <3> QED
      BY <1>10, <2>1, <2>2, <3>1 DEF Use, locals
  <2>3. CASE idx \notin WorkersOf(pool[c])
    BY <1>10, <2>1, <2>3 DEF Use, locals
  <2> QED
    BY <2>2, <2>3
<1>11. ASSUME NEW p \in Pools, NEW w \in WorkersOf(p), Work(p, w) PROVE CallerTypes'
  BY <1>11 DEF Work, TakeTask, EndTask, locals
<1>12. CASE UNCHANGED vars
  BY <1>12 DEF vars, locals
<1> QED
  BY <1>1, <1>2, <1>3, <1>4, <1>5, <1>6, <1>7, <1>8, <1>9, <1>10, <1>11, <1>12 DEF Next, Continue

(* Each step keeps the types of the workers' variables.                    *)
LEMMA WorkersStep ==
  ASSUME WorkerTypes, CallerTypes, [Next]_vars
  PROVE  WorkerTypes'
<1>1. ASSUME NEW p \in Pools, NEW w \in WorkersOf(p), Work(p, w) PROVE WorkerTypes'
  BY <1>1, WorkersOfWorker
<1>2. ASSUME NEW c \in Callers, NEW p \in Pools, NEW workerId \in 0 .. LargestSize + 1, RunOn(c, p, workerId)
      PROVE  WorkerTypes'
  <2>1. Reduced(workerId, p) \in WorkersOf(p) /\ Submit(p, Reduced(workerId, p)) /\ UNCHANGED workerVars
    BY <1>2, Largest DEF RunOn, Reduced, WorkersOf
  <2> QED
    BY <2>1, WorkersOfCaller
<1>3. ASSUME NEW c \in Callers, Use(c) PROVE WorkerTypes'
  <2>1. pool[c] \in Pools
    BY DEF CallerTypes
  <2> QED
    BY <1>3, <2>1, WorkersOfCaller DEF Use
<1>4. CASE UNCHANGED <<tasks, workerVars>>
  BY <1>4, WorkersOfCaller
<1> QED
  BY <1>1, <1>2, <1>3, <1>4 DEF Next, Continue, RunInline, Begin, PickRandom, ReadIdx, WriteIdx, ReadHalf,
     Scan, ScanDone, vars

(* The number of jobs yet to come is kept by a step that adds no call and  *)
(* no more jobs than it begins calls.                                      *)
LEMMA CountedKept ==
  ASSUME WorkerTypes, WorkerTypes', CallerTypes, CallerTypes', Counted, InFlight' = InFlight,
         \A p \in Pools : \A w \in WorkersOf(p) : tasks'[p][w] - tasks[p][w] <= runs' - runs
  PROVE  Counted'
<1>1. Cardinality(InFlight) \in Nat
  BY FS_CardinalityType DEF Counted
<1>2. runs \in Int /\ runs' \in Int
  BY DispatchAssumption DEF CallerTypes
<1>3. ASSUME NEW p \in Pools, NEW w \in WorkersOf(p)
      PROVE  tasks'[p][w] + Cardinality(InFlight) <= runs' + 1
  <2>1. tasks[p][w] \in Nat /\ tasks'[p][w] \in Nat
    BY DEF WorkerTypes, OfWorkers
  <2>2. tasks[p][w] + Cardinality(InFlight) <= runs + 1
    BY DEF Counted
  <2> QED
    BY <1>1, <1>2, <2>1, <2>2
<1> QED
  BY <1>3 DEF Counted

(* Each step keeps the count.                                              *)
LEMMA CountedStep ==
  ASSUME WorkerTypes, WorkerTypes', CallerTypes, CallerTypes', Counted, [Next]_vars
  PROVE  Counted'
<1>0. /\ Cardinality(InFlight) \in Nat /\ runs \in Int /\ IsFiniteSet(InFlight)
      /\ \A p \in Pools : \A w \in WorkersOf(p) : tasks[p][w] \in Nat /\ tasks'[p][w] \in Nat
  BY FS_CardinalityType, DispatchAssumption DEF Counted, CallerTypes, WorkerTypes, OfWorkers
<1>1. ASSUME NEW c \in Callers, NEW p \in Pools, Begin(c, p) PROVE Counted'
  <2>1. InFlight' = InFlight \cup {c} /\ c \notin InFlight
    <3>1. pc' = [pc EXCEPT ![c] = Policy[p]] /\ pc[c] = "idle" /\ Policy[p] \in {"RAN", "RR", "LB0"}
      BY <1>1, DispatchAssumption DEF Begin, MayRun, Set
    <3>2. \A x \in Callers : pc'[x] = IF x = c THEN Policy[p] ELSE pc[x]
      BY <3>1 DEF CallerTypes
    <3> HIDE DEF CallerTypes
    <3>3. pc'[c] \notin {"idle", "undefined"}
      BY <3>1, <3>2
    <3> QED
      BY <3>1, <3>2, <3>3 DEF InFlight
  <2>2. IsFiniteSet(InFlight') /\ Cardinality(InFlight') = Cardinality(InFlight) + 1
    BY <1>0, <2>1, FS_AddElement
  <2>3. tasks' = tasks /\ runs' = runs + 1
    BY <1>1 DEF Begin
  <2> HIDE DEF InFlight
  <2> QED
    BY <1>0, <2>2, <2>3 DEF Counted
<1>2. ASSUME NEW c \in Callers, Use(c) PROVE Counted'
  <2>1. pc[c] = "use" /\ runs' = runs /\ pool[c] \in Pools
    BY <1>2 DEF Use, CallerTypes
  <2>2. InFlight' = InFlight \ {c} /\ c \in InFlight
    <3>1. pc' = [pc EXCEPT ![c] = "idle"] \/ pc' = [pc EXCEPT ![c] = "undefined"]
      BY <1>2 DEF Use, Set
    <3> QED
      BY <2>1, <3>1 DEF InFlight, CallerTypes
  <2>3. IsFiniteSet(InFlight') /\ Cardinality(InFlight') = Cardinality(InFlight) - 1
    BY <1>0, <2>2, FS_RemoveElement
  <2>4. \A p \in Pools : \A w \in WorkersOf(p) : tasks'[p][w] <= tasks[p][w] + 1
    <3>1. CASE idx \in WorkersOf(pool[c])
      <4> DEFINE q == pool[c]  v == tasks[q][idx] + 1
      <4>1. tasks' = [tasks EXCEPT ![q][idx] = v]
        BY <1>2, <3>1 DEF Use, Submit
      <4>2. OfWorkers(tasks, Nat) /\ v \in Nat /\ v <= tasks[q][idx] + 1
        BY <1>0, <2>1, <3>1 DEF WorkerTypes
      <4>3. q \in Pools /\ idx \in WorkersOf(q)
        BY <2>1, <3>1
      <4> HIDE DEF q, v
      <4>4. \A p \in Pools : \A w \in WorkersOf(p) :
              tasks'[p][w] = IF p = q /\ w = idx THEN v ELSE tasks[p][w]
        BY <4>1, <4>2, <4>3, OneWorker
      <4> QED
        BY <1>0, <4>2, <4>4
    <3>2. CASE idx \notin WorkersOf(pool[c])
      BY <1>0, <1>2, <3>2 DEF Use
    <3> QED
      BY <3>1, <3>2
  <2> HIDE DEF InFlight
  <2>5. ASSUME NEW p \in Pools, NEW w \in WorkersOf(p)
        PROVE  tasks'[p][w] + Cardinality(InFlight') <= runs' + 1
    <3>1. tasks[p][w] + Cardinality(InFlight) <= runs + 1
      BY DEF Counted
    <3> QED
      BY <1>0, <2>1, <2>3, <2>4, <3>1
  <2> QED
    BY <2>3, <2>5 DEF Counted
<1>3. ASSUME NEW c \in Callers, NEW p \in Pools, NEW workerId \in 0 .. LargestSize + 1, RunOn(c, p, workerId)
      PROVE  Counted'
  <2> DEFINE x == Reduced(workerId, p)  v == tasks[p][x] + 1
  <2>1. x \in WorkersOf(p) /\ tasks' = [tasks EXCEPT ![p][x] = v] /\ runs' = runs + 1 /\ pc' = pc
    BY <1>3, Largest DEF RunOn, Reduced, WorkersOf, Submit
  <2> HIDE DEF x
  <2>2. OfWorkers(tasks, Nat) /\ v \in Nat /\ v <= tasks[p][x] + 1
    BY <1>0, <2>1 DEF WorkerTypes
  <2> HIDE DEF v
  <2>3. \A q \in Pools : \A w \in WorkersOf(q) :
          tasks'[q][w] = IF q = p /\ w = x THEN v ELSE tasks[q][w]
    BY <2>1, <2>2, OneWorker
  <2>4. \A q \in Pools : \A w \in WorkersOf(q) : tasks'[q][w] - tasks[q][w] <= runs' - runs
    BY <1>0, <2>1, <2>2, <2>3
  <2>5. InFlight' = InFlight
    BY <2>1 DEF InFlight
  <2> QED
    BY <2>4, <2>5, CountedKept
<1>4. ASSUME NEW p \in Pools, NEW w \in WorkersOf(p), Work(p, w) PROVE Counted'
  <2>1. \A q \in Pools : \A x \in WorkersOf(q) : tasks'[q][x] <= tasks[q][x]
    <3>1. CASE TakeTask(p, w)
      <4>1. tasks' = [tasks EXCEPT ![p][w] = tasks[p][w] - 1] /\ tasks[p][w] > 0
        BY <3>1 DEF TakeTask
      <4>2. OfWorkers(tasks, Nat) /\ tasks[p][w] - 1 \in Nat
        BY <1>0, <4>1 DEF WorkerTypes
      <4>3. \A q \in Pools : \A x \in WorkersOf(q) :
              tasks'[q][x] = IF q = p /\ x = w THEN tasks[p][w] - 1 ELSE tasks[q][x]
        BY <4>1, <4>2, OneWorker
      <4> QED
        BY <1>0, <4>3
    <3>2. ASSUME NEW runtime \in Runtimes, EndTask(p, w, runtime) PROVE tasks' = tasks
      BY <3>2 DEF EndTask
    <3> QED
      BY <1>0, <1>4, <3>1, <3>2 DEF Work
  <2>2. pc' = pc /\ runs' = runs
    BY <1>4 DEF Work, TakeTask, EndTask
  <2>3. \A q \in Pools : \A x \in WorkersOf(q) : tasks'[q][x] - tasks[q][x] <= runs' - runs
    BY <1>0, <2>1, <2>2
  <2>4. InFlight' = InFlight
    BY <2>2 DEF InFlight
  <2> QED
    BY <2>3, <2>4, CountedKept
<1>5. ASSUME NEW c \in Callers, PickRandom(c) \/ ReadIdx(c) \/ WriteIdx(c) \/ ReadHalf(c)
             \/ Scan(c) \/ ScanDone(c)
      PROVE  Counted'
  <2>1. tasks' = tasks /\ runs' = runs
    BY <1>5 DEF PickRandom, ReadIdx, WriteIdx, ReadHalf, Scan, ScanDone
  <2>2. InFlight' = InFlight
    BY <1>5 DEF PickRandom, ReadIdx, WriteIdx, ReadHalf, Scan, ScanDone, Set, InFlight, CallerTypes, Scanning
  <2> QED
    BY <1>0, <2>1, <2>2, CountedKept
<1>6. CASE \E c \in Callers, p \in Pools : RunInline(c, p)
  <2>1. tasks' = tasks /\ runs' = runs + 1 /\ InFlight' = InFlight
    BY <1>6 DEF RunInline, InFlight
  <2> QED
    BY <1>0, <2>1, CountedKept
<1>7. CASE UNCHANGED vars
  <2>1. tasks' = tasks /\ runs' = runs /\ InFlight' = InFlight
    BY <1>7 DEF vars, InFlight
  <2> QED
    BY <1>0, <2>1, CountedKept
<1> QED
  BY <1>1, <1>2, <1>3, <1>4, <1>5, <1>6, <1>7 DEF Next, Continue

(* So the types always hold, and the count.                                *)
LEMMA TypeInvariant == Spec => [](WorkerTypes /\ CallerTypes /\ Counted)
<1>1. WorkerTypes /\ CallerTypes /\ Counted /\ [Next]_vars => (WorkerTypes /\ CallerTypes /\ Counted)'
  BY WorkersStep, CallersStep, CountedStep
<1> QED
  BY TypeInit, <1>1, PTL DEF Spec

(* The types of the dispatcher, and that no queue of a pool holds more     *)
(* than one task for each call of run() and the init callback.             *)
THEOREM TypeCorrect == Spec => []TypeOK
  BY TypeInvariant, TypeIsParts, PTL

-----------------------------------------------------------------------------
(* The average.                                                            *)
LEMMA TruncatedBetween ==
  ASSUME NEW n \in Int, NEW lo \in Int, NEW hi \in Int, lo <= 0, 0 <= hi,
         77824 * lo - 5 <= n, n <= 77824 * hi + 5
  PROVE  lo <= Truncated(n, 77824) /\ Truncated(n, 77824) <= hi
<1>1. CASE n < 0
  <2>1. Truncated(n, 77824) = -((-n) \div 77824)
    BY <1>1 DEF Truncated
  <2>2. (-n) \div 77824 \in Nat /\ 77824 * ((-n) \div 77824) <= -n
    BY <1>1
  <2> QED
    BY <1>1, <2>1, <2>2
<1>2. CASE n >= 0
  <2>1. Truncated(n, 77824) = n \div 77824
    BY <1>2 DEF Truncated
  <2>2. n \div 77824 \in Nat /\ 77824 * (n \div 77824) <= n
    BY <1>2
  <2> QED
    BY <1>2, <2>1, <2>2
<1> QED
  BY <1>1, <1>2

(* Rounding changes a number by half a unit at most.                       *)
LEMMA RoundedIsNear ==
  \A n \in Int : Rounded(n) \in Int /\ 10 * Rounded(n) <= n + 5 /\ n - 5 <= 10 * Rounded(n)
  BY DEF Rounded

(* A new average is within the bounds of the old one and the runtime.      *)
LEMMA AverageBetween ==
  ASSUME NEW a \in Int, NEW r \in Int, NEW lo \in Int, NEW hi \in Int,
         lo <= 0, 0 <= hi, lo <= a, lo <= r, r <= hi, a <= IF hi = 1 THEN 0 ELSE hi
  PROVE  lo <= Average(a, r) /\ Average(a, r) <= IF hi = 1 THEN 0 ELSE hi
<1> DEFINE n == 10 * (Rounded(36864 * a) + 4096 * r)
           top == IF hi = 1 THEN 0 ELSE hi
<1>1. n \in Int /\ n <= 36864 * a + 40960 * r + 5 /\ 36864 * a + 40960 * r - 5 <= n
  BY RoundedIsNear
<1>2. Average(a, r) = Truncated(n, 77824)
  BY DEF Average
<1> HIDE DEF n
<1>3. 77824 * lo - 5 <= n
  BY <1>1
<1>4. top \in Int /\ 0 <= top /\ a <= top
  OBVIOUS
<1>5. CASE n <= 77824 * top + 5
  <2> HIDE DEF top
  <2>1. lo <= Truncated(n, 77824) /\ Truncated(n, 77824) <= top
    BY <1>1, <1>3, <1>4, <1>5, TruncatedBetween
  <2> QED
    BY <1>2, <2>1 DEF top
<1>6. CASE n > 77824 * top + 5
  <2>1. hi = 1 /\ top = 0 /\ 0 <= n /\ n < 77824
    BY <1>1, <1>6
  <2>2. Truncated(n, 77824) = 0
    BY <1>1, <2>1 DEF Truncated
  <2> QED
    BY <1>2, <2>1, <2>2
<1> QED
  BY <1>1, <1>4, <1>5, <1>6

(* Each step keeps the averages within the runtimes.                       *)
LEMMA AveragesStep == WorkerTypes /\ AverageWithinRuntimes /\ [Next]_vars => AverageWithinRuntimes'
<1> SUFFICES ASSUME WorkerTypes, AverageWithinRuntimes, [Next]_vars PROVE AverageWithinRuntimes'
  OBVIOUS
<1>1. ASSUME NEW p \in Pools, NEW w \in WorkersOf(p), NEW runtime \in Runtimes, EndTask(p, w, runtime)
      PROVE  AverageWithinRuntimes'
  <2> DEFINE a == avg[p][w]  s == span[p][w]  b == Average(a, runtime)
             v == [lo |-> IF runtime < s.lo THEN runtime ELSE s.lo,
                   hi |-> IF runtime > s.hi THEN runtime ELSE s.hi]
  <2>1. /\ a \in Int /\ runtime \in Runtime /\ runtime \in Int /\ s \in Spans
        /\ OfWorkers(avg, Int) /\ OfWorkers(span, Spans)
    <3>1. OfWorkers(avg, Int) /\ OfWorkers(span, Spans)
      BY DEF WorkerTypes
    <3>2. a \in Int /\ s \in Spans
      BY <3>1 DEF OfWorkers
    <3> QED
      BY <3>1, <3>2, Ranges
  <2>2. b \in Int /\ v \in Spans
    <3> HIDE DEF a, s
    <3>1. b \in Int
      BY <2>1, AverageIsInt
    <3>2. v \in Spans
      BY <2>1, SpanGrows
    <3> QED
      BY <3>1, <3>2
  <2>3. avg' = [avg EXCEPT ![p][w] = b] /\ span' = [span EXCEPT ![p][w] = v]
    BY <1>1 DEF EndTask
  <2>4. v.lo <= b /\ b <= IF v.hi = 1 THEN 0 ELSE v.hi
    <3>1. /\ s.lo \in Int /\ s.lo <= 0 /\ s.hi \in Int /\ 0 <= s.hi
          /\ v.lo = IF runtime < s.lo THEN runtime ELSE s.lo
          /\ v.hi = IF runtime > s.hi THEN runtime ELSE s.hi
      <4>1. /\ v.lo = IF runtime < s.lo THEN runtime ELSE s.lo
            /\ v.hi = IF runtime > s.hi THEN runtime ELSE s.hi
        OBVIOUS
      <4> HIDE DEF s, v
      <4> QED
        BY <2>1, <4>1, SpanParts
    <3>2. s.lo <= a /\ a <= IF s.hi = 1 THEN 0 ELSE s.hi
      BY DEF AverageWithinRuntimes
    <3> DEFINE l == v.lo  h == v.hi  sl == s.lo  sh == s.hi
    <3>3. /\ sl \in Int /\ sl <= 0 /\ sh \in Int /\ 0 <= sh /\ sl <= a /\ a <= IF sh = 1 THEN 0 ELSE sh
          /\ l = IF runtime < sl THEN runtime ELSE sl
          /\ h = IF runtime > sh THEN runtime ELSE sh
      BY <3>1, <3>2
    <3> HIDE DEF l, h, sl, sh, a, s, v
    <3>4. /\ l \in Int /\ h \in Int /\ l <= 0 /\ 0 <= h /\ l <= a /\ l <= runtime /\ runtime <= h
          /\ a <= IF h = 1 THEN 0 ELSE h
      BY <2>1, <3>3
    <3>5. l <= b /\ b <= IF h = 1 THEN 0 ELSE h
      <4>1. runtime \in Int /\ a \in Int
        BY <2>1
      <4> QED
        BY <3>4, <4>1, AverageBetween
    <3> QED
      BY <3>5 DEF l, h
  <2> HIDE DEF b, v
  <2>5. \A q \in Pools : \A x \in WorkersOf(q) :
          /\ avg'[q][x] = IF q = p /\ x = w THEN b ELSE avg[q][x]
          /\ span'[q][x] = IF q = p /\ x = w THEN v ELSE span[q][x]
    <3>1. \A q \in Pools : \A x \in WorkersOf(q) : avg'[q][x] = IF q = p /\ x = w THEN b ELSE avg[q][x]
      BY <2>1, <2>2, <2>3, OneWorker
    <3>2. \A q \in Pools : \A x \in WorkersOf(q) : span'[q][x] = IF q = p /\ x = w THEN v ELSE span[q][x]
      BY <2>1, <2>2, <2>3, OneWorker
    <3> QED
      BY <3>1, <3>2
  <2> QED
    BY <2>4, <2>5 DEF AverageWithinRuntimes
<1>2. CASE UNCHANGED <<avg, span>>
  BY <1>2 DEF AverageWithinRuntimes
<1>3. CASE UNCHANGED workerVars \/ \E p \in Pools : \E w \in WorkersOf(p) : TakeTask(p, w)
  BY <1>2, <1>3 DEF workerVars, TakeTask
<1>4. ASSUME NEW c \in Callers, Continue(c) PROVE UNCHANGED workerVars
  BY <1>4 DEF Continue, PickRandom, ReadIdx, WriteIdx, ReadHalf, Scan, ScanDone, Use
<1>5. ASSUME NEW c \in Callers, NEW p \in Pools,
             RunInline(c, p) \/ Begin(c, p) \/ \E workerId \in 0 .. LargestSize + 1 : RunOn(c, p, workerId)
      PROVE  UNCHANGED workerVars
  BY <1>5 DEF RunInline, Begin, RunOn
<1>6. CASE UNCHANGED vars
  BY <1>3, <1>6 DEF vars
<1> QED
  BY <1>1, <1>3, <1>4, <1>5, <1>6 DEF Next, Work

(* The average of a worker's runtimes stays within them, as rounded and    *)
(* truncated in every step (ThreadPool.cpp:83-85), and at zero for ever    *)
(* where no task takes more than a millisecond.                            *)
THEOREM AveragesStayWithin == Spec => []AverageWithinRuntimes
<1>1. Init => AverageWithinRuntimes
  BY DEF Init, OfAllWorkers, AverageWithinRuntimes
<1> QED
  BY TypeInvariant, AveragesStep, <1>1, PTL DEF Spec

-----------------------------------------------------------------------------
(* The scan of LB0: of the workers it has read, best is the first of those *)
(* with the least load, and minLoad its load, as read.  What it has read   *)
(* of a load is in the range of what it stands for, so all loads are less  *)
(* than NoLoad.                                                            *)
LeastIn(loads, b, n) ==
  /\ b \in 0 .. n - 1
  /\ \A w \in 0 .. n - 1 : loads[b] < loads[w] \/ (loads[b] = loads[w] /\ b <= w)
Scanned(c) ==
  LET p == pool[c] IN
  /\ pc[c] \in {"RAN", "RR", "LB0"} => pc[c] = Policy[p]
  /\ pc[c] = "write" => Policy[p] = "RR"
  /\ pc[c] \notin {"idle", "undefined"} => Size[p] > 0
  /\ pc[c] = "LB0" => /\ step[c] <= Size[p]
                      /\ step[c] = 0 => minLoad[c] = NoLoad
                      /\ step[c] > 0 => LeastIn(seen[c], best[c], step[c]) /\ minLoad[c] = seen[c][best[c]]
  /\ pc[c] = "use" /\ Policy[p] = "LB0" => LeastIn(seen[c], best[c], Size[p])
HalfRead(h) ==
  \/ h = Nowhere
  \/ h.what = "avg" /\ h.value \in Runtime
  \/ h.what = "size" /\ h.value \in QueueSize
Scans == \A c \in Callers : Scanned(c) /\ HalfRead(half[c])

Own(c) == <<pc[c], pool[c], step[c], half[c], minLoad[c], best[c], seen[c]>>

(* A caller's scan depends on nothing but its own locals.                  *)
LEMMA Unmoved == ASSUME NEW c \in Callers, Scanned(c), HalfRead(half[c]), UNCHANGED Own(c)
                 PROVE  Scanned(c)' /\ HalfRead(half'[c])
<1>1. /\ pc'[c] = pc[c] /\ pool'[c] = pool[c] /\ step'[c] = step[c] /\ half'[c] = half[c]
      /\ minLoad'[c] = minLoad[c] /\ best'[c] = best[c] /\ seen'[c] = seen[c]
  BY DEF Own
<1>2. Scanned(c)'
  BY <1>1 DEF Scanned
<1> QED
  BY <1>1, <1>2

(* A step of one caller leaves the locals of the others alone.             *)
LEMMA OthersUnmoved ==
  ASSUME CallerTypes, [Next]_vars, NEW c \in Callers, ~Continue(c), \A p \in Pools : ~Begin(c, p)
  PROVE  \/ UNCHANGED Own(c)
         \/ pc[c] = "idle" /\ pc'[c] = "idle" /\ UNCHANGED half[c]
<1> USE DEF CallerTypes, Set, Own
<1>1. ASSUME NEW d \in Callers, d # c, Continue(d) PROVE UNCHANGED Own(c)
  <2>1. CASE PickRandom(d) \/ ReadIdx(d) \/ WriteIdx(d)
    BY <1>1, <2>1 DEF PickRandom, ReadIdx, WriteIdx, locals
  <2>2. CASE ReadHalf(d)
    BY <1>1, <2>2 DEF ReadHalf
  <2>3. CASE Scan(d)
    BY <1>1, <2>3 DEF Scan
  <2>4. CASE ScanDone(d) \/ Use(d)
    BY <1>1, <2>4 DEF ScanDone, Use, locals
  <2> QED
    BY <1>1, <2>1, <2>2, <2>3, <2>4 DEF Continue
<1>2. ASSUME NEW d \in Callers, d # c, NEW p \in Pools, Begin(d, p) PROVE UNCHANGED Own(c)
  BY <1>2 DEF Begin
<1>3. ASSUME NEW d \in Callers, NEW p \in Pools,
             RunInline(d, p) \/ \E workerId \in 0 .. LargestSize + 1 : RunOn(d, p, workerId)
      PROVE  \/ UNCHANGED Own(c)
             \/ pc[c] = "idle" /\ pc'[c] = "idle" /\ UNCHANGED half[c]
  <2>1. pc[d] = "idle" /\ pc' = pc /\ UNCHANGED locals /\ pool' = [pool EXCEPT ![d] = p]
    BY <1>3 DEF RunInline, RunOn, MayRun
  <2> QED
    BY <2>1 DEF locals
<1>4. ASSUME NEW p \in Pools, NEW w \in WorkersOf(p), Work(p, w) PROVE UNCHANGED Own(c)
  BY <1>4 DEF Work, TakeTask, EndTask, locals
<1>5. CASE UNCHANGED vars
  BY <1>5 DEF vars, locals
<1> QED
  BY <1>1, <1>2, <1>3, <1>4, <1>5 DEF Next

(* What lies between the ends of a worker's runtimes, the upper one        *)
(* being 0 where the slowest job took 1, is a runtime.                     *)
LEMMA BetweenTheEnds ==
  ASSUME NEW l \in Early, NEW h \in Late, NEW a \in Int, l <= a, a <= IF h = 1 THEN 0 ELSE h
  PROVE  a \in Runtime
<1>1. l \in Int /\ h \in Int /\ l >= -1000 /\ 0 <= h /\ h <= 1000
  BY SMT DEF Early, Late
<1>2. a <= 1000 /\ -1000 <= a
  BY <1>1, SMT
<1> QED
  BY <1>2, SMT DEF Runtime

(* A load is a product of an average and a size, one of them read before.  *)
LEMMA ProductIsLoad ==
  ASSUME NEW a \in Runtime, NEW n \in QueueSize
  PROVE  /\ a * n \in Int /\ a * n < NoLoad
         /\ n * a \in Int /\ n * a < NoLoad
<1> DEFINE k == 1000 - a
<1>1. a \in Int /\ n \in Nat /\ k \in Nat /\ 1000 * n <= 1001000
  BY SMT DEF Runtime, QueueSize
<1>2. k * n \in Nat
  <2> HIDE DEF k
  <2> QED
    BY <1>1, SMT
<1>3. k * n = 1000 * n - a * n /\ a * n \in Int /\ n * a = a * n
  BY <1>1, SMT
<1> HIDE DEF k
<1> QED
  BY <1>1, <1>2, <1>3, SMT DEF NoLoad

(* What a scan reads is in these ranges, and so the load it makes of it is *)
(* less than the one it starts with.                                       *)
LEMMA LoadsAreSmall ==
  ASSUME WorkerTypes, CallerTypes, Counted, AverageWithinRuntimes,
         NEW c \in Callers, HalfRead(half[c]), Scanning(c)
  PROVE  /\ avg[pool[c]][step[c]] \in Runtime /\ tasks[pool[c]][step[c]] \in QueueSize
         /\ half[c] # Nowhere => Workload(c) \in Int /\ Workload(c) < NoLoad
<1> DEFINE p == pool[c]  w == step[c]  a == avg[p][w]  n == tasks[p][w]  s == span[p][w]
<1>1. p \in Pools /\ w \in WorkersOf(p)
  BY Largest DEF CallerTypes, Scanning, WorkersOf
<1>2. a \in Runtime
  <2>1. a \in Int /\ s \in Spans
    BY <1>1 DEF WorkerTypes, OfWorkers
  <2>2. s.lo <= a /\ a <= IF s.hi = 1 THEN 0 ELSE s.hi
    BY <1>1 DEF AverageWithinRuntimes
  <2> HIDE DEF s, a
  <2>3. s.lo \in Early /\ s.hi \in Late
    BY <2>1, SpanParts
  <2> QED
    BY <2>1, <2>2, <2>3, BetweenTheEnds
<1>3. n \in QueueSize
  <2>1. n \in Nat /\ n + Cardinality(InFlight) <= runs + 1
    BY <1>1 DEF WorkerTypes, OfWorkers, Counted
  <2>2. Cardinality(InFlight) \in Nat
    BY FS_CardinalityType DEF Counted
  <2>3. runs \in Int /\ runs <= 1000
    BY DispatchAssumption, SMT DEF CallerTypes
  <2> HIDE DEF n
  <2> QED
    BY <2>1, <2>2, <2>3, SMT DEF QueueSize
<1>4. ASSUME half[c] # Nowhere PROVE Workload(c) \in Int /\ Workload(c) < NoLoad
  <2> DEFINE v == half[c].value
  <2>1. Workload(c) = v * (IF half[c].what = "avg" THEN n ELSE a)
    BY DEF Workload
  <2>2. (half[c].what = "avg" /\ v \in Runtime) \/ (half[c].what = "size" /\ v \in QueueSize)
    BY <1>4 DEF HalfRead
  <2> HIDE DEF v, n, a
  <2>3. CASE half[c].what = "avg" /\ v \in Runtime
    <3>1. Workload(c) = v * n
      BY <2>1, <2>3
    <3> QED
      BY <1>3, <2>3, <3>1, ProductIsLoad
  <2>4. CASE half[c].what = "size" /\ v \in QueueSize
    <3>1. Workload(c) = v * a
      BY <2>1, <2>4
    <3> QED
      BY <1>2, <2>4, <3>1, ProductIsLoad
  <2> QED
    BY <2>2, <2>3, <2>4
<1> QED
  BY <1>2, <1>3, <1>4

(* The loads read before and after one more, of worker n, is read.         *)
OneMore(s, g, b, n, load) ==
  /\ n > 0 => LeastIn(s, b, n)
  /\ \A w \in 0 .. n : s[w] \in Int /\ g[w] = IF w = n THEN load ELSE s[w]

(* The least is the new one if it is less than the least so far.           *)
LEMMA LeastOfOneMore ==
  ASSUME NEW n \in Nat, NEW s, NEW g, NEW b, NEW load \in Int,
         OneMore(s, g, b, n, load)
  PROVE  /\ n = 0 \/ load < s[b] => LeastIn(g, n, n + 1) /\ g[n] = load
         /\ n > 0 /\ ~(load < s[b]) => LeastIn(g, b, n + 1) /\ g[b] = s[b]
<1>1. g[n] = load /\ (n + 1) - 1 = n
      /\ \A w \in 0 .. n : w # n => w \in 0 .. n - 1 /\ g[w] = s[w] /\ s[w] \in Int
  BY DEF OneMore
<1>2. ASSUME n = 0 \/ load < s[b] PROVE LeastIn(g, n, n + 1)
  <2>1. ASSUME NEW w \in 0 .. n PROVE g[n] < g[w] \/ (g[n] = g[w] /\ n <= w)
    <3>1. CASE w = n
      BY <3>1
    <3>2. CASE w # n
      <4>1. n > 0 /\ b \in 0 .. n - 1 /\ (s[b] < s[w] \/ s[b] = s[w])
        BY <1>1, <3>2 DEF LeastIn, OneMore
      <4>2. s[b] \in Int /\ s[w] \in Int /\ load < s[b]
        BY <1>1, <1>2, <3>2, <4>1
      <4> QED
        BY <1>1, <3>2, <4>1, <4>2
    <3> QED
      BY <3>1, <3>2
  <2> QED
    BY <1>1, <2>1 DEF LeastIn, OneMore
<1>3. ASSUME n > 0, ~(load < s[b]) PROVE LeastIn(g, b, n + 1) /\ g[b] = s[b]
  <2>1. b \in 0 .. n - 1 /\ b \in 0 .. n /\ b # n /\ b <= n
    BY <1>3 DEF LeastIn, OneMore
  <2>2. g[b] = s[b] /\ s[b] \in Int
    BY <1>1, <2>1
  <2>3. ASSUME NEW w \in 0 .. n PROVE g[b] < g[w] \/ (g[b] = g[w] /\ b <= w)
    <3>1. CASE w = n
      BY <1>1, <1>3, <2>1, <2>2, <3>1
    <3>2. CASE w # n
      BY <1>1, <1>3, <2>2, <3>2 DEF LeastIn, OneMore
    <3> QED
      BY <3>1, <3>2
  <2> QED
    BY <1>1, <2>1, <2>2, <2>3 DEF LeastIn, OneMore
<1> QED
  BY <1>1, <1>2, <1>3

(* One more worker scanned.                                                *)
LEMMA ScanStep ==
  ASSUME CallerTypes, NEW c \in Callers, Scanned(c), Scan(c),
         Workload(c) \in Int, Workload(c) < NoLoad
  PROVE  Scanned(c)'
<1> DEFINE load == Workload(c)  n == step[c]  b == best[c]  s == seen[c]  m == minLoad[c]
<1>1. /\ pc[c] = "LB0" /\ pc' = pc /\ pool' = pool /\ n < Size[pool[c]] /\ step'[c] = n + 1
      /\ n \in Nat /\ n \in 0 .. LargestSize /\ Size[pool[c]] \in Nat /\ LargestSize \in Nat
      /\ s \in [0 .. LargestSize -> Int] /\ m \in Int
  <2>1. pool[c] \in Pools
    BY DEF CallerTypes
  <2>2. Size[pool[c]] \in Nat /\ Size[pool[c]] <= LargestSize /\ LargestSize \in Nat
    BY <2>1, Largest
  <2>3. /\ pc[c] = "LB0" /\ pc' = pc /\ pool' = pool /\ n < Size[pool[c]]
        /\ step' = [step EXCEPT ![c] = n + 1]
    BY DEF Scan, Scanning, Set
  <2>4. n \in Nat /\ s \in [0 .. LargestSize -> Int] /\ m \in Int /\ step'[c] = n + 1
    BY <2>3 DEF CallerTypes
  <2> HIDE DEF n, s, m
  <2> QED
    BY <2>2, <2>3, <2>4
<1>2. /\ Policy[pool[c]] = "LB0"
      /\ n = 0 => m = NoLoad
      /\ n > 0 => LeastIn(s, b, n) /\ m = s[b]
  BY <1>1 DEF Scanned
<1>3. seen'[c] = [s EXCEPT ![n] = load]
  BY DEF Scan, CallerTypes
<1>4. \/ load < m /\ minLoad'[c] = load /\ best'[c] = n
      \/ ~(load < m) /\ minLoad'[c] = m /\ best'[c] = b
  BY DEF Scan, Less, Set, CallerTypes
<1>5. load \in Int /\ load < NoLoad
  OBVIOUS
<1> HIDE DEF load, n, b, s, m
<1>6. OneMore(s, seen'[c], b, n, load)
  BY <1>1, <1>2, <1>3 DEF OneMore
<1>7. /\ n = 0 \/ load < s[b] => LeastIn(seen'[c], n, n + 1) /\ seen'[c][n] = load
      /\ n > 0 /\ ~(load < s[b]) => LeastIn(seen'[c], b, n + 1) /\ seen'[c][b] = s[b]
  <2>1. n \in Nat /\ load \in Int
    BY <1>1, <1>5
  <2> QED
    BY <1>6, <2>1, LeastOfOneMore
<1>8. LeastIn(seen'[c], best'[c], n + 1) /\ minLoad'[c] = seen'[c][best'[c]]
  <2>1. CASE n = 0
    BY <1>2, <1>4, <1>5, <1>7, <2>1
  <2>2. CASE n > 0
    BY <1>2, <1>4, <1>7, <2>2
  <2> QED
    BY <1>1, <2>1, <2>2
<1>9. pc'[c] = "LB0" /\ pool'[c] = pool[c] /\ step'[c] = n + 1 /\ n + 1 > 0 /\ n + 1 <= Size[pool[c]]
      /\ Size[pool[c]] > 0 /\ n + 1 # 0
  BY <1>1
<1> QED
  BY <1>2, <1>8, <1>9 DEF Scanned

(* Each step keeps every scan right, whatever the other callers do.        *)
LEMMA ScansStep ==
  ASSUME WorkerTypes, CallerTypes, CallerTypes', Counted, AverageWithinRuntimes, Scans, [Next]_vars
  PROVE  Scans'
<1> SUFFICES ASSUME NEW c \in Callers PROVE Scanned(c)' /\ HalfRead(half'[c])
  BY DEF Scans
<1>0. /\ Scanned(c) /\ HalfRead(half[c]) /\ pool[c] \in Pools /\ Size[pool[c]] \in Nat
      /\ Policy \in [Pools -> {"RAN", "RR", "LB0"}]
  BY Largest, DispatchAssumption DEF Scans, CallerTypes
<1>1. ASSUME NEW p \in Pools, Begin(c, p) PROVE Scanned(c)' /\ HalfRead(half'[c])
  <2>1. /\ pc'[c] = Policy[p] /\ pool'[c] = p /\ step'[c] = 0 /\ half'[c] = Nowhere
        /\ minLoad'[c] = NoLoad /\ Size[p] > 0
    BY <1>1 DEF Begin, Set, CallerTypes
  <2>2. Policy[p] \in {"RAN", "RR", "LB0"} /\ Size[p] \in Nat
    BY <1>0, Largest
  <2> QED
    BY <2>1, <2>2 DEF Scanned, HalfRead
<1>2. CASE PickRandom(c) \/ ReadIdx(c) \/ WriteIdx(c)
  <2>1. /\ pool' = pool /\ half' = half /\ pc'[c] \in {"use", "write"}
        /\ pc'[c] = "write" => pc[c] = "RR"
        /\ pc[c] \in {"RAN", "RR", "write"}
    BY <1>2 DEF PickRandom, ReadIdx, WriteIdx, Set, CallerTypes, locals
  <2>2. Policy[pool[c]] # "LB0" /\ Size[pool[c]] > 0 /\ (pc[c] = "RR" => Policy[pool[c]] = "RR")
    BY <1>0, <2>1 DEF Scanned
  <2> QED
    BY <1>0, <2>1, <2>2 DEF Scanned
<1>3. CASE ReadHalf(c)
  <2>1. avg[pool[c]][step[c]] \in Runtime /\ tasks[pool[c]][step[c]] \in QueueSize
    <3>1. Scanning(c)
      BY <1>3 DEF ReadHalf
    <3> QED
      BY <1>0, <3>1, LoadsAreSmall
  <2>2. \/ half'[c] = [what |-> "avg", value |-> avg[pool[c]][step[c]]]
        \/ half'[c] = [what |-> "size", value |-> tasks[pool[c]][step[c]]]
    BY <1>3 DEF ReadHalf, Set, CallerTypes
  <2>3. HalfRead(half'[c])
    <3>1. \A x \in Runtime : HalfRead([what |-> "avg", value |-> x])
      BY DEF HalfRead
    <3>2. \A x \in QueueSize : HalfRead([what |-> "size", value |-> x])
      BY DEF HalfRead
    <3> QED
      BY <2>1, <2>2, <3>1, <3>2, Zenon
  <2>4. UNCHANGED <<pc, pool, step, minLoad, best, seen>>
    BY <1>3 DEF ReadHalf
  <2>5. Scanned(c)'
    BY <1>0, <2>4 DEF Scanned
  <2> QED
    BY <2>3, <2>5
<1>4. CASE Scan(c)
  <2>1. half[c] # Nowhere /\ Scanning(c) /\ half'[c] = Nowhere
    BY <1>4 DEF Scan, Set, CallerTypes
  <2>2. Workload(c) \in Int /\ Workload(c) < NoLoad
    BY <1>0, <2>1, LoadsAreSmall
  <2>3. Scanned(c)'
    BY <1>0, <1>4, <2>2, ScanStep
  <2> QED
    BY <2>1, <2>3 DEF HalfRead
<1>5. CASE ScanDone(c)
  <2>1. pc[c] = "LB0" /\ pc'[c] = "use" /\ step[c] = Size[pool[c]] /\ UNCHANGED <<pool, locals>>
    BY <1>5 DEF ScanDone, Set, CallerTypes
  <2>2. Size[pool[c]] > 0 /\ LeastIn(seen[c], best[c], Size[pool[c]])
    BY <1>0, <2>1 DEF Scanned
  <2> QED
    BY <1>0, <2>1, <2>2 DEF Scanned, locals
<1>6. CASE Use(c)
  <2>1. pc'[c] \in {"idle", "undefined"} /\ UNCHANGED locals
    BY <1>6 DEF Use, Set, CallerTypes
  <2> QED
    BY <1>0, <2>1 DEF Scanned, locals
<1>7. CASE UNCHANGED Own(c) \/ (pc[c] = "idle" /\ pc'[c] = "idle" /\ UNCHANGED half[c])
  <2>1. CASE UNCHANGED Own(c)
    BY <1>0, <2>1, Unmoved
  <2>2. CASE pc[c] = "idle" /\ pc'[c] = "idle" /\ UNCHANGED half[c]
    BY <1>0, <2>2 DEF Scanned
  <2> QED
    BY <1>7, <2>1, <2>2
<1> QED
  BY <1>1, <1>2, <1>3, <1>4, <1>5, <1>6, <1>7, OthersUnmoved DEF Continue

DispatchInvariant == WorkerTypes /\ CallerTypes /\ Counted /\ AverageWithinRuntimes /\ Scans

(* So every scan is right at all times, with any number of callers.        *)
LEMMA ScansInvariant == Spec => []DispatchInvariant
<1>1. Init => Scans
  BY DEF Init, Scans, Scanned, HalfRead
<1>2. WorkerTypes /\ CallerTypes /\ CallerTypes' /\ Counted /\ AverageWithinRuntimes /\ Scans
        /\ [Next]_vars => Scans'
  BY ScansStep
<1> QED
  BY TypeInvariant, AveragesStayWithin, <1>1, <1>2, PTL DEF Spec, DispatchInvariant

(* With one caller nobody writes the static between its scan and its use.  *)
OwnIndex == \A c \in Callers : pc[c] = "use" /\ Policy[pool[c]] = "LB0" => idx = best[c]

(* Each step keeps it so.                                                  *)
LEMMA OwnIndexStep ==
  ASSUME \A c, d \in Callers : c = d, CallerTypes, Scans, OwnIndex, [Next]_vars
  PROVE  OwnIndex'
<1> SUFFICES ASSUME NEW c \in Callers, pc'[c] = "use", Policy[pool'[c]] = "LB0" PROVE idx' = best'[c]
  BY DEF OwnIndex
<1> USE DEF CallerTypes, Set
<1>1. CASE ScanDone(c)
  BY <1>1 DEF ScanDone, locals
<1>2. CASE PickRandom(c) \/ ReadIdx(c) \/ WriteIdx(c)
  <2>1. Policy[pool[c]] # "LB0" /\ pool' = pool
    BY <1>2 DEF PickRandom, ReadIdx, WriteIdx, Scans, Scanned
  <2> QED
    BY <2>1
<1>3. CASE ReadHalf(c) \/ Scan(c) \/ Use(c)
  BY <1>3 DEF ReadHalf, Scan, Scanning, Use
<1>4. ASSUME NEW p \in Pools,
             RunInline(c, p) \/ Begin(c, p) \/ \E workerId \in 0 .. LargestSize + 1 : RunOn(c, p, workerId)
      PROVE  pc'[c] # "use"
  <2>1. Policy[p] \in {"RAN", "RR", "LB0"}
    BY DispatchAssumption
  <2> QED
    BY <1>4, <2>1 DEF RunInline, Begin, RunOn, MayRun
<1>5. ASSUME NEW p \in Pools, NEW w \in WorkersOf(p), Work(p, w) PROVE UNCHANGED <<pc, pool, idx, best>>
  BY <1>5 DEF Work, TakeTask, EndTask, locals
<1>6. CASE UNCHANGED <<pc, pool, idx, best>>
  BY <1>6 DEF OwnIndex
<1> QED
  BY <1>1, <1>2, <1>3, <1>4, <1>5, <1>6 DEF Next, Continue, vars, locals

(* LB0 submits to the first of the least loaded workers, by the loads the  *)
(* call has read (ThreadPool.cpp:194-209), when one thread only calls      *)
(* run(): the static is its own then.                                      *)
THEOREM LeastLoadedIsChosen == ASSUME \A c, d \in Callers : c = d PROVE Spec => LeastLoadedChosen
<1> DEFINE Chosen == \A c \in Callers :
             (pc[c] = "use" /\ pc'[c] = "idle" /\ Policy[pool[c]] = "LB0") =>
               \A w \in WorkersOf(pool[c]) :
                 \/ seen[c][target'[c]] < seen[c][w]
                 \/ seen[c][target'[c]] = seen[c][w] /\ target'[c] <= w
<1>1. CallerTypes /\ Scans /\ OwnIndex /\ [Next]_vars => [Chosen]_vars
  <2> SUFFICES ASSUME CallerTypes, Scans, OwnIndex, Next, NEW c \in Callers,
                      pc[c] = "use", pc'[c] = "idle", Policy[pool[c]] = "LB0",
                      NEW w \in WorkersOf(pool[c])
               PROVE  \/ seen[c][target'[c]] < seen[c][w]
                      \/ seen[c][target'[c]] = seen[c][w] /\ target'[c] <= w
    OBVIOUS
  <2>1. Use(c)
    <3>1. ASSUME NEW p \in Pools,
                 RunInline(c, p) \/ Begin(c, p) \/ \E workerId \in 0 .. LargestSize + 1 : RunOn(c, p, workerId)
          PROVE  FALSE
      BY <3>1 DEF RunInline, Begin, RunOn, MayRun
    <3>2. ASSUME NEW p \in Pools, NEW x \in WorkersOf(p), Work(p, x) PROVE FALSE
      BY <3>2 DEF Work, TakeTask, EndTask
    <3>3. ~(PickRandom(c) \/ ReadIdx(c) \/ WriteIdx(c) \/ ReadHalf(c) \/ Scan(c) \/ ScanDone(c))
      BY DEF PickRandom, ReadIdx, WriteIdx, ReadHalf, Scan, Scanning, ScanDone
    <3> QED
      BY <3>1, <3>2, <3>3 DEF Next, Continue
  <2>2. target'[c] = idx /\ idx = best[c]
    BY <2>1 DEF Use, Set, OwnIndex, CallerTypes
  <2>3. LeastIn(seen[c], best[c], Size[pool[c]])
    BY DEF Scans, Scanned
  <2> QED
    BY <2>2, <2>3 DEF LeastIn, WorkersOf
<1>2. Init => OwnIndex
  BY DEF Init, OwnIndex
<1>3. CallerTypes /\ Scans /\ OwnIndex /\ [Next]_vars => OwnIndex'
  BY OwnIndexStep
<1>4. LeastLoadedChosen <=> [][Chosen]_vars
  BY DEF LeastLoadedChosen
<1> HIDE DEF Chosen
<1> QED
  BY ScansInvariant, <1>1, <1>2, <1>3, <1>4, PTL DEF Spec, DispatchInvariant

(* The index is good for every call of run() when no pool is round-robin   *)
(* and all have the same size, however many threads call (ThreadPool.cpp:  *)
(* 184-209): each of them leaves a worker of its pool in the static.       *)
IndexOK ==
  /\ \A p \in Pools : Size[p] > 0 => idx \in WorkersOf(p)
  /\ \A c \in Callers : pc[c] \notin {"RR", "write", "undefined"}

(* Each step keeps it so.                                                  *)
LEMMA IndexStep ==
  ASSUME \A p, q \in Pools : Size[p] = Size[q], \A p \in Pools : Policy[p] # "RR",
         CallerTypes, Scans, IndexOK, [Next]_vars
  PROVE  IndexOK'
<1> USE DEF CallerTypes, IndexOK, Set
<1>1. ASSUME NEW c \in Callers, PickRandom(c) PROVE IndexOK'
  BY <1>1 DEF PickRandom, WorkersOf
<1>2. ASSUME NEW c \in Callers, ScanDone(c) PROVE IndexOK'
  <2>1. LeastIn(seen[c], best[c], Size[pool[c]]) /\ idx' = best[c] /\ pool[c] \in Pools
    BY <1>2 DEF ScanDone, Scans, Scanned
  <2>2. \A p \in Pools : idx' \in WorkersOf(p)
    BY <2>1 DEF LeastIn, WorkersOf
  <2> QED
    BY <1>2, <2>2 DEF ScanDone
<1>3. ASSUME NEW c \in Callers, Use(c) PROVE IndexOK'
  <2>1. Size[pool[c]] > 0 /\ pool[c] \in Pools
    BY <1>3 DEF Use, Scans, Scanned
  <2>2. idx \in WorkersOf(pool[c])
    BY <2>1
  <2> QED
    BY <1>3, <2>2 DEF Use
<1>4. ASSUME NEW c \in Callers, ReadIdx(c) \/ WriteIdx(c) PROVE FALSE
  BY <1>4 DEF ReadIdx, WriteIdx
<1>5. ASSUME NEW c \in Callers, ReadHalf(c) \/ Scan(c) PROVE IndexOK'
  BY <1>5 DEF ReadHalf, Scan
<1>6. ASSUME NEW c \in Callers, NEW p \in Pools, Begin(c, p) PROVE IndexOK'
  <2>1. Policy[p] \in {"RAN", "LB0"}
    BY DispatchAssumption
  <2>2. pc' = [pc EXCEPT ![c] = Policy[p]] /\ idx' = idx
    BY <1>6 DEF Begin
  <2> QED
    BY <2>1, <2>2
<1>7. ASSUME NEW c \in Callers, NEW p \in Pools,
             RunInline(c, p) \/ \E workerId \in 0 .. LargestSize + 1 : RunOn(c, p, workerId)
      PROVE  IndexOK'
  BY <1>7 DEF RunInline, RunOn
<1>8. ASSUME NEW p \in Pools, NEW w \in WorkersOf(p), Work(p, w) PROVE IndexOK'
  BY <1>8 DEF Work, TakeTask, EndTask
<1>9. CASE UNCHANGED vars
  BY <1>9 DEF vars
<1> QED
  BY <1>1, <1>2, <1>3, <1>4, <1>5, <1>6, <1>7, <1>8, <1>9 DEF Next, Continue

(* So no call of run() indexes workers_ beyond its end but for the round-  *)
(* robin policy, or for a pool of another size.                            *)
THEOREM ChosenWorkerIsThere ==
  ASSUME \A p, q \in Pools : Size[p] = Size[q], \A p \in Pools : Policy[p] # "RR"
  PROVE  Spec => []ChosenWorkerExists
<1>1. Init => IndexOK
  BY DispatchAssumption DEF Init, IndexOK, WorkersOf
<1>2. CallerTypes /\ Scans /\ IndexOK /\ [Next]_vars => IndexOK'
  BY IndexStep
<1>3. IndexOK => ChosenWorkerExists
  BY DEF IndexOK, ChosenWorkerExists
<1> QED
  BY ScansInvariant, <1>1, <1>2, <1>3, PTL DEF Spec, DispatchInvariant
=============================================================================
