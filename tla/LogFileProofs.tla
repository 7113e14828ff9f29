---------------------------- MODULE LogFileProofs ---------------------------
(***************************************************************************)
(* Safety of LogFile for lines of any lengths, any roll size, period and   *)
(* intervals, and a clock that may be set to any second at any time.       *)
(***************************************************************************)
EXTENDS LogFile, TLAPS

(* What a sequence holds is of its type. *)
LEMMA ElementOf ==
  ASSUME NEW S, NEW q \in Seq(S), NEW i \in 1 .. Len(q)
  PROVE  q[i] \in S
OBVIOUS

(* The second in which a period begins grows with the clock.               *)
LEMMA PeriodGrows ==
  \A a, b \in Nat : PeriodOf(a) \in Nat /\ (a <= b => PeriodOf(a) <= PeriodOf(b))
<1> SUFFICES ASSUME NEW a \in Nat, NEW b \in Nat
             PROVE  PeriodOf(a) \in Nat /\ (a <= b => PeriodOf(a) <= PeriodOf(b))
  OBVIOUS
<1> DEFINE x == a \div Period  y == b \div Period
<1>1. x \in Nat /\ y \in Nat /\ (a <= b => x <= y) /\ Period \in Nat
  BY FileAssumption
<1> HIDE DEF x, y
<1>2. x * Period \in Nat /\ (x <= y => x * Period <= y * Period)
  BY <1>1
<1> QED
  BY <1>1, <1>2 DEF PeriodOf, x, y

LEMMA Parameters ==
  /\ {RollSize, FlushInterval, MaxTime, MaxLines} \subseteq Nat
  /\ CheckEveryN \in Nat \ {0} /\ \A len \in Lengths : len \in Nat
  BY FileAssumption

-----------------------------------------------------------------------------
(* Names grow with the clock and end with lastRoll_; a file is too large   *)
(* only if the clock has not passed lastRoll_; and while the clock is not  *)
(* set back, the lines that came too late were counted since the last      *)
(* check, and are there only while the check would do something.           *)
Increasing == \A i, j \in 1 .. Len(names) : i < j => names[i] < names[j]
NamesGrow ==
  /\ names # <<>> /\ names[Len(names)] = lastRoll
  /\ Increasing
ChecksPending ==
  ~setBack =>
    /\ lastRoll <= lastFlush /\ lastFlush <= now
    /\ late \in 0 .. count /\ overdue \in 0 .. count
    /\ late > 0 => PeriodOf(now) > startOfPeriod
    /\ overdue > 0 => now - lastFlush > FlushInterval
IInv == TypeOK /\ lastLine \in Nat /\ NamesGrow /\ RolledBySize /\ ChecksPending

LEMMA InvInit == Init => IInv
<1> SUFFICES ASSUME Init PROVE IInv
  OBVIOUS
<1>1. names = <<now>> /\ now \in 1 .. MaxTime /\ lastRoll = now
  BY DEF Init
<1>2. names \in Seq(1 .. MaxTime) /\ Len(names) = 1 /\ names[1] = now
  BY <1>1
<1>3. TypeOK /\ lastLine \in Nat
  <2>1. setBack \in BOOLEAN
    BY DEF Init
  <2>2. /\ buffered \in 0 .. written /\ written \in Nat /\ count \in 0 .. CheckEveryN - 1
        /\ startOfPeriod = PeriodOf(lastRoll) /\ lastFlush \in 1 .. MaxTime
        /\ lines \in 0 .. MaxLines /\ lastLine \in Nat
    BY Parameters DEF Init
  <2> QED
    BY <1>1, <1>2, <2>1, <2>2 DEF TypeOK
<1>4. NamesGrow
  BY <1>1, <1>2 DEF NamesGrow, Increasing
<1>5. RolledBySize
  BY Parameters DEF Init, RolledBySize
<1>6. ChecksPending
  BY Parameters DEF Init, ChecksPending
<1> QED
  BY <1>3, <1>4, <1>5, <1>6 DEF IInv

(* A new file: its name is later than all before.                          *)
LEMMA OpenedKeepsNames ==
  ASSUME TypeOK, NamesGrow, NEW t \in 1 .. MaxTime, RollAllowed(t), Opened(t)
  PROVE  names' \in Seq(1 .. MaxTime) /\ NamesGrow'
<1>1. names' = Append(names, t) /\ t > lastRoll /\ lastRoll' = t
  BY DEF TypeOK, RollAllowed, Opened
<1>2. names \in Seq(1 .. MaxTime) /\ Len(names) \in Nat \ {0} /\ lastRoll \in Nat
  BY Parameters DEF TypeOK, NamesGrow
<1>3. \A i \in 1 .. Len(names) : names[i] \in 1 .. MaxTime
  BY <1>2, ElementOf
<1>4. \A i \in 1 .. Len(names) : names[i] <= lastRoll
  BY <1>2, <1>3, Parameters DEF NamesGrow, Increasing
<1>5. /\ Len(names') = Len(names) + 1 /\ names'[Len(names) + 1] = t
      /\ \A i \in 1 .. Len(names) : names'[i] = names[i]
  BY <1>1, <1>2
<1>6. names' \in Seq(1 .. MaxTime) /\ names' # <<>>
  BY <1>1, <1>2
<1>7. Increasing'
  <2> SUFFICES ASSUME NEW i \in 1 .. Len(names'), NEW j \in 1 .. Len(names'), i < j
               PROVE  names'[i] < names'[j]
    BY DEF Increasing
  <2>1. CASE j = Len(names) + 1
    BY <1>1, <1>2, <1>3, <1>4, <1>5, <2>1, Parameters
  <2>2. CASE j # Len(names) + 1
    BY <1>2, <1>5, <2>2 DEF NamesGrow, Increasing
  <2> QED
    BY <2>1, <2>2
<1> QED
  BY <1>1, <1>5, <1>6, <1>7 DEF NamesGrow

LEMMA OpenedKeeps ==
  ASSUME IInv, NEW t \in 1 .. MaxTime, RollAllowed(t), Opened(t), now' = t, setBack' \in BOOLEAN,
         count' \in 0 .. CheckEveryN - 1, lines' \in 0 .. MaxLines, lastLine' \in Nat
  PROVE  IInv'
<1>1. names' \in Seq(1 .. MaxTime) /\ NamesGrow'
  BY OpenedKeepsNames DEF IInv
<1>2. TypeOK'
  BY <1>1, Parameters DEF IInv, TypeOK, Opened, PeriodOf
<1>3. RolledBySize'
  BY Parameters DEF Opened, RolledBySize
<1>4. ChecksPending'
  BY <1>2, Parameters DEF Opened, ChecksPending, TypeOK
<1> QED
  BY <1>1, <1>2, <1>3, <1>4 DEF IInv

(* A line that stays in the file. *)
LEMMA KeptKeeps ==
  ASSUME IInv, NEW len \in Lengths, NEW flush \in BOOLEAN, Kept(len, flush),
         lastLine' = now, now' \in 1 .. MaxTime, setBack' \in BOOLEAN,
         ~setBack' => ~setBack /\ now' = now,
         count' \in 0 .. CheckEveryN - 1, lines' \in 0 .. MaxLines,
         written + len > RollSize => now <= lastRoll,
         ~setBack' =>
           /\ PeriodOf(now) # startOfPeriod => count' = count + 1
           /\ now - lastFlush > FlushInterval => flush \/ count' = count + 1
           /\ count' \in {0, count, count + 1}
  PROVE  IInv'
<1>1. /\ len \in Nat /\ written \in Nat /\ buffered \in 0 .. written /\ now \in 1 .. MaxTime
      /\ lastRoll \in Nat /\ lastFlush \in Nat
  BY Parameters DEF IInv, TypeOK
<1>2. TypeOK'
  BY <1>1, Parameters DEF IInv, TypeOK, Kept, PeriodOf
<1>3. NamesGrow'
  BY DEF IInv, NamesGrow, Increasing, Kept
<1>4. RolledBySize'
  BY <1>1 DEF Kept, RolledBySize
<1>5. ChecksPending'
  <2> SUFFICES ASSUME ~setBack' PROVE ChecksPending'
    BY DEF ChecksPending
  <2>1. /\ lastRoll <= lastFlush /\ lastFlush <= now /\ late \in 0 .. count /\ overdue \in 0 .. count
        /\ late > 0 => PeriodOf(now) > startOfPeriod
        /\ overdue > 0 => now - lastFlush > FlushInterval
    BY DEF IInv, ChecksPending
  <2>2. count \in Nat /\ count' \in Nat /\ startOfPeriod = PeriodOf(lastRoll)
    BY Parameters DEF IInv, TypeOK
  <2>3. PeriodOf(now) \in Nat /\ startOfPeriod \in Nat /\ startOfPeriod <= PeriodOf(now)
    BY <1>1, <2>1, <2>2, PeriodGrows
  <2>4. late' \in 0 .. count' /\ (late' > 0 => PeriodOf(now) > startOfPeriod)
    BY <2>1, <2>2, <2>3 DEF Kept
  <2>5. /\ overdue' \in 0 .. count'
        /\ overdue' > 0 => now - lastFlush' > FlushInterval
    BY <1>1, <2>1, <2>2, Parameters DEF Kept
  <2>6. lastRoll' <= lastFlush' /\ lastFlush' <= now
    BY <1>1, <2>1 DEF Kept
  <2> QED
    BY <2>4, <2>5, <2>6 DEF ChecksPending, Kept, PeriodOf
<1> QED
  BY <1>1, <1>2, <1>3, <1>4, <1>5 DEF IInv

LEMMA AppendKeeps ==
  ASSUME IInv, NEW len \in Lengths, AppendLine(len)
  PROVE  IInv'
<1>1. /\ lastLine' = now /\ now \in 1 .. MaxTime /\ setBack \in BOOLEAN
      /\ lines' \in 0 .. MaxLines /\ count \in 0 .. CheckEveryN - 1 /\ now \in Nat
      /\ written \in Nat /\ len \in Nat /\ lastRoll \in Nat /\ lastFlush \in Nat
      /\ startOfPeriod = PeriodOf(lastRoll)
  BY Parameters DEF IInv, TypeOK, AppendLine
<1>2. ~setBack => lastRoll <= now /\ lastRoll <= lastFlush /\ lastFlush <= now
  BY <1>1 DEF IInv, ChecksPending
<1>3. CASE TooLarge(written + len)
  <2>0. now' = now /\ setBack' = setBack
    BY <1>3 DEF AppendLine
  <2>1. CASE RollAllowed(now)
    BY <1>1, <1>3, <2>0, <2>1, OpenedKeeps DEF AppendLine, Roll
  <2>2. CASE ~RollAllowed(now)
    <3>1. count' = count /\ Kept(len, FALSE)
      BY <1>3, <2>2 DEF AppendLine, Roll
    <3>2. now <= lastRoll
      BY <1>1, <2>2 DEF RollAllowed
    <3>3. ~setBack => now = lastRoll /\ ~(now - lastFlush > FlushInterval)
      BY <1>1, <1>2, <3>2, Parameters
    <3> QED
      BY <1>1, <2>0, <3>1, <3>2, <3>3, KeptKeeps
  <2> QED
    BY <2>1, <2>2
<1>4. CASE ~TooLarge(written + len) /\ ~CheckDue(count + 1)
  <2>1. count' = count + 1 /\ Kept(len, FALSE) /\ now' = now /\ setBack' = setBack
    BY <1>4 DEF AppendLine
  <2>2. count' \in 0 .. CheckEveryN - 1 /\ ~(written + len > RollSize)
    BY <1>1, <1>4, <2>1, Parameters DEF CheckDue, TooLarge
  <2> QED
    BY <1>1, <2>1, <2>2, KeptKeeps
<1>5. CASE ~TooLarge(written + len) /\ CheckDue(count + 1)
  <2>1. count' = 0 /\ 0 \in 0 .. CheckEveryN - 1 /\ ~(written + len > RollSize)
    BY <1>5, Parameters DEF AppendLine, TooLarge
  <2>2. CASE PeriodOf(now) # startOfPeriod
    <3>1. PICK t \in 1 .. MaxTime : ClockShows(t) /\ Roll(len, t)
      BY <1>5, <2>2 DEF AppendLine
    <3>2. now' = t /\ setBack' = (setBack \/ t < now) /\ setBack' \in BOOLEAN
      BY <1>1, <3>1 DEF ClockShows
    <3>3. CASE RollAllowed(t)
      BY <1>1, <2>1, <3>1, <3>2, <3>3, OpenedKeeps DEF Roll
    <3>4. CASE ~RollAllowed(t)
      <4>1. Kept(len, FALSE)
        BY <3>1, <3>4 DEF Roll
      <4>2. setBack'
        <5>1. ~(t > lastRoll) /\ t \in Nat
          BY <3>4 DEF RollAllowed
        <5>2. now # lastRoll
          BY <1>1, <2>2
        <5>3. ASSUME ~setBack PROVE t < now
          BY <1>1, <1>2, <5>1, <5>2, <5>3
        <5> QED
          BY <3>2, <5>3, Zenon
      <4> QED
        BY <1>1, <2>1, <3>2, <4>1, <4>2, KeptKeeps
    <3> QED
      BY <3>3, <3>4
  <2>3. CASE PeriodOf(now) = startOfPeriod
    <3>1. Kept(len, FlushDue) /\ FlushDue \in BOOLEAN /\ now' = now /\ setBack' = setBack
      BY <1>5, <2>3 DEF AppendLine, FlushDue
    <3> QED
      BY <1>1, <2>1, <2>3, <3>1, KeptKeeps DEF FlushDue
  <2> QED
    BY <2>2, <2>3
<1> QED
  BY <1>3, <1>4, <1>5

LEMMA ClockKeeps == IInv /\ ClockMoves => IInv'
<1> SUFFICES ASSUME IInv, ClockMoves PROVE IInv'
  OBVIOUS
<1>0. PICK t \in 1 .. MaxTime : now' = t /\ setBack' = (setBack \/ t < now)
  BY DEF ClockMoves, ClockShows
<1>1. now \in Nat /\ now' \in Nat /\ lastFlush \in Nat /\ lastRoll \in Nat
  BY <1>0, Parameters DEF IInv, TypeOK
<1>2. PeriodOf(now) \in Nat /\ PeriodOf(now') \in Nat /\ PeriodOf(lastRoll) \in Nat
      /\ (now <= now' => PeriodOf(now) <= PeriodOf(now'))
  BY <1>1, PeriodGrows
<1>3. TypeOK' /\ lastLine' \in Nat /\ NamesGrow' /\ RolledBySize'
  BY <1>0 DEF IInv, TypeOK, NamesGrow, Increasing, RolledBySize, ClockMoves
<1>4. ChecksPending'
  <2> SUFFICES ASSUME ~setBack' PROVE ChecksPending'
    BY DEF ChecksPending
  <2>1. ~setBack /\ ~(now' < now)
    BY <1>0 DEF ClockMoves
  <2>2. startOfPeriod = PeriodOf(lastRoll)
    BY DEF IInv, TypeOK
  <2> QED
    BY <1>1, <1>2, <2>1, <2>2, Parameters DEF IInv, ChecksPending, ClockMoves
<1> QED
  BY <1>3, <1>4 DEF IInv

LEMMA InvStep == IInv /\ [Next]_vars => IInv'
<1> SUFFICES ASSUME IInv, [Next]_vars PROVE IInv'
  OBVIOUS
<1>1. ASSUME NEW len \in Lengths, AppendLine(len) PROVE IInv'
  BY <1>1, AppendKeeps
<1>2. CASE RollFile
  BY <1>2, OpenedKeeps DEF RollFile, IInv, TypeOK
<1>3. CASE Flush
  BY <1>3 DEF Flush, IInv, TypeOK, NamesGrow, Increasing, RolledBySize, ChecksPending, PeriodOf
<1>4. CASE ClockMoves
  BY <1>4, ClockKeeps
<1>5. CASE UNCHANGED vars
  BY <1>5 DEF vars, IInv, TypeOK, NamesGrow, Increasing, RolledBySize, ChecksPending, PeriodOf
<1> QED
  BY <1>1, <1>2, <1>3, <1>4, <1>5 DEF Next

LEMMA Invariant == Spec => []IInv
  BY InvInit, InvStep, PTL DEF Spec

-----------------------------------------------------------------------------
(* Types of LogFile; stdio buffers no more than was written.               *)
THEOREM TypeCorrect == Spec => []TypeOK
<1>1. IInv => TypeOK
  BY DEF IInv
<1> QED
  BY Invariant, <1>1, PTL

(* No file name is used twice, however the clock is set (File.cpp:99-112). *)
THEOREM NoNameTwice == Spec => []NamesAreDistinct
<1>1. IInv => NamesAreDistinct
  <2> SUFFICES ASSUME IInv, NEW i \in 1 .. Len(names), NEW j \in 1 .. Len(names), i # j
               PROVE  names[i] # names[j]
    BY DEF NamesAreDistinct
  <2>1. names[i] \in 1 .. MaxTime /\ names[j] \in 1 .. MaxTime
    BY ElementOf DEF IInv, TypeOK
  <2>2. (i < j => names[i] < names[j]) /\ (j < i => names[j] < names[i])
    BY DEF IInv, NamesGrow, Increasing
  <2> QED
    BY <2>1, <2>2, Parameters
<1> QED
  BY Invariant, <1>1, PTL

(* A file is larger than rollSize only while the clock has not passed the  *)
(* second in which it was opened (File.cpp:75-77, 104).                    *)
THEOREM SizeIsLimited == Spec => []RolledBySize
<1>1. IInv => RolledBySize
  BY DEF IInv
<1> QED
  BY Invariant, <1>1, PTL

(* With a clock that is not set back, rolling by period and flushing are   *)
(* late by less than checkEveryN lines (File.cpp:79-90).                   *)
THEOREM ChecksAreInTime == Spec => []ChecksKeepUp
<1>1. IInv => ChecksKeepUp
  BY Parameters DEF IInv, TypeOK, ChecksPending, ChecksKeepUp
<1> QED
  BY Invariant, <1>1, PTL
=============================================================================
