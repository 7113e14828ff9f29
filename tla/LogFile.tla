------------------------------ MODULE LogFile ------------------------------
(***************************************************************************)
(* ycnt::base::LogFile with its AppendFile: one thread appends lines, and  *)
(* the file is rolled by size and by period and flushed now and then, by a *)
(* clock of whole seconds that other people may set.  A file is named by   *)
(* the second in which it was created.                                     *)
(***************************************************************************)
EXTENDS Naturals, Sequences

CONSTANTS Lengths,       \* lengths of the lines
          RollSize, FlushInterval, CheckEveryN, \* rollSize_, ...
          Period,        \* kRollPerSeconds_
          MaxTime,       \* bound: the clock
          MaxLines       \* bound: lines appended

ASSUME FileAssumption ==
  /\ Lengths \subseteq Nat
  /\ {RollSize, FlushInterval, CheckEveryN, Period, MaxTime, MaxLines} \subseteq Nat
  /\ CheckEveryN > 0 /\ Period > 0

VARIABLES now,      \* ::time(nullptr)
          names,    \* history: names of the files opened, in order
          written,  \* writtenBytes_ of the open file
          buffered, \* bytes in the stdio buffer of the open file
          count, startOfPeriod, lastRoll, lastFlush,
          lines,    \* history: lines appended
          overdue,  \* history: lines appended since a flush was due
          late,     \* history: lines appended since the period was over
          lastLine, \* history: when the last line was appended
          setBack   \* history: somebody has set the clock back

vars == <<now, names, written, buffered, count, startOfPeriod, lastRoll,
          lastFlush, lines, overdue, late, lastLine, setBack>>

PeriodOf(t) == (t \div Period) * Period

\* Mutants of the code that the properties below must notice.
Always(t) == TRUE
NoSizeLimit(w) == FALSE
CountsOneMore(n) == n > CheckEveryN
Never == FALSE

RollAllowed(t) == t > lastRoll
TooLarge(w) == w > RollSize
CheckDue(n) == n >= CheckEveryN
FlushDue == now - lastFlush > FlushInterval

(* rollFile(), where the clock shows t: a new file, unless one was opened  *)
(* in this second or later.                                                *)
Opened(t) ==
  /\ lastRoll' = t
  /\ lastFlush' = t
  /\ startOfPeriod' = PeriodOf(t)
  /\ names' = Append(names, t)
  /\ written' = 0 /\ buffered' = 0
  /\ overdue' = 0 /\ late' = 0

Init == \* the constructor; the clock is past the epoch
  /\ now \in 1 .. MaxTime
  /\ names = <<now>>
  /\ lastRoll = now /\ lastFlush = now /\ startOfPeriod = PeriodOf(now)
  /\ written = 0 /\ buffered = 0 /\ count = 0
  /\ lines = 0 /\ overdue = 0 /\ late = 0 /\ lastLine = now
  /\ setBack = FALSE

(* What append() has done when it returns without a new file: stdio may or *)
(* may not have written the line, and a flush writes everything.           *)
Kept(len, flush) ==
  /\ written' = written + len
  /\ \E rest \in (IF flush THEN {0} ELSE {0, buffered + len}) : buffered' = rest
  /\ lastFlush' = IF flush THEN now ELSE lastFlush
  /\ overdue' = IF flush THEN 0
                ELSE IF now - lastFlush > FlushInterval THEN overdue + 1 ELSE overdue
  /\ late' = IF PeriodOf(now) # startOfPeriod THEN late + 1 ELSE late
  /\ UNCHANGED <<names, startOfPeriod, lastRoll>>

Roll(len, t) == IF RollAllowed(t) THEN Opened(t) ELSE Kept(len, FALSE)

ClockShows(t) == now' = t /\ setBack' = (setBack \/ t < now)

(* append(): rolling by period, rollFile() reads the clock a second time.  *)
AppendLine(len) ==
  /\ lines < MaxLines
  /\ lines' = lines + 1 /\ lastLine' = now
  /\ IF TooLarge(written + len)
     THEN Roll(len, now) /\ UNCHANGED <<now, setBack, count>>
     ELSE IF ~CheckDue(count + 1)
          THEN Kept(len, FALSE) /\ count' = count + 1 /\ UNCHANGED <<now, setBack>>
          ELSE /\ count' = 0
               /\ IF PeriodOf(now) # startOfPeriod
                  THEN \E t \in 1 .. MaxTime : ClockShows(t) /\ Roll(len, t)
                  ELSE Kept(len, FlushDue) /\ UNCHANGED <<now, setBack>>

RollFile == RollAllowed(now) /\ Opened(now) /\ UNCHANGED <<now, count, lines, lastLine, setBack>>

Flush ==
  /\ buffered' = 0
  /\ UNCHANGED <<now, names, written, count, startOfPeriod, lastRoll, lastFlush,
                 lines, overdue, late, lastLine, setBack>>

ClockMoves == \* forward by itself, back if somebody sets it
  /\ \E t \in 1 .. MaxTime : ClockShows(t)
  /\ UNCHANGED <<names, written, buffered, count, startOfPeriod, lastRoll, lastFlush,
                 lines, overdue, late, lastLine>>

Next == (\E len \in Lengths : AppendLine(len)) \/ RollFile \/ Flush \/ ClockMoves

Spec == Init /\ [][Next]_vars

-----------------------------------------------------------------------------
(* Types of the variables; what is buffered was written. *)
TypeOK ==
  /\ now \in 1 .. MaxTime
  /\ names \in Seq(1 .. MaxTime)
  /\ written \in Nat /\ buffered \in 0 .. written
  /\ count \in 0 .. CheckEveryN - 1
  /\ startOfPeriod = PeriodOf(lastRoll)
  /\ lastRoll \in 1 .. MaxTime /\ lastFlush \in 1 .. MaxTime
  /\ lines \in 0 .. MaxLines
  /\ setBack \in BOOLEAN

(* No two files of a LogFile have the same name, so none is opened twice   *)
(* and mixed up, even if the clock is set back (File.cpp:99-112).          *)
NamesAreDistinct ==
  \A i, j \in 1 .. Len(names) : i # j => names[i] # names[j]

(* A file grows beyond rollSize only within the second in which it was     *)
(* opened, or while the clock is behind it (File.cpp:75-77, 104).          *)
RolledBySize == written > RollSize => lastLine <= lastRoll

(* While the clock does not go back: fewer than checkEveryN lines go to    *)
(* the file of a period that is over, and fewer than checkEveryN lines are *)
(* appended while a flush is due (File.cpp:79-90).                         *)
ChecksKeepUp == ~setBack => late < CheckEveryN /\ overdue < CheckEveryN
=============================================================================
