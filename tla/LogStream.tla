------------------------------ MODULE LogStream ------------------------------
(***************************************************************************)
(* ycnt::base::Logger and LogStream: one message, put together piece by    *)
(* piece in a FixedBuffer that may fill up, and handed to the output when  *)
(* its Logger is destroyed.  A Logger belongs to one thread; what several  *)
(* threads do to the output is in AsyncLogging.  Of a text only its length *)
(* is kept; a number keeps its characters.                                 *)
(***************************************************************************)
EXTENDS NumberFormat

CONSTANTS Size,      \* kSmallBufferSize
          Reserve,   \* kMaxNumericSize
          TidLengths, \* lengths of thread ids
          FileName,  \* length of basename_
          Lines,     \* numbers of source lines
          Texts,     \* lengths of the strings that are logged
          Integers_, \* integers that are logged
          Doubles,   \* doubles that are logged: sign, digits and exponent
          Intervals, \* doubles that are logged, as DigitGen() gets them
          LogLevels, \* the levels in use, TRACE = 0 .. FATAL = 5
          MaxPieces, \* bound: pieces of a message
          MaxNumbers \* bound: numbers among them

FATAL == 5

(* What is logged: integers of 64 bits with or without sign, and the       *)
(* digits and exponents that 64 bits of a double can have.                 *)
HasDigits(v) == (v \div 1000000000) \div 1000000000 \in -10 .. 18
IsDouble(d) ==
  /\ d.neg \in BOOLEAN /\ d.digits \in Seq(0 .. 9) /\ d.k \in Int
  /\ Len(d.digits) <= 17 /\ Len(d.digits) + d.k \in -323 .. 309

(* What Grisu2() has for DigitGen(): W between Mp - delta and Mp, and as   *)
(* much of Mp in front of the point as 32 bits hold, whose digits are not  *)
(* more than kPow10 has entries.  Behind the point there may be more.      *)
IsInterval(x) ==
  LET p1 == x.mp \div Power(2, x.shift) IN
  /\ {x.shift, x.mp, x.delta, x.w, x.beyond} \subseteq Nat /\ x.k \in Int
  /\ 0 < x.delta /\ x.delta < x.mp /\ x.w \in x.mp - x.delta .. x.mp
  /\ p1 > 0 /\ p1 \div 65536 < 65536 /\ CountDecimalDigit32(p1) <= PowerEntries

ASSUME StreamAssumption ==
  /\ {Size, Reserve, FileName, MaxPieces, MaxNumbers, PowerEntries} \subseteq Nat
  /\ TidLengths \subseteq Nat /\ Texts \subseteq Nat
  /\ Integers_ \subseteq Int /\ Lines \subseteq Int /\ Lines # {}
  /\ LogLevels \subseteq 0 .. FATAL
  /\ Reserve >= 26   \* room for every number and a '\0', see InsideBuffer
  /\ \A v \in Integers_ \cup Lines : HasDigits(v)
  /\ \A x \in Intervals : IsInterval(x)
  /\ \A d \in Doubles \cup {Grisu2(x) : x \in Intervals} : IsDouble(d)

VARIABLES stage,    \* "none", "open" or "aborted"
          logLevel, \* logLevel_
          level,    \* level_
          length,   \* of the text in buffer_
          touched,  \* history: how much of data_ was written to, with any '\0'
          number,   \* history: what convert() was given, has written and returned
          pieces, numbers, \* streamed so far
          output    \* how long the text was that asyncOutput_ was given last

vars == <<stage, logLevel, level, length, touched, number, pieces, numbers, output>>

NoNumber == [value |-> Denotes(<<0>>), from |-> {}, text |-> <<>>, returned |-> 0]
Largest(a, b) == IF a < b THEN b ELSE a
Smallest(a, b) == IF a < b THEN a ELSE b

\* Mutants of the code that the properties below must notice.
RoomForOne(at) == Size - at >= 1
Unbounded(at, n) == at + n

Init ==
  /\ stage = "none" /\ logLevel \in LogLevels /\ level = FATAL
  /\ length = 0 /\ touched = 0 /\ number = NoNumber
  /\ pieces = 0 /\ numbers = 0 /\ output = 0

-----------------------------------------------------------------------------
(* FixedBuffer::append(): what does not fit is left out.                   *)
Avail(at) == Size - at
After(at, n) == at + Smallest(Avail(at), n)

(* Logger(): the header of time, thread id and level.                      *)
FormatTime == 19 + 8 \* characters: seconds, microseconds
LevelName == 6 + 1
NewLogger ==
  /\ stage = "none"
  /\ stage' = "open"
  /\ level' \in LogLevels
  /\ \E n \in TidLengths : length' = After(0, FormatTime + n + LevelName)
  /\ touched' = length'
  /\ UNCHANGED <<logLevel, number, pieces, numbers, output>>

MayStream == stage = "open" /\ pieces < MaxPieces
Streams == pieces' = pieces + 1 /\ UNCHANGED <<stage, logLevel, level, output>>

(* operator<< of strings, characters and booleans.                         *)
StreamText(n) ==
  /\ MayStream /\ Streams
  /\ length' = After(length, n)
  /\ touched' = Largest(touched, length')
  /\ UNCHANGED <<number, numbers>>

(* formatNumeric(): convert() writes into the buffer and adds a '\0', and  *)
(* the buffer grows by the length convert() returns.                       *)
HasRoom(at) == Avail(at) >= Reserve
StreamNumber(value, from, text, returned) ==
  /\ MayStream /\ Streams
  /\ numbers < MaxNumbers /\ numbers' = numbers + 1
  /\ IF HasRoom(length)
     THEN /\ length' = length + returned
          /\ touched' = Largest(touched, length + Len(text) + 1)
          /\ number' = [value |-> value, from |-> from, text |-> text, returned |-> returned]
     ELSE UNCHANGED <<length, touched, number>>

StreamInteger(v) ==
  StreamNumber([neg |-> v < 0, number |-> Stripped(DigitsOf(IF v < 0 THEN -v ELSE v), 0)],
               {}, Convert(v), Len(Convert(v)))

StreamDouble(d, from) ==
  StreamNumber([neg |-> d.neg /\ ~IsZero(d), number |-> Stripped(d.digits, d.k)],
               from, Dtoa(d), DtoaLength(d))

(* ~Logger(): if the level is asked for, the trailer of " - ", the name of *)
(* the file, a colon, the line, by formatNumeric() as other numbers, and a *)
(* newline; and the message goes out.  A fatal one stops the logging and   *)
(* aborts.                                                                 *)
Wanted == logLevel >= level
Named == After(length, 3 + FileName + 1)
Numbered(line) == IF HasRoom(Named) THEN Named + Len(Convert(line)) ELSE Named
EndLogger ==
  /\ stage = "open"
  /\ IF Wanted
     THEN \E line \in Lines :
            /\ output' = After(Numbered(line), 1)
            /\ touched' = Largest(touched, IF HasRoom(Named) THEN Numbered(line) + 1 ELSE output')
            /\ stage' = IF level = FATAL THEN "aborted" ELSE "none"
     ELSE stage' = "none" /\ UNCHANGED <<output, touched>>
  /\ level' = FATAL
  /\ length' = 0 /\ number' = NoNumber
  /\ pieces' = 0 /\ numbers' = 0
  /\ UNCHANGED logLevel

(* init(), between two messages: the output is another one.                *)
ReInit ==
  /\ stage = "none"
  /\ logLevel' \in LogLevels
  /\ output' = 0
  /\ UNCHANGED <<stage, level, length, touched, number, pieces, numbers>>

Next ==
  \/ NewLogger \/ EndLogger \/ ReInit
  \/ \E n \in Texts : StreamText(n)
  \/ \E v \in Integers_ : StreamInteger(v)
  \/ \E d \in Doubles : StreamDouble(d, {})
  \/ \E x \in Intervals : StreamDouble(Grisu2(x), {x})

Spec == Init /\ [][Next]_vars

-----------------------------------------------------------------------------
(* Types of the variables.  *)
Characters == 0 .. Exponent
TypeOK ==
  /\ stage \in {"none", "open", "aborted"}
  /\ logLevel \in LogLevels /\ level \in LogLevels \cup {FATAL}
  /\ length \in 0 .. Size /\ output \in 0 .. Size
  /\ touched \in Nat
  /\ number.text \in Seq(Characters) /\ number.returned \in Nat
  /\ pieces \in 0 .. MaxPieces /\ numbers \in 0 .. MaxNumbers

(* Nothing is written behind the end of data_, although convert() is given *)
(* no length: kMaxNumericSize is enough for what it writes, sign and '\0'  *)
(* included (LogStream.cpp:20-27 against Utils.cpp:367-426, Utils.h:20-36).*)
InsideBuffer == touched <= Size

(* What convert() leaves in the buffer denotes the number it was given:    *)
(* every branch of Prettify() puts point, zeros and exponent where they    *)
(* belong, and negative integers have their digits in the right order.     *)
NumbersReadBack == number.text # <<>> => Denotes(number.text) = number.value

(* What DigitGen() has found for an interval: the weight of its last       *)
(* digit, and the value of its digits by the same scale as W.              *)
Kappa(x) == DigitGen(x).k - x.k
Scale(x) == IF Kappa(x) < 0 THEN Power(10, -Kappa(x)) ELSE 1
Unit(x) == Power(2, x.shift) * (IF Kappa(x) < 0 THEN 1 ELSE Power(10, Kappa(x)))
Found(x) == ValueOf(DigitGen(x).digits) * Unit(x)
Within(x) == (x.mp - x.delta) * Scale(x) .. x.mp * Scale(x)
Distance(a, b) == IF a < b THEN b - a ELSE a - b

Shortest(x) ==
  LET ten == 10 * Unit(x)
      digits == DigitGen(x).digits
  IN  /\ \A i \in DOMAIN digits : digits[i] \in 0 .. 9
      /\ Found(x) \in Within(x)
      /\ ((x.mp * Scale(x)) \div ten) * ten <= (x.mp - x.delta) * Scale(x)
Closest(x) ==
  \A other \in {Found(x) - Unit(x), Found(x) + Unit(x)} \cap Within(x) :
    Distance(Found(x), x.w * Scale(x)) <= Distance(other, x.w * Scale(x))

(* DigitGen() stops at the fewest digits that name a number between        *)
(* Mp - delta and Mp, and whatever GrisuRound() is given for the distance  *)
(* to W, read behind the end of kPow10 or not, it neither leaves that      *)
(* interval nor lowers the last digit below zero (Utils.cpp:185-300).      *)
ShortestDigits == \A x \in number.from : Shortest(x)

(* Of the numbers with as few digits it is the closest one to W, as long   *)
(* as kPow10 has an entry for the digits behind the point (Utils.cpp:296). *)
ClosestWithinTable == \A x \in number.from : -Kappa(x) < PowerEntries => Closest(x)

(* "1234e7 -> 12340000000", Utils.cpp:372, and likewise for the other      *)
(* branches: what Prettify() wrote becomes part of the message.  Refuted:  *)
(* dtoa_milo() returns the number of digits and one, whatever was written. *)
NumbersWhole == number.returned = Len(number.text)
=============================================================================
