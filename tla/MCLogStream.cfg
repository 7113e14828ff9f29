\* A buffer of 80 characters: a header of 40 or 42 and a text leave room for a number or not.
SPECIFICATION Spec
CONSTANTS
  Size = 80
  Reserve = 32
  TidLengths = {6, 8}
  FileName = 2
  Lines = {7, 65535}
  Texts = {2, 8, 20}
  Integers_ <- Bytes
  Doubles <- SomeDoubles
  Intervals <- SomeIntervals
  LogLevels = {2, 5}
  MaxPieces = 2
  MaxNumbers = 1
  PowerEntries = 3
CHECK_DEADLOCK FALSE
INVARIANTS
  NumbersReadBack
  TypeOK
  InsideBuffer
  ShortestDigits
  ClosestWithinTable
