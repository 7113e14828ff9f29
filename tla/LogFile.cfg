\* Two lengths of lines, short periods, and a clock that anybody may set.
SPECIFICATION Spec
CONSTANTS
  Lengths = {1, 2}
  RollSize = 4
  FlushInterval = 1
  CheckEveryN = 3
  Period = 4
  MaxTime = 5
  MaxLines = 5
INVARIANTS
  TypeOK
  NamesAreDistinct
  RolledBySize
  ChecksKeepUp
