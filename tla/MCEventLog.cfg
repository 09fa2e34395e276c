SPECIFICATION Spec
CONSTANTS
  CAPACITY = 4
  MaxLines = 8
INVARIANTS
  TypeOK
  LogHeals
  DumpIsLog
  NoOldLineSent
