SPECIFICATION FairSpec
CONSTANTS
  Lines <- MCLines
  MaxAir = 3
CHECK_DEADLOCK FALSE
INVARIANTS
  ExactlyOnce
  AnswerIsOwn
  AnswerIsShown
  DrawerIsLeftFree
  OnlyKnownVerbs
PROPERTIES
  CommandReturns
  ImplementsCall
  CommandRunsOut
