SPECIFICATION FairSpec
CONSTANTS
  Words <- MCWords
  DEFAULT_PIN <- DefaultPin
  BleAnswers <- MCBleAnswers
  Overlapping = {"connect", "disconnect", "MOCK_ALARM"}
  Tasks = {t1, t2}
  MaxPending = 1
CHECK_DEADLOCK FALSE
INVARIANTS
  PinIsTypable
  WorkerMatchesMode
  AssertionNeedsRace
  LinkIsClosed
  MockAlarmStaysInMock
  BadgeLiesAfterScanOnly
  MockIsShown
PROPERTIES
  ShutdownEnds
  BadgeSettles
