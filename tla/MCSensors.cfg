SPECIFICATION FairSpec
CONSTANTS
  LDR_COUNT = 3
  LIGHT_VOTE_REQUIRED = 2
  LIGHT_THRESHOLD_DELTA = 1
  MOTION_CALIBRATION_SAMPLES = 2
  MOTION_THRESHOLD_RAW = 1
  Levels <- MCLevels
  Noisy <- MCNoisy
  Place <- MCPlace
  Magnitudes <- MCMagnitudes
  Garbled <- MCGarbled
  Bus <- MCBus
INVARIANTS
  TypeOK
  LightAlarmIsReal
  MotionAlarmIsReal
PROPERTIES
  IntrusionIsNoticed
