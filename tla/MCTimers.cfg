SPECIFICATION Spec
CONSTANTS
  WRAP = 16
  SENSOR_POLL_INTERVAL_MS = 3
  STATUS_NOTIFY_INTERVAL_MS = 7
  durations <- MCDurations
  MaxIteration = 3
  MaxBoot = 5
INVARIANTS
  NeverLate
PROPERTIES
  NeverEarly
