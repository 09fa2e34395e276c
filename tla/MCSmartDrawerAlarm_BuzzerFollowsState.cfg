CONSTANTS
  p1 = p1
  p2 = p2
  bad = bad
  Verbs <- ArmDisarm
  Pins <- OnePin
  ValidPins <- OnePin
  DEFAULT_PIN = p1
  Lights <- Both
  Motions <- Both
SPECIFICATION Spec
INVARIANTS BuzzerFollowsState
