CONSTANTS
  p1 = p1
  p2 = p2
  bad = bad
  Verbs <- AllVerbs
  Pins <- MCPins
  ValidPins <- MCValidPins
  DEFAULT_PIN = p1
  Lights <- Both
  Motions <- Both
SPECIFICATION HSpec
INVARIANTS TypeOK UntornIsConsistent OkIsTruthful
PROPERTIES OnlyPinMovesAlarm ImplementsDevice
