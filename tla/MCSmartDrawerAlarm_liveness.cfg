CONSTANTS
  p1 = p1
  p2 = p2
  bad = bad
  Verbs <- AllVerbs
  Pins <- OnePin
  ValidPins <- OnePin
  DEFAULT_PIN = p1
  Lights <- Both
  Motions <- Never
SPECIFICATION FairSpec
PROPERTIES StatusConverges LinkRecovers
