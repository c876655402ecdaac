CONSTANTS
  session = session
  camera = camera
  early = early
  late = late
  Emitters <- MCEmitters
  Browsers <- MCBrowsers
  MaxEvents <- MCMaxEvents
SPECIFICATION Spec
INVARIANTS
  TypeOK
  LosesOnlyWhileReplaying
  StreamsAgree
CHECK_DEADLOCK FALSE
