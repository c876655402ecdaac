CONSTANTS
  session = session
  camera = camera
  early = early
  late = late
  Emitters <- MCEmitters
  Browsers <- MCBrowsers
  MaxEvents <- MCMaxEvents
SPECIFICATION Spec
INVARIANTS
  HistoryAndFuture
CHECK_DEADLOCK FALSE
