CONSTANTS
  NativeBacklog <- MCNativeBacklog
  BrowserBacklog <- MCBrowserBacklog
  RingSize <- MCRingSize
  MaxTurns <- MCMaxTurns
SPECIFICATION Spec
PROPERTIES
  NoRollover
CHECK_DEADLOCK FALSE
