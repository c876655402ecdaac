CONSTANTS
  MaxUtterances <- MCMaxUtterances
  MaxInFlight <- MCMaxInFlight
SPECIFICATION VoiceSpec
INVARIANTS
  PendingIsExact
PROPERTIES
  KeepsPromise
  HeardInOrder
  OnlyGivenUpSpeechStrays
  SpeechEnds
  JoinReturns
CHECK_DEADLOCK FALSE
