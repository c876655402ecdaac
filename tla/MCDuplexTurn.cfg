CONSTANTS
  MaxUtterances <- MCMaxUtterances
  MaxInFlight <- MCMaxInFlight
  Vocabulary <- MCVocabulary
SPECIFICATION FairSpec
INVARIANTS
  TypeOK
PROPERTIES
  PauseBeforeClear
  PauseEnds
  YieldsToSustained
  PauseEndsAfterSpeech
CHECK_DEADLOCK FALSE
