CONSTANTS
  MaxUtterances <- MCMaxUtterances
  MaxInFlight <- MCMaxInFlight
  Vocabulary <- MCVocabulary
SPECIFICATION FairSpec
PROPERTIES
  AutoPauseEnds
CHECK_DEADLOCK FALSE
