CONSTANTS
  MaxReplies <- MCMaxReplies
  MaxUnits <- MCMaxUnits
SPECIFICATION FairSpec
INVARIANTS
  TypeOK
  SpokenInOrder
  OnlyUnfinishedSpeechIntrudes
  LostOnlyAfterCancel
  CacheKeepsOwnAudio
PROPERTIES
  JoinReturns
CHECK_DEADLOCK FALSE
