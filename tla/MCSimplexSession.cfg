CONSTANTS
  NativeBacklog <- MCNativeBacklog
  BrowserBacklog <- MCBrowserBacklog
  RingSize <- MCRingSize
  MaxTurns <- MCMaxTurns
SPECIFICATION FairSpec
INVARIANTS
  TypeOK
  PeteHeardOnlyIfLetIn
  NotDeafWhenListening
  TalksOverOnlyEarlyGroups
PROPERTIES
  EnablingLeavesOneOn
  ListensAgain
CHECK_DEADLOCK FALSE
