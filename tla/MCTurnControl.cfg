CONSTANTS
  OpenAfter <- MCOpenAfter
  CloseAfter <- MCCloseAfter
  MaxGroupFrames <- MCMaxGroupFrames
  IgnoreBlip <- MCIgnoreBlip
  FadeAt <- MCFadeAt
  StopAt <- MCStopAt
  FrameGaps <- MCFrameGaps
SPECIFICATION FairSpec
INVARIANTS
  TypeOK
  InterruptedOnlyDuringSpeech
  CutOffOnlyBySustainedSpeech
  ReportedOncePerSpeech
PROPERTIES
  EventProtocol
  GroupEventuallyCloses
