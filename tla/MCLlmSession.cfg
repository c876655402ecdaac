CONSTANTS
  MaxBacklog <- MCMaxBacklog
SPECIFICATION FairSpec
INVARIANTS
  TypeOK
  ThrottleIsDelivered
PROPERTIES
  RestartComesBack
  ThrottleIsLifted
  LeavingJoins
  
CHECK_DEADLOCK FALSE
