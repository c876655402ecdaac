CONSTANTS
  Capacity <- MCCapacity
  MaxTraces <- MCMaxTraces
  MaxProcesses <- MCMaxProcesses
  MaxPoints <- MCMaxPoints
SPECIFICATION Spec
INVARIANTS
  AcceptedIsAccountedFor
  PointsNameTheirTrace
CHECK_DEADLOCK FALSE
