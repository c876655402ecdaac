CONSTANTS
  Capacity <- MCCapacity
  MaxTraces <- MCMaxTraces
  MaxProcesses <- MCMaxProcesses
  MaxPoints <- MCMaxPoints
SPECIFICATION Spec
INVARIANTS
  NeighboursSurvive
CHECK_DEADLOCK FALSE
