CONSTANTS
  Worker = {w1, w2}
  Node = {1, 2}
  InputNode = {1}
  MaxTime = 0
  MaxBacklog = 9
  MaxRecords = 1
  EagerModes = {TRUE, FALSE}
  Minimum = 0
  Time <- MCTime
  Leq <- IntLeq
  Source <- LoopSource
  Target <- LoopTarget
  Reserving <- LoopReserving
  Edge <- LoopEdge
  NodeOf <- LoopNodeOf
  Internal <- LoopInternal
SPECIFICATION Spec
PROPERTIES
  FrontiersProgress
CHECK_DEADLOCK FALSE
