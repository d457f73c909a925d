CONSTANTS
  Worker = {w1, w2}
  Node = {1, 2}
  InputNode = {1}
  MaxTime = 1
  MaxBacklog = 1
  MaxRecords = 1
  EagerModes = {TRUE, FALSE}
  Minimum = 0
  Time <- MCTime
  Leq <- IntLeq
  Source <- LoopSource
  Target <- LoopTarget
  Reserving <- LoopReserving
  Edge <- LoopEdge
  NodeOf <- LoopNodeOf
  Internal <- LoopInternal
SPECIFICATION Spec
CONSTRAINT Bounded
SYMMETRY Symmetry
INVARIANTS
  Consistent
  FrontiersSafe
PROPERTIES
  ImplementsPromise
CHECK_DEADLOCK FALSE
