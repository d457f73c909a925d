CONSTANTS
  Parts = {"tracker", "fpga_wrapper"}
  Outer = {0, 1}
  Inner = {0, 1}
  MaxCount = 1
  MaxBuffered = 2
  ScopeInput = {"in"}
  ScopeOutput = "out"
  Time <- MCTime
  Leq <- ProductLeq
  Before <- ProductBefore
  LocationRank <- LoopRank
  Source <- LoopSource
  Target <- LoopTarget
  Edge <- LoopEdge
  Internal <- LoopInternal
  OutputSummary <- LoopOutputSummary
  ResultsIn <- LoopResultsIn
  Updatable <- LoopUpdatable
  Ghosts = 3
  MaxEpoch = 2
  MaxAhead = 1
SPECIFICATION AnySpec
INVARIANTS
  TrackerCorrect
  OutputsCorrect
  IsGlobalExact
  GhostsStandIn
  ProbeSafe
PROPERTIES
  PropagationTerminates
  EpochsComplete
CHECK_DEADLOCK FALSE
