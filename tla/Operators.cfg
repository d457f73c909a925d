CONSTANTS
  Parts = {"frontiers", "streams", "sequencing"}
  Outer = {0, 1}
  Inner = {0, 1}
  Delta <- MCDelta
  BatchTimes <- MCBatchTimes
  MaxCount = 2
  MaxDebt = 1
  MaxDirty = 2
  Time <- MCTime
  Leq <- ProductLeq
  Before <- ProductBefore
  Target = {"a", "b"}
  MaxTime = 1
  MaxRecords = 3
  Capacity = 2
  Kinds = {"handle", "unordered"}
  StepsAnytime = FALSE
  Worker = {1, 2}
  Reading <- Overlapping
  MaxReading = 3
  MaxElements = 2
  MayDrop = {2}
SPECIFICATION AnySpec
INVARIANTS
  FrontierIsMinimalPositive
  ReportsSumToFrontier
  RecordsCovered
  SameOrderButTies
PROPERTIES
  InputsDrain
  ElementsSequenced
CHECK_DEADLOCK FALSE
