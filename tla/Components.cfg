CONSTANTS
  Components = {"change_batch", "scope_builder", "radix_sort",
                "notifications", "capturing", "zero_copy", "startup", "logging", "completion"}
  Outer = {0, 1}
  Inner = {0, 1}
  Time <- MCTime
  Leq <- ProductLeq
  Before <- ProductBefore
  Minimum <- Origin
  Antichain <- MCAntichain
  Delta <- MCDelta
  Threshold = 2
  MaxTotal = 2
  MaxUpdates = 4
  MaxSummary = 2
  WrapperFeeds = {1}
  Kinds = {"lsb", "lsb_swc", "msb", "msb_swc"}
  Radix = 2
  KeyBytes = 2
  Key = {0, 1, 2}
  DefaultCapacity = 4
  Line = 2
  BatchCapacities <- MCBatchCapacities
  MaxElements <- MCMaxElements
  Logic = {"state_machine", "aggregate", "delay", "reclock", "user"}
  MaxRecords = 2
  MaxRequests = 1
  Instances = 2
  Medium = {"link", "bytes"}
  Parts = 2
  MaxCaptured = 2
  Producer = {"endpoint", "socket"}
  Channel = {1, 2}
  Lengths = {2, 3}
  InitShift = 1
  Allocations = 4
  MaxMessages = 3
  Configs = {"cluster", "process", "process_binary"}
  Shapes <- MCShapes
  Destinations = {"d1", "d2"}
  LogCapacity = 2
  MaxClock = 1
  MaxEvents = 3
  MaxClones = 2
  Children = 6
  Ghost = {2, 3, 4}
  Wrapper = {5}
  InputOperator = {1}
  Notified = {6}
  Rescheduling = {5}
  UsizeModulus = 16
  Upstream <- FpgaUpstream
SPECIFICATION AnySpec
CONSTRAINT Bounded
INVARIANTS
  BatchAgrees
  GraphCompiled
  SortedStable
  NotificationsSound
  RequestsKept
  ReplayFaithful
  SlicesIntact
  ChannelsRouted
  PushersReachTargets
  NobodyWaitsForever
  LogsFaithful
  CountsIncomplete
  DroppedOnlyWhenComplete
PROPERTIES
  OutputJustified
CHECK_DEADLOCK FALSE
