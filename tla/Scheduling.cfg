CONSTANTS
  Operator = {1, 2}
  Peer = {p1}
  Waker = {a1}
  RemoteChannel = {"exchange", "progress"}
  LocalChannel = {"back"}
  LoggedChannel = {"back"}
  MaxQueue = 1
  WakerTarget <- PairWakerTarget
  HandleTarget = {1}
  TimerTarget = {2}
  TargetOf <- PairTargetOf
  SourceOf <- PairSourceOf
SPECIFICATION Spec
INVARIANTS
  SleepsOnlyWhenIdle
PROPERTIES
  MessagesRead
  ActivationsHonoured
CHECK_DEADLOCK FALSE
