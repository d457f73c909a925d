CONSTANTS
  Sender = {1, 2}
  Receiver = {1}
  MayPanic = {1}
  MayCrash = TRUE
  MaxMessages = 2
SPECIFICATION Spec
INVARIANTS
  DeliveredIntact
  SendSleepsOnlyWhenIdle
  PanicsOnlyAfterFailure
PROPERTIES
  EverythingDelivered
  ShutdownCompletes
  FailuresCascade
CHECK_DEADLOCK FALSE
