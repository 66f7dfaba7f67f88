\* One client, its owner and another component that share two descriptors.
CONSTANT
  MaxFd = 2
SPECIFICATION FairSpec
INVARIANTS StraysOnlyAfterFailure NoLeak ClosedAfterStop CallbacksAlternate
PROPERTIES StopReturns Reconnects
CHECK_DEADLOCK FALSE
