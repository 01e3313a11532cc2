SPECIFICATION Spec
CONSTANTS
  QueueLen = 1
  MaxSession = 1
  MaxWakeups = 2
INVARIANT RailEndsWithSession
