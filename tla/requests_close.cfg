SPECIFICATION Spec
CONSTANTS
  MaxRequests = 2
  QueueSize = 1
  MaxItems = 1
  None = None
INVARIANT CloseCancels
