SPECIFICATION FairSpec
CONSTANTS
  MaxRequests = 2
  QueueSize = 1
  MaxItems = 1
  None = None
INVARIANTS
  TypeOK
  FailureMeansNotCommitted
  AnswersWellFormed
  OrderlyCloseDrains
PROPERTIES
  RequestsAnswered
  CloseEnds
