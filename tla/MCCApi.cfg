SPECIFICATION Spec
CONSTANTS
  IntMax = 3
  ShortSize = 1
  MaxNames = 3
  MaxReceives = 2
  Jobs <- MCJobs
  None = None
INVARIANTS BuffersFreedOnce MessagesAsSent
CHECK_DEADLOCK FALSE
