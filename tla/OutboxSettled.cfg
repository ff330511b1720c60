CONSTANTS
  e1 = e1  e2 = e2  p1 = p1  p2 = p2
  Events <- TwoEvents
  Publishers <- TwoPublishers
  Deliverable <- OneEvent
  BatchSize = 1
  MaxAttempts = 2
  MaxCopies = 1
  MaxFaults = 1
SPECIFICATION OverlapSpec
PROPERTIES AttemptsNeverLost EventuallySettled
CHECK_DEADLOCK FALSE
