CONSTANTS
  e1 = e1  e2 = e2  p1 = p1  p2 = p2
  Events <- TwoEvents
  Publishers <- TwoPublishers
  Deliverable <- OneEvent
  BatchSize = 2
  MaxAttempts = 1
  MaxCopies = 2
  MaxFaults = 2
SPECIFICATION OverlapSafeSpec
INVARIANT NeverDoubleClaimed
CHECK_DEADLOCK FALSE
