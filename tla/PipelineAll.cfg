CONSTANTS
  e1 = e1  p1 = p1  c1 = c1  c2 = c2  w1 = w1  None = None
  Events <- OneEvent
  Deliverable <- OneEvent
  Publishers <- Publisher1
  Consumers <- Consumers2
  Workers <- Worker1
  BatchSize = 2
  MaxAttempts = 0
  MaxCopies = 1
  MaxFaults = 2
  MaxTopic = 2
  MaxTries = 2
  MaxStalls = 1
  MaxDeliveries = 1
  MaxLockLosses = 0
SPECIFICATION Spec
PROPERTIES EndToEnd EventuallyNotified
CHECK_DEADLOCK FALSE
