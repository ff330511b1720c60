CONSTANTS
  e1 = e1  e2 = e2  c1 = c1  c2 = c2  w1 = w1  w2 = w2  None = None
  Events <- TwoEvents
  Consumers <- TwoConsumers
  Workers <- TwoWorkers
  MaxTopic = 2
  MaxTries = 2
  MaxStalls = 1
  MaxDeliveries = 2
  MaxFaults = 2
  MaxLockLosses = 1
SPECIFICATION Spec
SYMMETRY InstanceSymmetry
INVARIANTS ResolvedIsProcessed ProcessedIsHandedOver
PROPERTY SentIsFinal
CHECK_DEADLOCK FALSE
