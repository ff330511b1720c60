SPECIFICATION Spec
CONSTANTS
  Events = {"first", "second", "press1", "press2"}
  MayBe <- MCMayBe
  Relays = {x1, x2}
  Calls = {"old", "new"}
  Year <- MCYear
  None = None
  Back = 2
SYMMETRY MCSymmetry
INVARIANTS
  OneOrderPerCheckout
  OrderedAsShown
  UnknownIsKept
CHECK_DEADLOCK FALSE
