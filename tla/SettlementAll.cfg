CONSTANTS
  k1 = k1  both = both  both2 = both2  again = again  first = first
  reverse1 = reverse1  reverse2 = reverse2  move = move  void1 = void1
  post1 = post1  credit1 = credit1  close2 = close2  None = None
  Invoices <- TwoInvoices
  GrandTotal <- TotalOfTwo
  Posted <- OnlySecond
  Requests <- Mixed
  Op <- OpOf
  Targets <- TargetsOf
  Key <- KeyOfPay
  Year <- YearOf
  PaymentOf <- NamedBy
  MaxOpen = 2
SPECIFICATION Spec
SYMMETRY RequestSymmetry
INVARIANTS AllocationsAddUp OrderMirrorsInvoice ReversedOnce OnlyReallocationDeadlocks
PROPERTY PaidOnce
CHECK_DEADLOCK FALSE
