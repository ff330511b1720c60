CONSTANTS
  s1 = s1  s2 = s2  confirm1 = confirm1  confirm2 = confirm2  confirm3 = confirm3
  cancel1 = cancel1  cancel2 = cancel2  ship1 = ship1  deliver1 = deliver1
  pay1 = pay1  pay2 = pay2  r1 = r1  r2 = r2  r3 = r3  d1 = d1  d2 = d2  None = None
  Sales <- TwoSales
  Requests <- Mixed
  Op <- OpOf
  SaleOf <- SaleOfRequest
  SaleTotal = 1
  PerSale = 1
  Opening = 2
  Items <- TwoItems
  Sold <- TwoAndOne
  Price <- AllForOne
  GrandTotal = 3
  Earned = 4
  Returns <- ThreeReturns
  Lines <- SomeLines
  Redeemers <- TwoRedeemers
  MaxOpen = 2
  Points <- ThreeAndTwo
SPECIFICATION EitherSpec
SYMMETRY RequestSymmetry
INVARIANTS StockAccounted ConfirmedWasIssued PaymentsAddUp
  NotOverReturned RestockedOnce PointsWithinEarned RefundsAreEligible
CHECK_DEADLOCK FALSE
