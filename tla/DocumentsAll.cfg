CONSTANTS
  je = je  lv = lv  promo = promo  order = order  request = request  rfq = rfq  qa = qa
  qb = qb  post1 = post1  cancel1 = cancel1  approve1 = approve1  reject1 = reject1
  withdraw1 = withdraw1  update1 = update1  use1 = use1  use2 = use2  use3 = use3
  limit1 = limit1  unlimit1 = unlimit1
  pack1 = pack1  cancelOrder1 = cancelOrder1  go1 = go1  submit1 = submit1
  approve2 = approve2  convert1 = convert1  send1 = send1  cancelRfq1 = cancelRfq1
  quoteA = quoteA  quoteB = quoteB  awardA = awardA  awardB = awardB  rejectA = rejectA
  open1 = open1  cancelPeriod1 = cancelPeriod1  create1 = create1  create2 = create2
  create3 = create3  calc1 = calc1  calc2 = calc2  calc3 = calc3  again1 = again1
  final1 = final1  final2 = final2  undo1 = undo1  undo2 = undo2  undo3 = undo3
  Docs <- OneOfEach
  Kind <- KindOf
  Initial <- FirstRow
  RfqOf <- RfqOfQuotation
  Requests <- AllRequests
  Op <- OpOf
  Doc <- DocOf
  Goal <- GoalOf
  Limit <- LimitOf
  MaxOpen = 3
  MaxSent = 4
  PayrollRequests <- AllOfPayroll
  PayrollOp <- OpOfPayroll
  RunOf <- RunOfRequest
  MaxUnderWay = 4
SPECIFICATION EitherSpec
SYMMETRY UseSymmetry
INVARIANTS OneAward UsesCounted OneActiveRun PeriodFollowsRun
PROPERTIES FinalUnlessRaced FinalizedForGood
CHECK_DEADLOCK FALSE
