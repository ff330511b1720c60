CONSTANTS
  sale = sale  twoLines = twoLines  transfer = transfer
  adjust = adjust  receipt = receipt  back = back  supplier = supplier
  confirm1 = confirm1  confirm2 = confirm2  confirm3 = confirm3  move1 = move1
  count1 = count1  receive1 = receive1  take1 = take1  take2 = take2
  send1 = send1
  submit1 = submit1  approve1 = approve1  acknowledge1 = acknowledge1
  reject1 = reject1  cancel1 = cancel1  close1 = close1
  goods1 = goods1  goods2 = goods2  goods3 = goods3
  return1 = return1  return2 = return2  return3 = return3
  complete1 = complete1  withdraw1 = withdraw1
  Keys <- ThreeKeys
  Documents <- AllDocuments
  Kind <- KindOfDocument
  Lines <- LinesOfDocument
  Opening <- OneOfEach
  Requests <- AllRequests
  DocOf <- DocumentOf
  MaxOpen = 4
  OrderItems <- TwoItems
  Ordered <- TwoAndOne
  OrderRequests <- AllOfOrder
  OrderOp <- OrderOpOf
  ReceiptLines <- PartsOf
  Year <- YearOf
  ReturnOf <- ReturnBy
  MaxUnderWay = 2
SPECIFICATION EitherSpec
SYMMETRY RequestSymmetry
INVARIANTS Reconciled NeverNegative OnlyReceiptsDeadlock
  HandledWithinOrdered ReturnedWithinReceived StatusFitsReceipts
PROPERTY Serializable
CHECK_DEADLOCK FALSE
