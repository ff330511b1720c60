---------------------------- MODULE MCDocuments ----------------------------
(***************************************************************************)
(* Constants of the model-checking run of Documents and PayrollRuns: one   *)
(* document of each kind, with an RFQ of two suppliers; three runs of one  *)
(* payroll period, each with a calculation and a cancellation.             *)
(*                                                                         *)
(* The two share no state, so that one run checks both: a behaviour is one *)
(* of either, the other one being left as it begins.                       *)
(***************************************************************************)
EXTENDS Documents, PayrollRuns, TLC

CONSTANTS je, lv, promo, order, request, rfq, qa, qb,
          post1, cancel1, approve1, reject1, withdraw1, update1, use1, use2, use3,
          limit1, unlimit1, pack1, cancelOrder1, go1, submit1, approve2, convert1, send1, cancelRfq1,
          quoteA, quoteB, awardA, awardB, rejectA,
          open1, cancelPeriod1, create1, create2, create3, calc1, calc2, calc3,
          again1, final1, final2, undo1, undo2, undo3

OneOfEach == {je, lv, promo, order, request, rfq, qa, qb}
AllRequests ==
  {post1, cancel1, approve1, reject1, withdraw1, update1, use1, use2, use3, limit1,
   unlimit1, pack1, cancelOrder1, go1, submit1, approve2, convert1, send1, cancelRfq1,
   quoteA, quoteB, awardA, awardB, rejectA}

KindOf == [d \in OneOfEach |->
  CASE d = je -> "journal" [] d = lv -> "leave" [] d = promo -> "promotion"
    [] d = order -> "order" [] d = request -> "request" [] d = rfq -> "rfq"
    [] d \in {qa, qb} -> "quotation"]

FirstRow == [d \in OneOfEach |->
  [status |-> CASE d = lv -> "PENDING" [] d = promo -> "ACTIVE" [] d = order -> "CONFIRMED"
                [] d \in {je, request, rfq} -> "DRAFT" [] d = qa -> "SUBMITTED"
                [] d = qb -> "NONE",
   content |-> d, uses |-> 0, limit |-> IF d = promo THEN 1 ELSE 0]]

RfqOfQuotation == [d \in {qa, qb} |-> rfq]

OpOf == [r \in AllRequests |->
  CASE r = post1 -> "post" [] r = cancel1 -> "cancelJournal"
    [] r \in {approve1, reject1, withdraw1} -> "decide" [] r = update1 -> "updateLeave"
    [] r \in {use1, use2, use3} -> "use"
    [] r \in {limit1, unlimit1} -> "updatePromotion"
    [] r \in {pack1, cancelOrder1, go1, submit1, approve2, convert1, send1, cancelRfq1} ->
         "updateStatus"
    [] r \in {quoteA, quoteB} -> "quote"
    [] r \in {awardA, awardB, rejectA} -> "settle"]

DocOf == [r \in AllRequests |->
  CASE r \in {post1, cancel1} -> je
    [] r \in {approve1, reject1, withdraw1, update1} -> lv
    [] r \in {use1, use2, use3, limit1, unlimit1} -> promo
    [] r \in {pack1, cancelOrder1, go1} -> order
    [] r \in {submit1, approve2, convert1} -> request
    [] r \in {send1, cancelRfq1} -> rfq
    [] r \in {awardA, rejectA} -> qa
    [] r \in {quoteA, quoteB, awardB} -> qb]

GoalOf == [r \in AllRequests |->
  CASE r \in {approve1, approve2} -> "APPROVED" [] r \in {reject1, rejectA} -> "REJECTED"
    [] r \in {withdraw1, cancelOrder1, cancelRfq1} -> "CANCELLED"
    [] r \in {limit1, unlimit1} -> "ACTIVE" [] r = pack1 -> "PACKED" [] r = go1 -> "ON_MY_WAY"
    [] r = submit1 -> "SUBMITTED" [] r = convert1 -> "CONVERTED" [] r = send1 -> "SENT"
    [] r \in {awardA, awardB} -> "AWARDED" [] OTHER -> "NONE"]

\* The promotion may be used once; one request makes it twice, another without limit.
LimitOf == [r \in AllRequests |-> IF r = limit1 THEN 2 ELSE 0]

UseSymmetry == Permutations({use1, use2, use3})
-----------------------------------------------------------------------------
OpOfPayroll ==
  [r \in PayrollRequests |->
    CASE r = open1 -> "open" [] r = cancelPeriod1 -> "cancelPeriod"
      [] r \in {create1, create2, create3} -> "create"
      [] r \in {calc1, calc2, calc3, again1} -> "calculate"
      [] r \in {final1, final2} -> "finalize"
      [] r \in {undo1, undo2, undo3} -> "cancel"]

RunOfRequest ==
  [r \in Calling(Transitions) |->
    CASE r \in {calc1, again1, final1, undo1} -> create1
      [] r \in {calc2, final2, undo2} -> create2
      [] r \in {calc3, undo3} -> create3]

AllOfPayroll == {open1, cancelPeriod1, create1, create2, create3, calc1, calc2, calc3,
                again1, final1, final2, undo1, undo2, undo3}
-----------------------------------------------------------------------------
VARIABLE model  \* the one of the two that this behaviour is of

bothVars == <<vars, payrollVars, model>>

EitherInit == Init /\ PayrollInit /\ model \in {"documents", "payroll"}

EitherNext ==
  \/ model = "documents" /\ Next /\ UNCHANGED <<payrollVars, model>>
  \/ model = "payroll" /\ PayrollNext /\ UNCHANGED <<vars, model>>

EitherSpec == EitherInit /\ [][EitherNext]_bothVars
=============================================================================
